----------------------------- MODULE CS8Macros -----------------------------
(***************************************************************************)
(* The macro expander (class MacroExpander).  A pass goes over the lines   *)
(* once and replaces every invocation by the body of its macro, which the  *)
(* same pass does not look at again; passes follow each other until one    *)
(* finds no invocation.                                                    *)
(*                                                                         *)
(* An invocation is redacted in place and cleanup() drops redacted lines   *)
(* at the end.  No pass looks at a redacted line, so it is dropped at once *)
(* here.                                                                   *)
(***************************************************************************)
EXTENDS CS8Stages, SequencesExt

VARIABLES
  iter,                   \* the line the pass is at
  replaced_macros         \* the invocations it has replaced

macroVars == <<iter, replaced_macros>>

MacroInit ==
  /\ iter = 1
  /\ replaced_macros = 0

-----------------------------------------------------------------------------
\* Mutant: a later definition is found behind an earlier one.
scan_macros_in_order(t_macros) ==
  [n \in {t_macros[i].name : i \in DOMAIN t_macros} |->
     t_macros[Min({i \in DOMAIN t_macros : t_macros[i].name = n})]]

\* The parser pushes each definition to the front of the list and insert()
\* keeps the first entry of a name: the definition that counts is the last.
scan_macros(t_macros) ==
  [n \in {t_macros[i].name : i \in DOMAIN t_macros} |->
     t_macros[Max({i \in DOMAIN t_macros : t_macros[i].name = n})]]

\* The lookup table, filled once and never changed.
m_macros == scan_macros(macros)

Invocation(line) == line.kind = "instruction" /\ line.name \in DOMAIN m_macros

\* macro_params: an argument named twice has its last value.
Bind(macro, line, arg) ==
  line.params[Max({i \in DOMAIN macro.args : macro.args[i] = arg})]

Bound(macro, param) == param.type = "replace" => param.name \in Range(macro.args)

SubstituteParam(macro, line, param) ==
  IF param.type = "replace" THEN Bind(macro, line, param.name) ELSE param

\* Only instructions get their parameters replaced, a directive keeps them.
Substitute(macro, line, target) ==
  IF target.kind = "instruction"
  THEN [target EXCEPT !.params =
          [i \in DOMAIN @ |-> SubstituteParam(macro, line, @[i])]]
  ELSE target

Body(macro, line) ==
  [i \in DOMAIN macro.lines |-> Substitute(macro, line, macro.lines[i])]

\* The assert holds and no look-up in macro_params yields a null pointer.
Expandable(macro, line) ==
  /\ Len(macro.args) = Len(line.params)
  /\ \A i \in DOMAIN macro.lines :
       macro.lines[i].kind = "instruction" =>
         \A k \in DOMAIN macro.lines[i].params : Bound(macro, macro.lines[i].params[k])

-----------------------------------------------------------------------------
InPass == stage = "expand" /\ iter <= Len(lines)

SkipLine ==
  /\ InPass /\ ~ Invocation(lines[iter])
  /\ iter' = iter + 1
  /\ UNCHANGED <<astVars, replaced_macros>>

ReplaceInvocation ==
  /\ InPass /\ Invocation(lines[iter])
  /\ LET line  == lines[iter]
         macro == m_macros[line.name]
     IN  /\ Expandable(macro, line)
         /\ lines' = SubSeq(lines, 1, iter - 1) \o Body(macro, line)
                     \o SubSeq(lines, iter + 1, Len(lines))
         /\ iter' = iter + Len(macro.lines)
  /\ replaced_macros' = replaced_macros + 1
  /\ UNCHANGED <<stage, file, macros>>

BadInvocation ==
  /\ InPass /\ Invocation(lines[iter])
  /\ ~ Expandable(m_macros[lines[iter].name], lines[iter])
  /\ Terminate
  /\ UNCHANGED <<file, lines, macros, macroVars>>

\* Mutant: the count goes on from pass to pass.
EndPassCountsOn ==
  /\ stage = "expand" /\ iter > Len(lines)
  /\ IF replaced_macros > 0
     THEN iter' = 1 /\ UNCHANGED stage
     ELSE stage' = "translate" /\ UNCHANGED iter
  /\ UNCHANGED <<file, lines, macros, replaced_macros>>

EndPass ==
  /\ stage = "expand" /\ iter > Len(lines)
  /\ IF replaced_macros > 0
     THEN iter' = 1 /\ replaced_macros' = 0 /\ UNCHANGED stage
     ELSE stage' = "translate" /\ UNCHANGED <<iter, replaced_macros>>
  /\ UNCHANGED <<file, lines, macros>>

ExpandMacros == SkipLine \/ ReplaceInvocation \/ BadInvocation \/ EndPass
=============================================================================
