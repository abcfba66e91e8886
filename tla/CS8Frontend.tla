---------------------------- MODULE CS8Frontend ----------------------------
(***************************************************************************)
(* Scanner and parser together: yyparse() calls yylex() for one token at a *)
(* time and acts on it before the next one is scanned, so that an error of *)
(* the text ends the reading before a file behind it is included, and the  *)
(* state of each is what the other one left.                               *)
(***************************************************************************)
EXTENDS CS8Scanner, CS8Parser

frontVars == <<scanVars, parseVars>>

FrontInit == ScanInit /\ ParseInit

\* The outcome of a token that cannot be shifted.
Dies(t) ==
  \/ Verdict(t) = "exits" /\ Die("exited")
  \/ Verdict(t) = "traps" /\ Die("terminated")

Fail(t) == Dies(t) \/ (Verdict(t) = "throws" /\ Refuse)

ParseToken == ReturnsToken /\ Verdict(Token) = "shifted" /\ Return /\ Shift(Token)

FailAtToken == ReturnsToken /\ Fail(Token) /\ UNCHANGED <<condition, buffer, parseVars>>

AtEnd == EndOfFile /\ cwds = <<>>

ParseEnd == AtEnd /\ Verdict(End) = "shifted" /\ EndInput /\ Accept /\ UNCHANGED <<condition, buffer>>

FailAtEnd == AtEnd /\ Dies(End) /\ UNCHANGED <<condition, buffer, parseVars>>

Leave == EndInclude /\ UNCHANGED <<condition, buffer, parseVars>>

FrontNext ==
  \/ (NoDirectory \/ OpenInput) /\ UNCHANGED <<condition, buffer, parseVars>>
  \/ (ScanQuietly \/ ScanInclude \/ ScanNoInclude) /\ UNCHANGED parseVars
  \/ ParseToken \/ FailAtToken
  \/ Leave
  \/ ParseEnd \/ FailAtEnd

FrontSpec     == FrontInit /\ [][FrontNext]_frontVars
FairFrontSpec == FrontSpec /\ WF_frontVars(FrontNext)

-----------------------------------------------------------------------------
FrontTypeOK ==
  /\ TypeOK
  /\ condition \in {"INITIAL", "incl", "ch", "str"}
  /\ buffer \in Seq(Byte)
  /\ expect \in DOMAIN Shifts \union {"nothing"}
  /\ Len(number.operators) <= 2
  /\ ~ number.split /\ expect \in {"number", "operand"} =>
       Len(number.operands) = Len(number.operators) + IF expect = "number" THEN 1 ELSE 0
  /\ rows \in Seq(LineType) /\ lines \in Seq(LineType) /\ macros \in Seq(MacroType)
=============================================================================
