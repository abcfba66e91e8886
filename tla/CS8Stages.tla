----------------------------- MODULE CS8Stages -----------------------------
(***************************************************************************)
(* What the stages of cs8_assembler::assemble() hand to each other from    *)
(* the parser on: the lines and the macros of the tree.                    *)
(***************************************************************************)
EXTENDS CS8Ast

CONSTANT Sources          \* the input files: file -> the program parsed from it

VARIABLES
  stage,                  \* where cs8_assembler::assemble() is
  file,                   \* the file being assembled
  lines, macros           \* of the AstRootNode

astVars == <<stage, file, lines, macros>>

source == Sources[file]

\* The tree is there.
Parsed(program) == lines = program.lines /\ macros = program.macros

AstInit ==
  /\ stage = "expand"
  /\ file \in DOMAIN Sources
  /\ Parsed(source)

Stages == {"parse", "refused", "expand", "translate", "number", "resolve", "open",
           "emit", "save", "written", "terminated"}

\* An exception nobody catches, a failed assert and a null pointer end the
\* process all the same.
Terminate == stage' = "terminated"
=============================================================================
