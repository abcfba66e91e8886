--------------------------- MODULE MCFrontendDocs ---------------------------
(***************************************************************************)
(* What the repository's files say of the language, and the front end does *)
(* not do.  The property is violated.                                      *)
(***************************************************************************)
EXTENDS MCFrontend

\* The precedence declarations of cs8_asm.y:79, "%left TOK_TIMES TOK_DIV", say
\* how a product or a quotient groups with its neighbours: a sequence of
\* numbers and operators is never ambiguous.
OperatorsGroup == status = "exited" => ~ number.split
=============================================================================
