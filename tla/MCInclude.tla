----------------------------- MODULE MCInclude -----------------------------
(***************************************************************************)
(* A project in two directories, as the examples are: main files that      *)
(* include macros from a library directory, which include each other by    *)
(* names relative to that directory.  Both directories have a file called  *)
(* linker.  The items of the main files are taken from a pool, with a file *)
(* that is missing and one that includes itself.                           *)
(***************************************************************************)
EXTENDS CS8Include

CONSTANTS a, b, c, d      \* texts

Asm == <<"asm">>
Lib == <<"asm", "lib">>

Name(file, items)   == [file |-> file, items |-> items]
At(dir, name)       == [dir |-> dir, name |-> name]
Relative(dirs, file) == Include(Path(FALSE, dirs, Name(file, <<>>)))

Pool ==
  << Text(a), Relative(<<>>, "linker"), Relative(<<"lib">>, "macros"),
     Relative(<<"lib">>, "linker"), Include(Path(TRUE, Lib, Name("macros", <<>>))),
     Relative(<<>>, "missing"), Relative(<<"lib">>, "loop") >>

\* Up to two items, or three with the macros in the middle.
Mains ==
  {Name("main", items) :
     items \in UNION {[1 .. n -> DOMAIN Pool] : n \in 0 .. 2}
             \union {t \in [1 .. 3 -> DOMAIN Pool] : t[2] \in {3, 5}}}

\* The last file is the one that a relative path to a main file leads to.
MCDisk ==
  [f \in {At(Asm, main) : main \in Mains} |-> [i \in DOMAIN f.name.items |-> Pool[f.name.items[i]]]]
  @@ (At(Asm, Name("linker", <<>>)) :> <<Text(b)>>)
  @@ (At(Lib, Name("linker", <<>>)) :> <<Text(c), Text(c)>>)
  @@ (At(Lib, Name("macros", <<>>)) :> <<Relative(<<>>, "linker"), Text(d)>>)
  @@ (At(Lib, Name("loop", <<>>))   :> <<Text(d), Relative(<<>>, "loop")>>)
  @@ (At(Asm \o Asm, Name("main", <<1>>)) :> <<Text(b), Relative(<<>>, "linker")>>)

MCInputs ==
  {Path(TRUE, Asm, main) : main \in Mains}
  \union {Path(TRUE, Asm, Name("missing", <<>>)), Path(TRUE, <<"usr">>, Name("main", <<1>>)),
          Path(FALSE, Asm, Name("main", <<1>>)), Path(FALSE, Asm, Name("main", <<2>>)),
          Path(FALSE, <<>>, Name("main", <<1>>))}

MCHome == <<>>
=============================================================================
