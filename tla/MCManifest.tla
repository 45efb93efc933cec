------------------------------ MODULE MCManifest ------------------------------
(***************************************************************************)
(* Small run directories: a file at the top, a folder with one file, a     *)
(* folder elsewhere; two names and two folders that differ in case only    *)
(* and a name that is not portable.                                        *)
(***************************************************************************)
EXTENDS RunManifest, TLC

CONSTANTS a, A, odd

LowerNames == (a :> a) @@ (A :> a) @@ (odd :> odd)
              @@ ("run" :> "run") @@ ("sub" :> "sub") @@ ("Sub" :> "sub")

Empty == [q \in Places |-> Absent]

TwoFiles == { [Empty EXCEPT ![<<"run", a>>] = "x", ![<<"sub", a>>] = n] : n \in Nodes }
FolderPair == { [Empty EXCEPT ![<<"sub", a>>] = "x", ![<<"Sub", a>>] = "x"] }
CasePair == { [Empty EXCEPT ![<<"run", a>>] = "x", ![<<"run", A>>] = "y"] }
Escape == { [Empty EXCEPT ![<<"sub", a>>] = "x", ![<<"out", a>>] = "x"] }

SmallLayouts == TwoFiles \cup CasePair \cup FolderPair \cup Escape
==============================================================================
