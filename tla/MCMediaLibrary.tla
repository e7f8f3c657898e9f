--------------------------- MODULE MCMediaLibrary ---------------------------
(***************************************************************************)
(* Small instances of MediaLibrary for TLC.                                 *)
(***************************************************************************)
EXTENDS MediaLibrary, TLC

CONSTANTS i1, i2, clientA, clientB

\* One item for each client.
OneEach == [i \in Item |-> IF i = i1 THEN clientA ELSE clientB]

\* The clients, each with its item.
Swap == [x \in {i1, i2, clientA, clientB} |->
           CASE x = i1 -> i2 [] x = i2 -> i1
             [] x = clientA -> clientB [] x = clientB -> clientA]

Interchangeable ==
  Permutations(Asset) \cup Permutations(Blob) \cup Permutations(Op)
    \cup {Swap}
==============================================================================
