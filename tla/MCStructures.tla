---------------------------- MODULE MCStructures ----------------------------
(***************************************************************************)
(* The kernel's data structures and the library side by side: a behaviour  *)
(* exercises one of them, which part says, and leaves the others in their  *)
(* initial state.                                                          *)
(***************************************************************************)
EXTENDS KernelList, HashTable, Heap, Library

VARIABLE part

structVars == <<listVars, hashVars, heapVars, libvars, part>>

\* Keys with two elements that are equal to less, and keys that make a list in
\* descending order three runs, which list_sort merges in two passes.
MCKeys == {<<0, 1, 1>>, <<0, 1, 2>>}
\* The fifth element is equal to the first; the hashes collide modulo 2.
MCKeyOf == <<1, 2, 3, 4, 1>>
MCHashOf == <<0, 2, 3, 6, 0>>
\* 5 * 13 and 9 * 9 wrap modulo 64, the second to 17, more than 9.
MCFactors == {<<2, 3>>, <<5, 13>>, <<9, 9>>}


\* Widths of printf's types, numbers that some of them truncate, and speeds at and
\* around powers of two.
MCBits == [CHAR |-> 3, SHORT |-> 4, INT |-> 7, LONG |-> 7, LONGLONG |-> 12, INTMAX |-> 12,
           PTRDIFFT |-> 7, SIZET |-> 7]
MCValues == {0, 1, 5, 63, 124, 1234}
MCLoops == {1024, 1025, 1500, 2047, 2048, 3000, 70000, 1000000}

MCInit == /\ ListInit /\ HashInit /\ HeapInit /\ LibInit
          /\ part \in {"list", "hash", "heap", "library"}

MCNext ==
  \/ part = "list" /\ ListNext /\ UNCHANGED <<hashVars, heapVars, libvars, part>>
  \/ part = "hash" /\ HashNext /\ UNCHANGED <<listVars, heapVars, libvars, part>>
  \/ part = "heap" /\ HeapNext /\ UNCHANGED <<listVars, hashVars, libvars, part>>
  \/ part = "library" /\ LibNext /\ UNCHANGED <<listVars, hashVars, heapVars, part>>

MCSpec == MCInit /\ [][MCNext]_structVars
=============================================================================
