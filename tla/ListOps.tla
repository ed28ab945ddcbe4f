------------------------------ MODULE ListOps ------------------------------
(***************************************************************************)
(* lib/kernel/list.c as the modules that only keep elements in a list see  *)
(* it: the list is the sequence of its elements, and has no element twice. *)
(* KernelList models the linked structure itself.                          *)
(***************************************************************************)
EXTENDS Integers, Sequences, Functions

Distinct(q) == \A i, j \in 1..Len(q) : i # j => q[i] # q[j]

\* list_remove.
list_remove(q, e) ==
  LET n == CHOOSE m \in DOMAIN q : q[m] = e
  IN  SubSeq(q, 1, n - 1) \o SubSeq(q, n + 1, Len(q))
=============================================================================
