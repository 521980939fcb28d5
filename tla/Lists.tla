------------------------------- MODULE Lists -------------------------------
(***************************************************************************)
(* What a list of the kernel, an intrusive one of include/listx.h, can be  *)
(* as a sequence: its elements are objects, each linked once.              *)
(***************************************************************************)
EXTENDS Naturals, Sequences, SequencesExt

\* No element twice.
Distinct(q) == \A i, j \in 1 .. Len(q) : q[i] = q[j] => i = j

=============================================================================
