------------------------------- MODULE Queues -------------------------------
(***************************************************************************)
(* The intrusive lists of phase1/src/tcb.c, as sequences.  A thread is     *)
(* linked through its only t_next field, so an operation of the code that  *)
(* inserts a thread already linked elsewhere would corrupt both lists:     *)
(* that no queue is ever used so is the invariant QueueDiscipline of the   *)
(* module Nucleus.                                                         *)
(***************************************************************************)
EXTENDS Lists

insertThread(q, t) == Append(q, t)
\* Mutant: the search stops before the last thread.
OutThreadShort(q, t) == IF q # <<>> /\ Last(q) = t THEN q ELSE RemoveFirst(q, t)
outThread(q, t) == RemoveFirst(q, t)
thereIsThread(q, t) == t \in ToSet(q)

=============================================================================
