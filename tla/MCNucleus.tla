----------------------------- MODULE MCNucleus -----------------------------
(***************************************************************************)
(* Small instances of the nucleus.                                         *)
(***************************************************************************)
EXTENDS Nucleus

CONSTANTS ssi, test, a, m1, m2, other

\* The SSI, the test thread and one more TCB.
Threads3 == <<ssi, test, a>>

Messages0 == <<>>
Messages1 == <<m1>>
Messages2 == <<m1, m2>>

\* The words a thread sends: the two decisions of a trap manager and another.
Words == {NULL, TRAPCONTINUE, other}

\* Where no thread is a trap manager the payload decides nothing.
FewWords == {NULL, TRAPCONTINUE}

\* TEST_tcb and its fellow are told apart by the initial state only.
Symmetric == Permutations(Msg) \cup Permutations(User)

\* allocTcb resets these fields of a free TCB before anything reads them, and
\* insertSibling follows the ring of a thread without parent only.
Fields(t) ==
    <<reply[t], t \in nested, [k \in TrapKind |-> manager_thread[k][t]],
      IF t_parent[t] = NULL THEN ring_prev[t] ELSE t>>

\* Only the send of a trap manager reads waiting_for of a thread that does not
\* wait, and compares it with the manager.
Awaited(t) ==
    IF t \in ToSet(wait_queue) \/ (Managed # {} /\ waiting_for[t] \in User)
    THEN waiting_for[t] ELSE NULL

\* The payloads and the outputs received and v0 decide no step of the nucleus.
Kernel ==
    <<[t \in Alive |-> Fields(t)], [t \in Tcb |-> Awaited(t)], msgfree, inbox, m_sender, queueVars,
      trap_managers, t_parent, t_child, kpc, victims, frozen, soft_block_count>>
=============================================================================
