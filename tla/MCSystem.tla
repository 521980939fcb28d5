------------------------------ MODULE MCSystem ------------------------------
(***************************************************************************)
(* Small instances of the closed system.                                   *)
(***************************************************************************)
EXTENDS System

CONSTANTS thr1, thr2, thr3, thr4, msg1, msg2, cause

Threads2 == <<thr1, thr2>>
Threads3 == <<thr1, thr2, thr3>>
Threads4 == <<thr1, thr2, thr3, thr4>>
Messages1 == <<msg1>>
Messages2 == <<msg1, msg2>>

\* Disk 1, the receiver and the transmitter of terminal 0.
disk1 == device_baseaddr(3, 1)
term0r == device_baseaddr(INT_TERMINAL, 0)
term0t == device_baseaddr(INT_TERMINAL, 0) + TRANS
DiskAndPrinter == {disk1, term0t}
AllOfThem == {disk1, term0r, term0t}

AllWords ==
    Request \cup Answer \cup {Tick} \cup {DeviceMsg(s) : s \in Status}
        \cup {NULL, TRAPCONTINUE, cause}

MessageSymmetry == Permutations(Msg)

\* allocTcb resets these fields of a free TCB before anything reads them, and
\* insertSibling follows the ring of a thread without parent only.
Fields(t) ==
    <<reply[t], t \in nested, [k \in TrapKind |-> manager_thread[k][t]],
      IF t_parent[t] = NULL THEN ring_prev[t] ELSE t>>

\* Only the send of a trap manager reads waiting_for of a thread that does not
\* wait, and compares it with the manager.
Awaited(t) ==
    IF t \in ToSet(wait_queue) \/ (Managed # {} /\ waiting_for[t] \in User)
    THEN waiting_for[t] ELSE NULL

\* What threads have received, or will receive, decides none of their steps;
\* for the SSI it does, while it serves what it has received.
Received == IF ssi.pc = "serve" \/ Clock = "long" THEN <<req_thread, req_struct>> ELSE NULL

Observed ==
    <<[t \in Alive |-> Fields(t)], [t \in Tcb |-> Awaited(t)], msgfree, inbox, m_sender,
      [m \in ToSet(inbox[SSI_tcb]) |-> m_message[m]], Received, queueVars, trap_managers,
      t_parent, t_child, kpc, victims, frozen, soft_block_count, ssi, clockTcb_array, ioVars,
      sent \cap Alive, driving, devVars>>
=============================================================================
