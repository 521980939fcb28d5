----------------------------- MODULE ThreadTree -----------------------------
(***************************************************************************)
(* What the thread tree promises, without queues or links: a thread is     *)
(* created below a living parent or without one, and terminating a thread  *)
(* dooms exactly its subtree, which is then freed thread by thread         *)
(* (phase2/src/exceptions.c, terminate: "Killing root and all children     *)
(* recursively").                                                          *)
(***************************************************************************)
EXTENDS Naturals, FiniteSets

CONSTANTS Thread, Founder, NULL

VARIABLES
    alive,      \* the threads that exist
    parent,     \* NULL for a thread without one
    doomed      \* the living threads that a termination has still to free

treeVars == <<alive, parent, doomed>>

\* t and its descendants: the least set that holds t and the children of its members.
Subtree(t) ==
    {u \in Thread : \A S \in SUBSET Thread :
        t \in S /\ (\A c \in Thread : parent[c] \in S => c \in S) => u \in S}

TreeInit ==
    /\ alive = Founder
    /\ parent = [t \in Thread |-> NULL]
    /\ doomed = {}

Create(t, p) ==
    /\ doomed = {}
    /\ alive' = alive \cup {t}
    /\ parent' = [parent EXCEPT ![t] = p]
    /\ UNCHANGED doomed

Terminate(t) ==
    /\ doomed = {}
    /\ UNCHANGED alive
    /\ doomed' = Subtree(t)
    /\ parent' = LET up == parent
                 IN  [u \in Thread |-> IF u \in doomed' THEN NULL ELSE up[u]]

Reap(t) ==
    /\ t \in doomed
    /\ alive' = alive \ {t}
    /\ doomed' = doomed \ {t}
    /\ UNCHANGED parent

Reaping == \E t \in Thread : Reap(t)

TreeNext ==
    \/ \E t \in Thread \ alive, p \in alive \cup {NULL} : Create(t, p)
    \/ \E t \in alive : Terminate(t)
    \/ Reaping

TreeSafety == TreeInit /\ [][TreeNext]_treeVars
TreeSpec == TreeSafety /\ WF_treeVars(Reaping)

=============================================================================
