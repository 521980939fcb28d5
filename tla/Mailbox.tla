------------------------------ MODULE Mailbox ------------------------------
(***************************************************************************)
(* What message passing promises its users (the calls MsgSend and MsgRecv  *)
(* of phase2/src/exceptions.c, and the messages the kernel sends for a     *)
(* trap or an interrupt), without queues, message pool or reply addresses. *)
(*                                                                         *)
(* Each thread has a mailbox.  A message goes to a thread that is blocked  *)
(* in a receive which takes it, and else to the end of the mailbox; only   *)
(* that of the clock goes to its front.  A receive returns the oldest      *)
(* message it takes, or blocks if there is none.  A send tells its caller  *)
(* whether the receiver exists.                                            *)
(***************************************************************************)
EXTENDS Naturals, Sequences, SequencesExt

CONSTANTS
    Thread,
    Booted,         \* the threads that exist when the system starts
    Source,         \* the senders that a receiver can see
    NameOf,         \* NameOf[t] is how receivers see the thread t
    ClockSource,    \* the sender whose messages come first
    Payload,
    Nothing,        \* the result and the payload before a call has returned one
    Good, NoGood    \* the results of a send

VARIABLES
    alive,      \* the threads that exist
    mailbox,    \* mailbox[t] is a sequence of pairs <<sender, payload>>
    takes,      \* the senders from which t is blocked receiving; {} if it is not
    payload,    \* what the last receive of t returned
    result      \* the value of the last call of t: for a receive, the sender

mailboxVars == <<alive, mailbox, takes, payload, result>>

MailboxInit ==
    /\ alive = Booted
    /\ mailbox = [t \in Thread |-> <<>>]
    /\ takes = [t \in Thread |-> {}]
    /\ payload = [t \in Thread |-> Nothing]
    /\ result = [t \in Thread |-> Nothing]

Blocked(t) == takes[t] # {}

\* A message from s reaches t.
Arrive(s, t, w) ==
    IF s \in takes[t]
    THEN /\ takes' = [takes EXCEPT ![t] = {}]
         /\ payload' = [payload EXCEPT ![t] = w]
         /\ UNCHANGED mailbox
    ELSE /\ mailbox' = [mailbox EXCEPT ![t] = IF s = ClockSource
                                              THEN <<<<s, w>>>> \o mailbox[t]
                                              ELSE Append(mailbox[t], <<s, w>>)]
         /\ UNCHANGED <<takes, payload>>

Returned(s, t) == IF s \in takes[t] THEN [result EXCEPT ![t] = s] ELSE result

\* The thread c sends to t, which may not exist.
Post(c, t, w) ==
    /\ c \in alive /\ ~Blocked(c)
    /\ \/ /\ t \in alive
          /\ Arrive(NameOf[c], t, w)
          /\ result' = [Returned(NameOf[c], t) EXCEPT ![c] = Good]
       \/ /\ t \notin alive
          /\ result' = [result EXCEPT ![c] = NoGood]
          /\ UNCHANGED <<mailbox, takes, payload>>
    /\ UNCHANGED alive

\* The kernel sends to t for a device, the clock or a thread that trapped.
Notify(s, t, w) ==
    /\ t \in alive
    /\ Arrive(s, t, w)
    /\ result' = Returned(s, t)
    /\ UNCHANGED alive

\* The thread t receives from the senders S: the oldest message, or none.
Take(t, S) ==
    /\ t \in alive /\ ~Blocked(t)
    /\ \E i \in 1 .. Len(mailbox[t]) :
          /\ mailbox[t][i][1] \in S
          /\ \A j \in 1 .. i - 1 : mailbox[t][j][1] \notin S
          /\ result' = [result EXCEPT ![t] = mailbox[t][i][1]]
          /\ payload' = [payload EXCEPT ![t] = mailbox[t][i][2]]
          /\ mailbox' = [mailbox EXCEPT ![t] = RemoveAt(mailbox[t], i)]
    /\ UNCHANGED <<alive, takes>>

Block(t, S) ==
    /\ t \in alive /\ ~Blocked(t)
    /\ \A i \in 1 .. Len(mailbox[t]) : mailbox[t][i][1] \notin S
    /\ takes' = [takes EXCEPT ![t] = S]
    /\ result' = [result EXCEPT ![t] = Nothing]
    /\ UNCHANGED <<alive, mailbox, payload>>

\* A thread dies in any state, and its messages with it.
Die(t) ==
    /\ t \in alive
    /\ alive' = alive \ {t}
    /\ mailbox' = [mailbox EXCEPT ![t] = <<>>]
    /\ takes' = [takes EXCEPT ![t] = {}]
    /\ UNCHANGED <<payload, result>>

\* A thread starts with an empty mailbox, whoever had its address before.
Start(t) ==
    /\ t \notin alive
    /\ alive' = alive \cup {t}
    /\ payload' = [payload EXCEPT ![t] = Nothing]
    /\ result' = [result EXCEPT ![t] = Nothing]
    /\ UNCHANGED <<mailbox, takes>>

Receivable == {{s} : s \in Source} \cup {Source}

\* A step of the kernel that no mailbox shows: a stutter, named so that TLC
\* recognises it before it tries the others.
Internal == UNCHANGED mailboxVars

MailboxNext ==
    \/ Internal
    \/ \E t \in Thread :
        \/ \E w \in Payload : \/ \E c \in Thread : Post(c, t, w)
                              \/ \E s \in Source : Notify(s, t, w)
        \/ \E S \in Receivable : Take(t, S) \/ Block(t, S)
        \/ Die(t)
        \/ Start(t)

MailboxSpec == MailboxInit /\ [][MailboxNext]_mailboxVars
=============================================================================
