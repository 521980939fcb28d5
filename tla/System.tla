------------------------------- MODULE System -------------------------------
(***************************************************************************)
(* The nucleus and the devices with the program of the System Service      *)
(* Interface (phase2/src/ssi.c): SSI_thread serves one message after the   *)
(* other, and the other threads reach it through SSIRequest.  A thread     *)
(* does I/O as the test program does (termprint of p2test.0.2.c): it       *)
(* writes a command and asks for WAITFORIO.                                *)
(*                                                                         *)
(* The SSI's steps are those of the module Nucleus in the order its        *)
(* program gives them, so the property NucleusSpec below says that the     *)
(* general client of Nucleus covers this one.  The SSI is preempted here   *)
(* between its system calls; the stretch of code from one call to the next *)
(* is one step.                                                            *)
(***************************************************************************)
EXTENDS Devices

CONSTANTS
    Service,        \* bound: the services that threads request
    BADDEVICE,      \* an address that is no device register
    TICK,           \* 42, the answer to WAITFORCLOCK
    CPUTIME,        \* the answer to GETCPUTIME
    Chat,           \* bound: TRUE when threads also exchange messages with each other
    Clock           \* when the pseudo clock ticks: "never", at "any" time, or with a period
                    \* "long" enough for the SSI to take another message after a tick

\* SPECPRGMGR, SPECTLBMGR and SPECSYSMGR, by the exception they are about.
Manages == [SPECPRGMGR |-> "pgmtrap", SPECTLBMGR |-> "tlbtrap", SPECSYSMGR |-> "sysbp"]

Arguments(service) ==
    CASE service \in DOMAIN Manages -> User
      [] service = "WAITFORIO" -> Device \cup {BADDEVICE}
      [] OTHER -> {NULL}

\* The structures of type SSI_request_msg: the requests of threads (on their
\* stacks) and the messages of the interrupt handler (in interrupt_msg_array).
\* A message to the SSI carries the address of one, in the model the structure.
Request == UNION {{[service |-> s, arg |-> x] : x \in Arguments(s)} : s \in Service}
Tick == [service |-> "PSEUDOCLOCK_MSG", arg |-> NULL]

Answer == User \cup Status \cup {TRANSMITTED, NULL, MINUS1, TICK, CPUTIME}

ASSUME SystemBoundAssumption ==
    /\ Chat \in BOOLEAN
    /\ Clock \in {"never", "any", "long"}

\* Threads request services, not the messages of the interrupt handler, and
\* the managers they ask for are those that Managed bounds.
ASSUME ServiceAssumption ==
    /\ {"PSEUDOCLOCK_MSG", "INTERRUPT_MSG"} \cap Service = {}
    /\ \A s \in Service \cap DOMAIN Manages : Manages[s] \in Managed
    /\ rest_index(BADDEVICE) = -1

ASSUME SystemWordAssumption ==
    /\ Request \cup Answer \cup {Tick} \cup {DeviceMsg(s) : s \in Status} \subseteq Word
    /\ {TRAPCONTINUE, NULL} \cap (Request \cup {Tick} \cup {DeviceMsg(s) : s \in Status}) = {}

VARIABLES
    ssi,                \* where SSI_thread is, and the answer it is about to send
    clockTcb_array,     \* the threads waiting for a tick; holes never occur
    devTcb_array,
    devStatus_array,    \* NULL stands for -1, no status
    sent,               \* threads in SSIRequest between its MsgSend and its MsgRecv
    driving             \* the devices that a thread has started and not yet waited for

ioVars == <<devTcb_array, devStatus_array>>
clientVars == <<sent, driving, devVars>>
ssiVars == <<ssi, clockTcb_array, ioVars, clientVars>>
sysVars == <<vars, ssiVars>>

\* The entries of the arrays that the installed devices use.
Index == {rest_index(d) : d \in Device}

SsiPc == {"recv", "serve", "tick", "reply", "nogood", "crash"}

SystemTypeOK ==
    /\ ssi \in [pc : SsiPc, to : User \cup {NULL}, word : Word]
    /\ clockTcb_array \in Seq(User) /\ Len(clockTcb_array) < MAXTHREADS
    /\ devTcb_array \in [Index -> User \cup {NULL}]
    /\ devStatus_array \in [Index -> Status \cup {NULL}]
    /\ sent \subseteq User
    /\ driving \in [User -> SUBSET Device]
    /\ DevTypeOK

At(pc) == InSSI /\ ssi.pc = pc
GoTo(pc) == ssi' = [pc |-> pc, to |-> NULL, word |-> NULL]
GoToSend(pc, t, w) == ssi' = [pc |-> pc, to |-> t, word |-> w]

\* What the last MsgRecv of the SSI returned.
req_thread == v0[SSI_tcb]
req_struct == received[SSI_tcb]

----------------------------------------------------------------------------
(* SSI_thread *)

SsiRecv ==
    /\ At("recv")
    /\ MsgRecv(ANYMESSAGE)
    /\ GoTo("serve")
    /\ UNCHANGED <<clockTcb_array, ioVars, clientVars>>

SsiSend(t, w) == Send(t, w) \/ SendFails(t, w)

\* Mutant: a tick wakes nobody.
ServeTickIdle ==
    /\ At("serve") /\ req_struct.service = "PSEUDOCLOCK_MSG"
    /\ GoTo("recv")
    /\ UNCHANGED <<vars, clockTcb_array, ioVars, clientVars>>

ServeTick ==
    /\ At("serve") /\ req_struct.service = "PSEUDOCLOCK_MSG"
    /\ GoTo("tick")
    /\ UNCHANGED <<vars, clockTcb_array, ioVars, clientVars>>

\* Mutant: the array is cleared with its first entry.
TickFirst ==
    /\ At("tick") /\ clockTcb_array # <<>>
    /\ SsiSend(Head(clockTcb_array), TICK)
    /\ clockTcb_array' = <<>>
    /\ UNCHANGED <<ssi, ioVars, clientVars>>

\* The loop over clockTcb_array.
TickNext ==
    /\ At("tick") /\ clockTcb_array # <<>>
    /\ SsiSend(Head(clockTcb_array), TICK)
    /\ clockTcb_array' = Tail(clockTcb_array)
    /\ UNCHANGED <<ssi, ioVars, clientVars>>

TickDone ==
    /\ At("tick") /\ clockTcb_array = <<>>
    /\ GoTo("recv")
    /\ UNCHANGED <<vars, clockTcb_array, ioVars, clientVars>>

\* Mutant: the status is masked before it is stored.
ServeInterruptMasked ==
    /\ At("serve") /\ req_struct.service = "INTERRUPT_MSG"
    /\ devTcb_array[rest_index(req_thread)] = NULL
    /\ devStatus_array' = [devStatus_array EXCEPT ![rest_index(req_thread)] = Masked(req_struct.arg)]
    /\ GoTo("recv")
    /\ UNCHANGED <<vars, devTcb_array, clockTcb_array, clientVars>>

\* Mutant: the thread stays registered.
ServeInterruptKeeps ==
    /\ At("serve") /\ req_struct.service = "INTERRUPT_MSG"
    /\ LET device_num == rest_index(req_thread)
           wfio_thread == devTcb_array[device_num]
       IN  IF wfio_thread = NULL
           THEN /\ devStatus_array' = [devStatus_array EXCEPT ![device_num] = req_struct.arg]
                /\ GoTo("recv")
           ELSE /\ GoToSend("reply", wfio_thread, Masked(req_struct.arg))
                /\ UNCHANGED devStatus_array
    /\ UNCHANGED <<vars, clockTcb_array, devTcb_array, clientVars>>

ServeInterrupt ==
    /\ At("serve") /\ req_struct.service = "INTERRUPT_MSG"
    /\ LET device_num == rest_index(req_thread)
           wfio_thread == devTcb_array[device_num]
       IN  IF wfio_thread = NULL
           THEN /\ devStatus_array' = [devStatus_array EXCEPT ![device_num] = req_struct.arg]
                /\ GoTo("recv")
                /\ UNCHANGED devTcb_array
           ELSE /\ GoToSend("reply", wfio_thread, Masked(req_struct.arg))
                /\ devTcb_array' = [devTcb_array EXCEPT ![device_num] = NULL]
                /\ UNCHANGED devStatus_array
    /\ UNCHANGED <<vars, clockTcb_array, clientVars>>

\* The answer that ends the service.
SsiReply ==
    /\ At("reply")
    /\ SsiSend(ssi.to, ssi.word)
    /\ GoTo("recv")
    /\ UNCHANGED <<clockTcb_array, ioVars, clientVars>>

\* A request whose sender is neither ready nor waiting is dropped.
Serving(s) ==
    /\ At("serve") /\ req_thread \in User
    /\ Exists(req_thread)
    /\ req_struct.service = s

ServeDropped ==
    /\ At("serve") /\ req_thread \in User
    /\ ~Exists(req_thread)
    /\ GoTo("recv")
    /\ UNCHANGED <<vars, clockTcb_array, ioVars, clientVars>>

ServeWaitForClock ==
    /\ Serving("WAITFORCLOCK")
    /\ clockTcb_array' = IF Len(clockTcb_array) < MAXTHREADS - 1
                         THEN Append(clockTcb_array, req_thread) ELSE clockTcb_array
    /\ GoTo("recv")
    /\ UNCHANGED <<vars, ioVars, clientVars>>

\* The new thread starts outside SSIRequest and outside an I/O operation.
ServeCreate ==
    /\ \/ Serving("CREATESON") /\ CreateSon(req_thread)
       \/ Serving("CREATEBROTHER") /\ CreateBrother(req_thread)
    /\ GoToSend("reply", req_thread, Head(tcbfree))
    /\ sent' = sent \ {Head(tcbfree)}
    /\ driving' = [driving EXCEPT ![Head(tcbfree)] = {}]
    /\ UNCHANGED <<clockTcb_array, ioVars, devVars>>

\* allocTcb fails: the requester is told so, and the code goes on with NULL.
ServeCreateFails ==
    /\ Serving("CREATESON") \/ Serving("CREATEBROTHER")
    /\ tcbfree = <<>>
    /\ GoToSend("nogood", req_thread, MINUS1)
    /\ UNCHANGED <<vars, clockTcb_array, ioVars, clientVars>>

CreateNoGood ==
    /\ At("nogood")
    /\ SsiSend(ssi.to, ssi.word)
    /\ GoTo("crash")
    /\ UNCHANGED <<clockTcb_array, ioVars, clientVars>>

\* insertChild or insertSibling writes through the NULL TCB.
CreateCrash ==
    /\ At("crash")
    /\ Trap("pgmtrap")
    /\ UNCHANGED ssiVars

ServeTerminate ==
    /\ \/ Serving("TERMINATE")
       \/ Serving("WAITFORIO") /\ rest_index(req_struct.arg) = -1
       \/ \E s \in DOMAIN Manages :
             /\ Serving(s)
             /\ manager_thread[Manages[s]][req_thread] # NULL \/ ~Exists(req_struct.arg)
    /\ KillThread(req_thread)
    /\ GoTo("recv")
    /\ UNCHANGED <<clockTcb_array, ioVars, clientVars>>

\* Mutant: the request is not answered.
ServeSpecManagerSilent ==
    /\ \E s \in DOMAIN Manages :
          Serving(s) /\ SpecManager(req_thread, Manages[s], req_struct.arg)
    /\ GoTo("recv")
    /\ UNCHANGED <<clockTcb_array, ioVars, clientVars>>

ServeSpecManager ==
    /\ \E s \in DOMAIN Manages :
          Serving(s) /\ SpecManager(req_thread, Manages[s], req_struct.arg)
    /\ GoToSend("reply", req_thread, NULL)
    /\ UNCHANGED <<clockTcb_array, ioVars, clientVars>>

ServeGetCpuTime ==
    /\ Serving("GETCPUTIME")
    /\ GoToSend("reply", req_thread, CPUTIME)
    /\ UNCHANGED <<vars, clockTcb_array, ioVars, clientVars>>

\* Mutant: a status that has already arrived is not looked for.
ServeWaitForIOBlind ==
    /\ Serving("WAITFORIO") /\ rest_index(req_struct.arg) # -1
    /\ devTcb_array' = [devTcb_array EXCEPT ![rest_index(req_struct.arg)] = req_thread]
    /\ GoTo("recv")
    /\ UNCHANGED <<vars, clockTcb_array, devStatus_array, clientVars>>

\* Mutant: a status that has already arrived is not sent.
ServeWaitForIOSilent ==
    /\ Serving("WAITFORIO") /\ rest_index(req_struct.arg) # -1
    /\ LET device_num == rest_index(req_struct.arg)
       IN  IF devStatus_array[device_num] = NULL
           THEN /\ devTcb_array' = [devTcb_array EXCEPT ![device_num] = req_thread]
                /\ UNCHANGED devStatus_array
           ELSE /\ devStatus_array' = [devStatus_array EXCEPT ![device_num] = NULL]
                /\ UNCHANGED devTcb_array
    /\ GoTo("recv")
    /\ UNCHANGED <<vars, clockTcb_array, clientVars>>

ServeWaitForIO ==
    /\ Serving("WAITFORIO") /\ rest_index(req_struct.arg) # -1
    /\ LET device_num == rest_index(req_struct.arg)
       IN  IF devStatus_array[device_num] = NULL
           THEN /\ devTcb_array' = [devTcb_array EXCEPT ![device_num] = req_thread]
                /\ GoTo("recv")
                /\ UNCHANGED devStatus_array
           ELSE /\ GoToSend("reply", req_thread, devStatus_array[device_num])
                /\ devStatus_array' = [devStatus_array EXCEPT ![device_num] = NULL]
                /\ UNCHANGED devTcb_array
    /\ UNCHANGED <<vars, clockTcb_array, clientVars>>

\* Any other service number.
ServeUnknown ==
    /\ Serving("UNKNOWN")
    /\ ServicePanic
    /\ UNCHANGED ssiVars

SsiStep ==
    \/ SsiRecv \/ SsiReply
    \/ ServeTick \/ TickNext \/ TickDone \/ ServeInterrupt
    \/ ServeDropped \/ ServeWaitForClock
    \/ ServeCreate \/ ServeCreateFails \/ CreateNoGood \/ CreateCrash
    \/ ServeTerminate \/ ServeSpecManager \/ ServeGetCpuTime \/ ServeWaitForIO
    \/ ServeUnknown

----------------------------------------------------------------------------
(* The other threads *)

\* The thread that executes user code outside SSIRequest.
InUser == InThread /\ current_thread # SSI_tcb
Free == InUser /\ current_thread \notin sent

\* A driver writes a command and later asks for WAITFORIO, once for each
\* command; it may start several devices before it waits for the first.
StartIO(d) ==
    /\ Free /\ d \notin driving[current_thread]
    /\ Start(d)
    /\ driving' = [driving EXCEPT ![current_thread] = @ \cup {d}]
    /\ UNCHANGED <<vars, ssi, clockTcb_array, ioVars, sent>>

MayAsk(r) ==
    r.service = "WAITFORIO" /\ r.arg \in Device => r.arg \in driving[current_thread]

\* SSIRequest: the MsgSend, then the MsgRecv.
Ask(r) ==
    /\ Free /\ MayAsk(r)
    /\ Send(MAGIC_SSI, r) \/ SendFails(MAGIC_SSI, r)
    /\ sent' = sent \cup {current_thread}
    /\ driving' = [driving EXCEPT ![current_thread] = @ \ {r.arg}]
    /\ UNCHANGED <<ssi, clockTcb_array, ioVars, devVars>>

Collect ==
    /\ InUser /\ current_thread \in sent
    /\ MsgRecv(MAGIC_SSI)
    /\ sent' = sent \ {current_thread}
    /\ UNCHANGED <<ssi, clockTcb_array, ioVars, driving, devVars>>

\* Otherwise a thread may trap, and talk to other threads.
Talk ==
    /\ Free
    /\ \/ \E k \in TrapKind : Trap(k)
       \/ /\ Chat
          /\ \/ \E t \in User, w \in {NULL, TRAPCONTINUE, CAUSE} : MsgSend(t, w)
             \/ \E t \in User \cup {ANYMESSAGE} : MsgRecv(t)
    /\ UNCHANGED ssiVars

UserStep == (\E d \in Device : StartIO(d)) \/ (\E r \in Request : Ask(r)) \/ Collect \/ Talk

\* What the machine and the kernel do.
Elapsed ==
    \/ Clock = "any"
    \/ /\ Clock = "long"
       /\ \/ thereIsThread(wait_queue, SSI_tcb)
          \/ /\ req_struct # Tick
             /\ \A m \in ToSet(inbox[SSI_tcb]) : m_message[m] # Tick
ClockStep == Elapsed /\ \E expired \in BOOLEAN : PseudoClockTick(Tick, expired)
SliceStep == SliceExpired \/ (Elapsed /\ PseudoClockTick(Tick, TRUE))

\* Line 2.
TimerStep ==
    \/ ClockStep
    \/ SliceExpired
    \/ InterruptIgnored
    \/ Elapsed /\ InterruptPanics(BUS_INTERVALTIMER) /\ InterruptPanic

\* The other lines.
DeviceStep ==
    /\ \/ DeviceServed
       \/ DeviceIgnored
       \/ DevicePanic
    /\ UNCHANGED <<ssi, clockTcb_array, ioVars, sent, driving>>

ControllerStep ==
    /\ kpc \notin Stopped
    /\ \E d \in Device : Complete(d)
    /\ UNCHANGED <<vars, ssi, clockTcb_array, ioVars, sent, driving>>

SystemStep == (TimerStep \/ KernelStep \/ Halted) /\ UNCHANGED ssiVars

SystemInit ==
    /\ Init
    /\ ssi = [pc |-> "recv", to |-> NULL, word |-> NULL]
    /\ clockTcb_array = <<>>
    /\ devTcb_array = [i \in Index |-> NULL]
    /\ devStatus_array = [i \in Index |-> NULL]
    /\ sent = {}
    /\ driving = [t \in User |-> {}]
    /\ DevInit

SystemNext == SsiStep \/ UserStep \/ SystemStep \/ DeviceStep \/ ControllerStep

SystemSpec == SystemInit /\ [][SystemNext]_sysVars

\* Kernel code is straight-line code with interrupts disabled.  The pseudo
\* clock and the time slice elapse however often handlers run in between, as
\* every way out of a handler leaves the interval timer set; and a slice of
\* the SSI is long enough for it to reach its next system call.
SystemFairness ==
    /\ WF_sysVars(KernelStep /\ UNCHANGED ssiVars)
    /\ SF_sysVars(SliceStep /\ UNCHANGED ssiVars)
    /\ SF_sysVars(ClockStep /\ UNCHANGED ssiVars)
    /\ SF_sysVars(SsiStep)

FairSystemSpec == SystemSpec /\ SystemFairness

\* A device finishes its command, and a pending interrupt is taken.
DeviceFairness == WF_sysVars(ControllerStep) /\ SF_sysVars(DeviceStep)

FairIoSpec == FairSystemSpec /\ DeviceFairness

----------------------------------------------------------------------------
(* Properties *)

\* The SSI with its program is one of the clients that Nucleus allows, so
\* what is proved of the nucleus holds of the closed system.
NucleusSpec == Spec

SsiAlive == SSI_tcb \notin ToSet(tcbfree)

\* The threads inside SSIRequest that have no answer yet.
AwaitsSsi(t) == thereIsThread(wait_queue, t) /\ waiting_for[t] = MAGIC_SSI

\* No request is forgotten: as long as the SSI lives, a thread blocked in
\* SSIRequest is the sender of a message of the SSI's inbox or of the one it
\* is serving, or it is registered for a tick or for a device.
RequestKnown ==
    SsiAlive /\ kpc \notin Stopped \cup {"terminate"} =>
        \A t \in User : AwaitsSsi(t) =>
            \/ \E m \in ToSet(inbox[SSI_tcb]) : m_sender[m] = t
            \/ ssi.pc = "serve" /\ req_thread = t
            \/ ssi.pc \in {"reply", "nogood"} /\ ssi.to = t
            \/ t \in ToSet(clockTcb_array)
            \/ \E i \in Index : devTcb_array[i] = t

\* Every service but WAITFORIO ends: a thread blocked in SSIRequest is
\* answered or terminated, unless the machine stops or the SSI is dead.
ServiceEnds ==
    \A t \in User : AwaitsSsi(t) ~> ~AwaitsSsi(t) \/ kpc \in Stopped \/ ~SsiAlive

\* A status word that no thread has read and a thread waiting for one never
\* meet: whichever of WAITFORIO and the interrupt comes first, the second finds it.
StatusMeetsWaiter ==
    \A i \in Index : devStatus_array[i] = NULL \/ devTcb_array[i] = NULL

\* Where the completion of an operation can be: in the register, in a message
\* to the SSI, in the hands of the SSI, in devStatus_array.
Register(d) == IF reg[d] = BUSY \/ d \in pending THEN 1 ELSE 0
InMail(d) == Len(SelectSeq(inbox[SSI_tcb], LAMBDA m : m_sender[m] = d))
InService(d) == IF ssi.pc = "serve" /\ req_thread = d THEN 1 ELSE 0
Stored(d) == IF devStatus_array[rest_index(d)] # NULL THEN 1 ELSE 0
Completions(d) == Register(d) + InMail(d) + InService(d) + Stored(d)

\* A completion is neither lost nor doubled between the device, int_handler
\* and the SSI: there is at most one per device, and a thread registered for
\* a device has one on its way, whichever of the interrupt and WAITFORIO was first.
OneCompletion ==
    kpc \notin Stopped =>
        \A d \in Device :
            /\ Completions(d) <= 1
            /\ devTcb_array[rest_index(d)] # NULL => Completions(d) = 1

\* A thread that waits for a device is answered, unless the machine stops or
\* a terminal reports an error, whose interrupt int_handler never acknowledges.
IoEnds ==
    \A i \in Index :
        devTcb_array[i] # NULL ~>
            \/ devTcb_array[i] = NULL
            \/ kpc \in Stopped
            \/ \E d \in pending : IsTerminal(d) /\ reg[d] = FAILED

\* A thread that has printed a character is told TRANSMITTED (p2test.0.2.c,
\* termprint: "if (stat != TRANSMITTED) error = TRUE").
PrintSucceeds ==
    ssi.pc = "reply" /\ ssi.word \in Status => Masked(ssi.word) = ssi.word

\* The SSI never answers a thread that has asked nothing: one that exists
\* when the answer is sent is inside SSIRequest (ssi.c: "First verify that
\* the requesting thread still exists").
ReplyWanted ==
    ssi.pc = "reply" /\ Exists(ssi.to) => ssi.to \in sent \/ AwaitsSsi(ssi.to)

\* The machine waits for an interrupt only when a thread waits for a service
\* or for I/O; otherwise it panics (scheduler.c: "All processes in the system
\* are stopped waiting for a message but not for services or I/O").
DeadlockDetected ==
    kpc = "wait" => \E t \in User : AwaitsSsi(t)

\* The SSI survives all its clients, except that a request for a thread when
\* no TCB is free kills it: no decision of a trap manager, no stale waiter
\* and no fault of send() reaches it (ssi.c goes on with the NULL of allocTcb).
SsiOnlyCrashes == SsiAlive \/ ssi.pc = "crash"

=============================================================================
