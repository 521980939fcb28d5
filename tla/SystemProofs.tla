---------------------------- MODULE SystemProofs ----------------------------
(***************************************************************************)
(* Theorems about the closed system: the program of the SSI (ssi.c) uses   *)
(* the nucleus as the module Nucleus allows, so everything proved of the   *)
(* nucleus holds of the whole; the tables of the SSI for I/O stay          *)
(* consistent; and nothing but its own failed allocation kills it.         *)
(*                                                                         *)
(* First, the addresses that int_handler computes (interrupts.c) and the   *)
(* indices that the SSI gives them (rest_index) fit together.  The second  *)
(* part strengthens the invariants of the nucleus with what the SSI relies *)
(* on, the third is about its program.                                     *)
(***************************************************************************)
EXTENDS System, MailProofs, TreeProofs

----------------------------------------------------------------------------
(* The addresses of the device registers *)

\* The index of a device of the lines 3 to 6.
LEMMA PlainIndex ==
    ASSUME NEW line \in INT_LOWEST .. INT_TERMINAL - 1, NEW n \in 0 .. 7
    PROVE  rest_index(device_baseaddr(line, n)) = (line - INT_LOWEST) * 8 + n
  BY DEF rest_index, device_baseaddr, DEV_REGS_START, INT_LOWEST, INT_TERMINAL

\* The index of the receiver of a terminal.
LEMMA ReceiverIndex ==
    ASSUME NEW n \in 0 .. 7
    PROVE  rest_index(device_baseaddr(INT_TERMINAL, n)) = 32 + 2 * n
  BY DEF rest_index, device_baseaddr, DEV_REGS_START, INT_LOWEST, INT_TERMINAL

\* The index of the transmitter of a terminal.
LEMMA TransmitterIndex ==
    ASSUME NEW n \in 0 .. 7
    PROVE  rest_index(device_baseaddr(INT_TERMINAL, n) + TRANS) = 32 + 2 * n + 1
  BY DEF rest_index, device_baseaddr, DEV_REGS_START, INT_LOWEST, INT_TERMINAL, TRANS

\* The address can be computed back from the index.
AddressAt(i) == IF i < 32 THEN DEV_REGS_START + 16 * i ELSE DEV_REGS_START + 512 + 8 * (i - 32)

\* Every status field has one of the 48 indices, and its index determines it.
LEMMA IndexDetermines ==
    ASSUME NEW d \in Registers
    PROVE  rest_index(d) \in 0 .. 47 /\ d = AddressAt(rest_index(d))
<1>1. CASE \E line \in INT_LOWEST .. INT_TERMINAL - 1, n \in 0 .. 7 : d = device_baseaddr(line, n)
  <2>1. PICK line \in INT_LOWEST .. INT_TERMINAL - 1, n \in 0 .. 7 : d = device_baseaddr(line, n)
    BY <1>1
  <2>2. rest_index(d) = (line - INT_LOWEST) * 8 + n
    BY <2>1, PlainIndex
  <2> QED
    BY <2>1, <2>2 DEF AddressAt, device_baseaddr, DEV_REGS_START, INT_LOWEST, INT_TERMINAL
<1>2. CASE \E n \in 0 .. 7 : d = device_baseaddr(INT_TERMINAL, n)
  <2>1. PICK n \in 0 .. 7 : d = device_baseaddr(INT_TERMINAL, n)
    BY <1>2
  <2>2. rest_index(d) = 32 + 2 * n
    BY <2>1, ReceiverIndex
  <2> QED
    BY <2>1, <2>2 DEF AddressAt, device_baseaddr, DEV_REGS_START, INT_LOWEST, INT_TERMINAL
<1>3. CASE \E n \in 0 .. 7 : d = device_baseaddr(INT_TERMINAL, n) + TRANS
  <2>1. PICK n \in 0 .. 7 : d = device_baseaddr(INT_TERMINAL, n) + TRANS
    BY <1>3
  <2>2. rest_index(d) = 32 + 2 * n + 1
    BY <2>1, TransmitterIndex
  <2> QED
    BY <2>1, <2>2 DEF AddressAt, device_baseaddr, DEV_REGS_START, INT_LOWEST, INT_TERMINAL, TRANS
<1> QED
  BY <1>1, <1>2, <1>3 DEF Registers, INT_LOWEST, INT_TERMINAL

\* The SSI never confuses two devices: the 48 status fields from which
\* int_handler sends have 48 different indices, the places of the arrays
\* devTcb_array and devStatus_array, and none of them is the -1 of a wrong address.
THEOREM IndicesDistinct ==
    \A d, e \in Registers :
        /\ rest_index(d) \in 0 .. 47
        /\ rest_index(d) = rest_index(e) => d = e
<1> SUFFICES ASSUME NEW d \in Registers, NEW e \in Registers
             PROVE  /\ rest_index(d) \in 0 .. 47
                    /\ rest_index(d) = rest_index(e) => d = e
  OBVIOUS
<1>1. rest_index(d) \in 0 .. 47 /\ d = AddressAt(rest_index(d))
  BY IndexDetermines
<1>2. e = AddressAt(rest_index(e))
  BY IndexDetermines
<1> QED
  BY <1>1, <1>2

----------------------------------------------------------------------------
(* The device that int_handler looks for *)

\* A set of numbers has the minimum that the loops over the lines and over
\* the bits of a bitmap find.
LEMMA MinFound ==
    ASSUME NEW I \in SUBSET Nat, I # {}
    PROVE  Min(I) \in I /\ \A k \in I : Min(I) <= k
BY LeastElement DEF Min

\* The line and the number of a register, and the address computed from them.
LEMMA RegisterParts ==
    ASSUME NEW d \in Registers
    PROVE  /\ LineOf(d) \in INT_LOWEST .. INT_TERMINAL /\ NumberOf(d) \in 0 .. 7
           /\ LineOf(d) # INT_TERMINAL => d = device_baseaddr(LineOf(d), NumberOf(d))
<1> USE DEF LineOf, NumberOf, device_baseaddr, DEV_REGS_START, INT_LOWEST, INT_TERMINAL, TRANS
<1>1. CASE \E line \in INT_LOWEST .. INT_TERMINAL, n \in 0 .. 7 : d = device_baseaddr(line, n)
  <2>1. PICK line \in INT_LOWEST .. INT_TERMINAL, n \in 0 .. 7 : d = device_baseaddr(line, n)
    BY <1>1
  <2>2. LineOf(d) = line /\ NumberOf(d) = n BY <2>1
  <2> QED BY <2>1, <2>2
<1>2. CASE \E n \in 0 .. 7 : d = device_baseaddr(INT_TERMINAL, n) + TRANS
  <2>1. PICK n \in 0 .. 7 : d = device_baseaddr(INT_TERMINAL, n) + TRANS BY <1>2
  <2>2. LineOf(d) = INT_TERMINAL /\ NumberOf(d) = n BY <2>1
  <2> QED BY <2>2
<1> QED BY <1>1, <1>2 DEF Registers

\* which_device returns a set bit of a bitmap that has one.
LEMMA BitFound ==
    ASSUME NEW bitmap \in SUBSET (0 .. 7), bitmap # {}
    PROVE  which_device(bitmap) \in bitmap
<1> DEFINE bits == (bitmap \ {7}) \cup {7}
<1>1. bits \in SUBSET Nat /\ bits # {} OBVIOUS
<1>2. Min(bits) \in bits /\ \A k \in bits : Min(bits) <= k
  <2> HIDE DEF bits
  <2> QED BY <1>1, MinFound
<1>3. CASE bitmap \ {7} = {} BY <1>2, <1>3 DEF which_device
<1>4. CASE bitmap \ {7} # {}
  <2>1. PICK n \in bitmap : n # 7 BY <1>4
  <2>2. Min(bits) <= n /\ n < 7 BY <1>2, <2>1
  <2> QED BY <1>2, <2>2 DEF which_device
<1> QED BY <1>3, <1>4

\* int_handler finds a device whose interrupt is pending: on the lines 3 to 6
\* the address it computes from the line and the first bit of the bitmap is
\* one, and on every line the register it reads and acknowledges is installed.
THEOREM HandlerFindsDevice ==
    ASSUME DevTypeOK, pending # {}
    PROVE  /\ int_line # INT_TERMINAL => Base \in pending
           /\ Subdevice \subseteq Device
<1> DEFINE lines == {LineOf(d) : d \in pending}
           bits == Bitmap(int_line)
<1>0. pending \subseteq Device /\ pending \subseteq Registers
  BY DeviceAssumption DEF DevTypeOK
<1>1. \A d \in pending : LineOf(d) \in Nat /\ NumberOf(d) \in 0 .. 7
  BY <1>0, RegisterParts DEF INT_LOWEST, INT_TERMINAL
<1>2. int_line \in lines
  <2>1. lines \in SUBSET Nat /\ lines # {} BY <1>1
  <2> HIDE DEF lines
  <2>2. Min(lines) \in lines BY <2>1, MinFound
  <2> QED BY <2>2 DEF int_line, lines
<1>3. which_device(bits) \in bits
  <2>1. bits \in SUBSET (0 .. 7) /\ bits # {} BY <1>1, <1>2 DEF Bitmap
  <2> HIDE DEF bits
  <2> QED BY <2>1, BitFound
<1>4. PICK d \in pending : LineOf(d) = int_line /\ NumberOf(d) = which_device(bits)
  BY <1>3 DEF Bitmap
<1>5. int_line # INT_TERMINAL => Base = d
  BY <1>0, <1>4, RegisterParts DEF Base
<1>6. int_line = INT_TERMINAL => Subdevice \subseteq Device BY DEF Subdevice, Done
<1> QED BY <1>0, <1>4, <1>5, <1>6 DEF Subdevice

----------------------------------------------------------------------------
(* The SSI as a thread of the nucleus *)

\* It is nobody's child and nobody's trap manager.
SsiApart ==
    /\ t_parent[SSI_tcb] = NULL
    /\ \A k \in TrapKind, t \in Tcb : manager_thread[k][t] # SSI_tcb

\* terminate() unlinks its argument and leaves the managers alone.
LEMMA ApartTerminate ==
    ASSUME CoreInv, SsiApart, NEW t, Terminate(t)
    PROVE  SsiApart'
BY NullNotTcb DEF Terminate, SsiApart, managerVars, CoreInv, TypeRest

\* Nothing makes the SSI a child or a manager.
LEMMA ApartNext == CoreInv /\ SsiApart /\ [Next]_vars => SsiApart'
<1> SUFFICES ASSUME CoreInv, SsiApart, [Next]_vars PROVE SsiApart' OBVIOUS
<1>f. ASSUME UNCHANGED <<manager_thread, t_parent>> PROVE SsiApart'
  BY <1>f DEF SsiApart
<1>p. ASSUME NEW k, PassUpOrDie(k) PROVE SsiApart'
  BY <1>f, <1>p, ApartTerminate DEF PassUpOrDie, managerVars, treeVars
<1>1. CASE ThreadStep
  <2>1. ASSUME NEW a1, NEW w, MsgSend(a1, w) PROVE SsiApart'
    BY <1>f, <2>1, ApartTerminate
    DEF MsgSend, TrapTerminate, TrapContinue, Send, SendFails, managerVars, treeVars
  <2>2. ASSUME NEW a1, MsgRecv(a1) PROVE SsiApart'
    BY <1>f, <2>2 DEF MsgRecv, RecvReturns, RecvBlocks, managerVars, treeVars
  <2> QED BY <1>1, <1>p, <2>1, <2>2 DEF ThreadStep, Trap
<1>2. CASE ServiceStep
  <2>0. User \subseteq Tcb /\ SSI_tcb \notin User BY DEF User
  <2>1. ASSUME NEW parent, NEW managers \in [TrapKind -> Tcb \cup {NULL}], NEW sibling,
               CreateThread(parent, managers, sibling),
               \A k \in TrapKind : managers[k] # SSI_tcb
        PROVE  SsiApart'
    <3> DEFINE t == Head(tcbfree)
    <3>1. /\ InSSI /\ tcbfree # <<>>
          /\ t_parent' = [t_parent EXCEPT ![t] = parent]
          /\ manager_thread' = [k \in TrapKind |->
                                  [manager_thread[k] EXCEPT ![t] = managers[k]]]
      BY <2>1 DEF CreateThread, allocTcb
    <3>2. t \in User BY <3>1, FreshThread
    <3> HIDE DEF t
    <3>3. t # SSI_tcb /\ SSI_tcb \in Tcb BY <2>0, <3>2, NullNotTcb
    <3>4. t_parent'[SSI_tcb] = NULL BY <3>1, <3>3 DEF SsiApart, CoreInv, TypeRest
    <3>5. ASSUME NEW k \in TrapKind, NEW u \in Tcb PROVE manager_thread'[k][u] # SSI_tcb
      <4>1. manager_thread[k] \in [Tcb -> Tcb \cup {NULL}] BY DEF CoreInv, TypeRest
      <4>2. manager_thread'[k] = [manager_thread[k] EXCEPT ![t] = managers[k]] BY <3>1
      <4> QED BY <2>1, <4>1, <4>2 DEF SsiApart
    <3> QED BY <3>4, <3>5 DEF SsiApart
  <2>2. ASSUME NEW req \in User, CreateSon(req) PROVE SsiApart'
    <3> DEFINE managers == [k \in TrapKind |-> manager_thread[k][req]]
    <3>1. managers \in [TrapKind -> Tcb \cup {NULL}] BY <2>0 DEF CoreInv, TypeRest
    <3>2. \A k \in TrapKind : managers[k] # SSI_tcb BY <2>0 DEF SsiApart
    <3>3. CreateThread(req, managers, req) BY <2>2 DEF CreateSon
    <3> HIDE DEF managers
    <3> QED BY <2>1, <3>1, <3>2, <3>3
  <2>3. ASSUME NEW req \in User, CreateBrother(req) PROVE SsiApart'
    <3> DEFINE managers == [k \in TrapKind |-> NULL]
    <3>1. managers \in [TrapKind -> Tcb \cup {NULL}] OBVIOUS
    <3>2. \A k \in TrapKind : managers[k] # SSI_tcb BY NullNotTcb
    <3>3. CreateThread(t_parent[req], managers, req) BY <2>3 DEF CreateBrother
    <3> HIDE DEF managers
    <3> QED BY <2>1, <3>1, <3>2, <3>3
  <2>4. ASSUME NEW req \in User, KillThread(req) PROVE SsiApart'
    BY <2>4, ApartTerminate DEF KillThread
  <2>5. ASSUME NEW req \in User, NEW k \in Managed, NEW m \in User, SpecManager(req, k, m)
        PROVE  SsiApart'
    BY <2>0, <2>5 DEF SpecManager, SsiApart, treeVars, CoreInv, TypeRest
  <2>6. CASE ServicePanic BY <1>f, <2>6 DEF ServicePanic, Panic, managerVars, treeVars
  <2> QED BY <1>2, <2>2, <2>3, <2>4, <2>5, <2>6 DEF ServiceStep
<1>3. CASE Interrupt
  BY <1>f, <1>3 DEF Interrupt, PseudoClockTick, DeviceInterrupt, InterruptMessage, SliceExpired,
                    InterruptIgnored, InterruptPanic, Panic, managerVars, treeVars
<1>4. CASE KernelStep
  <2>1. CASE scheduler \/ TerminateLeaf \/ TerminatePanic
    BY <1>f, <2>1 DEF scheduler, Dispatch, Reload, Idle, TerminateLeaf, TerminatePanic, Panic,
                      managerVars, treeVars
  <2>2. CASE TerminateChild
    BY <2>2 DEF TerminateChild, SsiApart, managerVars, CoreInv, TypeRest
  <2> QED BY <1>4, <1>p, <2>1, <2>2 DEF KernelStep, NestedTrap
<1>5. CASE Halted \/ UNCHANGED vars
  BY <1>f, <1>5 DEF Halted, vars, managerVars, treeVars
<1> QED BY <1>1, <1>2, <1>3, <1>4, <1>5 DEF Next

\* The SSI waits for anybody, and never executes the faulting store of a send().
SsiSound ==
    /\ waiting_for[SSI_tcb] \in {ANYMESSAGE, MINUS1}
    /\ SSI_tcb \notin nested
    /\ kpc = "fault" => current_thread # SSI_tcb

\* The threads that a message of the SSI wakes wait in recv(), so they have
\* left a reply address.
LEMMA SsiSendsSafely ==
    ASSUME CoreInv, MailInv, FrozenWaits, NEW t \in Tcb
    PROVE  ~SendFaults(SSI_tcb, t)
<1> SUFFICES ASSUME SendFaults(SSI_tcb, t) PROVE FALSE OBVIOUS
<1>1. t \in ToSet(wait_queue) /\ ~reply[t] /\ waiting_for[t] \in {MAGIC_SSI, ANYMESSAGE}
  BY DEF SendFaults, Wakes, thereIsThread, Sender
<1>2. t \in frozen BY <1>1 DEF MailInv, NoLostWakeup
<1> QED BY <1>1, <1>2, NullNotTcb DEF FrozenWaits, MAGIC_SSI, ANYMESSAGE

\* A trap of the SSI finds no manager, so it sends nothing; the message about
\* the trap of another thread can at most wake the SSI.
LEMMA SoundPassUpOrDie ==
    ASSUME CoreInv, SsiUnmanaged, SsiSound, NEW k \in TrapKind,
           kpc \in {"thread", "fault"}, PassUpOrDie(k)
    PROVE  /\ waiting_for'[SSI_tcb] \in {ANYMESSAGE, MINUS1}
           /\ kpc' = "fault" => current_thread # SSI_tcb /\ current_thread' = current_thread
<1> DEFINE s == current_thread
           m == manager_thread[k][s]
<1>1. CASE m = NULL
  BY <1>1 DEF PassUpOrDie, Terminate, SsiSound, tcbVars
<1>2. CASE m # NULL
  <2>1. s # SSI_tcb BY <1>2 DEF SsiUnmanaged
  <2>2. /\ s \in Tcb /\ m \in Tcb
        /\ waiting_for \in [Tcb -> Tcb \cup {ANYMESSAGE, MAGIC_SSI}]
    BY <1>2 DEF CoreInv, CpuOwned, QueuesOK, Partition, TypeRest, TypeTcb
  <2>3. CASE SendFaults(s, m) \/ SendPanics(s, m)
    BY <1>2, <2>1, <2>3 DEF PassUpOrDie, SsiSound, tcbVars, queueVars
  <2>4. CASE ~SendFaults(s, m) /\ ~SendPanics(s, m)
    <3>1. /\ waiting_for' = [waitingAfterSend(s, m) EXCEPT ![s] = m] /\ kpc' = "scheduler"
      BY <1>2, <2>4 DEF PassUpOrDie
    <3> HIDE DEF m, s
    <3> QED BY <2>1, <2>2, <3>1, NullNotTcb DEF waitingAfterSend, SsiSound, MAGIC_SSI
  <2> QED BY <2>3, <2>4
<1> QED BY <1>1, <1>2

\* Whoever runs, the SSI stays sound.
LEMMA SoundNext ==
    CoreInv /\ MailInv /\ SsiUnmanaged /\ FrozenWaits /\ SsiSound /\ [Next]_vars => SsiSound'
<1> SUFFICES ASSUME CoreInv, MailInv, SsiUnmanaged, FrozenWaits, SsiSound, [Next]_vars
             PROVE  SsiSound'
  OBVIOUS
<1>0. /\ waiting_for \in [Tcb -> Tcb \cup {ANYMESSAGE, MAGIC_SSI}] /\ SSI_tcb \in Tcb
      /\ kpc = "thread" => current_thread \in Tcb
  BY NullNotTcb DEF CoreInv, QueuesOK, Partition, TypeTcb, CpuOwned
<1>f. ASSUME waiting_for' = waiting_for, nested' = nested, kpc' # "fault" PROVE SsiSound'
  BY <1>f DEF SsiSound
<1>t. ASSUME NEW t, Terminate(t), nested' = nested PROVE SsiSound'
  BY <1>f, <1>t DEF Terminate, tcbVars
<1>s. ASSUME NEW s, NEW t \in Tcb, waiting_for' = waitingAfterSend(s, t), nested' = nested,
             kpc' = "scheduler"
      PROVE  SsiSound'
  BY <1>0, <1>s DEF SsiSound, waitingAfterSend, MAGIC_SSI
<1>1. CASE ThreadStep
  <2>1. ASSUME NEW a1, NEW w, MsgSend(a1, w) PROVE SsiSound'
    <3>1. CASE TrapTerminate(a1) BY <1>t, <3>1 DEF TrapTerminate
    <3>2. CASE TrapContinue(a1) BY <1>f, <3>2 DEF TrapContinue, tcbVars
    <3>3. CASE Send(a1, w) BY <1>s, <3>3, ReceiverIsTcb DEF Send
    <3>4. CASE SendFails(a1, w)
      <4>1. kpc' = "fault" => current_thread # SSI_tcb
        BY <3>4, SsiSendsSafely, ReceiverIsTcb DEF SendFails
      <4> QED BY <3>4, <4>1 DEF SendFails, SsiSound, tcbVars, queueVars
    <3> QED BY <2>1, <3>1, <3>2, <3>3, <3>4 DEF MsgSend
  <2>2. ASSUME NEW a1, RecvReturns(a1) PROVE SsiSound'
    BY <1>f, <2>2 DEF RecvReturns
  <2>3. ASSUME NEW a1, RecvBlocks(a1) PROVE SsiSound'
    BY <1>0, <2>3 DEF RecvBlocks, MayRecv, InThread, SsiSound
  <2>4. ASSUME NEW k \in TrapKind, Trap(k) PROVE SsiSound'
    BY <2>4, SoundPassUpOrDie DEF Trap, InThread, SsiSound
  <2> QED BY <1>1, <2>1, <2>2, <2>3, <2>4 DEF ThreadStep, MsgRecv
<1>2. CASE ServiceStep
  <2>1. ASSUME NEW parent, NEW managers, NEW sibling, CreateThread(parent, managers, sibling)
        PROVE  SsiSound'
    <3> DEFINE t == Head(tcbfree)
    <3>1. /\ waiting_for' = [waiting_for EXCEPT ![t] = MINUS1] /\ nested' = nested \ {t}
          /\ kpc' \in {kpc, "torn"} /\ InSSI /\ tcbfree # <<>>
      BY <2>1 DEF CreateThread, allocTcb
    <3>2. t # SSI_tcb BY <3>1, FreshThread DEF User
    <3> HIDE DEF t
    <3> QED BY <1>0, <3>1, <3>2 DEF SsiSound, InSSI, InThread
  <2>2. ASSUME NEW req, KillThread(req) PROVE SsiSound'
    BY <1>t, <2>2 DEF KillThread
  <2>3. ASSUME NEW req, NEW k, NEW m, SpecManager(req, k, m) PROVE SsiSound'
    BY <1>f, <2>3 DEF SpecManager, InSSI, InThread, tcbVars, controlVars
  <2>4. CASE ServicePanic BY <1>f, <2>4 DEF ServicePanic, Panic, tcbVars
  <2> QED BY <1>2, <2>1, <2>2, <2>3, <2>4 DEF ServiceStep, CreateSon, CreateBrother
<1>3. CASE Interrupt
  <2>1. ASSUME NEW s, NEW w, NEW requeue, InterruptMessage(s, w, requeue) PROVE SsiSound'
    BY <1>0, <1>s, <2>1 DEF InterruptMessage
  <2>2. CASE SliceExpired \/ InterruptIgnored \/ InterruptPanic
    BY <1>f, <2>2 DEF SliceExpired, InterruptIgnored, InterruptPanic, Panic, tcbVars
  <2> QED BY <1>3, <2>1, <2>2 DEF Interrupt, PseudoClockTick, DeviceInterrupt
<1>4. CASE KernelStep
  <2>1. CASE scheduler
    BY <2>1 DEF scheduler, Dispatch, Reload, Idle, Resume, tcbVars, queueVars, SsiSound
  <2>2. CASE TerminateChild \/ TerminateLeaf \/ TerminatePanic
    BY <1>f, <2>2 DEF TerminateChild, TerminateLeaf, TerminatePanic, Panic, tcbVars
  <2>3. CASE NestedTrap
    BY <2>3, SoundPassUpOrDie, TrapKindAssumption DEF NestedTrap, SsiSound
  <2> QED BY <1>4, <2>1, <2>2, <2>3 DEF KernelStep
<1>5. CASE Halted \/ UNCHANGED vars
  BY <1>5 DEF Halted, vars, tcbVars, queueVars, controlVars, SsiSound
<1> QED BY <1>1, <1>2, <1>3, <1>4, <1>5 DEF Next

\* Everything proved of the nucleus so far, in one invariant.
NucleusInv ==
    /\ CoreInv /\ MailInv /\ TreeInv
    /\ SsiUnmanaged /\ SsiApart /\ FrozenWaits /\ SsiSound

\* It holds after boot,
LEMMA InitNucleus == Init => NucleusInv
<1>1. Init => SsiUnmanaged /\ SsiApart /\ FrozenWaits /\ SsiSound
  BY NullNotTcb DEF Init, SsiUnmanaged, SsiApart, FrozenWaits, SsiSound
<1> QED BY <1>1, InitCore, InitMail, InitTree DEF NucleusInv

\* and every step of the nucleus keeps it.
LEMMA NucleusNext == NucleusInv /\ [Next]_vars => NucleusInv'
BY CoreNext, MailNext, TreeNext, SsiUnmanagedNext, ApartNext, FrozenNext, SoundNext
DEF NucleusInv

\* The SSI is neither free nor about to be freed by terminate().
SsiSafe == SSI_tcb \notin ToSet(victims) \cup ToSet(tcbfree)

\* Only its own trap makes the SSI a victim: a trap manager decides about
\* threads that wait for it, TERMINATE serves other threads, and the
\* recursion of terminate() takes children.
LEMMA SsiDiesOfItself ==
    ASSUME NucleusInv, [Next]_vars, SsiSafe, ~(InSSI /\ victims' = <<SSI_tcb>>)
    PROVE  SsiSafe'
<1>0. /\ SSI_tcb \in Tcb /\ User \subseteq Tcb /\ SSI_tcb \notin User
      /\ tcbfree \in Seq(Tcb) /\ victims \in Seq(Tcb)
      /\ kpc = "terminate" => victims # <<>>
      /\ kpc \in {"thread", "fault"} => current_thread \in Tcb
  BY NullNotTcb DEF User, NucleusInv, CoreInv, QueuesOK, Partition, TypeRest, CpuOwned
<1>f. ASSUME UNCHANGED <<victims, tcbfree>> PROVE SsiSafe'
  BY <1>f DEF SsiSafe
<1>t. ASSUME NEW t \in Tcb, Terminate(t), t # SSI_tcb PROVE SsiSafe'
  <2>1. victims' = <<t>> /\ tcbfree' = tcbfree BY <1>t DEF Terminate, queueVars
  <2>2. ToSet(<<t>>) = {t} BY <1>t, OneLemma
  <2> QED BY <1>t, <2>1, <2>2 DEF SsiSafe
<1>p. ASSUME NEW k \in TrapKind, kpc \in {"thread", "fault"}, PassUpOrDie(k),
             kpc = "fault" => current_thread # SSI_tcb
      PROVE  SsiSafe'
  <2>1. CASE manager_thread[k][current_thread] # NULL
    BY <1>f, <1>p, <2>1 DEF PassUpOrDie, queueVars
  <2>2. CASE manager_thread[k][current_thread] = NULL
    <3>1. Terminate(current_thread) BY <1>p, <2>2 DEF PassUpOrDie
    <3>2. current_thread # SSI_tcb BY <1>p, <3>1 DEF Terminate, InSSI, InThread
    <3> QED BY <1>0, <1>p, <1>t, <3>1, <3>2
  <2> QED BY <2>1, <2>2
<1>1. CASE ThreadStep
  <2>1. ASSUME NEW a1, NEW w, MsgSend(a1, w) PROVE SsiSafe'
    <3>1. CASE TrapTerminate(a1)
      <4>1. /\ Terminate(Receiver(a1)) /\ Receiver(a1) \in Tcb
            /\ waiting_for[Receiver(a1)] = current_thread /\ current_thread \in Tcb
        BY <1>0, <3>1, ReceiverIsTcb DEF TrapTerminate, Decision, InThread
      <4>2. Receiver(a1) # SSI_tcb
        BY <4>1, NullNotTcb DEF NucleusInv, SsiSound, ANYMESSAGE
      <4> QED BY <1>t, <4>1, <4>2
    <3>2. CASE TrapContinue(a1) \/ Send(a1, w) \/ SendFails(a1, w)
      BY <1>f, <3>2 DEF TrapContinue, Send, SendFails, queueVars
    <3> QED BY <2>1, <3>1, <3>2 DEF MsgSend
  <2>2. ASSUME NEW a1, MsgRecv(a1) PROVE SsiSafe'
    BY <1>f, <2>2 DEF MsgRecv, RecvReturns, RecvBlocks, queueVars
  <2> QED BY <1>1, <1>p, <2>1, <2>2 DEF ThreadStep, Trap, InThread
<1>2. CASE ServiceStep
  <2>1. ASSUME NEW parent, NEW managers, NEW sibling, CreateThread(parent, managers, sibling)
        PROVE  SsiSafe'
    <3>1. tcbfree # <<>> /\ tcbfree' = Tail(tcbfree) /\ victims' = victims
      BY <2>1 DEF CreateThread, allocTcb
    <3> QED BY <1>0, <3>1, TailLemma DEF SsiSafe
  <2>2. ASSUME NEW req \in User, KillThread(req) PROVE SsiSafe'
    BY <1>0, <1>t, <2>2 DEF KillThread
  <2>3. ASSUME NEW req, NEW k, NEW m, SpecManager(req, k, m) PROVE SsiSafe'
    BY <1>f, <2>3 DEF SpecManager, queueVars, controlVars
  <2>4. CASE ServicePanic BY <1>f, <2>4 DEF ServicePanic, Panic, queueVars
  <2> QED BY <1>2, <2>1, <2>2, <2>3, <2>4 DEF ServiceStep, CreateSon, CreateBrother
<1>3. CASE Interrupt
  BY <1>f, <1>3 DEF Interrupt, PseudoClockTick, DeviceInterrupt, InterruptMessage, SliceExpired,
                    InterruptIgnored, InterruptPanic, Panic, queueVars
<1>4. CASE KernelStep
  <2>1. CASE scheduler \/ TerminatePanic
    BY <1>f, <2>1 DEF scheduler, Dispatch, Reload, Idle, TerminatePanic, Panic, queueVars
  <2>2. CASE TerminateChild
    <3> DEFINE t == Head(victims)
               c == Head(t_child[t])
               one == <<c>>
    <3>1. t_child[t] # <<>> /\ victims' = one \o victims /\ tcbfree' = tcbfree
      BY <2>2 DEF TerminateChild, queueVars
    <3>2. t \in Tcb /\ t_child[t] \in Seq(Tcb)
      BY <1>0, <2>2, TailLemma DEF TerminateChild, NucleusInv, CoreInv, TypeRest
    <3>3. c \in Tcb /\ c \in ToSet(t_child[t])
      <4> HIDE DEF t
      <4> QED BY <3>1, <3>2, TailLemma
    <3>4. c # SSI_tcb
      <4>1. kpc # "torn" BY <2>2 DEF TerminateChild
      <4> HIDE DEF t, c
      <4>2. t_parent[c] = t
        BY <3>2, <3>3, <4>1 DEF NucleusInv, TreeInv, TreeUntilTorn, TreeConsistent
      <4> QED BY <3>2, <4>2, NullNotTcb DEF NucleusInv, SsiApart
    <3>5. one \in Seq(Tcb) /\ ToSet(one) = {c} BY <3>3, OneLemma
    <3> HIDE DEF t, c, one
    <3>6. ToSet(victims') = {c} \cup ToSet(victims) BY <1>0, <3>1, <3>5, ConcatLemma
    <3> QED BY <3>1, <3>4, <3>6 DEF SsiSafe
  <2>3. CASE TerminateLeaf
    <3> DEFINE t == Head(victims)
    <3>1. tcbfree' = Append(tcbfree, t) /\ victims' = Tail(victims) /\ victims # <<>>
      BY <1>0, <2>3 DEF TerminateLeaf
    <3>2. t \in Tcb /\ t \in ToSet(victims) /\ ToSet(victims') \subseteq ToSet(victims)
      BY <1>0, <3>1, TailLemma
    <3> HIDE DEF t
    <3>3. ToSet(tcbfree') = ToSet(tcbfree) \cup {t} BY <1>0, <3>1, <3>2, AppendLemma
    <3> QED BY <3>2, <3>3 DEF SsiSafe
  <2>4. CASE NestedTrap
    BY <1>p, <2>4, TrapKindAssumption DEF NestedTrap, NucleusInv, SsiSound
  <2> QED BY <1>4, <2>1, <2>2, <2>3, <2>4 DEF KernelStep
<1>5. CASE Halted \/ UNCHANGED vars
  BY <1>f, <1>5 DEF Halted, vars, queueVars, controlVars
<1> QED BY <1>1, <1>2, <1>3, <1>4, <1>5 DEF Next

----------------------------------------------------------------------------
(* What the SSI is sent *)

\* A message to the SSI carries what its sender sends: a thread a request,
\* a device its status, the timer the tick.
Carries(s, w) ==
    \/ s \in User /\ w \in Request
    \/ s \in Device /\ \E x \in Status : w = DeviceMsg(x)
    \/ s = BUS_INTERVALTIMER /\ w = Tick

\* So do all messages of its inbox,
SsiMail == \A m \in ToSet(inbox[SSI_tcb]) : Carries(m_sender[m], m_message[m])

\* and the one that the last MsgRecv of the SSI returned, once it has returned.
Held == Running(SSI_tcb) => Carries(req_thread, req_struct)

\* Steps that leave the mail of the SSI alone.
LEMMA SsiMailFrame ==
    ASSUME SsiMail, UNCHANGED <<inbox, m_sender, m_message>>
    PROVE  SsiMail'
BY DEF SsiMail

\* Steps that neither start the SSI nor touch what it has received.
LEMMA HeldFrame ==
    ASSUME Held, (Running(SSI_tcb))' => Running(SSI_tcb),
           v0'[SSI_tcb] = v0[SSI_tcb], received'[SSI_tcb] = received[SSI_tcb]
    PROVE  Held'
BY DEF Held, req_thread, req_struct

\* send() puts into the inbox of the SSI only what its sender sends it.
LEMMA SsiMailAfterSend ==
    ASSUME CoreInv, MailInv, SsiMail, NEW s, NEW t \in Tcb, NEW w, Sending(s),
           ~SendPanics(s, t), Deliver(s, t, w), t = SSI_tcb => Carries(Sender(s), w)
    PROVE  SsiMail'
<1>1. CASE ~Posts(s, t) BY <1>1, SsiMailFrame DEF Deliver, mailVars
<1>2. CASE Posts(s, t)
  <2> DEFINE m == Head(msgfree)
             b == IF s = BUS_INTERVALTIMER THEN <<m>> \o inbox[t] ELSE Append(inbox[t], m)
  <2>1. /\ inbox' = [inbox EXCEPT ![t] = b]
        /\ m_sender' = [m_sender EXCEPT ![m] = Sender(s)]
        /\ m_message' = [m_message EXCEPT ![m] = w]
        /\ msgfree # <<>>
    BY <1>2 DEF Deliver, SendPanics
  <2>2. /\ msgfree \in Seq(Msg) /\ inbox \in [Tcb -> Seq(Msg)] /\ SSI_tcb \in Tcb
        /\ m_sender \in [Msg -> Source \cup {NULL}] /\ m_message \in [Msg -> Word]
        /\ Mail(msgfree, inbox, tcbfree)
    BY MailIsConservation, NullNotTcb DEF CoreInv, TypeMail, MailInv
  <2>3. t \notin ToSet(tcbfree)
    BY <1>2 DEF Posts, Running, thereIsThread, CoreInv, QueuesOK, Partition
  <2>4. b \in {<<Head(msgfree)>> \o inbox[t], Append(inbox[t], Head(msgfree))} OBVIOUS
  <2> HIDE DEF b
  <2>5. /\ ToSet(b) = ToSet(inbox[t]) \cup {m} /\ m \in Msg
        /\ \A u \in Tcb : m \notin ToSet(inbox[u])
    BY <2>1, <2>2, <2>3, <2>4, PostMail
  <2> HIDE DEF m
  <2>6. ASSUME NEW x \in ToSet(inbox'[SSI_tcb]) PROVE Carries(m_sender'[x], m_message'[x])
    <3>1. CASE x = m
      <4>1. t = SSI_tcb BY <2>1, <2>2, <2>5, <2>6, <3>1
      <4> QED BY <2>1, <2>2, <2>5, <3>1, <4>1
    <3>2. CASE x # m
      <4>1. x \in ToSet(inbox[SSI_tcb]) BY <2>1, <2>2, <2>5, <2>6, <3>2
      <4>2. m_sender'[x] = m_sender[x] /\ m_message'[x] = m_message[x]
        BY <2>1, <2>2, <3>2, <4>1, SeqElements
      <4> QED BY <4>1, <4>2 DEF SsiMail
    <3> QED BY <3>1, <3>2
  <2> QED BY <2>6 DEF SsiMail, Carries
<1> QED BY <1>1, <1>2

\* Who is ready after a send().
LEMMA ReadyAfterSend ==
    ASSUME CoreInv, NEW s, NEW t \in Tcb
    PROVE  /\ readyAfterSend(s, t) \in Seq(Tcb)
           /\ ToSet(readyAfterSend(s, t)) = ToSet(ready_queue) \cup (IF Wakes(s, t) THEN {t} ELSE {})
<1>1. ready_queue \in Seq(Tcb) BY DEF CoreInv, QueuesOK, Partition
<1> QED BY <1>1, AppendLemma DEF readyAfterSend, insertThread

\* A send() that wakes the SSI hands it what the sender sends.
LEMMA HeldAfterSend ==
    ASSUME CoreInv, Held, NEW s, NEW t \in Tcb, NEW w, Deliver(s, t, w),
           v0'[SSI_tcb] = v0AfterSend(s, t)[SSI_tcb],
           t = SSI_tcb => Carries(Sender(s), w),
           (Running(SSI_tcb))' => Running(SSI_tcb) \/ (Wakes(s, t) /\ t = SSI_tcb)
    PROVE  Held'
<1>0. /\ SSI_tcb \in Tcb /\ received \in [Tcb -> Word]
      /\ v0 \in [Tcb -> Source \cup {NULL, MINUS1}]
  BY NullNotTcb DEF CoreInv, TypeTcb
<1>1. CASE Wakes(s, t) /\ t = SSI_tcb
  <2>1. v0'[SSI_tcb] = Sender(s) /\ received'[SSI_tcb] = w
    BY <1>0, <1>1 DEF v0AfterSend, Deliver
  <2> QED BY <1>1, <2>1 DEF Held, req_thread, req_struct
<1>2. CASE ~(Wakes(s, t) /\ t = SSI_tcb)
  <2>1. v0'[SSI_tcb] = v0[SSI_tcb] /\ received'[SSI_tcb] = received[SSI_tcb]
    BY <1>0, <1>2 DEF v0AfterSend, Deliver
  <2> QED BY <1>2, <2>1, HeldFrame
<1> QED BY <1>1, <1>2

\* freeMsg resets messages that the SSI does not have, or no longer.
LEMMA SsiMailFreed ==
    ASSUME CoreInv, SsiMail, NEW ms, freeMsg(ms),
           \A x \in ToSet(inbox'[SSI_tcb]) : x \in ToSet(inbox[SSI_tcb]) /\ x \notin ToSet(ms)
    PROVE  SsiMail'
<1> SUFFICES ASSUME NEW x \in ToSet(inbox'[SSI_tcb])
             PROVE  Carries(m_sender'[x], m_message'[x])
  BY DEF SsiMail, Carries
<1>1. x \in Msg BY NullNotTcb, SeqElements DEF CoreInv, TypeMail
<1>2. m_sender'[x] = m_sender[x] /\ m_message'[x] = m_message[x] BY <1>1 DEF freeMsg
<1> QED BY <1>2 DEF SsiMail

\* recv() takes a message from the inbox of the thread that is running.
LEMMA SsiMailTaken ==
    ASSUME CoreInv, MailInv, SsiMail, NEW a1, RecvReturns(a1)
    PROVE  SsiMail'
<1> DEFINE c == current_thread
<1>1. PICK i \in 1 .. Len(inbox[c]) :
          /\ freeMsg(<<inbox[c][i]>>)
          /\ inbox' = [inbox EXCEPT ![c] = RemoveAt(inbox[c], i)]
  BY DEF RecvReturns
<1>2. c \in Tcb /\ SSI_tcb \in Tcb /\ inbox \in [Tcb -> Seq(Msg)] /\ inbox[c] \in Seq(Msg)
  BY NullNotTcb DEF RecvReturns, InThread, CoreInv, CpuOwned, QueuesOK, Partition, TypeMail
<1>3. Distinct(inbox[c]) /\ (c # SSI_tcb => ToSet(inbox[c]) \cap ToSet(inbox[SSI_tcb]) = {})
  BY <1>2 DEF MailInv, MessageConservation
<1> HIDE DEF c
<1> DEFINE m == inbox[c][i]
           q == RemoveAt(inbox[c], i)
<1>4. ToSet(inbox[c]) = ToSet(q) \cup {m} /\ m \notin ToSet(q)
  BY <1>2, <1>3, RemoveAtLemma
<1>5. m \in Msg BY <1>2, <1>4, SeqElements
<1>6. ToSet(<<m>>) = {m} BY <1>5, OneLemma
<1>7. freeMsg(<<m>>) /\ inbox' = [inbox EXCEPT ![c] = q] BY <1>1
<1> HIDE DEF m, q
<1>8. ASSUME NEW x \in ToSet(inbox'[SSI_tcb]) PROVE x \in ToSet(inbox[SSI_tcb]) /\ x # m
  <2>1. CASE c = SSI_tcb BY <1>2, <1>4, <1>7, <1>8, <2>1
  <2>2. CASE c # SSI_tcb BY <1>2, <1>3, <1>4, <1>7, <1>8, <2>2
  <2> QED BY <2>1, <2>2
<1> QED BY <1>6, <1>7, <1>8, SsiMailFreed

\* A thread sends to threads anything, to the SSI requests.
LEMMA MailOfMsgSend ==
    ASSUME NucleusInv, SsiMail, NEW a1, NEW w, MsgSend(a1, w), current_thread \in User,
           a1 \in User \/ w \in Request
    PROVE  SsiMail' /\ (Held => Held')
<1> DEFINE s == current_thread
           t == Receiver(a1)
<1>0. /\ CoreInv /\ MailInv /\ MaySend(a1) /\ t \in Tcb /\ s \in Tcb /\ s # SSI_tcb
      /\ Sender(s) = s /\ Sending(s)
  BY ReceiverIsTcb DEF NucleusInv, MsgSend, TrapTerminate, TrapContinue, Send, SendFails, User,
                       Sender, Sending
<1>1. t = SSI_tcb => Carries(Sender(s), w)
  BY <1>0, NullNotTcb DEF Receiver, User, MAGIC_SSI, Carries
<1>2. CASE TrapTerminate(a1) \/ SendFails(a1, w)
  BY <1>2, SsiMailFrame, HeldFrame
  DEF TrapTerminate, Terminate, SendFails, Running, thereIsThread, tcbVars, mailVars, queueVars
<1>3. CASE TrapContinue(a1)
  <2>1. Decision(t) BY <1>3 DEF TrapContinue
  <2>2. t # SSI_tcb BY <1>0, <2>1, NullNotTcb DEF Decision, NucleusInv, SsiSound, ANYMESSAGE
  <2>3. ready_queue \in Seq(Tcb) BY <1>0 DEF CoreInv, QueuesOK, Partition
  <2>4. ready_queue' \in {ready_queue, Append(ready_queue, t)} /\ current_thread' = s
    BY <1>3 DEF TrapContinue, insertThread
  <2> HIDE DEF t
  <2>5. ToSet(ready_queue') \subseteq ToSet(ready_queue) \cup {t}
    <3>1. ToSet(Append(ready_queue, t)) = ToSet(ready_queue) \cup {t}
      BY <1>0, <2>3, AppendLemma
    <3> QED BY <2>4, <3>1
  <2>6. (Running(SSI_tcb))' => Running(SSI_tcb)
    BY <2>2, <2>4, <2>5 DEF Running, thereIsThread
  <2> QED BY <1>3, <2>6, SsiMailFrame, HeldFrame DEF TrapContinue, tcbVars, mailVars
<1>4. CASE Send(a1, w)
  <2>1. /\ Deliver(s, t, w) /\ ~SendPanics(s, t) /\ ready_queue' = readyAfterSend(s, t)
        /\ v0' = [v0AfterSend(s, t) EXCEPT ![s] = SendResult(s, t)] /\ current_thread' = s
    BY <1>4 DEF Send
  <2>2. v0AfterSend(s, t) \in [Tcb -> Source \cup {NULL, MINUS1}]
    BY <1>0, SendFields DEF CoreInv
  <2> HIDE DEF s, t
  <2>3. v0'[SSI_tcb] = v0AfterSend(s, t)[SSI_tcb] BY <1>0, <2>1, <2>2, NullNotTcb
  <2>4. (Running(SSI_tcb))' => Running(SSI_tcb) \/ (Wakes(s, t) /\ t = SSI_tcb)
    BY <1>0, <2>1, ReadyAfterSend DEF Running, thereIsThread, s
  <2>5. SsiMail' BY <1>0, <1>1, <2>1, SsiMailAfterSend
  <2> QED BY <1>0, <1>1, <2>1, <2>3, <2>4, <2>5, HeldAfterSend
<1> QED BY <1>2, <1>3, <1>4 DEF MsgSend

\* A thread that receives takes nothing from the SSI.
LEMMA MailOfMsgRecv ==
    ASSUME NucleusInv, SsiMail, NEW a1, MsgRecv(a1), current_thread \in User
    PROVE  SsiMail' /\ (Held => Held')
<1>0. /\ CoreInv /\ MailInv /\ current_thread \in Tcb /\ current_thread # SSI_tcb
      /\ SSI_tcb \in Tcb /\ received \in [Tcb -> Word]
      /\ v0 \in [Tcb -> Source \cup {NULL, MINUS1}]
  BY NullNotTcb DEF NucleusInv, User, CoreInv, TypeTcb
<1>1. CASE RecvReturns(a1)
  <2>1. SsiMail' BY <1>0, <1>1, SsiMailTaken
  <2>2. v0'[SSI_tcb] = v0[SSI_tcb] /\ received'[SSI_tcb] = received[SSI_tcb]
    BY <1>0, <1>1 DEF RecvReturns
  <2>3. (Running(SSI_tcb))' = Running(SSI_tcb)
    BY <1>1 DEF RecvReturns, queueVars, Running, thereIsThread
  <2> QED BY <2>1, <2>2, <2>3, HeldFrame
<1>2. CASE RecvBlocks(a1)
  <2>1. SsiMail' BY <1>2, SsiMailFrame DEF RecvBlocks, mailVars
  <2>2. v0'[SSI_tcb] = v0[SSI_tcb] /\ received'[SSI_tcb] = received[SSI_tcb]
    BY <1>0, <1>2 DEF RecvBlocks
  <2>3. (Running(SSI_tcb))' => Running(SSI_tcb)
    BY <1>0, <1>2, NullNotTcb DEF RecvBlocks, Running, thereIsThread
  <2> QED BY <2>1, <2>2, <2>3, HeldFrame
<1> QED BY <1>1, <1>2 DEF MsgRecv

\* The message about a trap goes to a manager, never to the SSI.
LEMMA MailOfTrap ==
    ASSUME NucleusInv, SsiMail, NEW k \in TrapKind, kpc \in {"thread", "fault"},
           current_thread \in User, PassUpOrDie(k)
    PROVE  SsiMail' /\ (Held => Held')
<1> DEFINE s == current_thread
           m == manager_thread[k][s]
<1>0. CoreInv /\ MailInv /\ s \in Tcb /\ s # SSI_tcb /\ Sending(s)
  BY DEF NucleusInv, User, Sending
<1>1. CASE m = NULL \/ SendFaults(s, m) \/ SendPanics(s, m)
  BY <1>1, SsiMailFrame, HeldFrame
  DEF PassUpOrDie, Terminate, Running, thereIsThread, tcbVars, mailVars, queueVars
<1>2. CASE m # NULL /\ ~SendFaults(s, m) /\ ~SendPanics(s, m)
  <2>1. m \in Tcb /\ m # SSI_tcb BY <1>0, <1>2 DEF NucleusInv, SsiApart, CoreInv, TypeRest
  <2>2. /\ Deliver(s, m, CAUSE) /\ ready_queue' = readyAfterSend(s, m)
        /\ v0' = v0AfterSend(s, m) /\ current_thread' = NULL
    BY <1>2 DEF PassUpOrDie
  <2> HIDE DEF s, m
  <2>3. (Running(SSI_tcb))' => Running(SSI_tcb)
    BY <1>0, <2>1, <2>2, ReadyAfterSend, NullNotTcb DEF Running, thereIsThread
  <2>4. SsiMail' BY <1>0, <1>2, <2>1, <2>2, SsiMailAfterSend
  <2> QED BY <1>0, <2>1, <2>2, <2>3, <2>4, HeldAfterSend
<1> QED BY <1>1, <1>2

\* The interrupt handler sends the SSI the tick, or a status in the name of a device.
LEMMA MailOfInterrupt ==
    ASSUME NucleusInv, SsiMail, NEW s \in Device \cup {BUS_INTERVALTIMER}, NEW w, Carries(s, w),
           NEW requeue \in BOOLEAN, requeue => current_thread # NULL,
           InterruptMessage(s, w, requeue)
    PROVE  SsiMail' /\ (Held => Held')
<1>0. /\ CoreInv /\ MailInv /\ SSI_tcb \in Tcb /\ Sending(s) /\ Sender(s) = s
      /\ current_thread \in Tcb \cup {NULL}
  BY NullNotTcb, WordAssumption DEF NucleusInv, Sending, Sender, CoreInv, QueuesOK, Partition
<1>1. /\ Deliver(s, SSI_tcb, w) /\ ~SendPanics(s, SSI_tcb)
      /\ v0' = v0AfterSend(s, SSI_tcb)
      /\ ready_queue' = IF requeue THEN Append(readyAfterSend(s, SSI_tcb), current_thread)
                        ELSE readyAfterSend(s, SSI_tcb)
      /\ current_thread' = IF requeue THEN NULL ELSE current_thread
  BY DEF InterruptMessage, InterruptPanics, insertThread
<1>2. SsiMail' BY <1>0, <1>1, SsiMailAfterSend
<1>3. (Running(SSI_tcb))' => Running(SSI_tcb) \/ Wakes(s, SSI_tcb)
  <2>1. CASE requeue
    <3>1. ToSet(ready_queue') = ToSet(readyAfterSend(s, SSI_tcb)) \cup {current_thread}
      BY <1>0, <1>1, <2>1, ReadyAfterSend, AppendLemma
    <3> QED BY <1>0, <1>1, <2>1, <3>1, ReadyAfterSend, NullNotTcb DEF Running, thereIsThread
  <2>2. CASE ~requeue
    BY <1>0, <1>1, <2>2, ReadyAfterSend DEF Running, thereIsThread
  <2> QED BY <2>1, <2>2
<1> QED BY <1>0, <1>1, <1>2, <1>3, HeldAfterSend

\* The other interrupts, the scheduler, terminate() and traps inside handlers.
LEMMA MailOfKernel ==
    ASSUME NucleusInv, SsiMail,
           SliceExpired \/ InterruptIgnored \/ InterruptPanic \/ KernelStep \/ Halted
    PROVE  SsiMail' /\ (Held => Held')
<1>0. /\ CoreInv /\ MailInv /\ SSI_tcb \in Tcb
      /\ tcbfree \in Seq(Tcb) /\ ready_queue \in Seq(Tcb) /\ victims \in Seq(Tcb)
      /\ inbox \in [Tcb -> Seq(Msg)] /\ current_thread \in Tcb \cup {NULL}
      /\ kpc = "terminate" => victims # <<>>
  BY NullNotTcb DEF NucleusInv, CoreInv, QueuesOK, Partition, TypeRest, TypeMail, CpuOwned
<1>1. CASE SliceExpired
  <2>1. current_thread # NULL /\ current_thread' = NULL
        /\ ready_queue' = Append(ready_queue, current_thread)
    BY <1>1 DEF SliceExpired, insertThread
  <2>2. ToSet(ready_queue') = ToSet(ready_queue) \cup {current_thread}
    BY <1>0, <2>1, AppendLemma
  <2>3. (Running(SSI_tcb))' => Running(SSI_tcb)
    BY <2>1, <2>2, NullNotTcb DEF Running, thereIsThread
  <2> QED BY <1>1, <2>3, SsiMailFrame, HeldFrame DEF SliceExpired, tcbVars, mailVars
<1>2. CASE InterruptIgnored \/ InterruptPanic \/ Halted \/ Reload \/ Idle \/ TerminateChild
             \/ TerminatePanic
  BY <1>2, SsiMailFrame, HeldFrame
  DEF InterruptIgnored, InterruptPanic, Halted, Reload, Idle, TerminateChild, TerminatePanic,
      Panic, Running, thereIsThread, vars, tcbVars, mailVars, queueVars
<1>3. CASE Dispatch
  <2>1. ready_queue # <<>> /\ current_thread' = Head(ready_queue)
        /\ ready_queue' = Tail(ready_queue)
    BY <1>3 DEF Dispatch
  <2>2. (Running(SSI_tcb))' => Running(SSI_tcb)
    BY <1>0, <2>1, TailLemma DEF Running, thereIsThread
  <2> QED BY <1>3, <2>2, SsiMailFrame, HeldFrame DEF Dispatch, tcbVars, mailVars
<1>4. CASE TerminateLeaf
  <2> DEFINE t == Head(victims)
  <2>1. /\ freeMsg(inbox[t]) /\ inbox' = [inbox EXCEPT ![t] = <<>>]
        /\ ready_queue' = outThread(ready_queue, t)
        /\ current_thread' = IF current_thread = t THEN NULL ELSE current_thread
        /\ UNCHANGED <<v0, received>> /\ victims # <<>>
    BY <1>0, <1>4 DEF TerminateLeaf, tcbVars
  <2>2. t \in Tcb BY <1>0, <2>1, TailLemma
  <2> HIDE DEF t
  <2>3. ToSet(<<>>) = {} BY EmptyLemma
  <2>4. ASSUME NEW x \in ToSet(inbox'[SSI_tcb])
        PROVE  x \in ToSet(inbox[SSI_tcb]) /\ x \notin ToSet(inbox[t])
    <3>1. CASE t = SSI_tcb BY <1>0, <2>1, <2>3, <2>4, <3>1
    <3>2. CASE t # SSI_tcb
      <4>1. inbox'[SSI_tcb] = inbox[SSI_tcb] BY <1>0, <2>1, <3>2
      <4>2. ToSet(inbox[t]) \cap ToSet(inbox[SSI_tcb]) = {}
        BY <1>0, <2>2, <3>2 DEF MailInv, MessageConservation
      <4> QED BY <2>4, <4>1, <4>2
    <3> QED BY <3>1, <3>2
  <2>5. SsiMail' BY <1>0, <2>1, <2>4, SsiMailFreed
  <2>6. (Running(SSI_tcb))' => Running(SSI_tcb)
    <3>1. /\ t \notin ToSet(ready_queue) => outThread(ready_queue, t) = ready_queue
          /\ t \in ToSet(ready_queue) =>
               ToSet(ready_queue) = ToSet(outThread(ready_queue, t)) \cup {t}
      BY <1>0, OutLemma
    <3> QED BY <2>1, <3>1, NullNotTcb DEF Running, thereIsThread
  <2> QED BY <2>1, <2>5, <2>6, HeldFrame
<1>5. CASE NestedTrap
  <2>1. current_thread \in User
    BY <1>5 DEF NestedTrap, NucleusInv, CoreInv, CpuOwned, QueuesOK, Partition, SsiSound, User
  <2> QED BY <1>5, <2>1, MailOfTrap, TrapKindAssumption DEF NestedTrap
<1> QED BY <1>1, <1>2, <1>3, <1>4, <1>5 DEF KernelStep, scheduler

\* The SSI's own MsgRecv returns a message of its inbox, or it waits.
LEMMA MailOfSsiRecv ==
    ASSUME NucleusInv, SsiMail, InSSI, MsgRecv(ANYMESSAGE)
    PROVE  SsiMail' /\ Held'
<1>0. /\ CoreInv /\ MailInv /\ current_thread = SSI_tcb /\ SSI_tcb \in Tcb
      /\ inbox \in [Tcb -> Seq(Msg)] /\ received \in [Tcb -> Word]
      /\ v0 \in [Tcb -> Source \cup {NULL, MINUS1}]
      /\ SSI_tcb \notin ToSet(ready_queue)
  BY NullNotTcb DEF NucleusInv, InSSI, CoreInv, QueuesOK, Partition, TypeTcb, TypeMail
<1>1. CASE RecvReturns(ANYMESSAGE)
  <2>1. PICK i \in 1 .. Len(inbox[SSI_tcb]) :
            /\ received' = [received EXCEPT ![SSI_tcb] = m_message[inbox[SSI_tcb][i]]]
            /\ v0' = [v0 EXCEPT ![SSI_tcb] = m_sender[inbox[SSI_tcb][i]]]
    BY <1>0, <1>1 DEF RecvReturns
  <2>2. inbox[SSI_tcb][i] \in ToSet(inbox[SSI_tcb])
    <3>1. inbox[SSI_tcb] \in Seq(Msg) BY <1>0
    <3> QED BY <3>1, RemoveAtLemma
  <2> DEFINE m == inbox[SSI_tcb][i]
  <2>3. v0'[SSI_tcb] = m_sender[m] /\ received'[SSI_tcb] = m_message[m] BY <1>0, <2>1
  <2>4. Carries(m_sender[m], m_message[m]) BY <2>2 DEF SsiMail
  <2>5. SsiMail' BY <1>0, <1>1, SsiMailTaken
  <2> HIDE DEF m
  <2> QED BY <2>3, <2>4, <2>5 DEF Held, req_thread, req_struct
<1>2. CASE RecvBlocks(ANYMESSAGE)
  <2>1. ~(Running(SSI_tcb))'
    BY <1>0, <1>2, NullNotTcb DEF RecvBlocks, Running, thereIsThread
  <2>2. SsiMail' BY <1>2, SsiMailFrame DEF RecvBlocks, mailVars
  <2> QED BY <2>1, <2>2 DEF Held
<1> QED BY <1>1, <1>2 DEF MsgRecv

\* The SSI sends itself nothing.
LEMMA MailOfSsiSend ==
    ASSUME NucleusInv, SsiMail, InSSI, NEW t, NEW w, SsiSend(t, w)
    PROVE  SsiMail'
<1>0. CoreInv /\ MailInv /\ current_thread = SSI_tcb /\ SSI_tcb \in Tcb
  BY NullNotTcb DEF NucleusInv, InSSI
<1>1. CASE SendFails(t, w) BY <1>1, SsiMailFrame DEF SendFails, mailVars
<1>2. CASE Send(t, w)
  <2>1. MaySend(t) BY <1>2 DEF Send
  <2>2. Receiver(t) = t /\ t \in Tcb /\ t # SSI_tcb
    BY <1>0, <2>1, NullNotTcb DEF MaySend, Receiver, User, MAGIC_SSI
  <2>3. Deliver(SSI_tcb, t, w) /\ ~SendPanics(SSI_tcb, t) BY <1>0, <1>2, <2>2 DEF Send
  <2> QED BY <1>0, <2>2, <2>3, SsiMailAfterSend DEF Sending
<1> QED BY <1>1, <1>2 DEF SsiSend

\* Nor do its services touch its mail: a new thread has an inbox of its own.
LEMMA MailOfService ==
    ASSUME NucleusInv, SsiMail, InSSI
    PROVE  /\ \A parent, managers, sibling : CreateThread(parent, managers, sibling) => SsiMail'
           /\ \A req, k, m : KillThread(req) \/ SpecManager(req, k, m) => SsiMail'
           /\ Trap("pgmtrap") \/ ServicePanic => SsiMail'
<1>1. ASSUME NEW parent, NEW managers, NEW sibling, CreateThread(parent, managers, sibling)
      PROVE  SsiMail'
  <2> DEFINE t == Head(tcbfree)
  <2>1. /\ inbox' = [inbox EXCEPT ![t] = <<>>] /\ UNCHANGED <<m_sender, m_message>>
        /\ tcbfree # <<>>
    BY <1>1 DEF CreateThread, allocTcb
  <2>2. t # SSI_tcb BY <2>1, FreshThread DEF NucleusInv, User
  <2> HIDE DEF t
  <2>3. inbox'[SSI_tcb] = inbox[SSI_tcb] BY <2>1, <2>2, NullNotTcb DEF NucleusInv, CoreInv, TypeMail
  <2> QED BY <2>1, <2>3 DEF SsiMail
<1>2. ASSUME NEW req, NEW k, NEW m, KillThread(req) \/ SpecManager(req, k, m) PROVE SsiMail'
  BY <1>2, SsiMailFrame DEF KillThread, Terminate, SpecManager, mailVars
<1>3. ASSUME Trap("pgmtrap") PROVE SsiMail'
  <2>1. manager_thread["pgmtrap"][current_thread] = NULL
    BY TrapKindAssumption DEF NucleusInv, SsiUnmanaged, InSSI
  <2> QED BY <1>3, <2>1, SsiMailFrame DEF Trap, PassUpOrDie, Terminate, mailVars
<1>4. ASSUME ServicePanic PROVE SsiMail'
  BY <1>4, SsiMailFrame DEF ServicePanic, Panic, mailVars
<1> QED BY <1>1, <1>2, <1>3, <1>4

----------------------------------------------------------------------------
(* The program of the SSI uses the nucleus as Nucleus allows *)

SsiServes == ssi.pc = "serve" => Held

ProgramInv == SystemTypeOK /\ SsiMail /\ SsiServes

\* A request names a service and an argument of that service.
LEMMA RequestFields ==
    ASSUME NEW r \in Request
    PROVE  /\ r.service \in Service /\ r.arg \in Arguments(r.service) /\ r \in Word
           /\ r.service \in DOMAIN Manages => r.arg \in User
           /\ r.service = "WAITFORIO" => r.arg \in Device \cup {BADDEVICE}
<1>1. PICK s \in Service : \E x \in Arguments(s) : r = [service |-> s, arg |-> x]
  BY DEF Request
<1>2. r.service = s /\ r.arg \in Arguments(s) BY <1>1
<1>3. r \in Word BY SystemWordAssumption
<1>4. s \in DOMAIN Manages => Arguments(s) = User BY DEF Arguments, Manages
<1>5. s = "WAITFORIO" => Arguments(s) = Device \cup {BADDEVICE} BY DEF Arguments, Manages
<1> QED BY <1>2, <1>3, <1>4, <1>5

\* The SSI serves a message that carries what its sender sends.
LEMMA Served ==
    ASSUME SsiServes, At("serve")
    PROVE  InSSI /\ Carries(req_thread, req_struct)
BY DEF SsiServes, At, InSSI, Held, Running

\* A request, when the sender is a thread,
LEMMA ServedRequest ==
    ASSUME SsiServes, NEW s, Serving(s)
    PROVE  /\ InSSI /\ req_thread \in User /\ Exists(req_thread)
           /\ req_struct \in Request /\ req_struct.service = s
<1>1. /\ InSSI /\ Carries(req_thread, req_struct) /\ req_thread \in User /\ Exists(req_thread)
      /\ req_struct.service = s
  BY Served DEF Serving
<1>2. req_struct \in Request BY <1>1, WordAssumption DEF Carries, User
<1> QED BY <1>1, <1>2

\* and the status of a device, when it says so.
LEMMA ServedInterrupt ==
    ASSUME SsiServes, At("serve"), req_struct.service = "INTERRUPT_MSG"
    PROVE  req_thread \in Device /\ req_struct.arg \in Status
<1>1. Carries(req_thread, req_struct) BY Served
<1>2. req_struct \notin Request BY RequestFields, ServiceAssumption
<1>3. req_struct # Tick BY DEF Tick
<1>4. req_thread \in Device /\ \E x \in Status : req_struct = DeviceMsg(x)
  BY <1>1, <1>2, <1>3 DEF Carries
<1> QED BY <1>4 DEF DeviceMsg

\* The words that the SSI and the interrupt handler send are words.
LEMMA SentWords ==
    /\ Tick \in Word /\ {TICK, CPUTIME, MINUS1, NULL, TRAPCONTINUE, CAUSE} \subseteq Word
    /\ User \subseteq Word /\ Status \subseteq Word /\ TRANSMITTED \in Word
    /\ \A x \in Status : DeviceMsg(x) \in Word /\ Masked(x) \in Word
<1>1. Status \subseteq Word /\ TRANSMITTED \in Word BY StatusAssumption
<1>2. \A x \in Status : Masked(x) \in Word BY <1>1 DEF Masked
<1> QED BY <1>1, <1>2, SystemWordAssumption, WordAssumption DEF Answer

\* Every send of the SSI is a MsgSend to a thread.
LEMMA SsiSendSimulates ==
    ASSUME InSSI, NEW t, NEW w \in Word, SsiSend(t, w)
    PROVE  ThreadStep
<1>1. MsgSend(t, w) BY DEF SsiSend, MsgSend
<1>2. MaySend(t) BY DEF SsiSend, Send, SendFails
<1>3. t \in User BY <1>2 DEF MaySend, InSSI
<1> QED BY <1>1, <1>3 DEF ThreadStep

\* Every step of the SSI's program is one that Nucleus allows the SSI.
LEMMA SsiSimulates ==
    ASSUME NucleusInv, ProgramInv, SsiStep
    PROVE  [Next]_vars
<1>0. SsiServes /\ ssi.word \in Word BY DEF ProgramInv, SystemTypeOK
<1>1. CASE SsiRecv BY <1>1 DEF SsiRecv, Next, ThreadStep
<1>2. CASE SsiReply \/ CreateNoGood
  BY <1>0, <1>2, SsiSendSimulates DEF SsiReply, CreateNoGood, At, Next
<1>3. CASE TickNext BY <1>3, SentWords, SsiSendSimulates DEF TickNext, At, Next
<1>4. CASE ServeTick \/ TickDone \/ ServeInterrupt \/ ServeDropped \/ ServeWaitForClock
             \/ ServeCreateFails \/ ServeGetCpuTime \/ ServeWaitForIO
  BY <1>4 DEF ServeTick, TickDone, ServeInterrupt, ServeDropped, ServeWaitForClock,
              ServeCreateFails, ServeGetCpuTime, ServeWaitForIO
<1>5. CASE ServeCreate
  <2>1. req_thread \in User BY <1>0, <1>5, ServedRequest DEF ServeCreate
  <2>2. CreateSon(req_thread) \/ CreateBrother(req_thread) BY <1>5 DEF ServeCreate
  <2> QED BY <2>1, <2>2 DEF Next, ServiceStep
<1>6. CASE CreateCrash BY <1>6, TrapKindAssumption DEF CreateCrash, Next, ThreadStep
<1>7. CASE ServeTerminate
  <2>1. req_thread \in User BY <1>0, <1>7, ServedRequest DEF ServeTerminate
  <2>2. KillThread(req_thread) BY <1>7 DEF ServeTerminate
  <2> QED BY <2>1, <2>2 DEF Next, ServiceStep
<1>8. CASE ServeSpecManager
  <2>1. PICK s \in DOMAIN Manages :
            Serving(s) /\ SpecManager(req_thread, Manages[s], req_struct.arg)
    BY <1>8 DEF ServeSpecManager
  <2>2. req_thread \in User /\ req_struct \in Request /\ req_struct.service = s
    BY <1>0, <2>1, ServedRequest
  <2>3. s \in Service /\ req_struct.arg \in User BY <2>1, <2>2, RequestFields
  <2>4. Manages[s] \in Managed BY <2>1, <2>3, ServiceAssumption
  <2> QED BY <2>1, <2>2, <2>3, <2>4 DEF Next, ServiceStep
<1>9. CASE ServeUnknown BY <1>9 DEF ServeUnknown, Next, ServiceStep
<1> QED BY <1>1, <1>2, <1>3, <1>4, <1>5, <1>6, <1>7, <1>8, <1>9, SMT DEF SsiStep

\* The machine interrupts, and the kernel goes on.
LEMMA MachineSimulates ==
    ASSUME DevTypeOK, SystemStep \/ DeviceStep
    PROVE  Interrupt \/ KernelStep \/ Halted
<1>1. CASE SystemStep
  BY <1>1, SentWords DEF SystemStep, TimerStep, ClockStep, Interrupt
<1>2. CASE DeviceServed
  <2>1. PICK d \in Subdevice : DeviceInterrupt(d, DeviceMsg(StatusRead(d)))
    BY <1>2 DEF DeviceServed
  <2>2. d \in Device BY <1>2, HandlerFindsDevice DEF DeviceServed
  <2>3. StatusRead(d) \in Status BY <2>2 DEF StatusRead, DevTypeOK, Status
  <2> QED BY <2>1, <2>2, <2>3, SentWords DEF Interrupt
<1>3. CASE DeviceIgnored BY <1>3 DEF DeviceIgnored, Interrupt
<1>4. CASE DevicePanic
  <2>1. PICK d \in Subdevice : Interruptible /\ InterruptPanics(d)
    BY <1>4 DEF DevicePanic
  <2>2. d \in Device /\ Panic BY <1>4, HandlerFindsDevice DEF DevicePanic
  <2> QED BY <2>1, <2>2 DEF Interrupt, InterruptPanic
<1> QED BY <1>1, <1>2, <1>3, <1>4 DEF DeviceStep

\* So are the steps of the other threads, of the machine and of the kernel.
LEMMA OthersSimulate ==
    ASSUME DevTypeOK, UserStep \/ SystemStep \/ DeviceStep \/ ControllerStep
    PROVE  [Next]_vars
<1>1. CASE UserStep
  <2>1. ASSUME NEW d, StartIO(d) PROVE UNCHANGED vars BY <2>1 DEF StartIO
  <2>2. ASSUME NEW r \in Request, Ask(r) PROVE Next
    <3>1. MsgSend(MAGIC_SSI, r) BY <2>2 DEF Ask, MsgSend
    <3> QED BY <3>1, RequestFields DEF Next, ThreadStep
  <2>3. CASE Collect BY <2>3 DEF Collect, Next, ThreadStep
  <2>4. CASE Talk BY <2>4, SentWords DEF Talk, Next, ThreadStep
  <2> QED BY <1>1, <2>1, <2>2, <2>3, <2>4 DEF UserStep
<1>2. CASE SystemStep \/ DeviceStep BY <1>2, MachineSimulates DEF Next
<1>3. CASE ControllerStep BY <1>3 DEF ControllerStep
<1> QED BY <1>1, <1>2, <1>3

----------------------------------------------------------------------------
(* The tables of the SSI *)

\* Where the SSI goes next.
LEMMA GoToTypes ==
    /\ \A pc \in SsiPc : GoTo(pc) => ssi' \in [pc : SsiPc, to : User \cup {NULL}, word : Word]
    /\ \A pc \in SsiPc, t \in User, w \in Word :
          GoToSend(pc, t, w) => ssi' \in [pc : SsiPc, to : User \cup {NULL}, word : Word]
BY SentWords DEF GoTo, GoToSend

\* The arrays keep their types through the SSI's program: an index that
\* rest_index has returned is in the arrays, an answer is a word, and
\* clockTcb_array, of MAXTHREADS entries, keeps the last one free.
LEMMA TypesSsi ==
    ASSUME NucleusInv, ProgramInv, SsiStep
    PROVE  SystemTypeOK'
<1> DEFINE SsiType == ssi' \in [pc : SsiPc, to : User \cup {NULL}, word : Word]
<1>0. /\ SsiServes /\ SystemTypeOK /\ DevTypeOK
      /\ clockTcb_array \in Seq(User) /\ Len(clockTcb_array) < MAXTHREADS
      /\ MAXTHREADS \in Nat
  BY NullNotTcb DEF ProgramInv, SystemTypeOK
<1>f. ASSUME SsiType, UNCHANGED <<clockTcb_array, ioVars, clientVars>> PROVE SystemTypeOK'
  BY <1>0, <1>f DEF SystemTypeOK, DevTypeOK, ioVars, clientVars, devVars
<1>1. CASE SsiRecv \/ ServeTick \/ TickDone \/ SsiReply \/ ServeDropped \/ CreateNoGood
             \/ ServeTerminate
  <2>1. SsiType
    BY <1>1, GoToTypes DEF SsiRecv, ServeTick, TickDone, SsiReply, ServeDropped, CreateNoGood,
                           ServeTerminate, SsiPc
  <2> QED BY <1>1, <1>f, <2>1 DEF SsiRecv, ServeTick, TickDone, SsiReply, ServeDropped,
                                  CreateNoGood, ServeTerminate
<1>2. CASE ServeCreateFails \/ ServeSpecManager \/ ServeGetCpuTime
  <2>1. req_thread \in User
    BY <1>0, <1>2, ServedRequest DEF ServeCreateFails, ServeSpecManager, ServeGetCpuTime
  <2>2. SsiType
    BY <1>2, <2>1, GoToTypes, SentWords
    DEF ServeCreateFails, ServeSpecManager, ServeGetCpuTime, SsiPc
  <2> QED BY <1>2, <1>f, <2>2 DEF ServeCreateFails, ServeSpecManager, ServeGetCpuTime
<1>3. CASE CreateCrash \/ ServeUnknown
  BY <1>0, <1>3 DEF CreateCrash, ServeUnknown, ssiVars, SystemTypeOK, DevTypeOK, ioVars,
                    clientVars, devVars
<1>4. CASE TickNext
  <2>1. /\ clockTcb_array # <<>> /\ clockTcb_array' = Tail(clockTcb_array)
        /\ UNCHANGED <<ssi, ioVars, clientVars>>
    BY <1>4 DEF TickNext
  <2>2. clockTcb_array' \in Seq(User) /\ Len(clockTcb_array') < MAXTHREADS
    BY <1>0, <2>1, TailLemma
  <2> QED BY <1>0, <2>1, <2>2 DEF SystemTypeOK, DevTypeOK, ioVars, clientVars, devVars
<1>5. CASE ServeWaitForClock
  <2>1. req_thread \in User BY <1>0, <1>5, ServedRequest DEF ServeWaitForClock
  <2>2. clockTcb_array' \in Seq(User) /\ Len(clockTcb_array') < MAXTHREADS
    <3>1. /\ Append(clockTcb_array, req_thread) \in Seq(User)
          /\ Len(Append(clockTcb_array, req_thread)) = Len(clockTcb_array) + 1
      BY <1>0, <2>1, AppendLemma
    <3>2. Len(clockTcb_array) \in Nat BY <1>0, LenProperties
    <3> QED BY <1>0, <1>5, <3>1, <3>2 DEF ServeWaitForClock
  <2>3. SsiType BY <1>5, GoToTypes DEF ServeWaitForClock, SsiPc
  <2> QED BY <1>0, <1>5, <2>2, <2>3 DEF ServeWaitForClock, SystemTypeOK, DevTypeOK, ioVars,
                                        clientVars, devVars
<1>6. CASE ServeCreate
  <2>1. req_thread \in User BY <1>0, <1>6, ServedRequest DEF ServeCreate
  <2>2. Head(tcbfree) \in User
    BY <1>6, FreshThread DEF ServeCreate, CreateSon, CreateBrother, CreateThread, NucleusInv
  <2>3. SsiType BY <1>6, <2>1, <2>2, GoToTypes, SentWords DEF ServeCreate, SsiPc
  <2> QED BY <1>0, <1>6, <2>3 DEF ServeCreate, SystemTypeOK, DevTypeOK, ioVars, devVars
<1>7. CASE ServeInterrupt
  <2> DEFINE n == rest_index(req_thread)
  <2>1. req_thread \in Device /\ req_struct.arg \in Status
    BY <1>0, <1>7, ServedInterrupt DEF ServeInterrupt
  <2>2. n \in Index BY <2>1 DEF Index
  <2>3. UNCHANGED <<clockTcb_array, clientVars>> BY <1>7 DEF ServeInterrupt
  <2>4. CASE devTcb_array[n] = NULL
    <3>1. /\ devStatus_array' = [devStatus_array EXCEPT ![n] = req_struct.arg]
          /\ devTcb_array' = devTcb_array /\ GoTo("recv")
      BY <1>7, <2>4 DEF ServeInterrupt
    <3>2. SsiType BY <3>1, GoToTypes DEF SsiPc
    <3> HIDE DEF n
    <3> QED BY <1>0, <2>1, <2>3, <3>1, <3>2 DEF SystemTypeOK, DevTypeOK, clientVars, devVars
  <2>5. CASE devTcb_array[n] # NULL
    <3>1. /\ devTcb_array' = [devTcb_array EXCEPT ![n] = NULL]
          /\ devStatus_array' = devStatus_array
          /\ GoToSend("reply", devTcb_array[n], Masked(req_struct.arg))
      BY <1>7, <2>5 DEF ServeInterrupt
    <3>2. devTcb_array[n] \in User BY <1>0, <2>2, <2>5 DEF SystemTypeOK
    <3> HIDE DEF n
    <3>3. SsiType BY <2>1, <3>1, <3>2, GoToTypes, SentWords DEF SsiPc
    <3> QED BY <1>0, <2>3, <3>1, <3>3 DEF SystemTypeOK, DevTypeOK, clientVars, devVars
  <2> QED BY <2>4, <2>5
<1>8. CASE ServeWaitForIO
  <2> DEFINE n == rest_index(req_struct.arg)
  <2>1. /\ req_thread \in User /\ req_struct \in Request /\ req_struct.service = "WAITFORIO"
        /\ n # -1
    BY <1>0, <1>8, ServedRequest DEF ServeWaitForIO
  <2>2. req_struct.arg \in Device BY <2>1, RequestFields, ServiceAssumption
  <2>3. n \in Index BY <2>2 DEF Index
  <2>4. UNCHANGED <<clockTcb_array, clientVars>> BY <1>8 DEF ServeWaitForIO
  <2>5. CASE devStatus_array[n] = NULL
    <3>1. /\ devTcb_array' = [devTcb_array EXCEPT ![n] = req_thread]
          /\ devStatus_array' = devStatus_array /\ GoTo("recv")
      BY <1>8, <2>5 DEF ServeWaitForIO
    <3>2. SsiType BY <3>1, GoToTypes DEF SsiPc
    <3> HIDE DEF n
    <3> QED BY <1>0, <2>1, <2>4, <3>1, <3>2 DEF SystemTypeOK, DevTypeOK, clientVars, devVars
  <2>6. CASE devStatus_array[n] # NULL
    <3>1. /\ devStatus_array' = [devStatus_array EXCEPT ![n] = NULL]
          /\ devTcb_array' = devTcb_array
          /\ GoToSend("reply", req_thread, devStatus_array[n])
      BY <1>8, <2>6 DEF ServeWaitForIO
    <3>2. devStatus_array[n] \in Status BY <1>0, <2>3, <2>6 DEF SystemTypeOK
    <3> HIDE DEF n
    <3>3. SsiType BY <2>1, <3>1, <3>2, GoToTypes, SentWords DEF SsiPc
    <3> QED BY <1>0, <2>4, <3>1, <3>3 DEF SystemTypeOK, DevTypeOK, clientVars, devVars
  <2> QED BY <2>5, <2>6
<1> QED BY <1>1, <1>2, <1>3, <1>4, <1>5, <1>6, <1>7, <1>8, SMT DEF SsiStep

\* So do the registers and what threads have started, whatever else happens.
LEMMA TypesOthers ==
    ASSUME NucleusInv, SystemTypeOK, UserStep \/ SystemStep \/ DeviceStep \/ ControllerStep
    PROVE  SystemTypeOK'
<1> USE DEF SystemTypeOK, DevTypeOK, ioVars, clientVars, devVars
<1>u. InUser => current_thread \in User
  BY DEF InUser, InThread, User, NucleusInv, CoreInv, CpuOwned, QueuesOK, Partition
<1>1. CASE UserStep
  <2>1. ASSUME NEW d \in Device, StartIO(d) PROVE SystemTypeOK'
    BY <1>u, <2>1 DEF StartIO, Start, Free, Status
  <2>2. ASSUME NEW r, Ask(r) PROVE SystemTypeOK'
    BY <1>u, <2>2 DEF Ask, Free
  <2>3. CASE Collect \/ Talk BY <2>3 DEF Collect, Talk, ssiVars
  <2> QED BY <1>1, <2>1, <2>2, <2>3 DEF UserStep
<1>2. CASE SystemStep BY <1>2 DEF SystemStep, ssiVars
<1>3. CASE DeviceStep
  <2>1. ASSUME NEW d, Acknowledge(d) PROVE DevTypeOK'
    BY <2>1 DEF Acknowledge, Status
  <2>2. DevTypeOK'
    BY <1>3, <2>1 DEF DeviceStep, DeviceServed, DeviceIgnored, DevicePanic
  <2> QED BY <1>3, <2>2 DEF DeviceStep
<1>4. CASE ControllerStep
  <2>1. PICK d \in Device : Complete(d) BY <1>4 DEF ControllerStep
  <2>2. PICK x \in {FAILED, IF IsTerminal(d) THEN CHARDONE ELSE READY} :
            reg' = [reg EXCEPT ![d] = x]
    BY <2>1 DEF Complete
  <2>3. x \in Status BY DEF Status
  <2> QED BY <1>4, <2>1, <2>2, <2>3 DEF ControllerStep, Complete
<1> QED BY <1>1, <1>2, <1>3, <1>4

\* The SSI's own steps keep its mail, and it serves what MsgRecv has returned.
LEMMA ServesSsi ==
    ASSUME NucleusInv, ProgramInv, SsiStep
    PROVE  SsiMail' /\ SsiServes'
<1>0. SsiMail /\ SsiServes BY DEF ProgramInv
<1>n. ASSUME ssi'.pc # "serve" PROVE SsiServes' BY <1>n DEF SsiServes
<1>g. ASSUME NEW pc, NEW t, NEW w, pc # "serve", GoTo(pc) \/ GoToSend(pc, t, w)
      PROVE  SsiServes'
  BY <1>n, <1>g DEF GoTo, GoToSend
<1>1. CASE SsiRecv
  <2>1. SsiMail' /\ Held' BY <1>0, <1>1, MailOfSsiRecv DEF SsiRecv, At
  <2> QED BY <2>1 DEF SsiServes
<1>2. CASE SsiReply \/ CreateNoGood
  <2>1. SsiMail' BY <1>0, <1>2, MailOfSsiSend DEF SsiReply, CreateNoGood, At
  <2>2. SsiServes' BY <1>g, <1>2 DEF SsiReply, CreateNoGood
  <2> QED BY <2>1, <2>2
<1>3. CASE TickNext
  <2>1. SsiMail' BY <1>0, <1>3, MailOfSsiSend DEF TickNext, At
  <2>2. SsiServes' BY <1>n, <1>3 DEF TickNext, At
  <2> QED BY <2>1, <2>2
<1>4. CASE ServeTick \/ TickDone \/ ServeDropped \/ ServeWaitForClock \/ ServeCreateFails
             \/ ServeGetCpuTime
  <2>1. UNCHANGED vars
    BY <1>4 DEF ServeTick, TickDone, ServeDropped, ServeWaitForClock, ServeCreateFails,
                ServeGetCpuTime
  <2>2. SsiMail' BY <1>0, <2>1, SsiMailFrame DEF vars, mailVars
  <2>3. SsiServes'
    BY <1>g, <1>4 DEF ServeTick, TickDone, ServeDropped, ServeWaitForClock, ServeCreateFails,
                      ServeGetCpuTime
  <2> QED BY <2>2, <2>3
<1>5. CASE ServeInterrupt \/ ServeWaitForIO
  <2>1. UNCHANGED vars BY <1>5 DEF ServeInterrupt, ServeWaitForIO
  <2>2. SsiMail' BY <1>0, <2>1, SsiMailFrame DEF vars, mailVars
  <2>3. GoTo("recv") \/ \E t, w : GoToSend("reply", t, w)
    BY <1>5 DEF ServeInterrupt, ServeWaitForIO
  <2> QED BY <1>g, <2>2, <2>3
<1>6. CASE ServeCreate \/ ServeTerminate \/ ServeSpecManager
  <2>1. InSSI
    BY <1>6 DEF ServeCreate, ServeTerminate, ServeSpecManager, Serving, At
  <2>2. SsiMail'
    BY <1>0, <1>6, <2>1, MailOfService
    DEF ServeCreate, CreateSon, CreateBrother, ServeTerminate, ServeSpecManager
  <2>3. SsiServes' BY <1>g, <1>6 DEF ServeCreate, ServeTerminate, ServeSpecManager
  <2> QED BY <2>2, <2>3
<1>7. CASE CreateCrash
  <2>1. SsiMail' BY <1>0, <1>7, MailOfService DEF CreateCrash, At
  <2> QED BY <1>n, <1>7, <2>1 DEF CreateCrash, At, ssiVars
<1>8. CASE ServeUnknown
  <2>1. Held' /\ SsiMail'
    BY <1>0, <1>8, HeldFrame, SsiMailFrame
    DEF ServeUnknown, Serving, At, SsiServes, ServicePanic, Panic, Running, thereIsThread,
        tcbVars, mailVars, queueVars
  <2> QED BY <2>1 DEF SsiServes
<1> QED BY <1>1, <1>2, <1>3, <1>4, <1>5, <1>6, <1>7, <1>8, SMT DEF SsiStep

\* Everybody else sends the SSI requests, ticks and statuses only.
LEMMA ServesOthers ==
    ASSUME NucleusInv, ProgramInv, UserStep \/ SystemStep \/ DeviceStep \/ ControllerStep
    PROVE  SsiMail' /\ SsiServes'
<1>0. SsiMail /\ SsiServes /\ DevTypeOK BY DEF ProgramInv, SystemTypeOK
<1>s. ASSUME SsiMail' /\ (Held => Held'), ssi' = ssi PROVE SsiMail' /\ SsiServes'
  BY <1>0, <1>s DEF SsiServes
<1>v. ASSUME UNCHANGED vars, ssi' = ssi PROVE SsiMail' /\ SsiServes'
  BY <1>0, <1>v, SsiMailFrame, HeldFrame
  DEF SsiServes, vars, mailVars, tcbVars, queueVars, Running, thereIsThread
<1>u. InUser => current_thread \in User /\ kpc = "thread"
  BY DEF InUser, InThread, User, NucleusInv, CoreInv, CpuOwned, QueuesOK, Partition
<1>1. CASE UserStep
  <2>1. ASSUME NEW d, StartIO(d) PROVE SsiMail' /\ SsiServes'
    BY <1>v, <2>1 DEF StartIO
  <2>2. ASSUME NEW r \in Request, Ask(r) PROVE SsiMail' /\ SsiServes'
    <3>1. MsgSend(MAGIC_SSI, r) /\ current_thread \in User /\ ssi' = ssi
      BY <1>u, <2>2 DEF Ask, Free, MsgSend
    <3> QED BY <1>0, <1>s, <3>1, MailOfMsgSend
  <2>3. CASE Collect
    BY <1>0, <1>s, <1>u, <2>3, MailOfMsgRecv DEF Collect
  <2>4. CASE Talk
    <3>1. current_thread \in User /\ kpc = "thread" /\ ssi' = ssi
      BY <1>u, <2>4 DEF Talk, Free, ssiVars
    <3>2. ASSUME NEW k \in TrapKind, Trap(k) PROVE SsiMail' /\ SsiServes'
      BY <1>0, <1>s, <3>1, <3>2, MailOfTrap DEF Trap
    <3>3. ASSUME NEW t \in User, NEW w, MsgSend(t, w) PROVE SsiMail' /\ SsiServes'
      BY <1>0, <1>s, <3>1, <3>3, MailOfMsgSend
    <3>4. ASSUME NEW t, MsgRecv(t) PROVE SsiMail' /\ SsiServes'
      BY <1>0, <1>s, <3>1, <3>4, MailOfMsgRecv
    <3> QED BY <2>4, <3>2, <3>3, <3>4 DEF Talk
  <2> QED BY <1>1, <2>1, <2>2, <2>3, <2>4 DEF UserStep
<1>2. CASE SystemStep
  <2>0. ssi' = ssi BY <1>2 DEF SystemStep, ssiVars
  <2>1. ASSUME NEW expired \in BOOLEAN, PseudoClockTick(Tick, expired)
        PROVE  SsiMail' /\ SsiServes'
    <3>1. Carries(BUS_INTERVALTIMER, Tick) BY DEF Carries
    <3> QED BY <1>0, <1>s, <2>0, <2>1, <3>1, MailOfInterrupt DEF PseudoClockTick
  <2>2. ASSUME SliceExpired \/ InterruptIgnored \/ InterruptPanic \/ KernelStep \/ Halted
        PROVE  SsiMail' /\ SsiServes'
    BY <1>0, <1>s, <2>0, <2>2, MailOfKernel
  <2> QED BY <1>2, <2>1, <2>2 DEF SystemStep, TimerStep, ClockStep
<1>3. CASE DeviceStep
  <2>0. ssi' = ssi BY <1>3 DEF DeviceStep
  <2>1. CASE DeviceServed
    <3>1. PICK d \in Subdevice : DeviceInterrupt(d, DeviceMsg(StatusRead(d)))
      BY <2>1 DEF DeviceServed
    <3>2. d \in Device BY <1>0, <2>1, HandlerFindsDevice DEF DeviceServed
    <3>3. StatusRead(d) \in Status BY <1>0, <3>2 DEF StatusRead, DevTypeOK, Status
    <3>4. Carries(d, DeviceMsg(StatusRead(d))) BY <3>2, <3>3 DEF Carries
    <3>5. InterruptMessage(d, DeviceMsg(StatusRead(d)), FALSE) BY <3>1 DEF DeviceInterrupt
    <3> QED BY <1>0, <1>s, <2>0, <3>2, <3>4, <3>5, MailOfInterrupt
  <2>2. CASE DeviceIgnored
    BY <1>0, <1>s, <2>0, <2>2, MailOfKernel DEF DeviceIgnored
  <2>3. CASE DevicePanic
    <3>1. UNCHANGED <<tcbVars, mailVars, queueVars>> BY <2>3 DEF DevicePanic, Panic
    <3> QED BY <1>0, <1>s, <2>0, <3>1, SsiMailFrame, HeldFrame
            DEF mailVars, tcbVars, queueVars, Running, thereIsThread
  <2> QED BY <1>3, <2>1, <2>2, <2>3 DEF DeviceStep
<1>4. CASE ControllerStep BY <1>v, <1>4 DEF ControllerStep
<1> QED BY <1>1, <1>2, <1>3, <1>4

----------------------------------------------------------------------------
(* A status and a thread waiting for it never meet *)

\* INTERRUPT_MSG stores a status only when nobody is registered, WAITFORIO
\* registers a thread only when no status is stored, on the same index.
LEMMA MeetsNext ==
    ASSUME NucleusInv, ProgramInv, StatusMeetsWaiter, SystemNext
    PROVE  StatusMeetsWaiter'
<1>f. ASSUME UNCHANGED ioVars PROVE StatusMeetsWaiter'
  BY <1>f DEF StatusMeetsWaiter, ioVars
<1>0. SystemTypeOK /\ SsiServes BY DEF ProgramInv
<1>1. CASE SsiStep
  <2>1. CASE ServeInterrupt
    <3> DEFINE n == rest_index(req_thread)
    <3>1. n \in Index
      BY <1>0, <2>1, ServedInterrupt DEF ServeInterrupt, Index
    <3>2. \/ /\ devTcb_array[n] = NULL /\ devTcb_array' = devTcb_array
             /\ devStatus_array' = [devStatus_array EXCEPT ![n] = req_struct.arg]
          \/ /\ devStatus_array' = devStatus_array
             /\ devTcb_array' = [devTcb_array EXCEPT ![n] = NULL]
      BY <2>1 DEF ServeInterrupt
    <3> HIDE DEF n
    <3> QED BY <1>0, <3>1, <3>2 DEF StatusMeetsWaiter, SystemTypeOK
  <2>2. CASE ServeWaitForIO
    <3> DEFINE n == rest_index(req_struct.arg)
    <3>1. \/ /\ devStatus_array[n] = NULL /\ devStatus_array' = devStatus_array
             /\ devTcb_array' = [devTcb_array EXCEPT ![n] = req_thread]
          \/ /\ devTcb_array' = devTcb_array
             /\ devStatus_array' = [devStatus_array EXCEPT ![n] = NULL]
      BY <2>2 DEF ServeWaitForIO
    <3> HIDE DEF n
    <3> QED BY <1>0, <3>1 DEF StatusMeetsWaiter, SystemTypeOK
  <2>3. CASE ~ServeInterrupt /\ ~ServeWaitForIO
    <3>1. UNCHANGED ioVars
      BY <1>1, <2>3, SMT
      DEF SsiStep, SsiRecv, SsiReply, ServeTick, TickNext, TickDone, ServeDropped,
          ServeWaitForClock, ServeCreate, ServeCreateFails, CreateNoGood, CreateCrash,
          ServeTerminate, ServeSpecManager, ServeGetCpuTime, ServeUnknown, ssiVars
    <3> QED BY <1>f, <3>1
  <2> QED BY <2>1, <2>2, <2>3
<1>2. CASE UserStep \/ SystemStep \/ DeviceStep \/ ControllerStep
  <2>1. UNCHANGED ioVars
    BY <1>2 DEF UserStep, StartIO, Ask, Collect, Talk, SystemStep, DeviceStep, ControllerStep,
                ssiVars
  <2> QED BY <1>f, <2>1
<1> QED BY <1>1, <1>2 DEF SystemNext

----------------------------------------------------------------------------
(* The SSI lives *)

\* The SSI is no victim, unless the allocation of a thread has failed.
SsiLives == SsiSafe \/ ssi.pc = "crash"

\* The SSI's program traps only in "crash", which it never leaves, and no
\* other step of its own makes it a victim.
LEMMA LivesNext ==
    ASSUME NucleusInv, ProgramInv, SsiLives, SystemNext
    PROVE  SsiLives'
<1>0. SsiServes /\ [Next]_vars
  BY SsiSimulates, OthersSimulate DEF ProgramInv, SystemTypeOK, SystemNext
<1>1. CASE ssi.pc = "crash"
  <2>1. CASE SsiStep
    <3>1. ssi' = ssi
      BY <1>1, <2>1, SMT
      DEF SsiStep, SsiRecv, SsiReply, ServeTick, TickNext, TickDone, ServeInterrupt,
          ServeDropped, ServeWaitForClock, ServeCreate, ServeCreateFails, CreateNoGood,
          CreateCrash, ServeTerminate, ServeSpecManager, ServeGetCpuTime, ServeWaitForIO,
          ServeUnknown, Serving, At, ssiVars
    <3> QED BY <1>1, <3>1 DEF SsiLives
  <2>2. CASE UserStep \/ SystemStep \/ DeviceStep \/ ControllerStep
    <3>1. ssi' = ssi
      BY <2>2 DEF UserStep, StartIO, Ask, Collect, Talk, SystemStep, DeviceStep,
                  ControllerStep, ssiVars
    <3> QED BY <1>1, <3>1 DEF SsiLives
  <2> QED BY <2>1, <2>2 DEF SystemNext
<1>2. CASE ssi.pc # "crash"
  <2>1. SsiSafe BY <1>2 DEF SsiLives
  <2>2. ~(InSSI /\ victims' = <<SSI_tcb>>)
    <3> SUFFICES ASSUME InSSI PROVE victims' # <<SSI_tcb>> OBVIOUS
    <3>0. current_thread = SSI_tcb /\ kpc = "thread" /\ victims = <<>>
      BY DEF InSSI, InThread, NucleusInv, TreeInv, NoFrames, Stopped
    <3>f. ASSUME UNCHANGED victims PROVE victims' # <<SSI_tcb>> BY <3>0, <3>f
    <3>1. CASE SsiStep
      <4>1. CASE ServeTerminate
        <5>1. KillThread(req_thread) /\ req_thread \in User
          BY <1>0, <4>1, ServedRequest DEF ServeTerminate
        <5>2. victims' = <<req_thread>> /\ req_thread # SSI_tcb
          BY <5>1 DEF KillThread, Terminate, User
        <5> QED BY <5>2
      <4>2. CASE SsiRecv \/ SsiReply \/ TickNext \/ CreateNoGood
        BY <3>f, <4>2 DEF SsiRecv, SsiReply, TickNext, CreateNoGood, MsgRecv, RecvReturns,
                          RecvBlocks, SsiSend, Send, SendFails
      <4>3. CASE ServeCreate \/ ServeSpecManager \/ ServeUnknown
        BY <3>f, <4>3 DEF ServeCreate, CreateSon, CreateBrother, CreateThread, ServeSpecManager,
                          SpecManager, ServeUnknown, ServicePanic, Panic, controlVars
      <4>4. CASE ServeTick \/ TickDone \/ ServeInterrupt \/ ServeDropped \/ ServeWaitForClock
                   \/ ServeCreateFails \/ ServeGetCpuTime \/ ServeWaitForIO
        BY <3>f, <4>4 DEF ServeTick, TickDone, ServeInterrupt, ServeDropped, ServeWaitForClock,
                          ServeCreateFails, ServeGetCpuTime, ServeWaitForIO, vars, controlVars
      <4>5. ~CreateCrash BY <1>2 DEF CreateCrash, At
      <4> QED BY <3>1, <4>1, <4>2, <4>3, <4>4, <4>5, SMT DEF SsiStep
    <3>2. ~UserStep
      BY <3>0 DEF UserStep, StartIO, Ask, Collect, Talk, Free, InUser
    <3>3. CASE SystemStep \/ DeviceStep \/ ControllerStep
      <4>1. UNCHANGED victims
        BY <3>0, <3>3
        DEF SystemStep, TimerStep, ClockStep, PseudoClockTick, InterruptMessage, SliceExpired,
            InterruptIgnored, InterruptPanic, KernelStep, scheduler, Dispatch, Reload, Idle,
            TerminateChild, TerminateLeaf, TerminatePanic, NestedTrap, Halted, Stopped, Panic,
            DeviceStep, DeviceServed, DeviceInterrupt, DeviceIgnored, DevicePanic,
            ControllerStep, vars, controlVars
      <4> QED BY <3>f, <4>1
    <3> QED BY <3>1, <3>2, <3>3 DEF SystemNext
  <2> QED BY <1>0, <2>1, <2>2, SsiDiesOfItself DEF SsiLives
<1> QED BY <1>1, <1>2

----------------------------------------------------------------------------
(* The theorems *)

SystemInv == NucleusInv /\ ProgramInv /\ StatusMeetsWaiter /\ SsiLives

\* The invariant of the closed system holds after boot,
LEMMA InitSystem == SystemInit => SystemInv
<1> SUFFICES ASSUME SystemInit PROVE SystemInv OBVIOUS
<1>0. Init BY DEF SystemInit
<1>1. ToSet(<<>>) = {} /\ Len(<<>>) = 0 /\ <<>> \in Seq(User) BY EmptyLemma
<1>2. SystemTypeOK
  BY <1>1, SentWords, ThreadArrayAssumption
  DEF SystemInit, SystemTypeOK, SsiPc, DevInit, DevTypeOK, Status, MAXTHREADS
<1>3. SsiMail BY <1>0, <1>1, NullNotTcb DEF Init, SsiMail
<1>4. SsiServes BY DEF SystemInit, SsiServes
<1>5. StatusMeetsWaiter BY DEF SystemInit, StatusMeetsWaiter
<1>6. SsiLives
  <2>1. CoreInv /\ SSI_tcb \in ToSet(ready_queue)
    <3>1. ready_queue = <<SSI_tcb, TEST_tcb>> BY <1>0 DEF Init
    <3>2. SSI_tcb \in ToSet(ready_queue) BY <3>1 DEF ToSet
    <3> QED BY <1>0, <3>2, InitCore
  <2>2. SSI_tcb \notin ToSet(tcbfree) BY <2>1 DEF CoreInv, QueuesOK, Partition
  <2>3. ToSet(victims) = {} BY <1>0, <1>1 DEF Init
  <2> QED BY <2>2, <2>3 DEF SsiLives, SsiSafe
<1> QED BY <1>0, <1>2, <1>3, <1>4, <1>5, <1>6, InitNucleus DEF SystemInv, ProgramInv

\* every step of the closed system keeps it and is a step of the nucleus.
LEMMA SystemStepKeeps == SystemInv /\ [SystemNext]_sysVars => SystemInv' /\ [Next]_vars
<1> SUFFICES ASSUME SystemInv, [SystemNext]_sysVars PROVE SystemInv' /\ [Next]_vars
  OBVIOUS
<1>1. CASE SystemNext
  <2>1. [Next]_vars
    BY <1>1, SsiSimulates, OthersSimulate
    DEF SystemInv, ProgramInv, SystemTypeOK, SystemNext
  <2>2. NucleusInv' BY <2>1, NucleusNext DEF SystemInv
  <2>3. ProgramInv'
    BY <1>1, TypesSsi, TypesOthers, ServesSsi, ServesOthers
    DEF SystemInv, ProgramInv, SystemNext
  <2> QED BY <1>1, <2>1, <2>2, <2>3, MeetsNext, LivesNext DEF SystemInv
<1>2. CASE UNCHANGED sysVars
  <2>1. UNCHANGED vars /\ UNCHANGED ssiVars BY <1>2 DEF sysVars
  <2>2. NucleusInv' BY <2>1, NucleusNext DEF SystemInv
  <2>3. UNCHANGED <<inbox, m_sender, m_message, v0, received, ready_queue, current_thread,
                    tcbfree, victims>>
    BY <2>1 DEF vars, tcbVars, mailVars, queueVars, controlVars
  <2>4. SsiMail' BY <2>3, SsiMailFrame DEF SystemInv, ProgramInv
  <2>5. Held => Held' BY <2>3, HeldFrame DEF Running, thereIsThread
  <2>6. UNCHANGED <<ssi, clockTcb_array, devTcb_array, devStatus_array, sent, driving, reg,
                    pending>>
    BY <2>1 DEF ssiVars, ioVars, clientVars, devVars
  <2>7. ProgramInv'
    BY <2>4, <2>5, <2>6 DEF SystemInv, ProgramInv, SystemTypeOK, DevTypeOK, SsiServes
  <2> QED BY <2>1, <2>2, <2>3, <2>6, <2>7 DEF SystemInv, StatusMeetsWaiter, SsiLives, SsiSafe
<1> QED BY <1>1, <1>2

\* So it always holds.
LEMMA SystemInvariant == SystemSpec => []SystemInv
<1>1. SystemInv /\ [SystemNext]_sysVars => SystemInv' BY SystemStepKeeps
<1> QED BY <1>1, InitSystem, PTL DEF SystemSpec

\* The SSI with its program, the threads that call SSIRequest and the devices
\* are clients that Nucleus allows: whatever is true of every behaviour of
\* the nucleus is true of the closed system.
THEOREM SystemRefinesNucleus == SystemSpec => NucleusSpec
<1>1. SystemInit => Init BY DEF SystemInit
<1>2. SystemInv /\ [SystemNext]_sysVars => [Next]_vars BY SystemStepKeeps
<1> QED BY <1>1, <1>2, SystemInvariant, PTL DEF SystemSpec, NucleusSpec, Spec

\* The arrays of the SSI hold threads and statuses at the indices of installed
\* devices, and clockTcb_array never loses the free entry that ends it.
THEOREM SystemTypeCorrect == SystemSpec => []SystemTypeOK
<1>1. SystemInv => SystemTypeOK BY DEF SystemInv, ProgramInv
<1> QED BY <1>1, SystemInvariant, PTL

\* In whatever order WAITFORIO and the interrupts of any number of devices
\* come, no index has both an unread status and a thread waiting for one.
THEOREM StatusAlwaysMeetsWaiter == SystemSpec => []StatusMeetsWaiter
<1>1. SystemInv => StatusMeetsWaiter BY DEF SystemInv
<1> QED BY <1>1, SystemInvariant, PTL

\* The SSI dies only of the NULL that allocTcb returns when no TCB is free:
\* no trap manager, no thread tree and no faulting send() reaches it.
THEOREM SsiDiesOnlyOfCrash == SystemSpec => []SsiOnlyCrashes
<1>1. SystemInv => SsiOnlyCrashes
  BY DEF SystemInv, SsiLives, SsiSafe, SsiOnlyCrashes, SsiAlive
<1> QED BY <1>1, SystemInvariant, PTL

----------------------------------------------------------------------------
(* No request is forgotten                                                 *)
(*                                                                         *)
(* A thread is owed an answer from the MsgSend of SSIRequest to the end of *)
(* its MsgRecv.  All along it has a claim: its message is in the inbox of  *)
(* the SSI, or the SSI serves it or has registered it for an event, or the *)
(* answer is in its own inbox.  Only two steps of the SSI can take a claim *)
(* away: registering a thread in a table that has no room for it.          *)

\* A message of s is in the inbox of t.
HasMail(t, s) == \E m \in ToSet(inbox[t]) : m_sender[m] = s

\* The SSI has the request of t in its hands, or the answer to it.
BeingServed(t) ==
    \/ ssi.pc = "serve" /\ req_thread = t
    \/ ssi.pc \in {"reply", "nogood"} /\ ssi.to = t

\* t is to be answered at a tick or at an interrupt.
Registered(t) == t \in ToSet(clockTcb_array) \/ \E i \in Index : devTcb_array[i] = t

Noted(t) == BeingServed(t) \/ Registered(t)

\* What keeps a thread from being forgotten.
Claim(t) == HasMail(SSI_tcb, t) \/ Noted(t) \/ HasMail(t, MAGIC_SSI)

\* t is in SSIRequest after its MsgSend, and terminate() has not reached it.
Owed(t) ==
    /\ t \notin ToSet(victims)
    /\ AwaitsSsi(t) \/ (t \in sent /\ t \notin ToSet(tcbfree))

\* WAITFORCLOCK with clockTcb_array full, where the code drops the request,
\* and WAITFORIO for a device that another request waits for, whose thread
\* the code overwrites.
Forgets ==
    \/ ServeWaitForClock /\ Len(clockTcb_array) = MAXTHREADS - 1
    \/ ServeWaitForIO /\ devTcb_array[rest_index(req_struct.arg)] # NULL

\* Who is owed an answer has a claim to it.
ClaimsKept == SsiAlive => \A t \in User : Owed(t) => Claim(t)

\* A thread between the two calls of SSIRequest neither waits nor has a
\* faulting store to execute again.
SentApart ==
    /\ sent \cap (ToSet(wait_queue) \cup nested) = {}
    /\ kpc = "fault" => current_thread \notin sent
    /\ kpc = "thread" => current_thread \notin nested \ {SSI_tcb}

\* The SSI waits only in the MsgRecv at the head of its loop, with nothing
\* in its hands.
SsiWaits == SSI_tcb \in ToSet(wait_queue) => ssi.pc = "serve" /\ req_thread = NULL

\* What a step does to the threads that wait and to the mail, if at most the
\* threads of S trap or receive from others than the SSI: nobody begins to wait
\* for an answer of the SSI,
NobodyAsks(S) ==
    \A t \in ToSet(wait_queue') :
        \/ t \in ToSet(wait_queue) /\ waiting_for'[t] = waiting_for[t]
        \/ t \in S /\ waiting_for'[t] # MAGIC_SSI

\* no message leaves the inbox of a thread outside S,
MailKept(S) ==
    \A t \in Tcb \ (S \cup ToSet(tcbfree')) : \A s : HasMail(t, s) => HasMail(t, s)'

\* and the SSI keeps the sender of its message unless send() wakes it.
RegisterKept ==
    \/ v0'[SSI_tcb] = v0[SSI_tcb]
    \/ SSI_tcb \in ToSet(wait_queue) /\ SSI_tcb \notin ToSet(wait_queue')

Calm(S) == NobodyAsks(S) /\ MailKept(S) /\ RegisterKept

\* Steps that leave the mail, or the threads that wait, alone.
LEMMA MailKeptFrame ==
    ASSUME UNCHANGED <<inbox, m_sender>>
    PROVE  MailKept({})
BY DEF MailKept, HasMail

LEMMA NobodyAsksFrame ==
    ASSUME UNCHANGED <<wait_queue, waiting_for>>
    PROVE  NobodyAsks({})
BY DEF NobodyAsks

\* A message that send() posts is in the inbox of its recipient, and no
\* other message leaves an inbox.
LEMMA DeliverKeeps ==
    ASSUME CoreInv, MailInv, NEW s, NEW t \in Tcb, NEW w, Sending(s),
           ~SendPanics(s, t), Deliver(s, t, w)
    PROVE  /\ MailKept({})
           /\ Posts(s, t) => \E m \in ToSet(inbox'[t]) : m_sender'[m] = Sender(s)
<1>1. CASE ~Posts(s, t) BY <1>1, MailKeptFrame DEF Deliver, mailVars
<1>2. CASE Posts(s, t)
  <2> DEFINE m == Head(msgfree)
             b == IF s = BUS_INTERVALTIMER THEN <<m>> \o inbox[t] ELSE Append(inbox[t], m)
  <2>1. /\ inbox' = [inbox EXCEPT ![t] = b]
        /\ m_sender' = [m_sender EXCEPT ![m] = Sender(s)]
        /\ msgfree # <<>>
    BY <1>2 DEF Deliver, SendPanics
  <2>2. /\ msgfree \in Seq(Msg) /\ inbox \in [Tcb -> Seq(Msg)]
        /\ m_sender \in [Msg -> Source \cup {NULL}]
        /\ Mail(msgfree, inbox, tcbfree)
    BY MailIsConservation DEF CoreInv, TypeMail, MailInv
  <2>3. t \notin ToSet(tcbfree)
    BY <1>2 DEF Posts, Running, thereIsThread, CoreInv, QueuesOK, Partition
  <2>4. b \in {<<Head(msgfree)>> \o inbox[t], Append(inbox[t], Head(msgfree))} OBVIOUS
  <2> HIDE DEF b
  <2>5. /\ ToSet(b) = ToSet(inbox[t]) \cup {m} /\ m \in Msg
        /\ \A u \in Tcb : m \notin ToSet(inbox[u])
    BY <2>1, <2>2, <2>3, <2>4, PostMail
  <2> HIDE DEF m
  <2>6. ASSUME NEW u \in Tcb, NEW x \in ToSet(inbox[u])
        PROVE  x \in ToSet(inbox'[u]) /\ m_sender'[x] = m_sender[x]
    <3>1. x # m /\ x \in Msg BY <2>2, <2>5, <2>6, SeqElements
    <3>2. x \in ToSet(inbox'[u]) BY <2>1, <2>2, <2>5, <2>6
    <3> QED BY <2>1, <2>2, <3>1, <3>2
  <2>7. m \in ToSet(inbox'[t]) /\ m_sender'[m] = Sender(s) BY <2>1, <2>2, <2>5
  <2> QED BY <2>6, <2>7 DEF MailKept, HasMail
<1> QED BY <1>1, <1>2

\* The thread that send() wakes leaves the wait queue; the others wait as before.
LEMMA WaitingAfterSend ==
    ASSUME CoreInv, NEW s, NEW t \in Tcb, NEW u \in ToSet(waitAfterSend(s, t))
    PROVE  /\ u \in ToSet(wait_queue) /\ waitingAfterSend(s, t)[u] = waiting_for[u]
           /\ Wakes(s, t) => u # t
<1>1. /\ wait_queue \in Seq(Tcb) /\ Distinct(wait_queue)
      /\ waiting_for \in [Tcb -> Tcb \cup {ANYMESSAGE, MAGIC_SSI}]
  BY DEF CoreInv, QueuesOK, Partition, TypeTcb
<1>2. CASE Wakes(s, t)
  <2>1. u \in ToSet(outThread(wait_queue, t)) BY <1>2 DEF waitAfterSend
  <2>2. u # t /\ u \in ToSet(wait_queue) BY <1>1, <2>1, OutLemma
  <2>3. waitingAfterSend(s, t)[u] = waiting_for[u]
    <3>1. u \in Tcb BY <1>1, <2>2, SeqElements
    <3> QED BY <1>1, <2>2, <3>1 DEF waitingAfterSend
  <2> QED BY <2>2, <2>3
<1>3. CASE ~Wakes(s, t) BY <1>3 DEF waitAfterSend, waitingAfterSend
<1> QED BY <1>2, <1>3

\* The register v0 of the SSI changes only when send() wakes it.
LEMMA RegisterAfterSend ==
    ASSUME CoreInv, NEW s, NEW t \in Tcb, v0'[SSI_tcb] = v0AfterSend(s, t)[SSI_tcb],
           t = SSI_tcb => wait_queue' = waitAfterSend(s, t)
    PROVE  RegisterKept
<1>0. SSI_tcb \in Tcb /\ v0 \in [Tcb -> Source \cup {NULL, MINUS1}]
  BY NullNotTcb DEF CoreInv, TypeTcb
<1>1. CASE Wakes(s, t) /\ t = SSI_tcb
  <2>1. SSI_tcb \in ToSet(wait_queue) BY <1>1 DEF Wakes, thereIsThread
  <2>2. SSI_tcb \notin ToSet(wait_queue') BY <1>1, WaitingAfterSend
  <2> QED BY <2>1, <2>2 DEF RegisterKept
<1>2. CASE ~(Wakes(s, t) /\ t = SSI_tcb)
  BY <1>0, <1>2 DEF v0AfterSend, RegisterKept
<1> QED BY <1>1, <1>2

\* MsgSend is calm: nobody begins to wait, and no message is lost.
LEMMA CalmMsgSend ==
    ASSUME NucleusInv, NEW a1, NEW w, MsgSend(a1, w)
    PROVE  NobodyAsks({}) /\ MailKept({}) /\ (current_thread # SSI_tcb => RegisterKept)
<1> DEFINE s == current_thread
           t == Receiver(a1)
<1>0. /\ CoreInv /\ MailInv /\ t \in Tcb /\ s \in Tcb /\ Sending(s) /\ SSI_tcb \in Tcb
      /\ wait_queue \in Seq(Tcb)
  BY ReceiverIsTcb, NullNotTcb
  DEF NucleusInv, MsgSend, TrapTerminate, TrapContinue, Send, SendFails, InThread, CoreInv,
      CpuOwned, QueuesOK, Partition, Sending
<1>1. CASE TrapTerminate(a1) \/ SendFails(a1, w)
  BY <1>1, MailKeptFrame, NobodyAsksFrame
  DEF TrapTerminate, Terminate, SendFails, tcbVars, mailVars, queueVars, RegisterKept
<1>2. CASE TrapContinue(a1)
  <2>1. /\ wait_queue' \in {wait_queue, outThread(wait_queue, t)}
        /\ UNCHANGED <<waiting_for, v0, inbox, m_sender>>
    BY <1>2 DEF TrapContinue, tcbVars, mailVars
  <2> HIDE DEF t
  <2>2. ToSet(wait_queue') \subseteq ToSet(wait_queue)
    BY <1>0, <2>1, OutLemma
  <2> QED BY <2>1, <2>2, MailKeptFrame DEF NobodyAsks, RegisterKept
<1>3. CASE Send(a1, w)
  <2>1. /\ Deliver(s, t, w) /\ ~SendPanics(s, t)
        /\ wait_queue' = waitAfterSend(s, t) /\ waiting_for' = waitingAfterSend(s, t)
        /\ v0' = [v0AfterSend(s, t) EXCEPT ![s] = SendResult(s, t)]
    BY <1>3 DEF Send
  <2>2. v0AfterSend(s, t) \in [Tcb -> Source \cup {NULL, MINUS1}]
    BY <1>0, SendFields DEF CoreInv
  <2> HIDE DEF s, t
  <2>3. s # SSI_tcb => v0'[SSI_tcb] = v0AfterSend(s, t)[SSI_tcb] BY <1>0, <2>1, <2>2
  <2>4. NobodyAsks({}) BY <1>0, <2>1, WaitingAfterSend DEF NobodyAsks
  <2>5. s # SSI_tcb => RegisterKept BY <1>0, <2>1, <2>3, RegisterAfterSend
  <2>6. MailKept({}) BY <1>0, <2>1, DeliverKeeps
  <2> QED BY <2>4, <2>5, <2>6 DEF s
<1> QED BY <1>1, <1>2, <1>3 DEF MsgSend

\* A trap makes a thread wait for its manager, or ends it.
LEMMA CalmPassUpOrDie ==
    ASSUME NucleusInv, NEW k \in TrapKind, kpc \in {"thread", "fault"}, PassUpOrDie(k)
    PROVE  Calm(User \cap {current_thread})
<1> DEFINE s == current_thread
           m == manager_thread[k][s]
<1>0. /\ CoreInv /\ MailInv /\ s \in Tcb /\ Sending(s) /\ m \in Tcb \cup {NULL}
      /\ wait_queue \in Seq(Tcb)
      /\ waiting_for \in [Tcb -> Tcb \cup {ANYMESSAGE, MAGIC_SSI}]
  BY DEF NucleusInv, CoreInv, CpuOwned, QueuesOK, Partition, Sending, TypeRest, TypeTcb
<1>1. CASE m = NULL \/ SendFaults(s, m) \/ SendPanics(s, m)
  BY <1>1, MailKeptFrame, NobodyAsksFrame
  DEF PassUpOrDie, Terminate, tcbVars, mailVars, queueVars, RegisterKept, Calm, MailKept,
      NobodyAsks
<1>2. CASE m # NULL /\ ~SendFaults(s, m) /\ ~SendPanics(s, m)
  <2>1. /\ Deliver(s, m, CAUSE) /\ v0' = v0AfterSend(s, m)
        /\ wait_queue' = insertThread(waitAfterSend(s, m), s)
        /\ waiting_for' = [waitingAfterSend(s, m) EXCEPT ![s] = m]
    BY <1>2 DEF PassUpOrDie
  <2>2. m \in Tcb /\ m # SSI_tcb /\ ~SendPanics(s, m) /\ s \in User
    BY <1>0, <1>2 DEF NucleusInv, SsiApart, SsiUnmanaged, User
  <2> HIDE DEF m, s
  <2>3. /\ waitAfterSend(s, m) \in Seq(Tcb)
        /\ waitingAfterSend(s, m) \in [Tcb -> Tcb \cup {ANYMESSAGE, MAGIC_SSI}]
    BY <1>0, OutLemma DEF waitAfterSend, waitingAfterSend, MAGIC_SSI
  <2>4. ToSet(wait_queue') = ToSet(waitAfterSend(s, m)) \cup {s}
    BY <1>0, <2>1, <2>3, AppendLemma DEF insertThread
  <2>5. ASSUME NEW u \in ToSet(wait_queue')
        PROVE  \/ u \in ToSet(wait_queue) /\ waiting_for'[u] = waiting_for[u]
               \/ u \in User \cap {s} /\ waiting_for'[u] # MAGIC_SSI
    <3>1. CASE u = s
      <4>1. waiting_for'[u] = m BY <1>0, <2>1, <2>3, <3>1
      <4> QED BY <2>2, <3>1, <4>1, NullNotTcb DEF MAGIC_SSI
    <3>2. CASE u # s
      <4>1. u \in ToSet(waitAfterSend(s, m)) BY <2>4, <2>5, <3>2
      <4>2. u \in ToSet(wait_queue) /\ waitingAfterSend(s, m)[u] = waiting_for[u]
        BY <1>0, <2>2, <4>1, WaitingAfterSend
      <4>3. u \in Tcb BY <1>0, <4>2, SeqElements
      <4> QED BY <2>1, <2>3, <3>2, <4>2, <4>3
    <3> QED BY <3>1, <3>2
  <2>6. NobodyAsks(User \cap {s}) BY <2>5 DEF NobodyAsks
  <2>7. RegisterKept BY <1>0, <2>1, <2>2, RegisterAfterSend
  <2>8. MailKept({}) BY <1>0, <2>1, <2>2, DeliverKeeps
  <2> QED BY <2>6, <2>7, <2>8 DEF Calm, MailKept, s
<1> QED BY <1>1, <1>2

\* An interrupt can only wake the SSI, or leave it a message.
LEMMA CalmInterrupt ==
    ASSUME NucleusInv, Interrupt
    PROVE  Calm({})
<1>1. ASSUME NEW s \in Device \cup {BUS_INTERVALTIMER}, NEW w, NEW requeue,
             InterruptMessage(s, w, requeue)
      PROVE  Calm({})
  <2>0. CoreInv /\ MailInv /\ SSI_tcb \in Tcb /\ Sending(s)
    BY NullNotTcb DEF NucleusInv, Sending
  <2>1. /\ Deliver(s, SSI_tcb, w) /\ ~SendPanics(s, SSI_tcb) /\ v0' = v0AfterSend(s, SSI_tcb)
        /\ wait_queue' = waitAfterSend(s, SSI_tcb)
        /\ waiting_for' = waitingAfterSend(s, SSI_tcb)
    BY <1>1 DEF InterruptMessage, InterruptPanics
  <2>2. NobodyAsks({}) BY <2>0, <2>1, WaitingAfterSend DEF NobodyAsks
  <2>3. RegisterKept BY <2>0, <2>1, RegisterAfterSend
  <2>4. MailKept({}) BY <2>0, <2>1, DeliverKeeps
  <2> QED BY <2>2, <2>3, <2>4 DEF Calm
<1>2. CASE SliceExpired \/ InterruptIgnored \/ InterruptPanic
  BY <1>2, MailKeptFrame, NobodyAsksFrame
  DEF SliceExpired, InterruptIgnored, InterruptPanic, Panic, tcbVars, mailVars, queueVars,
      RegisterKept, Calm
<1> QED BY <1>1, <1>2 DEF Interrupt, PseudoClockTick, DeviceInterrupt

\* terminate() frees the messages of the thread that it frees.
LEMMA CalmKernel ==
    ASSUME NucleusInv, scheduler \/ TerminateChild \/ TerminateLeaf \/ TerminatePanic \/ Halted
    PROVE  Calm({})
<1>0. /\ CoreInv /\ MailInv /\ tcbfree \in Seq(Tcb) /\ victims \in Seq(Tcb)
      /\ wait_queue \in Seq(Tcb) /\ inbox \in [Tcb -> Seq(Msg)]
      /\ kpc = "terminate" => victims # <<>>
  BY DEF NucleusInv, CoreInv, QueuesOK, Partition, TypeRest, TypeMail, CpuOwned
<1>1. CASE scheduler \/ TerminateChild \/ TerminatePanic \/ Halted
  BY <1>1, MailKeptFrame, NobodyAsksFrame
  DEF scheduler, Dispatch, Reload, Idle, TerminateChild, TerminatePanic, Panic, Halted, vars,
      tcbVars, mailVars, queueVars, RegisterKept, Calm
<1>2. CASE TerminateLeaf
  <2> DEFINE t == Head(victims)
  <2>1. /\ freeMsg(inbox[t]) /\ inbox' = [inbox EXCEPT ![t] = <<>>]
        /\ wait_queue' \in {wait_queue, outThread(wait_queue, t)}
        /\ tcbfree' = Append(tcbfree, t)
        /\ UNCHANGED <<v0, waiting_for>> /\ victims # <<>>
    BY <1>0, <1>2 DEF TerminateLeaf, tcbVars
  <2>2. t \in Tcb BY <1>0, <2>1, TailLemma
  <2> HIDE DEF t
  <2>3. t \in ToSet(tcbfree') BY <1>0, <2>1, <2>2, AppendLemma
  <2>4. ToSet(wait_queue') \subseteq ToSet(wait_queue) BY <1>0, <2>1, OutLemma
  <2>5. ASSUME NEW u \in Tcb, u # t, NEW x \in ToSet(inbox[u])
        PROVE  x \in ToSet(inbox'[u]) /\ m_sender'[x] = m_sender[x]
    <3>1. inbox'[u] = inbox[u] BY <1>0, <2>1, <2>5
    <3>2. x \notin ToSet(inbox[t])
      BY <1>0, <2>2, <2>5 DEF MailInv, MessageConservation
    <3>3. x \in Msg BY <1>0, <2>5, SeqElements
    <3> QED BY <2>1, <2>5, <3>1, <3>2, <3>3 DEF freeMsg
  <2>6. MailKept({}) BY <2>3, <2>5 DEF MailKept, HasMail
  <2> QED BY <2>1, <2>4, <2>6 DEF NobodyAsks, RegisterKept, Calm
<1> QED BY <1>1, <1>2

\* recv() takes one message, and it is the running thread that takes it.
LEMMA ReceiveTakes ==
    ASSUME NucleusInv, NEW a1, RecvReturns(a1), NEW t \in Tcb, NEW s, HasMail(t, s)
    PROVE  HasMail(t, s)' \/ (t = current_thread /\ v0'[t] = s)
<1> DEFINE c == current_thread
<1>0. CoreInv /\ MailInv BY DEF NucleusInv
<1>1. PICK i \in 1 .. Len(inbox[c]) :
          /\ freeMsg(<<inbox[c][i]>>)
          /\ v0' = [v0 EXCEPT ![c] = m_sender[inbox[c][i]]]
          /\ inbox' = [inbox EXCEPT ![c] = RemoveAt(inbox[c], i)]
  BY DEF RecvReturns
<1>2. /\ c \in Tcb /\ inbox \in [Tcb -> Seq(Msg)] /\ inbox[c] \in Seq(Msg)
      /\ v0 \in [Tcb -> Source \cup {NULL, MINUS1}]
  BY <1>0 DEF RecvReturns, InThread, CoreInv, CpuOwned, QueuesOK, Partition, TypeMail, TypeTcb
<1>3. Distinct(inbox[c]) /\ (c # t => ToSet(inbox[c]) \cap ToSet(inbox[t]) = {})
  BY <1>0, <1>2 DEF MailInv, MessageConservation
<1>c. c = current_thread OBVIOUS
<1> HIDE DEF c
<1> DEFINE m == inbox[c][i]
           q == RemoveAt(inbox[c], i)
<1>4. ToSet(inbox[c]) = ToSet(q) \cup {m} /\ m \notin ToSet(q)
  BY <1>2, <1>3, RemoveAtLemma
<1>5. m \in Msg BY <1>2, <1>4, SeqElements
<1>6. ToSet(<<m>>) = {m} BY <1>5, OneLemma
<1>7. /\ freeMsg(<<m>>) /\ inbox' = [inbox EXCEPT ![c] = q]
      /\ v0' = [v0 EXCEPT ![c] = m_sender[m]]
  BY <1>1
<1> HIDE DEF m, q
<1>8. PICK x \in ToSet(inbox[t]) : m_sender[x] = s BY DEF HasMail
<1>9. x \in Msg BY <1>2, <1>8, SeqElements
<1>10. CASE x = m
  <2>1. t = c BY <1>3, <1>4, <1>8, <1>10
  <2> QED BY <1>2, <1>7, <1>8, <1>10, <1>c, <2>1
<1>11. CASE x # m
  <2>1. m_sender'[x] = s BY <1>6, <1>7, <1>8, <1>9, <1>11 DEF freeMsg
  <2>2. x \in ToSet(inbox'[t]) BY <1>2, <1>4, <1>7, <1>8, <1>11
  <2> QED BY <2>1, <2>2 DEF HasMail
<1> QED BY <1>10, <1>11

\* Only the running thread begins to wait in recv(), and takes a message.
LEMMA CalmMsgRecv ==
    ASSUME NucleusInv, NEW a1, MsgRecv(a1)
    PROVE  /\ MailKept({current_thread})
           /\ \A t \in ToSet(wait_queue') \ {current_thread} :
                 t \in ToSet(wait_queue) /\ waiting_for'[t] = waiting_for[t]
           /\ current_thread \in User => RegisterKept
           /\ current_thread \in User /\ a1 # MAGIC_SSI => Calm({current_thread})
<1>0. /\ CoreInv /\ current_thread \in Tcb /\ SSI_tcb \in Tcb
      /\ current_thread \in User => current_thread # SSI_tcb
      /\ wait_queue \in Seq(Tcb) /\ v0 \in [Tcb -> Source \cup {NULL, MINUS1}]
      /\ waiting_for \in [Tcb -> Tcb \cup {ANYMESSAGE, MAGIC_SSI}]
      /\ current_thread \notin ToSet(wait_queue)
  BY NullNotTcb DEF NucleusInv, MsgRecv, RecvReturns, RecvBlocks, InThread, CpuOwned, User,
                    CoreInv, QueuesOK, Partition, TypeTcb
<1>1. CASE RecvReturns(a1)
  <2>1. MailKept({current_thread}) BY <1>1, ReceiveTakes DEF MailKept
  <2>2. current_thread \in User => RegisterKept BY <1>0, <1>1 DEF RecvReturns, RegisterKept
  <2>3. UNCHANGED <<wait_queue, waiting_for>> BY <1>1 DEF RecvReturns, queueVars
  <2> QED BY <2>1, <2>2, <2>3 DEF Calm, NobodyAsks
<1>2. CASE RecvBlocks(a1)
  <2>1. /\ waiting_for' = [waiting_for EXCEPT ![current_thread] = a1]
        /\ wait_queue' = Append(wait_queue, current_thread)
        /\ v0' = [v0 EXCEPT ![current_thread] = NULL]
        /\ UNCHANGED mailVars
    BY <1>2 DEF RecvBlocks, insertThread
  <2>2. ToSet(wait_queue') = ToSet(wait_queue) \cup {current_thread}
    BY <1>0, <2>1, AppendLemma
  <2>3. ASSUME NEW t \in ToSet(wait_queue') \ {current_thread}
        PROVE  t \in ToSet(wait_queue) /\ waiting_for'[t] = waiting_for[t]
    <3>1. ToSet(wait_queue) \subseteq Tcb BY <1>0, SeqElements
    <3> QED BY <1>0, <2>1, <2>2, <3>1
  <2>4. MailKept({current_thread}) BY <2>1, MailKeptFrame DEF mailVars, MailKept
  <2>5. current_thread \in User => RegisterKept BY <1>0, <2>1 DEF RegisterKept
  <2>6. waiting_for'[current_thread] = a1 BY <1>0, <2>1
  <2> QED BY <2>3, <2>4, <2>5, <2>6 DEF Calm, NobodyAsks
<1> QED BY <1>1, <1>2 DEF MsgRecv

\* A machine that has stopped stays as it is.
LEMMA StoppedStays ==
    ASSUME kpc \in Stopped, [Next]_vars
    PROVE  kpc' = kpc
<1>1. kpc \notin {"thread", "wait", "scheduler", "terminate", "fault"} BY DEF Stopped
<1>2. ~ThreadStep
  BY <1>1 DEF ThreadStep, MsgSend, TrapTerminate, TrapContinue, Send, SendFails, MsgRecv,
              RecvReturns, RecvBlocks, Trap, InThread
<1>3. ~ServiceStep
  BY <1>1 DEF ServiceStep, CreateSon, CreateBrother, CreateThread, KillThread, SpecManager,
              ServicePanic, InSSI, InThread
<1>4. ~Interrupt
  BY <1>1 DEF Interrupt, PseudoClockTick, DeviceInterrupt, SliceExpired, InterruptIgnored,
              InterruptPanic, Interruptible
<1>5. ~KernelStep
  BY <1>1 DEF KernelStep, scheduler, Dispatch, Reload, Idle, TerminateChild, TerminateLeaf,
              TerminatePanic, NestedTrap
<1> QED BY <1>2, <1>3, <1>4, <1>5 DEF Next, Halted, vars, controlVars

\* Outside createthread() a free TCB stays free, and a thread that terminate()
\* has reached stays in its frames until it is free.
LEMMA DeadStayDead ==
    ASSUME NucleusInv, kpc \notin Stopped,
           ThreadStep \/ Interrupt \/ KernelStep \/ UNCHANGED vars
    PROVE  /\ ToSet(tcbfree) \subseteq ToSet(tcbfree')
           /\ ToSet(victims) \subseteq ToSet(victims') \cup ToSet(tcbfree')
<1>0. /\ tcbfree \in Seq(Tcb) /\ victims \in Seq(Tcb) /\ t_child \in [Tcb -> Seq(Tcb)]
      /\ kpc = "terminate" => victims # <<>>
      /\ kpc # "terminate" => victims = <<>>
      /\ ToSet(<<>>) = {}
  BY EmptyLemma DEF NucleusInv, CoreInv, QueuesOK, Partition, TypeRest, CpuOwned, TreeInv,
                    NoFrames
<1>1. CASE ThreadStep
  <2>1. tcbfree' = tcbfree
    BY <1>1 DEF ThreadStep, MsgSend, TrapTerminate, TrapContinue, Send, SendFails, MsgRecv,
                RecvReturns, RecvBlocks, Trap, PassUpOrDie, Terminate, queueVars
  <2>2. kpc = "thread"
    BY <1>1 DEF ThreadStep, MsgSend, TrapTerminate, TrapContinue, Send, SendFails, MsgRecv,
                RecvReturns, RecvBlocks, Trap, InThread
  <2> QED BY <1>0, <2>1, <2>2
<1>2. CASE Interrupt
  BY <1>0, <1>2 DEF Interrupt, PseudoClockTick, DeviceInterrupt, InterruptMessage,
                    SliceExpired, InterruptIgnored, InterruptPanic, Panic, Interruptible,
                    queueVars
<1>3. CASE scheduler \/ TerminatePanic \/ NestedTrap
  BY <1>0, <1>3 DEF scheduler, Dispatch, Reload, Idle, TerminatePanic, Panic, NestedTrap,
                    PassUpOrDie, Terminate, queueVars
<1>4. CASE TerminateChild
  <2> DEFINE t == Head(victims)
             c == Head(t_child[t])
             one == <<c>>
  <2>1. t_child[t] # <<>> /\ victims' = one \o victims /\ tcbfree' = tcbfree
    BY <1>4 DEF TerminateChild, queueVars
  <2>2. t \in Tcb /\ t_child[t] \in Seq(Tcb)
    BY <1>0, <1>4, TailLemma DEF TerminateChild
  <2>3. c \in Tcb
    <3> HIDE DEF t
    <3> QED BY <2>1, <2>2, TailLemma
  <2>4. one \in Seq(Tcb) BY <2>3, OneLemma
  <2> HIDE DEF t, c, one
  <2>5. ToSet(victims') = ToSet(one) \cup ToSet(victims) BY <1>0, <2>1, <2>4, ConcatLemma
  <2> QED BY <2>1, <2>5
<1>5. CASE TerminateLeaf
  <2> DEFINE t == Head(victims)
  <2>1. tcbfree' = Append(tcbfree, t) /\ victims' = Tail(victims) /\ victims # <<>>
    BY <1>0, <1>5 DEF TerminateLeaf
  <2>2. t \in Tcb /\ ToSet(victims) = ToSet(victims') \cup {t} BY <1>0, <2>1, TailLemma
  <2> HIDE DEF t
  <2>3. ToSet(tcbfree') = ToSet(tcbfree) \cup {t} BY <1>0, <2>1, <2>2, AppendLemma
  <2> QED BY <2>2, <2>3
<1>6. CASE UNCHANGED vars BY <1>6 DEF vars, queueVars, controlVars
<1> QED BY <1>1, <1>2, <1>3, <1>4, <1>5, <1>6 DEF KernelStep

\* What is still owed after a step was owed before it,
LEMMA OwedBefore ==
    ASSUME NucleusInv', ToSet(tcbfree) \subseteq ToSet(tcbfree'),
           ToSet(victims) \subseteq ToSet(victims') \cup ToSet(tcbfree'),
           NEW t \in User, Owed(t)', t \in sent' => t \in sent,
           t \in ToSet(wait_queue') => t \in ToSet(wait_queue) /\ waiting_for'[t] = waiting_for[t]
    PROVE  Owed(t) /\ t \notin ToSet(tcbfree')
<1>1. ToSet(tcbfree') \cap ToSet(wait_queue') = {}
  BY DEF NucleusInv, CoreInv, QueuesOK, Partition
<1>2. /\ t \notin ToSet(victims')
      /\ \/ t \in ToSet(wait_queue') /\ waiting_for'[t] = MAGIC_SSI
         \/ t \in sent' /\ t \notin ToSet(tcbfree')
  BY DEF Owed, AwaitsSsi, thereIsThread
<1>3. t \notin ToSet(tcbfree') BY <1>1, <1>2
<1>4. t \notin ToSet(victims) BY <1>2, <1>3
<1>5. AwaitsSsi(t) \/ (t \in sent /\ t \notin ToSet(tcbfree))
  BY <1>2 DEF AwaitsSsi, thereIsThread
<1> QED BY <1>3, <1>4, <1>5 DEF Owed

\* and who had a claim has one, when the SSI does nothing.
LEMMA ClaimAfter ==
    ASSUME NEW S, MailKept(S), RegisterKept, SsiWaits,
           UNCHANGED <<ssi, clockTcb_array, devTcb_array>>,
           SSI_tcb \notin S \cup ToSet(tcbfree'),
           NEW t \in User, t \notin S \cup ToSet(tcbfree'), Claim(t)
    PROVE  Claim(t)'
<1>0. SSI_tcb \in Tcb /\ t \in Tcb /\ t # NULL BY NullNotTcb DEF User
<1>1. CASE HasMail(SSI_tcb, t)
  <2>1. HasMail(SSI_tcb, t)' BY <1>0, <1>1 DEF MailKept
  <2> QED BY <2>1 DEF Claim
<1>2. CASE HasMail(t, MAGIC_SSI)
  <2>1. HasMail(t, MAGIC_SSI)' BY <1>0, <1>2 DEF MailKept
  <2> QED BY <2>1 DEF Claim
<1>3. CASE Noted(t)
  <2>1. Noted(t)'
    BY <1>0, <1>3 DEF Noted, Registered, BeingServed, RegisterKept, SsiWaits, req_thread
  <2> QED BY <2>1 DEF Claim
<1> QED BY <1>1, <1>2, <1>3 DEF Claim

\* The steps outside SSIRequest and outside the program of the SSI, and the
\* trap that ends the SSI.
Outside ==
    \/ Talk \/ CreateCrash \/ SystemStep \/ DeviceStep \/ ControllerStep
    \/ \E d \in Device : StartIO(d)

\* In them only a thread outside SSIRequest begins to wait, for others than
\* the SSI, or takes a message.
Idler == (User \cap {current_thread}) \ sent

\* They leave alone what the SSI and its callers remember.
noted == <<ssi, sent, clockTcb_array, devTcb_array>>

LEMMA OutsideIsCalm ==
    ASSUME NucleusInv, SystemTypeOK, SentApart, kpc \notin Stopped, Outside
    PROVE  /\ Calm(Idler) /\ UNCHANGED noted
           /\ ThreadStep \/ Interrupt \/ KernelStep \/ UNCHANGED vars
<1>m. ASSUME Calm({}) PROVE Calm(Idler)
  BY <1>m DEF Calm, NobodyAsks, MailKept
<1>0. SystemStep \/ DeviceStep => Interrupt \/ KernelStep
  BY MachineSimulates DEF SystemTypeOK, Halted
<1>u. InUser => current_thread \in User /\ kpc = "thread"
  BY DEF InUser, InThread, User, NucleusInv, CoreInv, CpuOwned, QueuesOK, Partition
<1>1. CASE Talk
  <2>0. current_thread \in User /\ kpc = "thread" /\ Idler = {current_thread}
        /\ UNCHANGED noted
    BY <1>1, <1>u DEF Talk, Free, Idler, ssiVars, ioVars, clientVars, noted
  <2>1. ASSUME NEW k \in TrapKind, Trap(k) PROVE Calm(Idler) /\ ThreadStep
    <3>1. Calm(User \cap {current_thread}) BY <2>0, <2>1, CalmPassUpOrDie DEF Trap
    <3>2. User \cap {current_thread} = Idler BY <2>0
    <3> QED BY <2>1, <3>1, <3>2 DEF ThreadStep
  <2>2. ASSUME NEW t \in User, NEW w \in {NULL, TRAPCONTINUE, CAUSE}, MsgSend(t, w)
        PROVE  Calm(Idler) /\ ThreadStep
    <3>1. Calm({}) BY <2>0, <2>2, CalmMsgSend DEF Calm, User
    <3> QED BY <1>m, <2>2, <3>1, SentWords DEF ThreadStep
  <2>3. ASSUME NEW t \in User \cup {ANYMESSAGE}, MsgRecv(t) PROVE Calm(Idler) /\ ThreadStep
    <3>1. t # MAGIC_SSI BY NullNotTcb, WordAssumption DEF User, ANYMESSAGE, MAGIC_SSI
    <3> QED BY <2>0, <2>3, <3>1, CalmMsgRecv DEF ThreadStep
  <2> QED BY <1>1, <2>0, <2>1, <2>2, <2>3 DEF Talk
<1>2. CASE CreateCrash
  <2>0. /\ Trap("pgmtrap") /\ current_thread = SSI_tcb /\ kpc = "thread"
        /\ UNCHANGED noted
    BY <1>2 DEF CreateCrash, At, InSSI, InThread, ssiVars, ioVars, clientVars, noted
  <2>1. Calm(User \cap {current_thread})
    BY <2>0, CalmPassUpOrDie, TrapKindAssumption DEF Trap
  <2>2. User \cap {current_thread} = {} BY <2>0 DEF User
  <2> QED BY <1>m, <2>0, <2>1, <2>2, TrapKindAssumption DEF ThreadStep
<1>3. CASE SystemStep \/ DeviceStep
  <2>0. UNCHANGED noted
    BY <1>3 DEF SystemStep, DeviceStep, ssiVars, ioVars, clientVars, noted
  <2>1. CASE Interrupt BY <1>m, <2>0, <2>1, CalmInterrupt
  <2>2. CASE NestedTrap
    <3>1. Calm(User \cap {current_thread})
      BY <2>2, CalmPassUpOrDie, TrapKindAssumption DEF NestedTrap
    <3>2. User \cap {current_thread} = Idler BY <2>2 DEF NestedTrap, SentApart, Idler
    <3> QED BY <2>0, <2>2, <3>1, <3>2 DEF KernelStep
  <2>3. CASE KernelStep /\ ~NestedTrap
    BY <1>m, <2>0, <2>3, CalmKernel DEF KernelStep
  <2> QED BY <1>0, <1>3, <2>1, <2>2, <2>3
<1>4. CASE ControllerStep \/ \E d \in Device : StartIO(d)
  <2>1. UNCHANGED vars /\ UNCHANGED noted BY <1>4 DEF ControllerStep, StartIO, ioVars, noted
  <2>2. UNCHANGED <<inbox, m_sender, wait_queue, waiting_for, v0>>
    BY <2>1 DEF vars, tcbVars, mailVars, queueVars
  <2>3. Calm({}) BY <2>2, MailKeptFrame, NobodyAsksFrame DEF Calm, RegisterKept
  <2> QED BY <1>m, <2>1, <2>3
<1> QED BY <1>1, <1>2, <1>3, <1>4 DEF Outside

\* A thread resumes the store that has faulted in send() only outside SSIRequest.
LEMMA OutsideApart ==
    ASSUME NucleusInv, SystemTypeOK, SentApart, kpc \notin Stopped, Outside
    PROVE  SentApart'
<1>0. /\ NobodyAsks(Idler) /\ sent' = sent /\ sent \subseteq User
      /\ ThreadStep \/ Interrupt \/ KernelStep \/ UNCHANGED vars
      /\ SystemStep \/ DeviceStep => Interrupt \/ KernelStep
  BY OutsideIsCalm, MachineSimulates DEF Calm, SystemTypeOK, Halted, noted
<1>1. sent' \cap ToSet(wait_queue') = {} BY <1>0 DEF NobodyAsks, Idler, SentApart
<1>u. InUser => current_thread \in User /\ kpc = "thread"
  BY DEF InUser, InThread, User, NucleusInv, CoreInv, CpuOwned, QueuesOK, Partition
<1>2. /\ nested' \subseteq nested \cup (Tcb \ sent)
      /\ kpc' = "fault" => current_thread' \notin sent
      /\ kpc' = "thread" => current_thread' \notin nested' \ {SSI_tcb}
  <2>1. CASE Talk \/ CreateCrash
    <3>1. kpc = "thread" /\ current_thread \notin sent
      BY <1>0, <1>u, <2>1 DEF Talk, Free, InUser, InThread, CreateCrash, At, InSSI, User
    <3>2. ASSUME NEW k, Trap(k)
          PROVE  nested' = nested /\ kpc' # "thread" /\ (kpc' = "fault" => current_thread' = current_thread)
      BY <3>2 DEF Trap, PassUpOrDie, Terminate, queueVars
    <3>3. ASSUME NEW a1, NEW w, MsgSend(a1, w)
          PROVE  nested' = nested /\ kpc' # "thread" /\ (kpc' = "fault" => current_thread' = current_thread)
      BY <3>3 DEF MsgSend, TrapTerminate, Terminate, TrapContinue, Send, SendFails, queueVars
    <3>4. ASSUME NEW a1, MsgRecv(a1) PROVE nested' = nested /\ kpc' = "scheduler"
      BY <3>4 DEF MsgRecv, RecvReturns, RecvBlocks
    <3> QED BY <2>1, <3>1, <3>2, <3>3, <3>4 DEF Talk, CreateCrash
  <2>2. CASE Interrupt
    BY <2>2 DEF Interrupt, PseudoClockTick, DeviceInterrupt, InterruptMessage, SliceExpired,
                InterruptIgnored, InterruptPanic, Panic
  <2>3. CASE scheduler
    BY <2>3 DEF scheduler, Dispatch, Reload, Idle, Resume, queueVars, SentApart
  <2>4. CASE TerminateChild \/ TerminateLeaf \/ TerminatePanic
    BY <2>4 DEF TerminateChild, TerminateLeaf, TerminatePanic, Panic
  <2>5. CASE NestedTrap
    <3>1. current_thread \in Tcb \ sent
      BY <2>5 DEF NestedTrap, SentApart, NucleusInv, CoreInv, CpuOwned, QueuesOK, Partition
    <3>2. kpc' # "thread" /\ (kpc' = "fault" => current_thread' = current_thread)
      BY <2>5 DEF NestedTrap, PassUpOrDie, Terminate, queueVars
    <3> QED BY <2>5, <3>1, <3>2 DEF NestedTrap
  <2>6. CASE ControllerStep \/ \E d \in Device : StartIO(d)
    BY <2>6 DEF ControllerStep, StartIO, vars, controlVars, queueVars, SentApart
  <2> QED BY <1>0, <2>1, <2>2, <2>3, <2>4, <2>5, <2>6 DEF Outside, KernelStep
<1> QED BY <1>0, <1>1, <1>2 DEF SentApart

\* The inductive invariant of the running machine.
KnownInv == SentApart /\ SsiWaits /\ ClaimsKept

\* Such a step neither answers a thread nor forgets one.
LEMMA KnownOutside ==
    ASSUME NucleusInv, NucleusInv', SystemTypeOK, KnownInv, kpc \notin Stopped, Outside
    PROVE  KnownInv'
<1>0. /\ SentApart /\ SsiWaits /\ ClaimsKept /\ Calm(Idler)
      /\ UNCHANGED <<ssi, sent, clockTcb_array, devTcb_array>>
      /\ ToSet(tcbfree) \subseteq ToSet(tcbfree')
      /\ ToSet(victims) \subseteq ToSet(victims') \cup ToSet(tcbfree')
  BY OutsideIsCalm, DeadStayDead DEF KnownInv, noted
<1>1. SentApart' BY <1>0, OutsideApart
<1>2. SSI_tcb \notin Idler BY DEF Idler, User
<1>3. SsiWaits'
  BY <1>0, <1>2 DEF SsiWaits, Calm, NobodyAsks, RegisterKept, req_thread
<1>4. ClaimsKept'
  <2> SUFFICES ASSUME SsiAlive', NEW t \in User, Owed(t)' PROVE Claim(t)'
    BY DEF ClaimsKept
  <2>1. t \in ToSet(wait_queue') =>
            \/ t \in ToSet(wait_queue) /\ waiting_for'[t] = waiting_for[t]
            \/ t \in Idler /\ waiting_for'[t] # MAGIC_SSI
    BY <1>0 DEF Calm, NobodyAsks
  <2>2. t \notin Idler
    <3> SUFFICES ASSUME t \in Idler PROVE FALSE OBVIOUS
    <3>1. t \notin ToSet(wait_queue) /\ t \notin sent'
      BY <1>0 DEF Idler, NucleusInv, CoreInv, QueuesOK, Partition
    <3> QED BY <2>1, <3>1 DEF Owed, AwaitsSsi, thereIsThread
  <2>3. Owed(t) /\ t \notin ToSet(tcbfree') BY <1>0, <2>1, <2>2, OwedBefore
  <2>4. SSI_tcb \notin ToSet(tcbfree') /\ SsiAlive BY <1>0 DEF SsiAlive
  <2>5. Claim(t) BY <1>0, <2>3, <2>4 DEF ClaimsKept
  <2> QED BY <1>0, <1>2, <2>2, <2>3, <2>4, <2>5, ClaimAfter DEF Calm
<1> QED BY <1>1, <1>3, <1>4 DEF KnownInv

\* The SSI that waits has left a reply address.
LEMMA RequestsReachSsi ==
    ASSUME NucleusInv, NEW s
    PROVE  ~SendFaults(s, SSI_tcb)
BY DEF SendFaults, Wakes, thereIsThread, NucleusInv, MailInv, NoLostWakeup, SsiUnmanaged

\* The MsgSend of SSIRequest gives a claim to the thread that asks.
LEMMA KnownAsk ==
    ASSUME NucleusInv, NucleusInv', KnownInv, kpc \notin Stopped, kpc' \notin Stopped,
           NEW r \in Request, Ask(r)
    PROVE  KnownInv'
<1> DEFINE c == current_thread
<1>0. /\ SentApart /\ SsiWaits /\ ClaimsKept /\ CoreInv /\ MailInv /\ SSI_tcb \in Tcb
      /\ c \in User /\ c \in Tcb /\ c # SSI_tcb /\ c \notin sent /\ kpc = "thread"
      /\ c \notin ToSet(wait_queue) /\ c # NULL
      /\ sent' = sent \cup {c} /\ UNCHANGED <<ssi, clockTcb_array, devTcb_array>>
  BY NullNotTcb
  DEF KnownInv, NucleusInv, Ask, ioVars, Free, InUser, InThread, User, CoreInv, CpuOwned, QueuesOK,
      Partition
<1>1. Send(MAGIC_SSI, r)
  <2>1. Receiver(MAGIC_SSI) = SSI_tcb BY DEF Receiver
  <2>2. CASE SendFails(MAGIC_SSI, r)
    BY <2>1, <2>2, RequestsReachSsi DEF SendFails, Stopped
  <2> QED BY <2>2 DEF Ask
<1>2. /\ Deliver(c, SSI_tcb, r) /\ ~SendPanics(c, SSI_tcb)
      /\ v0' = [v0AfterSend(c, SSI_tcb) EXCEPT ![c] = SendResult(c, SSI_tcb)]
      /\ kpc' = "scheduler" /\ nested' = nested
  BY <1>1 DEF Send, Receiver
<1>3. MsgSend(MAGIC_SSI, r) /\ ThreadStep
  BY <1>1, RequestFields DEF MsgSend, ThreadStep
<1>4. /\ NobodyAsks({}) /\ MailKept({}) /\ RegisterKept
      /\ ToSet(tcbfree) \subseteq ToSet(tcbfree')
      /\ ToSet(victims) \subseteq ToSet(victims') \cup ToSet(tcbfree')
  BY <1>0, <1>3, CalmMsgSend, DeadStayDead
<1> HIDE DEF c
<1>5. SentApart'
  <2>1. c \notin nested BY <1>0 DEF SentApart, c
  <2> QED BY <1>0, <1>2, <1>4, <2>1 DEF SentApart, NobodyAsks
<1>6. SsiWaits'
  BY <1>0, <1>4 DEF SsiWaits, NobodyAsks, RegisterKept, req_thread
<1>7. ClaimsKept'
  <2> SUFFICES ASSUME SsiAlive', NEW t \in User, Owed(t)' PROVE Claim(t)'
    BY DEF ClaimsKept
  <2>0. SSI_tcb \notin ToSet(tcbfree') /\ SSI_tcb \notin ToSet(tcbfree) /\ SsiAlive
    BY <1>4 DEF SsiAlive
  <2>1. CASE t # c
    <3>1. Owed(t) /\ t \notin ToSet(tcbfree')
      BY <1>0, <1>4, <2>1, OwedBefore DEF NobodyAsks
    <3>2. Claim(t) BY <1>0, <2>0, <3>1 DEF ClaimsKept
    <3> QED BY <1>0, <1>4, <2>0, <3>1, <3>2, ClaimAfter
  <2>2. CASE t = c
    <3>1. Sender(c) = c /\ Sending(c) BY <1>0 DEF Sender, Sending
    <3>2. CASE Posts(c, SSI_tcb)
      <4>1. \E m \in ToSet(inbox'[SSI_tcb]) : m_sender'[m] = t
        BY <1>0, <1>2, <2>2, <3>1, <3>2, DeliverKeeps
      <4>2. HasMail(SSI_tcb, t)' BY <4>1 DEF HasMail
      <4> QED BY <4>2 DEF Claim
    <3>3. CASE Wakes(c, SSI_tcb)
      <4>1. SSI_tcb \in ToSet(wait_queue) BY <3>3 DEF Wakes, thereIsThread
      <4>2. v0 \in [Tcb -> Source \cup {NULL, MINUS1}] BY <1>0 DEF CoreInv, TypeTcb
      <4>3. v0AfterSend(c, SSI_tcb) = [v0 EXCEPT ![SSI_tcb] = c]
        BY <3>1, <3>3 DEF v0AfterSend
      <4>4. v0'[SSI_tcb] = t BY <1>0, <1>2, <2>2, <4>2, <4>3
      <4>5. Noted(t)' BY <1>0, <4>1, <4>4 DEF Noted, BeingServed, SsiWaits, req_thread
      <4> QED BY <4>5 DEF Claim
    <3>4. Posts(c, SSI_tcb) \/ Wakes(c, SSI_tcb)
      BY <1>0, <2>0 DEF Posts, Running, thereIsThread, CoreInv, QueuesOK, Partition
    <3> QED BY <3>2, <3>3, <3>4
  <2> QED BY <2>1, <2>2
<1> QED BY <1>5, <1>6, <1>7 DEF KnownInv

\* Its MsgRecv waits only if the answer has not come.
LEMMA KnownCollect ==
    ASSUME NucleusInv, NucleusInv', KnownInv, kpc \notin Stopped, Collect
    PROVE  KnownInv'
<1> DEFINE c == current_thread
<1>0. /\ SentApart /\ SsiWaits /\ ClaimsKept /\ CoreInv /\ SSI_tcb \in Tcb
      /\ c \in User /\ c \in Tcb /\ c # SSI_tcb /\ c \in sent /\ kpc = "thread"
      /\ c \notin ToSet(wait_queue) \cup ToSet(tcbfree) /\ victims = <<>>
      /\ ToSet(<<>>) = {} /\ inbox[c] \in Seq(Msg)
      /\ sent' = sent \ {c} /\ UNCHANGED <<ssi, clockTcb_array, devTcb_array>>
      /\ MsgRecv(MAGIC_SSI)
  BY NullNotTcb, EmptyLemma
  DEF KnownInv, NucleusInv, Collect, ioVars, InUser, InThread, User, CoreInv, CpuOwned, QueuesOK,
      Partition, TypeMail, TreeInv, NoFrames, Stopped
<1>1. ThreadStep BY <1>0 DEF ThreadStep
<1>2. /\ MailKept({c}) /\ RegisterKept
      /\ \A t \in ToSet(wait_queue') \ {c} :
            t \in ToSet(wait_queue) /\ waiting_for'[t] = waiting_for[t]
      /\ ToSet(tcbfree) \subseteq ToSet(tcbfree')
      /\ ToSet(victims) \subseteq ToSet(victims') \cup ToSet(tcbfree')
  BY <1>0, <1>1, CalmMsgRecv, DeadStayDead
<1>3. kpc' = "scheduler" /\ nested' = nested
  BY <1>0 DEF MsgRecv, RecvReturns, RecvBlocks
<1> HIDE DEF c
<1>4. SentApart' BY <1>0, <1>2, <1>3 DEF SentApart
<1>5. SsiWaits' BY <1>0, <1>2 DEF SsiWaits, RegisterKept, req_thread
<1>6. ClaimsKept'
  <2> SUFFICES ASSUME SsiAlive', NEW t \in User, Owed(t)' PROVE Claim(t)'
    BY DEF ClaimsKept
  <2>0. SSI_tcb \notin ToSet(tcbfree') /\ SsiAlive BY <1>2 DEF SsiAlive
  <2>1. CASE t # c
    <3>1. Owed(t) /\ t \notin ToSet(tcbfree') BY <1>0, <1>2, <2>1, OwedBefore
    <3>2. Claim(t) BY <1>0, <2>0, <3>1 DEF ClaimsKept
    <3> QED BY <1>0, <1>2, <2>0, <2>1, <3>1, <3>2, ClaimAfter
  <2>2. CASE t = c
    <3>1. c \in ToSet(wait_queue')
      BY <1>0, <2>2 DEF Owed, AwaitsSsi, thereIsThread
    <3>2. RecvBlocks(MAGIC_SSI)
      BY <1>0, <3>1 DEF MsgRecv, RecvReturns, queueVars
    <3>3. /\ \A i \in 1 .. Len(inbox[c]) : ~Matches(inbox[c][i], MAGIC_SSI)
          /\ UNCHANGED <<inbox, m_sender>>
      BY <3>2 DEF RecvBlocks, mailVars, c
    <3>4. ~HasMail(c, MAGIC_SSI)
      <4>1. DOMAIN inbox[c] = 1 .. Len(inbox[c]) BY <1>0, LenProperties
      <4> QED BY <3>3, <4>1 DEF HasMail, Matches, ToSet
    <3>5. Owed(c) BY <1>0 DEF Owed
    <3>6. HasMail(SSI_tcb, c) \/ Noted(c) BY <1>0, <2>0, <3>4, <3>5 DEF ClaimsKept, Claim
    <3>7. CASE HasMail(SSI_tcb, c)
      <4>1. HasMail(SSI_tcb, t)' BY <2>2, <3>3, <3>7 DEF HasMail
      <4> QED BY <4>1 DEF Claim
    <3>8. CASE Noted(c)
      <4>1. c # NULL BY <1>0, NullNotTcb
      <4>2. Noted(t)'
        BY <1>0, <1>2, <2>2, <3>8, <4>1 DEF Noted, Registered, BeingServed, RegisterKept, SsiWaits, req_thread
      <4> QED BY <4>2 DEF Claim
    <3> QED BY <3>6, <3>7, <3>8
  <2> QED BY <2>1, <2>2
<1> QED BY <1>4, <1>5, <1>6 DEF KnownInv

\* The SSI is running: it does not wait, and no thread is being terminated.
LEMMA SsiRuns ==
    ASSUME NucleusInv, InSSI
    PROVE  /\ CoreInv /\ MailInv /\ SSI_tcb \in Tcb /\ SSI_tcb \notin User
           /\ current_thread = SSI_tcb /\ kpc = "thread" /\ ToSet(victims) = {}
           /\ SSI_tcb \notin ToSet(wait_queue) /\ SSI_tcb \notin ToSet(tcbfree)
           /\ \A t \in User : t \in ToSet(tcbfree) \/ Exists(t)
<1>1. victims = <<>> BY DEF InSSI, InThread, NucleusInv, TreeInv, NoFrames, Stopped
<1> QED BY <1>1, NullNotTcb, EmptyLemma
        DEF NucleusInv, InSSI, InThread, User, Exists, thereIsThread, CoreInv, QueuesOK, Partition

\* A step of its program that leaves mail and queues alone keeps what is
\* known, if the thread that it serves keeps its claim.
LEMMA KnownServe ==
    ASSUME NucleusInv, NucleusInv', KnownInv, InSSI, kpc \notin Stopped,
           UNCHANGED <<inbox, m_sender, wait_queue, waiting_for, tcbfree, sent, nested>>,
           kpc' # "fault", current_thread' = current_thread,
           \A t \in User : Noted(t) /\ Owed(t)' => Noted(t)'
    PROVE  KnownInv'
<1>0. /\ SentApart /\ ClaimsKept /\ ToSet(victims) = {} /\ SSI_tcb \notin ToSet(wait_queue)
      /\ current_thread = SSI_tcb /\ SsiAlive /\ SSI_tcb \notin ToSet(tcbfree)
  BY SsiRuns DEF KnownInv, SsiAlive
<1>1. SentApart' BY <1>0 DEF SentApart
<1>2. SsiWaits' BY <1>0 DEF SsiWaits
<1>3. ClaimsKept'
  <2> SUFFICES ASSUME SsiAlive', NEW t \in User, Owed(t)' PROVE Claim(t)'
    BY DEF ClaimsKept
  <2>1. Owed(t) BY <1>0, OwedBefore
  <2>2. Claim(t) BY <1>0, <2>1 DEF ClaimsKept
  <2>3. CASE HasMail(SSI_tcb, t) \/ HasMail(t, MAGIC_SSI)
    <3>1. HasMail(SSI_tcb, t)' \/ HasMail(t, MAGIC_SSI)' BY <2>3 DEF HasMail
    <3> QED BY <3>1 DEF Claim
  <2>4. CASE Noted(t)
    <3>1. Noted(t)' BY <2>4
    <3> QED BY <3>1 DEF Claim
  <2> QED BY <2>2, <2>3, <2>4 DEF Claim
<1> QED BY <1>1, <1>2, <1>3 DEF KnownInv

\* The SSI takes a request out of its inbox to serve it.
LEMMA KnownSsiRecv ==
    ASSUME NucleusInv, NucleusInv', KnownInv, kpc \notin Stopped, SystemTypeOK, SsiRecv
    PROVE  KnownInv'
<1>0. /\ SentApart /\ ClaimsKept /\ CoreInv /\ SSI_tcb \in Tcb /\ SSI_tcb \notin User
      /\ current_thread = SSI_tcb /\ ToSet(victims) = {} /\ SSI_tcb \notin ToSet(wait_queue)
      /\ SSI_tcb \notin ToSet(tcbfree) /\ SsiAlive
      /\ MsgRecv(ANYMESSAGE) /\ sent \subseteq User
      /\ UNCHANGED <<sent, clockTcb_array, devTcb_array>>
      /\ ssi.pc = "recv" /\ ssi'.pc = "serve"
  BY SsiRuns DEF SsiRecv, At, GoTo, KnownInv, SsiAlive, ioVars, clientVars, SystemTypeOK
<1>1. /\ MailKept({SSI_tcb})
      /\ \A t \in ToSet(wait_queue') \ {SSI_tcb} :
            t \in ToSet(wait_queue) /\ waiting_for'[t] = waiting_for[t]
  BY <1>0, CalmMsgRecv
<1>2. kpc' = "scheduler" /\ nested' = nested /\ tcbfree' = tcbfree
  BY <1>0 DEF MsgRecv, RecvReturns, RecvBlocks, queueVars
<1>3. SentApart' BY <1>0, <1>1, <1>2 DEF SentApart
<1>4. SsiWaits'
  <2> SUFFICES ASSUME SSI_tcb \in ToSet(wait_queue') PROVE v0'[SSI_tcb] = NULL
    BY <1>0 DEF SsiWaits, req_thread
  <2>1. RecvBlocks(ANYMESSAGE) BY <1>0 DEF MsgRecv, RecvReturns, queueVars
  <2>2. v0 \in [Tcb -> Source \cup {NULL, MINUS1}] BY <1>0 DEF CoreInv, TypeTcb
  <2> QED BY <1>0, <2>1, <2>2 DEF RecvBlocks
<1>5. ClaimsKept'
  <2> SUFFICES ASSUME NEW t \in User, Owed(t)' PROVE Claim(t)'
    BY DEF ClaimsKept
  <2>0. t \in Tcb /\ t # SSI_tcb BY <1>0 DEF User
  <2>1. Owed(t) /\ t \notin ToSet(tcbfree')
    BY <1>0, <1>1, <1>2, <2>0, OwedBefore
  <2>2. HasMail(SSI_tcb, t) \/ Registered(t) \/ HasMail(t, MAGIC_SSI)
    BY <1>0, <2>1 DEF ClaimsKept, Claim, Noted, BeingServed
  <2>3. CASE HasMail(t, MAGIC_SSI)
    <3>1. HasMail(t, MAGIC_SSI)' BY <1>1, <2>0, <2>1, <2>3 DEF MailKept
    <3> QED BY <3>1 DEF Claim
  <2>4. CASE HasMail(SSI_tcb, t)
    <3>1. HasMail(SSI_tcb, t)' \/ v0'[SSI_tcb] = t
      <4>1. CASE RecvReturns(ANYMESSAGE) BY <1>0, <2>4, <4>1, ReceiveTakes
      <4>2. CASE RecvBlocks(ANYMESSAGE)
        BY <2>4, <4>2 DEF RecvBlocks, HasMail, mailVars
      <4> QED BY <1>0, <4>1, <4>2 DEF MsgRecv
    <3>2. CASE v0'[SSI_tcb] = t
      <4>1. Noted(t)' BY <1>0, <3>2 DEF Noted, BeingServed, req_thread
      <4> QED BY <4>1 DEF Claim
    <3> QED BY <3>1, <3>2 DEF Claim
  <2>5. CASE Registered(t)
    <3>1. Noted(t)' BY <1>0, <2>5 DEF Noted, Registered
    <3> QED BY <3>1 DEF Claim
  <2> QED BY <2>2, <2>3, <2>4, <2>5
<1> QED BY <1>3, <1>4, <1>5 DEF KnownInv

\* The answer reaches the thread it is for: a thread that waits for it is
\* woken, and one that does not wait yet finds it in its inbox.
LEMMA KnownSsiSend ==
    ASSUME NucleusInv, NucleusInv', KnownInv, kpc \notin Stopped, kpc' \notin Stopped,
           SystemTypeOK, InSSI, sent' = sent, NEW t, NEW w \in Word, SsiSend(t, w),
           \A u \in User : Noted(u) => u = t \/ Noted(u)'
    PROVE  KnownInv'
<1>0. /\ SentApart /\ ClaimsKept /\ CoreInv /\ MailInv /\ SSI_tcb \in Tcb
      /\ SSI_tcb \notin User /\ current_thread = SSI_tcb /\ ToSet(victims) = {}
      /\ SSI_tcb \notin ToSet(wait_queue) /\ SSI_tcb \notin ToSet(tcbfree) /\ SsiAlive
      /\ sent \subseteq User
      /\ \A u \in User : u \in ToSet(tcbfree) \/ Exists(u)
  BY SsiRuns DEF KnownInv, SsiAlive, SystemTypeOK
<1>1. t \in User /\ Receiver(t) = t /\ t \in Tcb
  BY <1>0, NullNotTcb DEF SsiSend, Send, SendFails, MaySend, Receiver, User, MAGIC_SSI
<1>2. Send(t, w)
  <2>1. CASE SendFails(t, w)
    <3>1. ~SendFaults(SSI_tcb, t) BY <1>0, <1>1, SsiSendsSafely DEF NucleusInv
    <3> QED BY <1>0, <1>1, <2>1, <3>1 DEF SendFails, Stopped
  <2> QED BY <2>1 DEF SsiSend
<1>3. /\ Deliver(SSI_tcb, t, w) /\ ~SendPanics(SSI_tcb, t)
      /\ wait_queue' = waitAfterSend(SSI_tcb, t)
      /\ kpc' = "scheduler" /\ nested' = nested /\ tcbfree' = tcbfree
  BY <1>0, <1>1, <1>2 DEF Send
<1>4. NobodyAsks({}) /\ MailKept({})
  BY <1>2, CalmMsgSend DEF MsgSend
<1>5. SentApart' BY <1>0, <1>3, <1>4 DEF SentApart, NobodyAsks
<1>6. SsiWaits' BY <1>0, <1>4 DEF SsiWaits, NobodyAsks
<1>7. ClaimsKept'
  <2> SUFFICES ASSUME NEW u \in User, Owed(u)' PROVE Claim(u)'
    BY DEF ClaimsKept
  <2>0. u \in Tcb /\ SSI_tcb \notin ToSet(tcbfree') BY <1>0, <1>3 DEF User
  <2>1. Owed(u) /\ u \notin ToSet(tcbfree') /\ u \notin ToSet(tcbfree)
    BY <1>0, <1>3, <1>4, OwedBefore DEF NobodyAsks
  <2>2. Claim(u) BY <1>0, <2>1 DEF ClaimsKept
  <2>3. CASE HasMail(SSI_tcb, u)
    <3>1. HasMail(SSI_tcb, u)' BY <1>0, <1>4, <2>0, <2>3 DEF MailKept
    <3> QED BY <3>1 DEF Claim
  <2>4. CASE HasMail(u, MAGIC_SSI)
    <3>1. HasMail(u, MAGIC_SSI)' BY <1>4, <2>0, <2>1, <2>4 DEF MailKept
    <3> QED BY <3>1 DEF Claim
  <2>5. CASE Noted(u)'
    BY <2>5 DEF Claim
  <2>6. CASE Noted(u) /\ ~Noted(u)'
    <3>0. u = t BY <2>6
    <3>1. ~Wakes(SSI_tcb, t)
      <4> SUFFICES ASSUME Wakes(SSI_tcb, t) PROVE FALSE OBVIOUS
      <4>1. t \in ToSet(wait_queue) /\ t \notin ToSet(wait_queue')
        BY <1>0, <1>1, <1>3, WaitingAfterSend DEF Wakes, thereIsThread
      <4>2. t \in sent BY <3>0, <4>1 DEF Owed, AwaitsSsi, thereIsThread
      <4> QED BY <1>0, <4>1, <4>2 DEF SentApart
    <3>2. Posts(SSI_tcb, t)
      BY <1>0, <1>1, <2>1, <3>0, <3>1 DEF Posts, Running, Exists
    <3>3. \E m \in ToSet(inbox'[t]) : m_sender'[m] = Sender(SSI_tcb)
      BY <1>0, <1>1, <1>3, <3>2, DeliverKeeps DEF Sending
    <3>4. HasMail(u, MAGIC_SSI)' BY <3>0, <3>3 DEF HasMail, Sender
    <3> QED BY <3>4 DEF Claim
  <2> QED BY <2>2, <2>3, <2>4, <2>5, <2>6 DEF Claim
<1> QED BY <1>5, <1>6, <1>7 DEF KnownInv

\* A new thread has asked for nothing yet, and its creator is answered.
LEMMA KnownCreate ==
    ASSUME NucleusInv, NucleusInv', KnownInv, kpc \notin Stopped, SystemTypeOK, ServeCreate
    PROVE  KnownInv'
<1> DEFINE new == Head(tcbfree)
<1>0. /\ SentApart /\ ClaimsKept /\ CoreInv /\ SSI_tcb \in Tcb /\ SSI_tcb \notin User
      /\ current_thread = SSI_tcb /\ kpc = "thread" /\ ToSet(victims) = {}
      /\ SSI_tcb \notin ToSet(wait_queue) /\ SSI_tcb \notin ToSet(tcbfree) /\ SsiAlive
      /\ InSSI
  BY SsiRuns DEF ServeCreate, Serving, At, KnownInv, SsiAlive
<1>1. /\ tcbfree # <<>> /\ tcbfree' = Tail(tcbfree)
      /\ inbox' = [inbox EXCEPT ![new] = <<>>]
      /\ waiting_for' = [waiting_for EXCEPT ![new] = MINUS1]
      /\ nested' = nested \ {new} /\ sent' = sent \ {new}
      /\ UNCHANGED <<m_sender, wait_queue, current_thread, victims>>
      /\ kpc' \in {kpc, "torn"}
      /\ ssi'.pc = "reply" /\ ssi'.to = req_thread /\ ssi.pc = "serve"
      /\ UNCHANGED <<clockTcb_array, devTcb_array>>
  BY DEF ServeCreate, CreateSon, CreateBrother, CreateThread, allocTcb, GoToSend, Serving, At,
         ioVars
<1>2. new \in User /\ new \in Tcb /\ new \in ToSet(tcbfree) /\ new # SSI_tcb
  BY <1>0, <1>1, FreshThread DEF User
<1>3. /\ inbox \in [Tcb -> Seq(Msg)] /\ tcbfree \in Seq(Tcb)
      /\ waiting_for \in [Tcb -> Tcb \cup {ANYMESSAGE, MAGIC_SSI}]
      /\ new \notin ToSet(wait_queue) /\ wait_queue \in Seq(Tcb)
  BY <1>0, <1>2 DEF CoreInv, QueuesOK, Partition, TypeMail, TypeTcb
<1>4. ToSet(tcbfree) = ToSet(tcbfree') \cup {new} BY <1>1, <1>3, TailLemma
<1> HIDE DEF new
<1>5. SentApart' BY <1>0, <1>1 DEF SentApart
<1>6. SsiWaits' BY <1>0, <1>1 DEF SsiWaits
<1>7. ClaimsKept'
  <2> SUFFICES ASSUME NEW t \in User, Owed(t)' PROVE Claim(t)'
    BY DEF ClaimsKept
  <2>1. t # new BY <1>1, <1>3 DEF Owed, AwaitsSsi, thereIsThread
  <2>2. t \in Tcb /\ t # SSI_tcb BY <1>0 DEF User
  <2>3. inbox'[t] = inbox[t] /\ inbox'[SSI_tcb] = inbox[SSI_tcb]
        /\ waiting_for'[t] = waiting_for[t]
    BY <1>0, <1>1, <1>2, <1>3, <2>1, <2>2
  <2>4. Owed(t)
    BY <1>0, <1>1, <1>4, <2>1, <2>3 DEF Owed, AwaitsSsi, thereIsThread
  <2>5. Claim(t) BY <1>0, <2>4 DEF ClaimsKept
  <2>6. CASE HasMail(SSI_tcb, t) \/ HasMail(t, MAGIC_SSI)
    <3>1. HasMail(SSI_tcb, t)' \/ HasMail(t, MAGIC_SSI)' BY <1>1, <2>3, <2>6 DEF HasMail
    <3> QED BY <3>1 DEF Claim
  <2>7. CASE Noted(t)
    <3>1. Noted(t)' BY <1>1, <2>7 DEF Noted, Registered, BeingServed
    <3> QED BY <3>1 DEF Claim
  <2> QED BY <2>5, <2>6, <2>7 DEF Claim
<1> QED BY <1>5, <1>6, <1>7 DEF KnownInv

\* A request that is served is answered, registered, or ends the thread; an
\* event answers a registered thread.  The two exceptions are in Forgets.
LEMMA KnownServed ==
    ASSUME NucleusInv, NucleusInv', ProgramInv, KnownInv, kpc \notin Stopped, ~Forgets,
           \/ ServeTick \/ TickDone \/ ServeInterrupt \/ ServeDropped \/ ServeWaitForClock
           \/ ServeCreateFails \/ ServeTerminate \/ ServeSpecManager \/ ServeGetCpuTime
           \/ ServeWaitForIO
    PROVE  KnownInv'
<1>0. /\ SsiServes /\ SystemTypeOK
      /\ clockTcb_array \in Seq(User) /\ Len(clockTcb_array) < MAXTHREADS
      /\ MAXTHREADS \in Nat /\ SSI_tcb \notin User
      /\ \A d \in Device : d \notin User
      /\ BUS_INTERVALTIMER \notin User
  BY NullNotTcb, WordAssumption DEF ProgramInv, SystemTypeOK, User
<1> DEFINE Framed == UNCHANGED <<inbox, m_sender, wait_queue, waiting_for, tcbfree, sent,
                                 nested, current_thread>>
<1>u. ASSUME UNCHANGED vars, sent' = sent, At("serve") \/ At("tick"),
             \A t \in User : Noted(t) /\ Owed(t)' => Noted(t)'
      PROVE  KnownInv'
  <2>1. Framed /\ kpc' = kpc
    BY <1>u DEF vars, tcbVars, mailVars, queueVars, controlVars
  <2>2. InSSI /\ kpc' # "fault" BY <1>u, <2>1 DEF At, InSSI, InThread
  <2> QED BY <1>u, <2>1, <2>2, KnownServe
<1>1. CASE ServeTick
  <2>1. /\ At("serve") /\ req_struct.service = "PSEUDOCLOCK_MSG" /\ UNCHANGED vars
        /\ UNCHANGED <<sent, clockTcb_array, devTcb_array>>
    BY <1>1 DEF ServeTick, ioVars, clientVars
  <2>2. req_thread \notin User
    <3>1. Carries(req_thread, req_struct) BY <1>0, <2>1, Served
    <3>2. req_struct \notin Request BY <2>1, RequestFields, ServiceAssumption
    <3> QED BY <1>0, <3>1, <3>2 DEF Carries
  <2> QED BY <1>u, <2>1, <2>2 DEF Noted, BeingServed, Registered, At
<1>2. CASE TickDone
  BY <1>u, <1>2 DEF TickDone, At, ioVars, clientVars, Noted, BeingServed, Registered
<1>3. CASE ServeInterrupt
  <2> DEFINE n == rest_index(req_thread)
  <2>1. /\ At("serve") /\ UNCHANGED vars /\ UNCHANGED <<sent, clockTcb_array>>
        /\ req_thread \in Device
    BY <1>0, <1>3, ServedInterrupt DEF ServeInterrupt, clientVars
  <2>2. \/ devTcb_array' = devTcb_array
        \/ /\ devTcb_array' = [devTcb_array EXCEPT ![n] = NULL]
           /\ GoToSend("reply", devTcb_array[n], Masked(req_struct.arg))
    BY <1>3 DEF ServeInterrupt
  <2> HIDE DEF n
  <2>3. ASSUME NEW t \in User, Noted(t) PROVE Noted(t)'
    <3>1. Registered(t) BY <1>0, <2>1, <2>3 DEF Noted, BeingServed, At
    <3>2. CASE Registered(t)' BY <3>2 DEF Noted
    <3>3. CASE ~Registered(t)'
      <4>1. PICK i \in Index : devTcb_array[i] = t BY <2>1, <3>1, <3>3 DEF Registered
      <4>2. devTcb_array'[i] # t BY <3>3 DEF Registered
      <4>3. DOMAIN devTcb_array = Index BY <1>0 DEF SystemTypeOK
      <4>4. GoToSend("reply", t, Masked(req_struct.arg)) BY <2>2, <4>1, <4>2, <4>3
      <4>5. BeingServed(t)' BY <4>4 DEF GoToSend, BeingServed
      <4> QED BY <4>5 DEF Noted
    <3> QED BY <3>2, <3>3
  <2> QED BY <1>u, <2>1, <2>3
<1>4. CASE ServeDropped
  <2>1. /\ At("serve") /\ req_thread \in User /\ ~Exists(req_thread) /\ UNCHANGED vars
        /\ UNCHANGED <<sent, clockTcb_array, devTcb_array>>
    BY <1>4 DEF ServeDropped, ioVars, clientVars
  <2>2. req_thread \in ToSet(tcbfree) BY <2>1, SsiRuns DEF At
  <2>3. /\ tcbfree' = tcbfree
        /\ ToSet(tcbfree') \cap ToSet(wait_queue') = {}
    BY <2>1 DEF vars, queueVars, NucleusInv, CoreInv, QueuesOK, Partition
  <2>4. ~Owed(req_thread)'
    <3> DEFINE t == req_thread
    <3>1. v0' = v0 BY <2>1 DEF vars, tcbVars
    <3>2. req_thread' = req_thread BY <3>1 DEF req_thread
    <3> QED BY <2>2, <2>3, <3>2 DEF Owed, AwaitsSsi, thereIsThread
  <2>5. ASSUME NEW t \in User, Noted(t), Owed(t)' PROVE Noted(t)'
    <3>1. v0' = v0 BY <2>1 DEF vars, tcbVars
    <3>2. t # req_thread
      BY <2>2, <2>3, <2>5 DEF Owed, AwaitsSsi, thereIsThread
    <3> QED BY <2>1, <2>5, <3>2 DEF Noted, BeingServed, Registered, At
  <2> QED BY <1>u, <2>1, <2>5
<1>5. CASE ServeWaitForClock
  <2>1. /\ Serving("WAITFORCLOCK") /\ At("serve") /\ UNCHANGED vars
        /\ UNCHANGED <<sent, devTcb_array>> /\ req_thread \in User
    BY <1>5 DEF ServeWaitForClock, Serving, ioVars, clientVars
  <2>2. clockTcb_array' = Append(clockTcb_array, req_thread)
    <3>1. Len(clockTcb_array) \in Nat /\ Len(clockTcb_array) # MAXTHREADS - 1
      BY <1>0, <1>5, LenProperties DEF Forgets
    <3>2. Len(clockTcb_array) < MAXTHREADS - 1 BY <1>0, <3>1
    <3> QED BY <1>5, <3>2 DEF ServeWaitForClock
  <2>3. ToSet(clockTcb_array') = ToSet(clockTcb_array) \cup {req_thread}
    BY <1>0, <2>1, <2>2, AppendLemma
  <2> QED BY <1>u, <2>1, <2>3 DEF Noted, BeingServed, Registered, At
<1>6. CASE ServeCreateFails \/ ServeGetCpuTime
  <2>1. /\ At("serve") /\ UNCHANGED vars /\ UNCHANGED <<sent, clockTcb_array, devTcb_array>>
        /\ ssi'.pc \in {"reply", "nogood"} /\ ssi'.to = req_thread
    BY <1>6 DEF ServeCreateFails, ServeGetCpuTime, Serving, At, GoToSend, ioVars, clientVars
  <2> QED BY <1>u, <2>1 DEF Noted, BeingServed, Registered, At
<1>7. CASE ServeSpecManager
  <2>1. PICK s \in DOMAIN Manages :
            Serving(s) /\ SpecManager(req_thread, Manages[s], req_struct.arg)
    BY <1>7 DEF ServeSpecManager
  <2>2. /\ At("serve") /\ InSSI /\ Framed /\ kpc' = kpc
        /\ UNCHANGED <<clockTcb_array, devTcb_array>>
        /\ ssi'.pc = "reply" /\ ssi'.to = req_thread
    BY <1>7, <2>1
    DEF ServeSpecManager, Serving, At, SpecManager, GoToSend, ioVars, clientVars, tcbVars,
        mailVars, queueVars, controlVars
  <2>3. ASSUME NEW t \in User, Noted(t) PROVE Noted(t)'
    BY <2>2, <2>3 DEF Noted, BeingServed, Registered, At
  <2>4. kpc' # "fault" BY <2>2 DEF InSSI, InThread
  <2> QED BY <2>2, <2>3, <2>4, KnownServe
<1>8. CASE ServeTerminate
  <2>1. /\ At("serve") /\ KillThread(req_thread) /\ req_thread \in User
        /\ UNCHANGED <<sent, clockTcb_array, devTcb_array>>
    BY <1>0, <1>8, ServedRequest DEF ServeTerminate, Serving, ioVars, clientVars
  <2>2. /\ Framed /\ kpc' = "terminate" /\ victims' = <<req_thread>> /\ InSSI
    BY <2>1 DEF KillThread, Terminate, tcbVars, mailVars, queueVars
  <2>3. req_thread \in ToSet(victims') BY <2>1, <2>2, OneLemma
  <2>4. ASSUME NEW t \in User, Noted(t), Owed(t)' PROVE Noted(t)'
    <3>1. t # req_thread BY <2>3, <2>4 DEF Owed
    <3> QED BY <2>1, <2>4, <3>1 DEF Noted, BeingServed, Registered, At
  <2> QED BY <2>2, <2>4, KnownServe
<1>9. CASE ServeWaitForIO
  <2> DEFINE n == rest_index(req_struct.arg)
  <2>1. /\ At("serve") /\ UNCHANGED vars /\ UNCHANGED <<sent, clockTcb_array>>
        /\ req_thread \in User
    BY <1>9 DEF ServeWaitForIO, Serving, clientVars
  <2>2. n \in Index /\ devTcb_array[n] = NULL
    <3>1. req_struct \in Request /\ req_struct.service = "WAITFORIO" /\ n # -1
      BY <1>0, <1>9, ServedRequest DEF ServeWaitForIO
    <3>2. req_struct.arg \in Device BY <3>1, RequestFields, ServiceAssumption
    <3> QED BY <1>9, <3>2 DEF Index, Forgets
  <2>3. \/ devTcb_array' = [devTcb_array EXCEPT ![n] = req_thread]
        \/ devTcb_array' = devTcb_array /\ ssi'.pc = "reply" /\ ssi'.to = req_thread
    BY <1>9 DEF ServeWaitForIO, GoToSend
  <2> HIDE DEF n
  <2>4. ASSUME NEW t \in User, Noted(t) PROVE Noted(t)'
    <3>0. DOMAIN devTcb_array = Index BY <1>0 DEF SystemTypeOK
    <3>1. CASE Registered(t)
      <4>1. t # NULL BY NullNotTcb DEF User
      <4>2. Registered(t)' BY <2>1, <2>2, <2>3, <3>0, <3>1, <4>1 DEF Registered
      <4> QED BY <4>2 DEF Noted
    <3>2. CASE BeingServed(t)
      <4>1. t = req_thread BY <2>1, <3>2 DEF BeingServed, At
      <4>2. CASE devTcb_array' = [devTcb_array EXCEPT ![n] = req_thread]
        <5>1. Registered(t)' BY <2>2, <3>0, <4>1, <4>2 DEF Registered
        <5> QED BY <5>1 DEF Noted
      <4>3. CASE ssi'.pc = "reply" /\ ssi'.to = req_thread
        <5>1. BeingServed(t)' BY <4>1, <4>3 DEF BeingServed
        <5> QED BY <5>1 DEF Noted
      <4> QED BY <2>3, <4>2, <4>3
    <3> QED BY <2>4, <3>1, <3>2 DEF Noted
  <2> QED BY <1>u, <2>1, <2>4
<1> QED BY <1>1, <1>2, <1>3, <1>4, <1>5, <1>6, <1>7, <1>8, <1>9

\* So the program of the SSI forgets nobody.
LEMMA KnownSsi ==
    ASSUME NucleusInv, NucleusInv', ProgramInv, KnownInv, kpc \notin Stopped,
           kpc' \notin Stopped, ~Forgets, SsiStep, ~CreateCrash
    PROVE  KnownInv'
<1>0. /\ SystemTypeOK /\ ssi.word \in Word /\ clockTcb_array \in Seq(User)
  BY DEF ProgramInv, SystemTypeOK
<1>1. CASE SsiRecv BY <1>0, <1>1, KnownSsiRecv
<1>2. CASE SsiReply \/ CreateNoGood
  <2>1. /\ InSSI /\ SsiSend(ssi.to, ssi.word) /\ ssi.pc \in {"reply", "nogood"}
        /\ UNCHANGED <<sent, clockTcb_array, devTcb_array>>
    BY <1>2 DEF SsiReply, CreateNoGood, At, ioVars, clientVars
  <2>2. \A u \in User : Noted(u) => u = ssi.to \/ Noted(u)'
    BY <2>1 DEF Noted, BeingServed, Registered
  <2> QED BY <1>0, <2>1, <2>2, KnownSsiSend
<1>3. CASE TickNext
  <2>1. /\ InSSI /\ ssi.pc = "tick" /\ SsiSend(Head(clockTcb_array), TICK)
        /\ clockTcb_array # <<>> /\ clockTcb_array' = Tail(clockTcb_array)
        /\ UNCHANGED <<sent, devTcb_array>>
    BY <1>3 DEF TickNext, At, ioVars, clientVars
  <2>2. ToSet(clockTcb_array) = ToSet(clockTcb_array') \cup {Head(clockTcb_array)}
    BY <1>0, <2>1, TailLemma
  <2>3. \A u \in User : Noted(u) => u = Head(clockTcb_array) \/ Noted(u)'
    BY <2>1, <2>2 DEF Noted, BeingServed, Registered
  <2>4. TICK \in Word BY SentWords
  <2> QED BY <1>0, <2>1, <2>3, <2>4, KnownSsiSend
<1>4. CASE ServeCreate BY <1>0, <1>4, KnownCreate
<1>5. ~ServeUnknown BY DEF ServeUnknown, ServicePanic, Panic, Stopped
<1> QED BY <1>1, <1>2, <1>3, <1>4, <1>5, KnownServed DEF SsiStep

\* As long as the machine runs, every step keeps what is known of requests.
RequestsInv == kpc \notin Stopped => KnownInv

LEMMA RequestsNext ==
    ASSUME SystemInv, SystemInv', RequestsInv, [SystemNext /\ ~Forgets]_sysVars
    PROVE  RequestsInv'
<1>0. /\ NucleusInv /\ NucleusInv' /\ ProgramInv /\ SystemTypeOK
  BY DEF SystemInv, ProgramInv
<1> SUFFICES ASSUME kpc' \notin Stopped PROVE KnownInv'
  BY DEF RequestsInv
<1>1. kpc \notin Stopped /\ KnownInv
  <2>1. [Next]_vars BY SystemStepKeeps
  <2> QED BY <2>1, StoppedStays DEF RequestsInv
<1>2. CASE SystemNext /\ ~Forgets
  <2>1. CASE SsiStep /\ ~CreateCrash BY <1>0, <1>1, <1>2, <2>1, KnownSsi
  <2>2. CASE Outside BY <1>0, <1>1, <2>2, KnownOutside
  <2>3. ASSUME NEW r \in Request, Ask(r) PROVE KnownInv'
    BY <1>0, <1>1, <2>3, KnownAsk
  <2>4. CASE Collect BY <1>0, <1>1, <2>4, KnownCollect
  <2> QED BY <1>2, <2>1, <2>2, <2>3, <2>4 DEF SystemNext, UserStep, Outside
<1>3. CASE UNCHANGED sysVars
  <2>1. /\ UNCHANGED <<inbox, m_sender, wait_queue, waiting_for, v0, tcbfree, victims, nested,
                       kpc, current_thread>>
        /\ UNCHANGED <<ssi, sent, clockTcb_array, devTcb_array>>
    BY <1>3 DEF sysVars, vars, ssiVars, tcbVars, mailVars, queueVars, controlVars, ioVars,
                clientVars
  <2>2. SentApart' /\ SsiWaits'
    BY <1>1, <2>1 DEF KnownInv, SentApart, SsiWaits, req_thread
  <2>3. ClaimsKept'
    BY <1>1, <2>1 DEF KnownInv, ClaimsKept, SsiAlive, Owed, AwaitsSsi, thereIsThread, Claim,
                      HasMail, Noted, BeingServed, Registered, req_thread
  <2> QED BY <2>2, <2>3 DEF KnownInv
<1> QED BY <1>2, <1>3

\* Nobody has asked for anything at boot.
LEMMA InitRequests == SystemInit => RequestsInv
<1> SUFFICES ASSUME SystemInit PROVE KnownInv BY DEF RequestsInv
<1>1. /\ sent = {} /\ wait_queue = <<>> /\ nested = {} /\ kpc = "scheduler"
      /\ ToSet(<<>>) = {}
  BY EmptyLemma DEF SystemInit, Init
<1>2. SentApart BY <1>1 DEF SentApart
<1>3. SsiWaits BY <1>1 DEF SsiWaits
<1>4. ClaimsKept BY <1>1 DEF ClaimsKept, Owed, AwaitsSsi, thereIsThread
<1> QED BY <1>2, <1>3, <1>4 DEF KnownInv

\* A thread that has a claim and waits has no answer in its inbox: it would
\* have been woken.
LEMMA KnownRequests ==
    ASSUME SystemInv, RequestsInv
    PROVE  RequestKnown
<1> SUFFICES ASSUME SsiAlive, kpc \notin Stopped \cup {"terminate"}, NEW t \in User,
                    AwaitsSsi(t), ~HasMail(SSI_tcb, t)
             PROVE  Noted(t)
  BY DEF RequestKnown, HasMail, Noted, BeingServed, Registered
<1>1. /\ NucleusInv /\ ClaimsKept BY DEF SystemInv, RequestsInv, KnownInv
<1>2. ToSet(victims) = {}
  <2>1. victims = <<>> BY <1>1 DEF NucleusInv, TreeInv, NoFrames
  <2> QED BY <2>1, EmptyLemma
<1>3. Claim(t) BY <1>1, <1>2 DEF ClaimsKept, Owed
<1>4. ~HasMail(t, MAGIC_SSI)
  <2>1. t \in ToSet(wait_queue) /\ waiting_for[t] = MAGIC_SSI
    BY DEF AwaitsSsi, thereIsThread
  <2>2. t \notin frozen
    BY <1>1, <2>1, NullNotTcb DEF NucleusInv, FrozenWaits, MAGIC_SSI
  <2> QED BY <1>1, <2>1, <2>2 DEF NucleusInv, MailInv, NoLostWakeup, HasMail, Matches
<1> QED BY <1>3, <1>4 DEF Claim

\* The only requests that are forgotten are those the SSI has no room to
\* register: a WAITFORCLOCK when clockTcb_array is full, and the WAITFORIO
\* whose place in devTcb_array a second request for the device takes.
THEOREM ForgottenOnlyWithoutRoom ==
    SystemSpec /\ [][~Forgets]_sysVars => []RequestKnown
<1>1. SystemInv /\ SystemInv' /\ RequestsInv /\ [SystemNext /\ ~Forgets]_sysVars => RequestsInv'
  BY RequestsNext
<1>2. SystemInv /\ RequestsInv => RequestKnown BY KnownRequests
<1>3. [SystemNext]_sysVars /\ [~Forgets]_sysVars => [SystemNext /\ ~Forgets]_sysVars
  OBVIOUS
<1> QED BY <1>1, <1>2, <1>3, InitRequests, SystemInvariant, PTL DEF SystemSpec

\* So when no thread asks for the clock or for I/O, none is ever forgotten,
\* whatever else threads ask for, do to each other, and die of.
THEOREM NoRequestForgotten ==
    ASSUME "WAITFORCLOCK" \notin Service, "WAITFORIO" \notin Service
    PROVE  SystemSpec => []RequestKnown
<1>1. SystemInv => ~Forgets
  <2> SUFFICES ASSUME SystemInv, Forgets PROVE FALSE OBVIOUS
  <2>1. PICK s \in {"WAITFORCLOCK", "WAITFORIO"} : Serving(s)
    BY DEF Forgets, ServeWaitForClock, ServeWaitForIO
  <2>2. req_struct \in Request /\ req_struct.service = s
    BY <2>1, ServedRequest DEF SystemInv, ProgramInv
  <2>3. s \in Service BY <2>2, RequestFields
  <2> QED BY <2>3
<1>2. SystemSpec => [][~Forgets]_sysVars
  BY <1>1, SystemInvariant, PTL
<1> QED BY <1>2, ForgottenOnlyWithoutRoom, PTL

=============================================================================
