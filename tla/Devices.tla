------------------------------ MODULE Devices ------------------------------
(***************************************************************************)
(* The device registers and what int_handler (phase2/src/interrupts.c)     *)
(* does with them on the lines 3 to 7: it looks for the device, reads its  *)
(* status, acknowledges it, and sends the status to the SSI.  A register   *)
(* is known by the address of its status field.                            *)
(*                                                                         *)
(* Disks, tapes, network and printers are acknowledged before their status *)
(* is read; a terminal only when a character was sent or received, and     *)
(* after that.                                                             *)
(***************************************************************************)
EXTENDS Integers, Nucleus

CONSTANTS
    READY,          \* DEV_S_READY, the status of an idle device
    BUSY,           \* the status of a device that executes a command
    CHARDONE,       \* a status word: character << 8 | DEV_TTRS_S_CHARTRSM
    FAILED,         \* a status word: DEV_TTRS_S_TRSMERR or another error
    TRANSMITTED     \* CHARDONE & STATUSMASK, also called RECEIVED

Status == {READY, BUSY, CHARDONE, FAILED}

\* s & STATUSMASK
Masked(s) == IF s = CHARDONE THEN TRANSMITTED ELSE s

INT_LOWEST == 3
INT_TERMINAL == 7
DEV_REGS_START == \h10000050

device_baseaddr(line, dev_number) ==
    DEV_REGS_START + (line - INT_LOWEST) * 128 + dev_number * 16
TRANS == 8      \* from the receiver of a terminal to its transmitter

\* Every status field of the machine: one for each device of the lines 3 to
\* 6, two for each terminal.
Registers ==
    {device_baseaddr(line, n) : line \in INT_LOWEST .. INT_TERMINAL, n \in 0 .. 7}
        \cup {device_baseaddr(INT_TERMINAL, n) + TRANS : n \in 0 .. 7}

\* Device is the set of those that are installed.
ASSUME DeviceAssumption == Device \subseteq Registers

ASSUME StatusAssumption ==
    /\ Cardinality(Status \cup {TRANSMITTED, NULL}) = 6
    /\ Status \cup {TRANSMITTED} \subseteq Word

\* The index of a register in the arrays of the SSI, -1 for any other address.
rest_index(dev) ==
    LET offset == dev - DEV_REGS_START
    IN  IF offset \in 0 .. 511 /\ offset % 16 = 0 THEN offset \div 16
        ELSE IF offset \in 512 .. 639 /\ offset % 8 = 0 THEN 32 + (offset - 512) \div 8
        ELSE -1

VARIABLES
    reg,        \* the status field of each register
    pending     \* the registers whose interrupt is pending

devVars == <<reg, pending>>

DevTypeOK == reg \in [Device -> Status] /\ pending \subseteq Device

DevInit == reg = [d \in Device |-> READY] /\ pending = {}

----------------------------------------------------------------------------
(* The hardware *)

LineOf(d) == INT_LOWEST + (d - DEV_REGS_START) \div 128
NumberOf(d) == ((d - DEV_REGS_START) % 128) \div 16
IsTerminal(d) == LineOf(d) = INT_TERMINAL

\* A thread writes a command.
Start(d) ==
    /\ reg[d] = READY
    /\ reg' = [reg EXCEPT ![d] = BUSY]
    /\ UNCHANGED pending

\* The device has finished: a terminal with the character or an error, the
\* others ready again or with an error.
Complete(d) ==
    /\ reg[d] = BUSY
    /\ \E s \in {FAILED, IF IsTerminal(d) THEN CHARDONE ELSE READY} :
          reg' = [reg EXCEPT ![d] = s]
    /\ pending' = pending \cup {d}

\* DEV_C_ACK
Acknowledge(d) ==
    /\ reg' = [reg EXCEPT ![d] = READY]
    /\ pending' = pending \ {d}

----------------------------------------------------------------------------
(* int_handler *)

\* The set bits of the bitmap of a line, a bit for each device.
Bitmap(line) == {NumberOf(d) : d \in {e \in pending : LineOf(e) = line}}

\* The first bit that is set, 7 if none of the bits 0 to 6 is.
which_device(bitmap) == Min((bitmap \ {7}) \cup {7})

\* The line that the handler serves: the first one with its bit in the cause.
int_line == Min({LineOf(d) : d \in pending})
Base == device_baseaddr(int_line, which_device(Bitmap(int_line)))

\* A character has been sent or received.
Done(d) == d \in Device /\ Masked(reg[d]) = TRANSMITTED

\* Mutant: the transmitter is forgotten.
SubdeviceReceiver ==
    IF int_line # INT_TERMINAL \/ Done(Base) THEN {Base} ELSE {}

\* The status field that the handler finds responsible, for a terminal the
\* transmitter first; {} when neither has handled a character.
Subdevice ==
    IF int_line # INT_TERMINAL THEN {Base}
    ELSE IF Done(Base + TRANS) THEN {Base + TRANS}
    ELSE IF Done(Base) THEN {Base} ELSE {}

\* What is read from the status field: before the ACK only on line 7.
StatusRead(d) == IF IsTerminal(d) THEN reg[d] ELSE READY

\* The SSI_request_msg whose address is sent to the SSI.
DeviceMsg(status) == [service |-> "INTERRUPT_MSG", arg |-> status]

DeviceServed ==
    /\ pending # {}
    /\ \E d \in Subdevice :
          /\ DeviceInterrupt(d, DeviceMsg(StatusRead(d)))
          /\ Acknowledge(d)

\* A terminal with an error: nothing is sent, nothing is acknowledged.
DeviceIgnored ==
    /\ pending # {} /\ Subdevice = {}
    /\ InterruptIgnored
    /\ UNCHANGED devVars

\* Mutant: the machine is shut down instead.
DevicePanicHalts ==
    /\ pending # {}
    /\ \E d \in Subdevice :
          /\ Interruptible /\ InterruptPanics(d)
          /\ IF IsTerminal(d) THEN UNCHANGED devVars ELSE Acknowledge(d)
    /\ kpc' = "HALT"
    /\ UNCHANGED <<tcbVars, mailVars, queueVars, managerVars, treeVars, victims,
                   nested, frozen, soft_block_count>>

\* The SSI is gone or no message is left; the machine stops.
DevicePanic ==
    /\ pending # {}
    /\ \E d \in Subdevice :
          /\ Interruptible /\ InterruptPanics(d)
          /\ IF IsTerminal(d) THEN UNCHANGED devVars ELSE Acknowledge(d)
    /\ Panic

=============================================================================
