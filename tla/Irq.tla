--------------------------------- MODULE Irq --------------------------------
(***************************************************************************)
(* Interrupts (src/CPU/irq.c, irqa.asm, PIC in src/System/cpu) and the     *)
(* keyboard (src/System/Keyboard): the boot thread, which enables the      *)
(* interrupts before it installs their handlers, the handlers, which each  *)
(* send an end of interrupt that irq_handler sends again, and the devices. *)
(*                                                                         *)
(* Outside the repository are the two interrupt controllers, cascaded on   *)
(* line 2, edge-triggered, with fixed priorities, and the keyboard         *)
(* controller, which makes a request when a byte enters its empty output   *)
(* buffer and holds further bytes back until that one is read.             *)
(*                                                                         *)
(* Port writes are single steps: a device may make a request between any   *)
(* two of them.  The codes of the keys are numbered as they are pressed.   *)
(***************************************************************************)
EXTENDS Naturals, Sequences, FiniteSets

CONSTANTS Edges,    \* bound: requests of each line, keys for the keyboard
          Faults    \* the exceptions that happen: a page fault is 14, and
                    \* _ASSERT raises number 20

Timer == 0
Kbd == 1
Cascade == 2
Ata == {14, 15}
Lines == {Timer, Kbd} \cup Ata

Fault == 16         \* in place of a line

ASSUME IrqAssumption == Edges \in [Lines -> Nat] /\ Faults \subseteq 0..31

VARIABLES
  pic,       \* [irr: lines requested, isr: lines in service]
  cpu,       \* [if: interrupts enabled, frames: handlers running, the last
             \*  one first, each with its line and what it does next]
  main,      \* the boot thread: what it does next, and the argument and the
             \* half of its SendEOI
  routines,  \* irq_routines: the lines that have a handler
  kbc,       \* the keyboard controller: [full, code, waiting]
  made,      \* requests made of each line, keys pressed
  driver,    \* the keyboard driver: [code: KeycodeArr[0], event: ~EventQueEmpty,
             \*  ticks: timer_ticks]
  reader,    \* the caller of GetKeyCode: [got: what it has read, seen: the
             \*  last key it was given]
  early,     \* an interrupt of the keyboard came before its driver
  fault      \* what Err_hanlder is given, if an exception has happened:
             \* [vector, code: the processor's, regs: the top of the stack]

vars == <<pic, cpu, main, routines, kbc, made, driver, reader, early, fault>>

NoKey == 0

Lowest(S) == CHOOSE x \in S : \A y \in S : x <= y

-----------------------------------------------------------------------------
(***************************************************************************)
(* The interrupt controllers.                                              *)
(***************************************************************************)
Master(S) == S \cap {Timer, Kbd, Cascade}
Slave(S)  == S \cap Ata

MasterLine(l) == IF l \in Ata THEN Cascade ELSE l

(* The line the processor is offered, if it is offered one.                *)
Offered(p) == {l \in p.irr : /\ \A k \in Master(p.isr) : MasterLine(l) < k
                             /\ l \in Ata => \A k \in Slave(p.isr) : l < k
                             /\ \A k \in p.irr : l <= k}

Accepted(p, l) == [irr |-> p.irr \ {l}, isr |-> p.isr \cup {l, MasterLine(l)}]

Request(p, l) == [p EXCEPT !.irr = @ \cup {l}]

(* A non-specific end of interrupt ends the first in service.              *)
Ended(p, S) == IF S = {} THEN p ELSE [p EXCEPT !.isr = @ \ {Lowest(S)}]

SlaveEOI(p)  == Ended(p, Slave(p.isr))
MasterEOI(p) == Ended(p, Master(p.isr))

-----------------------------------------------------------------------------
(***************************************************************************)
(* Devices.                                                                *)
(***************************************************************************)
MakeRequest(l) ==
  /\ made[l] < Edges[l]
  /\ made' = [made EXCEPT ![l] = @ + 1]

Edge(l) == /\ l # Kbd /\ MakeRequest(l)
           /\ pic' = Request(pic, l)
           /\ UNCHANGED <<cpu, main, routines, kbc, driver, reader, early, fault>>

PressKey ==
  /\ MakeRequest(Kbd)
  /\ IF kbc.full
     THEN /\ kbc' = [kbc EXCEPT !.waiting = Append(@, made'[Kbd])]
          /\ UNCHANGED pic
     ELSE /\ kbc' = [kbc EXCEPT !.full = TRUE, !.code = made'[Kbd]]
          /\ pic' = Request(pic, Kbd)
  /\ UNCHANGED <<cpu, main, routines, driver, reader, early, fault>>

-----------------------------------------------------------------------------
(***************************************************************************)
(* The gates (0x8E) and the stubs of irqa.asm keep interrupts off until    *)
(* iret.                                                                   *)
(***************************************************************************)
EnabledInTrap == TRUE

EnabledInHandler == FALSE

Dispatch ==
  /\ cpu.if
  /\ \E l \in Offered(pic) :
       /\ pic' = Accepted(pic, l)
       /\ cpu' = [if |-> EnabledInHandler,
                  frames |-> <<[line |-> l, at |-> "call"]>> \o cpu.frames]
  /\ UNCHANGED <<main, routines, kbc, made, driver, reader, early, fault>>

Top == Head(cpu.frames)
At(l, a) == cpu.frames # << >> /\ Top.line = l /\ Top.at = a

Goto(a) == cpu' = [cpu EXCEPT !.frames = <<[Top EXCEPT !.at = a]>> \o Tail(@)]

(* irq_handler calls irq_routines[l], if there is one.                     *)
EoiOf(l)      == IF l \in Ata THEN "slave" ELSE "master"
OwnEoiOf(l)   == IF l \in Ata THEN "own slave" ELSE "own master"
HandlerOf(l)  == IF l = Kbd THEN "status" ELSE OwnEoiOf(l)

Call(l) ==
  /\ At(l, "call")
  /\ Goto(IF l \in routines THEN HandlerOf(l) ELSE EoiOf(l))
  /\ driver' = IF l = Timer /\ l \in routines
               THEN [driver EXCEPT !.ticks = @ + 1] ELSE driver
  /\ early' = (early \/ (l = Kbd /\ l \notin routines))
  /\ UNCHANGED <<pic, main, routines, kbc, made, reader, fault>>

(* Keyboard::IRQ_handler: the status, the byte, the event.                 *)
WrongBit == IF kbc.full THEN "event" ELSE "data"

AfterStatus == IF kbc.full THEN "data" ELSE "event"

ReadStatus ==
  /\ At(Kbd, "status")
  /\ Goto(AfterStatus)
  /\ UNCHANGED <<pic, main, routines, kbc, made, driver, reader, early, fault>>

ByteTaken == IF kbc.waiting = << >> THEN [kbc EXCEPT !.full = FALSE]
             ELSE [kbc EXCEPT !.code = Head(kbc.waiting), !.waiting = Tail(@)]

ReadData ==
  /\ At(Kbd, "data")
  /\ Goto("event")
  /\ driver' = [driver EXCEPT !.code = kbc.code]
  /\ kbc' = ByteTaken
  /\ pic' = IF kbc'.full THEN Request(pic, Kbd) ELSE pic
  /\ UNCHANGED <<main, routines, made, reader, early, fault>>

SetEvent ==
  /\ At(Kbd, "event")
  /\ Goto(OwnEoiOf(Kbd))
  /\ driver' = [driver EXCEPT !.event = TRUE]
  /\ UNCHANGED <<pic, main, routines, kbc, made, reader, early, fault>>

(* The handler's SendEOI, and the one at the end of irq_handler.           *)
AfterSlave == "iret"

AfterSlaveEoi == "master"

HandlerEOI ==
  /\ cpu.frames # << >>
  /\ \/ Top.at = "own slave"  /\ Goto("own master") /\ pic' = SlaveEOI(pic)
     \/ Top.at = "own master" /\ Goto(EoiOf(Top.line)) /\ pic' = MasterEOI(pic)
     \/ Top.at = "slave"      /\ Goto(AfterSlaveEoi) /\ pic' = SlaveEOI(pic)
     \/ Top.at = "master"     /\ Goto("iret") /\ pic' = MasterEOI(pic)
  /\ UNCHANGED <<main, routines, kbc, made, driver, reader, early, fault>>

Iret ==
  /\ cpu.frames # << >> /\ Top.at = "iret"
  /\ cpu' = [if |-> TRUE, frames |-> Tail(cpu.frames)]
  /\ UNCHANGED <<pic, main, routines, kbc, made, driver, reader, early, fault>>

Handler == \/ \E l \in Lines : Call(l)
           \/ ReadStatus \/ ReadData \/ SetEvent \/ HandlerEOI \/ Iret

-----------------------------------------------------------------------------
(***************************************************************************)
(* Exceptions, of the boot thread or of a handler.  For some the processor *)
(* pushes a code; the stub of each in isra.asm is to make up for the       *)
(* others, so that the number and the code are on top of the stack.        *)
(***************************************************************************)
HasCode == {8, 10, 11, 12, 13, 14}

StubPushes(v) == IF v \in HasCode THEN <<v>> ELSE <<v, 0>>

NoFault == [vector |-> 32, code |-> 0, regs |-> << >>]

EnabledInFault == FALSE

(* During vmm::init, which comes before PIT::init, and system_init.        *)
MayFault == main.at \in {"timer", "run"}

Raise(v, code) ==
  /\ fault = NoFault /\ MayFault
  /\ fault' = [vector |-> v, code |-> code,
               regs |-> StubPushes(v) \o (IF v \in HasCode THEN <<code>> ELSE << >>)]
  /\ cpu' = [if |-> EnabledInFault,
             frames |-> <<[line |-> Fault, at |-> "report"]>> \o cpu.frames]
  /\ UNCHANGED <<pic, main, routines, kbc, made, driver, reader, early>>

(* Err_hanlder.  ISR_HANDLERS has 16 entries, all null; for a number from  *)
(* 16 on it reads past them, so that either branch may be taken.           *)
Report ==
  /\ At(Fault, "report")
  /\ \/ Goto("disable")
     \/ fault.regs[1] >= 16 /\ Goto("halt")
  /\ UNCHANGED <<pic, main, routines, kbc, made, driver, reader, early, fault>>

DisableINT ==
  /\ At(Fault, "disable")
  /\ cpu' = [if |-> FALSE, frames |-> <<[Top EXCEPT !.at = "halt"]>> \o Tail(cpu.frames)]
  /\ UNCHANGED <<pic, main, routines, kbc, made, driver, reader, early, fault>>

HALT == At(Fault, "halt") /\ UNCHANGED vars

Exception == \/ \E v \in Faults : Raise(v, IF v \in HasCode THEN 2 ELSE 0)
             \/ Report \/ DisableINT \/ HALT

-----------------------------------------------------------------------------
(***************************************************************************)
(* The boot thread: EnableINT, a SendEOI for every number below 32,        *)
(* PIT::init, Keyboard::installIRQ and the ATA driver.  It runs while no   *)
(* handler does.                                                           *)
(***************************************************************************)
Running(s) == cpu.frames = << >> /\ main.at = s

EnableINT ==
  /\ Running("enable")
  /\ cpu' = [cpu EXCEPT !.if = TRUE]
  /\ main' = [main EXCEPT !.at = "send"]
  /\ UNCHANGED <<pic, routines, kbc, made, driver, reader, early, fault>>

FirstHalf(i) == IF i >= 8 THEN "slave" ELSE "master"

LastEOI == 31

SendNext(i) == [at |-> "send", irq |-> i, half |-> FirstHalf(i)]

SendEOI ==
  /\ Running("send")
  /\ \/ /\ main.half = "slave"
        /\ pic' = SlaveEOI(pic)
        /\ main' = [main EXCEPT !.half = "master"]
     \/ /\ main.half = "master"
        /\ pic' = MasterEOI(pic)
        /\ main' = IF Kbd \in routines THEN [main EXCEPT !.at = "ata"]
                   ELSE IF main.irq = LastEOI THEN [main EXCEPT !.at = "timer"]
                   ELSE SendNext(main.irq + 1)
  /\ UNCHANGED <<cpu, routines, kbc, made, driver, reader, early, fault>>

Install(s, l, m) ==
  /\ Running(s)
  /\ routines' = routines \cup {l}
  /\ main' = m
  /\ UNCHANGED <<pic, cpu, kbc, made, driver, reader, early, fault>>

InstallTimer == Install("timer", Timer, [main EXCEPT !.at = "keyboard"])
InstallKbd   == Install("keyboard", Kbd, SendNext(Kbd))
InstallAta   == \/ Install("ata", 14, [main EXCEPT !.at = "ata 2"])
                \/ Install("ata 2", 15, [main EXCEPT !.at = "run"])

(* GetKeyCode reads the code and clears it; EventHandled.                  *)
Uncleared == driver.code

Cleared == NoKey

ReadCode ==
  /\ Running("run") /\ main' = [main EXCEPT !.at = "clear"]
  /\ reader' = [reader EXCEPT !.got = driver.code]
  /\ UNCHANGED <<pic, cpu, routines, kbc, made, driver, early, fault>>

ClearCode ==
  /\ Running("clear") /\ main' = [main EXCEPT !.at = "run"]
  /\ driver' = [driver EXCEPT !.code = Cleared]
  /\ reader' = [got |-> NoKey,
                seen |-> IF reader.got = NoKey THEN reader.seen ELSE reader.got]
  /\ UNCHANGED <<pic, cpu, routines, kbc, made, early, fault>>

EventHandled ==
  /\ Running("run") /\ driver.event
  /\ driver' = [driver EXCEPT !.event = FALSE]
  /\ UNCHANGED <<pic, cpu, main, routines, kbc, made, reader, early, fault>>

Boot == EnableINT \/ SendEOI \/ InstallTimer \/ InstallKbd \/ InstallAta

Init == /\ pic = [irr |-> {}, isr |-> {}]
        /\ cpu = [if |-> FALSE, frames |-> << >>]
        /\ main = [at |-> "enable", irq |-> 0, half |-> "master"]
        /\ routines = {}
        /\ kbc = [full |-> FALSE, code |-> NoKey, waiting |-> << >>]
        /\ made = [l \in Lines |-> 0]
        /\ driver = [code |-> NoKey, event |-> FALSE, ticks |-> 0]
        /\ reader = [got |-> NoKey, seen |-> NoKey]
        /\ early = FALSE
        /\ fault = NoFault

Devices == PressKey \/ \E l \in Lines : Edge(l)

Next == \/ Devices \/ Dispatch \/ Handler \/ Exception \/ Boot
        \/ ReadCode \/ ClearCode \/ EventHandled

(* The processor goes on: through handlers, to requests, through the boot. *)
Spec == /\ Init /\ [][Next]_vars
        /\ WF_vars(Handler) /\ WF_vars(Dispatch) /\ WF_vars(Boot)

-----------------------------------------------------------------------------
(***************************************************************************)
(* Properties.                                                             *)
(***************************************************************************)
TypeOK ==
  /\ pic.irr \subseteq Lines /\ pic.isr \subseteq Lines \cup {Cascade}
  /\ cpu.if \in BOOLEAN
  /\ main.irq \in 0..31 /\ main.half \in {"slave", "master"}
  /\ main.at \in {"enable", "send", "timer", "keyboard", "ata", "ata 2", "run", "clear"}
  /\ routines \subseteq Lines
  /\ kbc.full \in BOOLEAN /\ kbc.code \in 0..Edges[Kbd]
  /\ driver.code \in 0..Edges[Kbd] /\ driver.ticks \in 0..Edges[Timer]

(* An end of interrupt that ends anything ends the interrupt of the        *)
(* handler that sends it: neither the second one of irq_handler nor the    *)
(* boot thread's, with interrupts enabled, ends another's.                 *)
EndsItsOwn ==
  [][\A l \in pic.isr \ pic'.isr :
       cpu.frames # << >> /\ l \in {Top.line, MasterLine(Top.line)}]_vars

(* When no handler runs nothing is in service, so that no line is blocked. *)
NothingLeftInService == TypeOK /\ (cpu.frames = << >> => pic.isr = {})

(* Once its driver is there, no byte waits in the keyboard controller      *)
(* without a request, unless an interrupt of it came before.               *)
BeingRead == \E n \in DOMAIN cpu.frames :
               /\ cpu.frames[n].line = Kbd
               /\ cpu.frames[n].at \in {"call", "status", "data"}

NoByteForgotten == kbc.full /\ ~early => Kbd \in pic.irr \/ BeingRead

(* The caller of GetKeyCode is given keys in the order they were pressed,  *)
(* none twice, whatever comes between its read and its clear.              *)
KeysInOrder == reader.got # NoKey => reader.got > reader.seen

(* Every request is accepted, before the handlers are there and after,     *)
(* unless an exception stops the kernel.                                   *)
Served ==
  \A l \in Lines : (l \in pic.irr) ~> (l \notin pic.irr \/ fault # NoFault)

(* Err_hanlder is given the number and the code of the exception, and from *)
(* then on nothing but it runs: the handlers and the boot thread leave all *)
(* they share as it was, whatever the devices go on to do, and no branch   *)
(* of the handler leads back to them.                                      *)
FaultIsFinal ==
  [][fault' # NoFault =>
       /\ fault'.regs = <<fault'.vector, fault'.code>>
       /\ UNCHANGED <<main, routines, driver, reader, pic.isr>>
       /\ Top'.line = Fault /\ ~cpu'.if]_vars

=============================================================================
