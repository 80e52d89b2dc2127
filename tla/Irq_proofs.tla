----------------------------- MODULE Irq_proofs -----------------------------
(***************************************************************************)
(* Proofs about Irq, for any number of requests and keys and any set of    *)
(* exceptions.                                                             *)
(*                                                                         *)
(* The invariant says what is in service at each point of a handler, that  *)
(* there is one handler at a time until an exception comes, and that after *)
(* it the frame on top is the exception's, for good.                       *)
(***************************************************************************)
EXTENDS Irq, SequenceTheorems, TLAPS

Points == {"call", "status", "data", "event", "own slave", "own master", "slave",
           "master", "iret", "report", "disable", "halt"}

Frame == [line : Lines \cup {Fault}, at : Points]

(* What may be in service while the handler of line l is about to do a.    *)
InHandler(l, a) ==
  \/ a \in {"call", "status", "data", "event"} /\ pic.isr = {l, MasterLine(l)}
  \/ a \in {"own slave", "slave"} /\ l \in Ata /\ pic.isr = {l, MasterLine(l)}
  \/ a \in {"own master", "master"} /\ pic.isr = {MasterLine(l)}
  \/ a = "slave" /\ l \in Ata /\ pic.isr = {}
  \/ a \in {"master", "iret"} /\ pic.isr = {}

PicType    == pic \in [irr : SUBSET Lines, isr : SUBSET (Lines \cup {Cascade})]
CpuType    == cpu \in [if : BOOLEAN, frames : Seq(Frame)]
MainType   == main \in [at : {"enable", "send", "timer", "keyboard", "ata", "ata 2", "run", "clear"},
                        irq : 0..31, half : {"slave", "master"}]
KbcType    == kbc \in [full : BOOLEAN, code : 0..Edges[Kbd], waiting : Seq(0..Edges[Kbd])]
MadeType   == made \in [Lines -> Nat] /\ \A l \in Lines : made[l] <= Edges[l]
DriverType == driver \in [code : 0..Edges[Kbd], event : BOOLEAN, ticks : Nat]

Types == /\ PicType /\ CpuType /\ MainType /\ KbcType /\ MadeType /\ DriverType
         /\ routines \subseteq Lines

(* A request of the timer that is not counted yet is one that was made.    *)
Pending == (IF Timer \in pic.irr THEN 1 ELSE 0) + (IF At(Timer, "call") THEN 1 ELSE 0)

TicksMade == /\ driver.ticks <= made[Timer]
             /\ fault = NoFault => driver.ticks + Pending <= made[Timer]

OneHandler ==
  fault = NoFault =>
    \/ cpu.frames = << >> /\ pic.isr = {}
    \/ /\ Len(cpu.frames) = 1 /\ ~cpu.if
       /\ Top.line \in Lines /\ InHandler(Top.line, Top.at)

FaultOnTop ==
  fault # NoFault =>
    /\ cpu.frames # << >> /\ ~cpu.if
    /\ Top.line = Fault /\ Top.at \in {"report", "disable", "halt"}
    /\ fault.regs = <<fault.vector, fault.code>>

IInv == Types /\ TicksMade /\ OneHandler /\ FaultOnTop

-----------------------------------------------------------------------------
(***************************************************************************)
(* Ending the interrupt in service.                                        *)
(***************************************************************************)
LEMMA EndedOne == ASSUME NEW p, NEW x PROVE Ended(p, {x}) = [p EXCEPT !.isr = @ \ {x}]
<1>1. Lowest({x}) = x
  BY DEF Lowest
<1> QED BY <1>1 DEF Ended

(* An end of interrupt with nothing in service changes nothing.            *)
LEMMA EndedNone == ASSUME NEW p PROVE Ended(p, {}) = p
BY DEF Ended

(* A frame is made of a line, or Fault, and a point.                       *)
LEMMA FrameOf ==
  ASSUME NEW l \in Lines \cup {Fault}, NEW a \in Points
  PROVE  [line |-> l, at |-> a] \in Frame
BY DEF Frame

(* Goto only moves the handler on top.                                     *)
LEMMA GotoTop ==
  ASSUME cpu \in [if : BOOLEAN, frames : Seq(Frame)], cpu.frames # << >>,
         NEW a \in Points, Goto(a)
  PROVE  /\ cpu' \in [if : BOOLEAN, frames : Seq(Frame)]
         /\ cpu'.if = cpu.if /\ Len(cpu'.frames) = Len(cpu.frames)
         /\ cpu'.frames # << >>
         /\ Top'.line = Top.line /\ Top'.at = a
<1>1. Top \in Frame /\ Tail(cpu.frames) \in Seq(Frame)
  BY DEF Top
<1>2. [Top EXCEPT !.at = a] \in Frame
  BY <1>1 DEF Frame
<1>3. cpu' = [cpu EXCEPT !.frames = <<[Top EXCEPT !.at = a]>> \o Tail(cpu.frames)]
  BY DEF Goto
<1> DEFINE f == [Top EXCEPT !.at = a]
           g == <<f>> \o Tail(cpu.frames)
<1>4. g \in Seq(Frame) /\ Len(g) = Len(cpu.frames) /\ g # << >> /\ Head(g) = f
  <2>1. f \in Frame
    BY <1>2
  <2> QED BY <1>1, <2>1
<1>5. cpu'.frames = g /\ cpu'.if = cpu.if /\ cpu' \in [if : BOOLEAN, frames : Seq(Frame)]
  BY <1>3, <1>4
<1>6. Top' = f
  BY <1>4, <1>5 DEF Top
<1>7. f.line = Top.line /\ f.at = a
  BY <1>1 DEF Frame
<1> QED BY <1>4, <1>5, <1>6, <1>7

(* The invariant holds at first.                                           *)
LEMMA InitIInv == Init => IInv
<1> SUFFICES ASSUME Init PROVE IInv
  OBVIOUS
<1>1. Edges[Kbd] \in Nat /\ \A l \in Lines : Edges[l] \in Nat
  BY IrqAssumption DEF Lines, Kbd
<1>2. PicType /\ CpuType /\ MainType /\ KbcType /\ MadeType /\ DriverType
  BY <1>1 DEF Init, PicType, CpuType, MainType, KbcType, MadeType, DriverType, NoKey, Frame
<1>3. TicksMade
  BY DEF Init, TicksMade, Pending, At, Lines, Timer
<1>4. OneHandler
  BY DEF Init, OneHandler
<1>5. FaultOnTop
  BY DEF Init, FaultOnTop
<1>6. routines \subseteq Lines
  BY DEF Init
<1> QED BY <1>2, <1>3, <1>4, <1>5, <1>6 DEF IInv, Types

-----------------------------------------------------------------------------
(***************************************************************************)
(* Facts that several steps use.                                           *)
(***************************************************************************)
LEMMA FaultNotLine == Fault \notin Lines
BY DEF Fault, Lines, Ata, Timer, Kbd

(* The lines of the devices; the cascade is none of them.                  *)
LEMMA LinesKnown == Timer \in Lines /\ Kbd \in Lines /\ Ata \subseteq Lines /\ Cascade \notin Lines
BY DEF Lines, Timer, Kbd, Ata, Cascade

(* The keyboard's line is not the timer's and not behind the slave.        *)
LEMMA KbdApart == Timer # Kbd /\ Kbd \notin Ata /\ MasterLine(Kbd) = Kbd
BY DEF Timer, Kbd, MasterLine, Ata

(* The bounds of the requests are numbers.                                 *)
LEMMA EdgesNat == Edges \in [Lines -> Nat]
BY IrqAssumption

(* A request of a line leaves what is in service.                          *)
LEMMA RequestPic ==
  ASSUME PicType, NEW l \in Lines
  PROVE  /\ Request(pic, l) \in [irr : SUBSET Lines, isr : SUBSET (Lines \cup {Cascade})]
         /\ Request(pic, l).isr = pic.isr
         /\ Request(pic, l).irr = pic.irr \cup {l}
BY DEF PicType, Request

(* The count stays below the requests made when neither moves and no       *)
(* request of the timer appears.                                           *)
LEMMA TicksKept ==
  ASSUME TicksMade, MadeType, DriverType, UNCHANGED <<made, fault>>,
         driver'.ticks = driver.ticks,
         Timer \in pic'.irr => Timer \in pic.irr,
         At(Timer, "call")' => At(Timer, "call")
  PROVE  TicksMade'
<1>1. made[Timer] \in Nat /\ driver.ticks \in Nat
  BY LinesKnown DEF MadeType, DriverType
<1>2. Pending' <= Pending /\ Pending \in Nat /\ Pending' \in Nat
  BY DEF Pending
<1> QED BY <1>1, <1>2 DEF TicksMade

-----------------------------------------------------------------------------
(***************************************************************************)
(* Devices.                                                                *)
(***************************************************************************)
LEMMA DevicesIInv == ASSUME IInv, Devices PROVE IInv'
<1>1. PICK l \in Lines : /\ MakeRequest(l)
                         /\ pic' = pic \/ pic' = Request(pic, l)
                         /\ UNCHANGED <<cpu, main, routines, driver, fault>>
                         /\ \/ UNCHANGED kbc
                            \/ kbc' = [kbc EXCEPT !.waiting = Append(@, made'[Kbd])]
                            \/ kbc' = [kbc EXCEPT !.full = TRUE, !.code = made'[Kbd]]
  BY LinesKnown DEF Devices, Edge, PressKey
<1>2. Types /\ TicksMade /\ OneHandler /\ FaultOnTop
  BY DEF IInv
<1>a. PicType /\ MadeType /\ KbcType /\ DriverType
  BY <1>2 DEF Types
<1>b. Edges[l] \in Nat /\ made[l] \in Nat /\ made[l] < Edges[l]
  BY <1>1, <1>a, EdgesNat DEF MadeType, MakeRequest
<1>c. made' = [made EXCEPT ![l] = made[l] + 1]
  BY <1>1 DEF MakeRequest
<1>3. made' \in [Lines -> Nat] /\ made'[l] = made[l] + 1
  BY <1>a, <1>b, <1>c DEF MadeType
<1>d. \A k \in Lines : made'[k] <= Edges[k] /\ made[k] <= made'[k]
  <2> SUFFICES ASSUME NEW k \in Lines PROVE made'[k] <= Edges[k] /\ made[k] <= made'[k]
    OBVIOUS
  <2>1. made[k] \in Nat /\ made[k] <= Edges[k] /\ Edges[k] \in Nat
    BY <1>a, EdgesNat DEF MadeType
  <2>2. k # l => made'[k] = made[k]
    BY <1>a, <1>c DEF MadeType
  <2> QED BY <2>1, <2>2, <1>3, <1>b
<1>e. MadeType'
  BY <1>3, <1>d DEF MadeType
<1>4. made'[Kbd] \in 0..Edges[Kbd]
  BY <1>3, <1>d, LinesKnown, EdgesNat
<1>5. KbcType'
  <2>1. CASE UNCHANGED kbc
    BY <2>1, <1>a DEF KbcType
  <2>2. CASE kbc' = [kbc EXCEPT !.waiting = Append(@, made'[Kbd])]
    <3>1. Append(kbc.waiting, made'[Kbd]) \in Seq(0..Edges[Kbd])
      BY <1>a, <1>4 DEF KbcType
    <3> QED BY <2>2, <3>1, <1>a DEF KbcType
  <2>3. CASE kbc' = [kbc EXCEPT !.full = TRUE, !.code = made'[Kbd]]
    BY <2>3, <1>4, <1>a DEF KbcType
  <2> QED BY <1>1, <2>1, <2>2, <2>3
<1>6. PicType' /\ pic'.isr = pic.isr /\ pic'.irr \subseteq pic.irr \cup {l}
  <2>1. CASE pic' = pic
    BY <2>1, <1>a DEF PicType
  <2>2. CASE pic' = Request(pic, l)
    BY <2>2, <1>a, RequestPic DEF PicType
  <2> QED BY <1>1, <2>1, <2>2
<1>7. Types'
  BY <1>1, <1>2, <1>e, <1>5, <1>6 DEF Types, CpuType, MainType, DriverType
<1>8. TicksMade'
  <2>1. At(Timer, "call")' = At(Timer, "call")
    BY <1>1 DEF At, Top
  <2>2. /\ made[Timer] \in Nat /\ made'[Timer] \in Nat /\ driver.ticks \in Nat
        /\ made[Timer] <= made'[Timer] /\ driver'.ticks = driver.ticks
    BY <1>1, <1>3, <1>d, <1>a, LinesKnown DEF MadeType, DriverType
  <2>3. Pending \in Nat /\ Pending' \in Nat
    BY DEF Pending
  <2>4. CASE l = Timer
    <3>1. Pending' <= Pending + 1
      BY <1>6, <2>1, <2>4 DEF Pending
    <3>2. made'[Timer] = made[Timer] + 1
      BY <2>4, <1>3
    <3> QED BY <1>1, <1>2, <2>2, <2>3, <3>1, <3>2 DEF TicksMade
  <2>5. CASE l # Timer
    <3>1. Pending' <= Pending
      BY <1>6, <2>1, <2>5 DEF Pending
    <3> QED BY <1>1, <1>2, <2>2, <2>3, <3>1 DEF TicksMade
  <2> QED BY <2>4, <2>5
<1>9. OneHandler' /\ FaultOnTop'
  BY <1>1, <1>2, <1>6 DEF OneHandler, FaultOnTop, InHandler, Top
<1> QED BY <1>7, <1>8, <1>9 DEF IInv

-----------------------------------------------------------------------------
(***************************************************************************)
(* A request that is accepted finds nothing in service and no handler.     *)
(***************************************************************************)
LEMMA DispatchIInv == ASSUME IInv, Dispatch PROVE IInv'
<1>1. Types /\ TicksMade /\ OneHandler /\ FaultOnTop
  BY DEF IInv
<1>2. PICK l \in Offered(pic) :
        /\ pic' = Accepted(pic, l)
        /\ cpu' = [if |-> EnabledInHandler,
                   frames |-> <<[line |-> l, at |-> "call"]>> \o cpu.frames]
  BY DEF Dispatch
<1>3. cpu.if /\ UNCHANGED <<main, routines, kbc, made, driver, fault>>
  BY DEF Dispatch
<1>4. l \in Lines /\ l \in pic.irr
  BY <1>1, <1>2 DEF Offered, Types, PicType
<1>5. fault = NoFault /\ cpu.frames = << >> /\ pic.isr = {}
  BY <1>1, <1>3 DEF OneHandler, FaultOnTop
<1>a. l \in Lines \cup {Fault} /\ "call" \in Points
  BY <1>4 DEF Points
<1>6. [line |-> l, at |-> "call"] \in Frame
  BY <1>a, FrameOf
<1> DEFINE f == [line |-> l, at |-> "call"]
<1>7. cpu' = [if |-> FALSE, frames |-> <<f>>]
  BY <1>2, <1>5 DEF EnabledInHandler
<1>8. /\ CpuType' /\ ~cpu'.if
      /\ Len(cpu'.frames) = 1 /\ cpu'.frames # << >> /\ Top' = f
  BY <1>6, <1>7 DEF Top, CpuType
<1>9. pic' = [irr |-> pic.irr \ {l}, isr |-> {l, MasterLine(l)}]
  BY <1>2, <1>5 DEF Accepted
<1>10. MasterLine(l) \in Lines \cup {Cascade}
  BY <1>4 DEF MasterLine
<1>11. PicType'
  <2>1. pic.irr \in SUBSET Lines
    BY <1>1 DEF Types, PicType
  <2>2. pic.irr \ {l} \in SUBSET Lines /\ {l, MasterLine(l)} \in SUBSET (Lines \cup {Cascade})
    BY <1>4, <1>10, <2>1
  <2> QED BY <1>9, <2>2 DEF PicType
<1>12. Types'
  BY <1>1, <1>3, <1>8, <1>11 DEF Types, MainType, KbcType, MadeType, DriverType
<1>13. TicksMade'
  <2>1. ~At(Timer, "call")
    BY <1>5 DEF At
  <2>2. At(Timer, "call")' <=> l = Timer
    BY <1>8 DEF At
  <2>3. Pending' <= Pending /\ Pending \in Nat /\ Pending' \in Nat
    BY <1>4, <1>9, <2>1, <2>2 DEF Pending
  <2>4. made[Timer] \in Nat /\ driver.ticks \in Nat
    BY <1>1, LinesKnown DEF Types, MadeType, DriverType
  <2> QED BY <1>1, <1>3, <2>3, <2>4 DEF TicksMade
<1>14. OneHandler'
  BY <1>4, <1>8, <1>9 DEF OneHandler, InHandler
<1>15. FaultOnTop'
  BY <1>3, <1>5 DEF FaultOnTop
<1> QED BY <1>12, <1>13, <1>14, <1>15 DEF IInv

-----------------------------------------------------------------------------
(***************************************************************************)
(* Handlers.                                                               *)
(***************************************************************************)

(* Where there is a handler on top and no exception, it is the only one.   *)
LEMMA HandlerOnTop ==
  ASSUME IInv, cpu.frames # << >>, Top.at \notin {"report", "disable", "halt"}
  PROVE  /\ fault = NoFault /\ Len(cpu.frames) = 1 /\ ~cpu.if
         /\ Top.line \in Lines /\ InHandler(Top.line, Top.at)
BY DEF IInv, FaultOnTop, OneHandler

(* A step of the handler keeps the invariant if what it leaves in service  *)
(* is what belongs to the point that it comes to.                          *)
LEMMA HandlerStep ==
  ASSUME IInv, cpu.frames # << >>, Top.at \notin {"report", "disable", "halt"},
         NEW a \in Points, Goto(a), UNCHANGED <<main, routines, made, fault>>,
         PicType', KbcType', DriverType', TicksMade',
         NEW l \in Lines, Top.line = l, InHandler(l, a)'
  PROVE  IInv'
<1>1. /\ fault = NoFault /\ Len(cpu.frames) = 1 /\ ~cpu.if
      /\ Top.line \in Lines /\ InHandler(Top.line, Top.at)
  BY HandlerOnTop
<1>2. CpuType
  BY DEF IInv, Types
<1>3. /\ CpuType' /\ cpu'.if = cpu.if /\ Len(cpu'.frames) = Len(cpu.frames)
      /\ cpu'.frames # << >> /\ Top'.line = Top.line /\ Top'.at = a
  BY <1>2, GotoTop DEF CpuType
<1>4. Types'
  BY <1>3 DEF IInv, Types, MainType, MadeType
<1>5. InHandler(Top.line, Top.at)' /\ Top'.line \in Lines
  BY <1>1, <1>3 DEF InHandler
<1>6. OneHandler'
  BY <1>1, <1>3, <1>5 DEF OneHandler
<1>7. FaultOnTop'
  BY <1>1 DEF FaultOnTop
<1> QED BY <1>4, <1>6, <1>7 DEF IInv

(* What the ends of interrupt leave in service.                            *)
LEMMA EoiType == ASSUME PicType
                 PROVE  /\ SlaveEOI(pic) \in [irr : SUBSET Lines, isr : SUBSET (Lines \cup {Cascade})]
                        /\ MasterEOI(pic) \in [irr : SUBSET Lines, isr : SUBSET (Lines \cup {Cascade})]
                        /\ SlaveEOI(pic).irr = pic.irr /\ MasterEOI(pic).irr = pic.irr
<1>1. \A S : /\ Ended(pic, S) \in [irr : SUBSET Lines, isr : SUBSET (Lines \cup {Cascade})]
             /\ Ended(pic, S).irr = pic.irr
  BY DEF Ended, PicType
<1> QED BY <1>1 DEF SlaveEOI, MasterEOI

(* Where nothing is in service neither end of interrupt ends any.          *)
LEMMA EoiIdle == ASSUME PicType, pic.isr = {} PROVE SlaveEOI(pic) = pic /\ MasterEOI(pic) = pic
<1>1. Slave(pic.isr) = {} /\ Master(pic.isr) = {}
  BY DEF Slave, Master
<1> QED BY <1>1, EndedNone DEF SlaveEOI, MasterEOI

(* The slave's ends the handler's own line and leaves the cascade.         *)
LEMMA SlaveEoiEnds ==
  ASSUME PicType, NEW l \in Ata, pic.isr = {l, MasterLine(l)}
  PROVE  SlaveEOI(pic).isr = {MasterLine(l)}
<1>1. MasterLine(l) = Cascade /\ Cascade \notin Ata
  BY DEF MasterLine, Ata, Cascade
<1>2. Slave(pic.isr) = {l}
  BY <1>1 DEF Slave
<1>3. SlaveEOI(pic) = [pic EXCEPT !.isr = @ \ {l}]
  BY <1>2, EndedOne DEF SlaveEOI
<1>4. SlaveEOI(pic).isr = pic.isr \ {l}
  BY <1>3 DEF PicType
<1> QED BY <1>1, <1>4

(* The master's ends the one line in service there.                        *)
LEMMA MasterEoiEnds ==
  ASSUME PicType, NEW l \in Lines, pic.isr = {MasterLine(l)}
  PROVE  MasterEOI(pic).isr = {}
<1>1. MasterLine(l) \in {Timer, Kbd, Cascade}
  BY DEF MasterLine, Lines
<1>2. Master(pic.isr) = {MasterLine(l)}
  BY <1>1 DEF Master
<1>3. MasterEOI(pic) = [pic EXCEPT !.isr = @ \ {MasterLine(l)}]
  BY <1>2, EndedOne DEF MasterEOI
<1>4. MasterEOI(pic).isr = pic.isr \ {MasterLine(l)}
  BY <1>3 DEF PicType
<1> QED BY <1>4

(* A handler that has moved on is not about to count a tick.               *)
LEMMA NotAtCall ==
  ASSUME IInv, cpu.frames # << >>, NEW a \in Points, a # "call", Goto(a)
  PROVE  ~At(Timer, "call")'
<1>1. CpuType
  BY DEF IInv, Types
<1>2. Top'.at = a
  BY <1>1, GotoTop DEF CpuType
<1> QED BY <1>2 DEF At

(* The handler is called, or the lack of one is noticed.                   *)
LEMMA CallIInv == ASSUME IInv, NEW l \in Lines, Call(l) PROVE IInv'
<1>0. PICK a : a = IF l \in routines THEN HandlerOf(l) ELSE EoiOf(l)
  OBVIOUS
<1>1. /\ cpu.frames # << >> /\ Top.line = l /\ Top.at = "call" /\ Goto(a)
      /\ UNCHANGED <<pic, main, routines, kbc, made, reader, fault>>
  BY <1>0 DEF Call, At
<1>2. /\ a \in {"status", "own slave", "own master", "slave", "master"}
      /\ a \in {"own slave", "slave"} <=> l \in Ata /\ a # "status"
      /\ l \in Ata => a # "status"
  <2>1. CASE l \in Ata
    <3>1. a \in {"own slave", "slave"}
      BY <1>0, <2>1, KbdApart DEF HandlerOf, EoiOf, OwnEoiOf
    <3> QED BY <2>1, <3>1
  <2>2. CASE l \notin Ata
    <3>1. a \in {"status", "own master", "master"}
      BY <1>0, <2>2 DEF HandlerOf, EoiOf, OwnEoiOf
    <3> QED BY <2>2, <3>1
  <2> QED BY <2>1, <2>2
<1>3. a \in Points /\ a # "call"
  BY <1>2 DEF Points
<1>4. Types /\ TicksMade
  BY DEF IInv
<1>5. fault = NoFault /\ InHandler(l, "call")
  BY <1>1, HandlerOnTop
<1>6. pic.isr = {l, MasterLine(l)} /\ pic'.isr = pic.isr
  BY <1>1, <1>5 DEF InHandler
<1>7. InHandler(l, a)'
  <2>1. pic'.isr = {l, MasterLine(l)}
    BY <1>6
  <2>2. CASE l \in Ata
    <3>1. a \in {"own slave", "slave"}
      BY <1>2, <2>2
    <3> QED BY <2>1, <2>2, <3>1 DEF InHandler
  <2>3. CASE l \notin Ata
    <3>1. MasterLine(l) = l /\ a \in {"status", "own master", "master"}
      BY <1>2, <2>3 DEF MasterLine
    <3>2. pic'.isr = {l}
      BY <2>1, <3>1
    <3> QED BY <3>1, <3>2 DEF InHandler
  <2> QED BY <2>2, <2>3
<1>8. ~At(Timer, "call")'
  BY <1>1, <1>3, NotAtCall
<1>9. DriverType' /\ TicksMade'
  <2>1. made[Timer] \in Nat /\ driver.ticks \in Nat /\ DriverType
    BY <1>4, LinesKnown DEF Types, MadeType, DriverType
  <2>2. Pending \in Nat /\ Pending' \in Nat
    BY DEF Pending
  <2>3. CASE l = Timer /\ l \in routines
    <3>1. driver' = [driver EXCEPT !.ticks = @ + 1]
      BY <2>3 DEF Call
    <3>2. DriverType' /\ driver'.ticks = driver.ticks + 1
      BY <2>1, <3>1 DEF DriverType
    <3>3. At(Timer, "call")
      BY <1>1, <2>3 DEF At
    <3>4. Pending >= Pending' + 1
      BY <1>1, <1>8, <3>3 DEF Pending
    <3>a. made'[Timer] = made[Timer]
      BY <1>1
    <3>5. driver.ticks + Pending <= made[Timer]
      BY <1>4, <1>5 DEF TicksMade
    <3>6. driver'.ticks + Pending' <= made'[Timer] /\ driver'.ticks <= made'[Timer]
      <4> DEFINE t == driver.ticks
                 n == made[Timer]
                 p == Pending
                 q == Pending'
      <4>1. t \in Nat /\ n \in Nat /\ p \in Nat /\ q \in Nat /\ p >= q + 1 /\ t + p <= n
        BY <2>1, <2>2, <3>4, <3>5
      <4> HIDE DEF t, n, p, q
      <4>2. t + 1 + q <= n /\ t + 1 <= n
        BY <4>1
      <4> QED BY <3>a, <3>2, <4>2 DEF t, n, p, q
    <3> QED BY <3>2, <3>6 DEF TicksMade
  <2>4. CASE ~(l = Timer /\ l \in routines)
    <3>1. driver' = driver
      BY <2>4 DEF Call
    <3>2. Pending' <= Pending
      BY <1>1, <1>8 DEF Pending
    <3> QED BY <1>1, <1>4, <2>1, <2>2, <3>1, <3>2 DEF TicksMade, DriverType
  <2> QED BY <2>3, <2>4
<1>10. PicType' /\ KbcType'
  BY <1>1, <1>4 DEF Types, PicType, KbcType
<1> QED BY <1>1, <1>3, <1>7, <1>9, <1>10, HandlerStep

(* The next byte of the keyboard controller is a code.                     *)
LEMMA NextByte ==
  ASSUME NEW S, NEW s \in Seq(S), s # << >>
  PROVE  Head(s) \in S /\ Tail(s) \in Seq(S)
OBVIOUS

(* The byte that the keyboard's handler reads is a code.                   *)
LEMMA KeyboardDriver ==
  ASSUME DriverType, KbcType, ReadStatus \/ ReadData \/ SetEvent
  PROVE  DriverType' /\ driver'.ticks = driver.ticks
<1>1. CASE ReadStatus
  BY <1>1 DEF ReadStatus, DriverType
<1>2. CASE ReadData
  <2>1. PICK c \in 0..Edges[Kbd] : c = kbc.code
    BY DEF KbcType
  <2>2. driver' = [driver EXCEPT !.code = kbc.code]
    BY <1>2, Zenon DEF ReadData
  <2>3. driver' = [driver EXCEPT !.code = c]
    BY <2>1, <2>2, Zenon
  <2> QED BY <2>3 DEF DriverType
<1>3. CASE SetEvent
  BY <1>3 DEF SetEvent, DriverType
<1> QED BY <1>1, <1>2, <1>3

(* The steps of the keyboard's handler leave what is in service.           *)
LEMMA KeyboardIInv ==
  ASSUME IInv, ReadStatus \/ ReadData \/ SetEvent PROVE IInv'
<1>1. PICK a \in {"data", "event", "own master"} :
        /\ cpu.frames # << >> /\ Top.line = Kbd /\ Top.at \in {"status", "data", "event"}
        /\ Goto(a) /\ UNCHANGED <<main, routines, made, fault>>
        /\ pic' = pic \/ pic' = Request(pic, Kbd)
        /\ kbc' = kbc \/ kbc' = ByteTaken
  <2>1. AfterStatus \in {"data", "event"} /\ OwnEoiOf(Kbd) = "own master"
    BY DEF AfterStatus, OwnEoiOf, Kbd, Ata
  <2>2. CASE ReadStatus
    BY <2>1, <2>2 DEF ReadStatus, At
  <2>3. CASE ReadData
    <3>1. /\ At(Kbd, "data") /\ Goto("event") /\ kbc' = ByteTaken
          /\ pic' = pic \/ pic' = Request(pic, Kbd)
          /\ UNCHANGED <<main, routines, made, fault>>
      BY <2>3, Zenon DEF ReadData
    <3> QED BY <3>1 DEF At
  <2>4. CASE SetEvent
    BY <2>1, <2>4 DEF SetEvent, At
  <2> QED BY <2>2, <2>3, <2>4
<1>2. a \in Points /\ a # "call" /\ Kbd \in Lines
  BY LinesKnown DEF Points
<1>3. PicType /\ KbcType /\ DriverType /\ MadeType /\ TicksMade
  BY DEF IInv, Types
<1>4. PicType' /\ pic'.isr = pic.isr /\ pic'.irr \subseteq pic.irr \cup {Kbd}
  <2>1. CASE pic' = pic
    BY <2>1, <1>3 DEF PicType
  <2>2. CASE pic' = Request(pic, Kbd)
    BY <2>2, <1>2, <1>3, RequestPic DEF PicType
  <2> QED BY <1>1, <2>1, <2>2
<1>5. KbcType'
  <2>a. kbc.waiting \in Seq(0..Edges[Kbd])
    BY <1>3 DEF KbcType
  <2>1. kbc.waiting # << >> => /\ Head(kbc.waiting) \in 0..Edges[Kbd]
                              /\ Tail(kbc.waiting) \in Seq(0..Edges[Kbd])
    BY <2>a, NextByte
  <2>2. ByteTaken \in [full : BOOLEAN, code : 0..Edges[Kbd], waiting : Seq(0..Edges[Kbd])]
    BY <1>3, <2>1 DEF KbcType, ByteTaken
  <2> QED BY <1>1, <1>3, <2>2 DEF KbcType
<1>6. DriverType' /\ driver'.ticks = driver.ticks
  BY <1>3, KeyboardDriver
<1>7. TicksMade'
  <2>1. ~At(Timer, "call")'
    BY <1>1, <1>2, NotAtCall
  <2>2. Timer \in pic'.irr => Timer \in pic.irr
    BY <1>4, KbdApart
  <2> QED BY <1>1, <1>3, <1>6, <2>1, <2>2, TicksKept
<1>8. InHandler(Kbd, Top.at)
  <2>1. Top.line = Kbd /\ Top.at \notin {"report", "disable", "halt"}
    BY <1>1
  <2> QED BY <1>1, <2>1, HandlerOnTop
<1>9. pic.isr = {Kbd} /\ MasterLine(Kbd) = Kbd
  BY <1>1, <1>8, KbdApart DEF InHandler
<1>10. InHandler(Kbd, a)'
  BY <1>1, <1>4, <1>9 DEF InHandler
<1> QED BY <1>1, <1>2, <1>4, <1>5, <1>6, <1>7, <1>10, HandlerStep

(* An end of interrupt ends the handler's own, or finds nothing to end.    *)
LEMMA HandlerEoiIInv == ASSUME IInv, HandlerEOI PROVE IInv'
<1>1. /\ cpu.frames # << >> /\ UNCHANGED <<main, routines, kbc, made, driver, fault>>
      /\ Top.at \in {"own slave", "own master", "slave", "master"}
  BY DEF HandlerEOI
<1>2. PicType /\ KbcType /\ DriverType /\ MadeType /\ TicksMade
  BY DEF IInv, Types
<1>3. KbcType' /\ DriverType'
  BY <1>1, <1>2 DEF KbcType, DriverType
<1>4. PICK l \in Lines : Top.line = l /\ InHandler(l, Top.at)
  BY <1>1, HandlerOnTop
<1>5. ASSUME NEW a \in Points, a # "call", Goto(a), pic' \in {SlaveEOI(pic), MasterEOI(pic)},
             InHandler(l, a)'
      PROVE  IInv'
  <2>1. PicType' /\ pic'.irr = pic.irr
    BY <1>2, <1>5, EoiType DEF PicType
  <2>2. ~At(Timer, "call")'
    BY <1>1, <1>5, NotAtCall
  <2>3. TicksMade'
    BY <1>1, <1>2, <2>1, <2>2, TicksKept
  <2> QED BY <1>1, <1>3, <1>4, <1>5, <2>1, <2>3, HandlerStep
<1>6. CASE Top.at = "own slave"
  <2>1. Goto("own master") /\ pic' = SlaveEOI(pic)
    BY <1>6 DEF HandlerEOI
  <2>2. l \in Ata /\ pic.isr = {l, MasterLine(l)}
    BY <1>4, <1>6 DEF InHandler
  <2>3. pic'.isr = {MasterLine(l)}
    BY <1>2, <2>1, <2>2, SlaveEoiEnds
  <2> QED BY <1>5, <2>1, <2>3 DEF InHandler, Points
<1>7. CASE Top.at = "own master"
  <2>1. Goto(EoiOf(l)) /\ pic' = MasterEOI(pic)
    BY <1>4, <1>7 DEF HandlerEOI
  <2>2. pic.isr = {MasterLine(l)}
    BY <1>4, <1>7 DEF InHandler
  <2>3. pic'.isr = {}
    BY <1>2, <1>4, <2>1, <2>2, MasterEoiEnds
  <2>4. EoiOf(l) \in {"slave", "master"} /\ (EoiOf(l) = "slave" => l \in Ata)
    BY DEF EoiOf
  <2> QED BY <1>5, <2>1, <2>3, <2>4 DEF InHandler, Points
<1>8. CASE Top.at = "slave"
  <2>1. Goto("master") /\ pic' = SlaveEOI(pic)
    BY <1>8 DEF HandlerEOI, AfterSlaveEoi
  <2>2. l \in Ata /\ (pic.isr = {l, MasterLine(l)} \/ pic.isr = {})
    BY <1>4, <1>8 DEF InHandler
  <2>3. pic'.isr = {MasterLine(l)} \/ pic'.isr = {}
    BY <1>2, <2>1, <2>2, SlaveEoiEnds, EoiIdle
  <2> QED BY <1>5, <2>1, <2>3 DEF InHandler, Points
<1>9. CASE Top.at = "master"
  <2>1. Goto("iret") /\ pic' = MasterEOI(pic)
    BY <1>9 DEF HandlerEOI
  <2>2. pic.isr = {MasterLine(l)} \/ pic.isr = {}
    BY <1>4, <1>9 DEF InHandler
  <2>3. pic'.isr = {}
    BY <1>2, <1>4, <2>1, <2>2, MasterEoiEnds, EoiIdle
  <2> QED BY <1>5, <2>1, <2>3 DEF InHandler, Points
<1> QED BY <1>1, <1>6, <1>7, <1>8, <1>9

(* The tail of one frame is none.                                          *)
LEMMA LastFrame == ASSUME NEW s \in Seq(Frame), Len(s) = 1 PROVE Tail(s) = << >>
<1>1. s # << >>
  BY EmptySeq
<1>2. Tail(s) \in Seq(Frame) /\ Len(Tail(s)) = 0
  BY <1>1, HeadTailProperties
<1> QED BY <1>2, EmptySeq

(* The return of a handler leaves none, and nothing in service.            *)
LEMMA IretIInv == ASSUME IInv, Iret PROVE IInv'
<1>1. /\ cpu.frames # << >> /\ Top.at = "iret"
      /\ cpu' = [if |-> TRUE, frames |-> Tail(cpu.frames)]
      /\ UNCHANGED <<pic, main, routines, kbc, made, driver, fault>>
  BY DEF Iret
<1>2. fault = NoFault /\ Len(cpu.frames) = 1 /\ InHandler(Top.line, "iret")
  BY <1>1, HandlerOnTop
<1>3. pic.isr = {}
  BY <1>2 DEF InHandler
<1>4. Types /\ TicksMade
  BY DEF IInv
<1>5. cpu.frames \in Seq(Frame)
  BY <1>4 DEF Types, CpuType
<1>6. Tail(cpu.frames) = << >>
  BY <1>2, <1>5, LastFrame
<1>7. cpu' = [if |-> TRUE, frames |-> << >>]
  BY <1>1, <1>6
<1>a. CpuType'
  <2>1. << >> \in Seq(Frame)
    OBVIOUS
  <2> QED BY <1>7, <2>1 DEF CpuType
<1>8. Types'
  BY <1>1, <1>4, <1>a DEF Types, PicType, MainType, KbcType, MadeType, DriverType
<1>9. TicksMade'
  <2>1. ~At(Timer, "call")'
    BY <1>7 DEF At
  <2> QED BY <1>1, <1>4, <2>1, TicksKept DEF Types
<1>10. OneHandler' /\ FaultOnTop'
  BY <1>1, <1>2, <1>3, <1>7 DEF OneHandler, FaultOnTop
<1> QED BY <1>8, <1>9, <1>10 DEF IInv

-----------------------------------------------------------------------------
(***************************************************************************)
(* Exceptions.                                                             *)
(***************************************************************************)

(* What the stub and the processor push, one after the other.              *)
LEMMA TwoPushed == ASSUME NEW v \in Nat, NEW c \in Nat
                   PROVE  <<v>> \o <<c>> = <<v, c>> /\ <<v, c>> \o << >> = <<v, c>>
<1>1. /\ <<v>> \in Seq(Nat) /\ <<c>> \in Seq(Nat) /\ <<v, c>> \in Seq(Nat)
      /\ Len(<<v>>) = 1 /\ Len(<<c>>) = 1 /\ Len(<<v, c>>) = 2
      /\ <<v>>[1] = v /\ <<c>>[1] = c /\ <<v, c>>[1] = v /\ <<v, c>>[2] = c
  OBVIOUS
<1>2. <<v>> \o <<c>> = <<v, c>>
  <2> DEFINE s == <<v>>
             t == <<c>>
             w == <<v, c>>
  <2>1. /\ s \in Seq(Nat) /\ t \in Seq(Nat) /\ w \in Seq(Nat)
        /\ Len(s) = 1 /\ Len(t) = 1 /\ Len(w) = 2
        /\ s[1] = v /\ t[1] = c /\ w[1] = v /\ w[2] = c
    BY <1>1
  <2> HIDE DEF s, t, w
  <2>2. /\ s \o t \in Seq(Nat) /\ Len(s \o t) = Len(s) + Len(t)
        /\ \A i \in 1..(Len(s) + Len(t)) : (s \o t)[i] = IF i <= Len(s) THEN s[i] ELSE t[i - Len(s)]
    BY <2>1, ConcatProperties
  <2>3. Len(s \o t) = Len(w) /\ (s \o t)[1] = w[1] /\ (s \o t)[2] = w[2]
    BY <2>1, <2>2
  <2>4. \A i \in 1..Len(s \o t) : (s \o t)[i] = w[i]
    BY <2>1, <2>3
  <2>5. s \o t = w
    BY <2>1, <2>2, <2>3, <2>4, SeqEqual
  <2> QED BY <2>5 DEF s, t, w
<1>3. <<v, c>> \o << >> = <<v, c>>
  BY <1>1, ConcatEmptySeq
<1> QED BY <1>2, <1>3

(* A write of the frames keeps the flag.                                   *)
LEMMA FramesOnly ==
  ASSUME NEW c \in [if : BOOLEAN, frames : Seq(Frame)], NEW g
  PROVE  [c EXCEPT !.frames = g] = [if |-> c.if, frames |-> g]
OBVIOUS

(* Whatever runs, the frame of an exception comes on top of it, and the    *)
(* handler is given the number and the code.                               *)
LEMMA RaiseFrame ==
  ASSUME CpuType, NEW v \in 0..31, NEW c \in Nat, Raise(v, c), v \in HasCode \/ c = 0
  PROVE  /\ CpuType' /\ cpu'.frames # << >> /\ ~cpu'.if
         /\ Top' = [line |-> Fault, at |-> "report"]
         /\ fault' # NoFault /\ fault'.regs = <<fault'.vector, fault'.code>>
<1> DEFINE f == [line |-> Fault, at |-> "report"]
           g == <<f>> \o cpu.frames
<1>1. cpu' = [if |-> FALSE, frames |-> g]
  BY DEF Raise, EnabledInFault
<1>2. f \in Frame
  <2>1. "report" \in Points /\ Fault \in Lines \cup {Fault}
    BY DEF Points
  <2> QED BY <2>1, FrameOf
<1>3. g \in Seq(Frame) /\ g # << >> /\ Head(g) = f
  <2>1. cpu.frames \in Seq(Frame)
    BY DEF CpuType
  <2> HIDE DEF f
  <2> QED BY <1>2, <2>1
<1> DEFINE regs == StubPushes(v) \o (IF v \in HasCode THEN <<c>> ELSE << >>)
<1>4. fault' = [vector |-> v, code |-> c, regs |-> regs]
  BY DEF Raise
<1>5. regs = <<v, c>>
  <2>1. CASE v \in HasCode
    BY <2>1, TwoPushed DEF StubPushes
  <2>2. CASE v \notin HasCode
    BY <2>2, TwoPushed DEF StubPushes
  <2> QED BY <2>1, <2>2
<1> HIDE DEF f, g, regs
<1>6. fault'.vector = v /\ fault'.code = c /\ fault'.regs = regs /\ NoFault.vector = 32
  BY <1>4 DEF NoFault
<1>7. CpuType' /\ cpu'.frames = g /\ cpu'.if = FALSE
  BY <1>1, <1>3 DEF CpuType
<1> QED BY <1>3, <1>5, <1>6, <1>7 DEF Top, f

(* An exception keeps the invariant, whatever it comes on top of.          *)
LEMMA RaiseIInv ==
  ASSUME IInv, NEW v \in 0..31, NEW c \in Nat, Raise(v, c), v \in HasCode \/ c = 0 PROVE IInv'
<1>1. Types /\ TicksMade
  BY DEF IInv
<1>2. UNCHANGED <<pic, main, routines, kbc, made, driver>>
  BY DEF Raise
<1>3. /\ CpuType' /\ cpu'.frames # << >> /\ ~cpu'.if
      /\ Top' = [line |-> Fault, at |-> "report"]
      /\ fault' # NoFault /\ fault'.regs = <<fault'.vector, fault'.code>>
  BY <1>1, RaiseFrame DEF Types
<1>4. Types'
  BY <1>1, <1>2, <1>3 DEF Types, PicType, MainType, KbcType, MadeType, DriverType
<1>5. TicksMade'
  BY <1>1, <1>2, <1>3 DEF TicksMade
<1>6. OneHandler' /\ FaultOnTop'
  BY <1>3 DEF OneHandler, FaultOnTop
<1> QED BY <1>4, <1>5, <1>6 DEF IInv

(* Err_hanlder prints, disables interrupts and halts.                      *)
LEMMA ErrHandlerIInv == ASSUME IInv, Report \/ DisableINT PROVE IInv'
<1>1. /\ cpu.frames # << >> /\ Top.line = Fault
      /\ UNCHANGED <<pic, main, routines, kbc, made, driver, fault>>
  BY DEF Report, DisableINT, At
<1>2. Types /\ TicksMade /\ FaultOnTop
  BY DEF IInv
<1>3. fault # NoFault
  BY <1>1, FaultNotLine DEF IInv, OneHandler
<1>4. ~cpu.if /\ CpuType
  BY <1>2, <1>3 DEF FaultOnTop, Types
<1>5. PICK a \in {"disable", "halt"} : Goto(a)
  <2>1. CASE Report
    BY <2>1 DEF Report
  <2>2. CASE DisableINT
    <3>2. cpu' = [if |-> FALSE, frames |-> <<[Top EXCEPT !.at = "halt"]>> \o Tail(cpu.frames)]
      BY <2>2 DEF DisableINT
    <3> DEFINE g == <<[Top EXCEPT !.at = "halt"]>> \o Tail(cpu.frames)
    <3>3. [cpu EXCEPT !.frames = g] = [if |-> FALSE, frames |-> g]
      <4> HIDE DEF g
      <4>1. cpu.if = FALSE
        BY <1>4 DEF CpuType
      <4> QED BY <1>4, <4>1, FramesOnly DEF CpuType
    <3>4. Goto("halt")
      BY <3>2, <3>3 DEF Goto
    <3> QED BY <3>4
  <2> QED BY <2>1, <2>2
<1>6. /\ CpuType' /\ cpu'.if = cpu.if /\ cpu'.frames # << >>
      /\ Top'.line = Top.line /\ Top'.at = a
  <2>1. a \in Points
    BY DEF Points
  <2> QED BY <1>1, <1>4, <1>5, <2>1, GotoTop DEF CpuType
<1>7. Types'
  BY <1>1, <1>2, <1>6 DEF Types, PicType, MainType, KbcType, MadeType, DriverType
<1>8. TicksMade'
  BY <1>1, <1>2, <1>3 DEF TicksMade
<1>9. OneHandler' /\ FaultOnTop'
  <2>1. fault'.regs = <<fault'.vector, fault'.code>>
    BY <1>1, <1>2, <1>3 DEF FaultOnTop
  <2> QED BY <1>1, <1>3, <1>4, <1>6, <2>1 DEF OneHandler, FaultOnTop
<1> QED BY <1>7, <1>8, <1>9 DEF IInv

-----------------------------------------------------------------------------
(***************************************************************************)
(* The boot thread runs where there is no handler, so its ends of          *)
(* interrupt find nothing in service.                                      *)
(***************************************************************************)
LEMMA Idle == ASSUME IInv, cpu.frames = << >> PROVE fault = NoFault /\ pic.isr = {}
BY DEF IInv, FaultOnTop, OneHandler

(* What the boot thread and its driver do leaves the invariant if it       *)
(* leaves the controllers and the frames.                                  *)
LEMMA BootStep ==
  ASSUME IInv, cpu.frames = << >>, UNCHANGED <<pic, kbc, made, fault>>,
         cpu'.frames = cpu.frames, CpuType', MainType', DriverType', routines' \subseteq Lines,
         driver'.ticks = driver.ticks
  PROVE  IInv'
<1>1. fault = NoFault /\ pic.isr = {}
  BY Idle
<1>2. Types /\ TicksMade
  BY DEF IInv
<1>3. Types'
  BY <1>2 DEF Types, PicType, KbcType, MadeType
<1>4. TicksMade'
  <2>1. ~At(Timer, "call")'
    BY DEF At
  <2> QED BY <1>2, <2>1, TicksKept DEF Types
<1>5. OneHandler' /\ FaultOnTop'
  BY <1>1 DEF OneHandler, FaultOnTop
<1> QED BY <1>3, <1>4, <1>5 DEF IInv

(* The boot thread keeps the invariant.                                    *)
LEMMA BootIInv == ASSUME IInv, Boot PROVE IInv'
<1>1. cpu.frames = << >> /\ UNCHANGED <<kbc, made, driver, fault>>
  BY DEF Boot, EnableINT, SendEOI, InstallTimer, InstallKbd, InstallAta, Install, Running
<1>2. PicType /\ pic.isr = {} /\ CpuType /\ MainType /\ DriverType /\ routines \subseteq Lines
  BY <1>1, Idle DEF IInv, Types
<1>3. pic' = pic
  <2>1. SlaveEOI(pic) = pic /\ MasterEOI(pic) = pic
    BY <1>2, EoiIdle
  <2>2. SendEOI => pic' = SlaveEOI(pic) \/ pic' = MasterEOI(pic)
    BY DEF SendEOI
  <2>3. ~SendEOI => pic' = pic
    BY DEF Boot, EnableINT, InstallTimer, InstallKbd, InstallAta, Install
  <2> QED BY <2>1, <2>2, <2>3
<1>4. CpuType' /\ cpu'.frames = cpu.frames
  <2>1. cpu' = cpu \/ cpu' = [cpu EXCEPT !.if = TRUE]
    BY DEF Boot, EnableINT, SendEOI, InstallTimer, InstallKbd, InstallAta, Install
  <2> QED BY <1>2, <2>1 DEF CpuType
<1>5. routines' \subseteq Lines
  BY <1>2, LinesKnown DEF Boot, EnableINT, SendEOI, InstallTimer, InstallKbd, InstallAta, Install, Ata
<1>6. MainType'
  <2>1. ASSUME NEW i \in 0..31 PROVE SendNext(i) \in [at : {"send"}, irq : 0..31, half : {"slave", "master"}]
    BY <2>1 DEF SendNext, FirstHalf
  <2>2. Kbd \in 0..31
    BY DEF Kbd
  <2>3. main.irq # LastEOI => main.irq + 1 \in 0..31
    <3>1. main.irq \in 0..31
      BY <1>2 DEF MainType
    <3> QED BY <3>1 DEF LastEOI
  <2>4. CASE EnableINT
    BY <1>2, <2>4 DEF EnableINT, MainType
  <2>5. CASE SendEOI
    <3>1. \/ main' = [main EXCEPT !.half = "master"]
          \/ main' = [main EXCEPT !.at = "ata"]
          \/ main' = [main EXCEPT !.at = "timer"]
          \/ main.irq # LastEOI /\ main' = SendNext(main.irq + 1)
      <4>1. CASE main.half = "slave" /\ main' = [main EXCEPT !.half = "master"]
        BY <4>1
      <4>2. CASE main' = IF Kbd \in routines THEN [main EXCEPT !.at = "ata"]
                         ELSE IF main.irq = LastEOI THEN [main EXCEPT !.at = "timer"]
                         ELSE SendNext(main.irq + 1)
        BY <4>2
      <4> QED BY <2>5, <4>1, <4>2 DEF SendEOI
    <3>2. CASE main.irq # LastEOI /\ main' = SendNext(main.irq + 1)
      BY <2>1, <2>3, <3>2 DEF MainType
    <3>3. CASE main' = [main EXCEPT !.half = "master"]
      BY <1>2, <3>3 DEF MainType
    <3>4. CASE main' = [main EXCEPT !.at = "ata"]
      BY <1>2, <3>4 DEF MainType
    <3>5. CASE main' = [main EXCEPT !.at = "timer"]
      BY <1>2, <3>5 DEF MainType
    <3> QED BY <3>1, <3>2, <3>3, <3>4, <3>5
  <2>6. CASE InstallTimer
    BY <1>2, <2>6 DEF InstallTimer, Install, MainType
  <2>7. CASE InstallKbd
    BY <1>2, <2>1, <2>2, <2>7 DEF InstallKbd, Install, MainType
  <2>8. CASE InstallAta
    BY <1>2, <2>8 DEF InstallAta, Install, MainType
  <2> QED BY <2>4, <2>5, <2>6, <2>7, <2>8 DEF Boot
<1>7. DriverType' /\ driver'.ticks = driver.ticks
  BY <1>1, <1>2 DEF DriverType
<1> QED BY <1>1, <1>3, <1>4, <1>5, <1>6, <1>7, BootStep

(* GetKeyCode and EventHandled.                                            *)
LEMMA ReaderIInv == ASSUME IInv, ReadCode \/ ClearCode \/ EventHandled PROVE IInv'
<1>1. cpu.frames = << >> /\ UNCHANGED <<pic, cpu, routines, kbc, made, fault>>
  BY DEF ReadCode, ClearCode, EventHandled, Running
<1>2. CpuType /\ MainType /\ DriverType /\ routines \subseteq Lines
  BY DEF IInv, Types
<1>3. MainType'
  BY <1>2 DEF ReadCode, ClearCode, EventHandled, MainType
<1>4. DriverType' /\ driver'.ticks = driver.ticks
  <2>1. 0 \in 0..Edges[Kbd]
    BY EdgesNat, LinesKnown
  <2>2. \/ driver' = driver
        \/ driver' = [driver EXCEPT !.code = 0]
        \/ driver' = [driver EXCEPT !.event = FALSE]
    BY DEF ReadCode, ClearCode, EventHandled, Cleared, NoKey
  <2> QED BY <1>2, <2>1, <2>2 DEF DriverType
<1>5. CpuType' /\ cpu'.frames = cpu.frames
  BY <1>1, <1>2 DEF CpuType
<1> QED BY <1>1, <1>2, <1>3, <1>4, <1>5, BootStep

-----------------------------------------------------------------------------
(***************************************************************************)
(* Theorems.                                                               *)
(***************************************************************************)

(* Every step keeps the invariant.                                         *)
LEMMA NextIInv == IInv /\ [Next]_vars => IInv'
<1> SUFFICES ASSUME IInv, [Next]_vars PROVE IInv'
  OBVIOUS
<1>1. CASE Devices
  BY <1>1, DevicesIInv
<1>2. CASE Dispatch
  BY <1>2, DispatchIInv
<1>3. CASE Handler
  BY <1>3, CallIInv, KeyboardIInv, HandlerEoiIInv, IretIInv DEF Handler
<1>4. CASE Exception
  <2>1. ASSUME NEW v \in Faults, Raise(v, IF v \in HasCode THEN 2 ELSE 0) PROVE IInv'
    <3>1. v \in 0..31
      BY IrqAssumption
    <3> QED BY <2>1, <3>1, RaiseIInv
  <2>2. CASE HALT
    <3>1. IInv' = IInv
      BY <2>2 DEF HALT, vars, IInv, Types, PicType, CpuType, MainType, KbcType, MadeType,
                  DriverType, TicksMade, Pending, At, OneHandler, FaultOnTop, InHandler, Top
    <3> QED BY <3>1
  <2> QED BY <1>4, <2>1, <2>2, ErrHandlerIInv DEF Exception
<1>5. CASE Boot
  BY <1>5, BootIInv
<1>6. CASE ReadCode \/ ClearCode \/ EventHandled
  BY <1>6, ReaderIInv
<1>7. CASE UNCHANGED vars
  BY <1>7 DEF vars, IInv, Types, PicType, CpuType, MainType, KbcType, MadeType,
              DriverType, TicksMade, Pending, At, OneHandler, FaultOnTop, InHandler, Top
<1> QED BY <1>1, <1>2, <1>3, <1>4, <1>5, <1>6, <1>7 DEF Next

(* The invariant always holds.                                             *)
LEMMA SpecIInv == Spec => []IInv
<1>1. Spec => Init /\ [][Next]_vars
  BY PTL DEF Spec
<1> QED BY <1>1, InitIInv, NextIInv, PTL

(* After an exception only the devices and Err_hanlder do anything.        *)
LEMMA FaultLast ==
  ASSUME IInv, [Next]_vars, fault # NoFault
  PROVE  UNCHANGED <<main, routines, driver, reader, fault>> /\ pic'.isr = pic.isr
<1>1. /\ cpu.frames # << >> /\ ~cpu.if /\ PicType
      /\ Top.line = Fault /\ Top.at \in {"report", "disable", "halt"}
  BY DEF IInv, FaultOnTop, Types
<1>2. ~Dispatch
  BY <1>1 DEF Dispatch
<1>3. ~Handler
  BY <1>1, FaultNotLine, LinesKnown DEF Handler, Call, ReadStatus, ReadData, SetEvent, HandlerEOI, Iret, At
<1>4. ~Boot /\ ~ReadCode /\ ~ClearCode /\ ~EventHandled
  BY <1>1 DEF Boot, EnableINT, SendEOI, InstallTimer, InstallKbd, InstallAta, Install,
              ReadCode, ClearCode, EventHandled, Running
<1>5. CASE Devices
  <2>1. PICK l \in Lines : pic' = pic \/ pic' = Request(pic, l)
    BY <1>5, LinesKnown DEF Devices, Edge, PressKey
  <2>2. pic'.isr = pic.isr
    BY <1>1, <2>1, RequestPic
  <2> QED BY <1>5, <2>2 DEF Devices, Edge, PressKey
<1>6. CASE Exception
  BY <1>6 DEF Exception, Raise, Report, DisableINT, HALT, vars
<1>7. CASE UNCHANGED vars
  BY <1>7 DEF vars
<1> QED BY <1>2, <1>3, <1>4, <1>5, <1>6, <1>7 DEF Next

(* When no handler runs nothing is in service, whichever of them sent an   *)
(* end of interrupt twice and whatever the boot thread sent.               *)
THEOREM NothingLeftInServiceTheorem == Spec => []NothingLeftInService
<1>1. IInv => NothingLeftInService
  <2> SUFFICES ASSUME IInv PROVE NothingLeftInService
    OBVIOUS
  <2>1. Types /\ TicksMade
    BY DEF IInv
  <2>2. driver.ticks \in 0..Edges[Timer]
    <3>1. /\ driver.ticks \in Nat /\ driver.ticks <= made[Timer]
          /\ made[Timer] \in Nat /\ made[Timer] <= Edges[Timer] /\ Edges[Timer] \in Nat
      BY <2>1, LinesKnown, EdgesNat DEF Types, DriverType, MadeType, TicksMade
    <3> QED BY <3>1
  <2>3. TypeOK
    BY <2>1, <2>2 DEF TypeOK, Types, PicType, CpuType, MainType, KbcType, DriverType
  <2> QED BY <2>3, Idle DEF NothingLeftInService
<1> QED BY <1>1, SpecIInv, PTL

(* An end of interrupt that ends anything is that of the handler that runs. *)
LEMMA EndsItsOwnStep ==
  ASSUME IInv, [Next]_vars
  PROVE  \A l \in pic.isr \ pic'.isr : cpu.frames # << >> /\ l \in {Top.line, MasterLine(Top.line)}
<1>1. CASE fault = NoFault
  <2>1. \/ pic.isr = {}
        \/ cpu.frames # << >> /\ InHandler(Top.line, Top.at)
    BY <1>1, EmptySeq DEF IInv, OneHandler
  <2> QED BY <2>1 DEF InHandler
<1>2. CASE fault # NoFault
  BY <1>2, FaultLast
<1> QED BY <1>1, <1>2

(* No end of interrupt, of a handler, of irq_handler or of the boot        *)
(* thread, ends the interrupt of another handler.                          *)
THEOREM EndsItsOwnTheorem == Spec => EndsItsOwn
<1>1. IInv /\ [Next]_vars =>
        [\A l \in pic.isr \ pic'.isr :
           cpu.frames # << >> /\ l \in {Top.line, MasterLine(Top.line)}]_vars
  BY EndsItsOwnStep
<1>2. Spec => [][Next]_vars
  BY PTL DEF Spec
<1> QED BY <1>1, <1>2, SpecIInv, PTL DEF EndsItsOwn

(* An exception is the last thing that happens to the kernel.              *)
LEMMA FaultIsFinalStep ==
  ASSUME IInv, [Next]_vars, fault' # NoFault, ~UNCHANGED vars
  PROVE  /\ fault'.regs = <<fault'.vector, fault'.code>>
         /\ UNCHANGED <<main, routines, driver, reader, pic.isr>>
         /\ Top'.line = Fault /\ ~cpu'.if
<1>1. FaultOnTop'
  BY NextIInv DEF IInv
<1>2. UNCHANGED <<main, routines, driver, reader>> /\ pic'.isr = pic.isr
  <2>1. CASE fault = NoFault
    <3>1. Exception
      BY <2>1 DEF Next, Devices, PressKey, Edge, Dispatch, Handler, Call, ReadStatus, ReadData,
                  SetEvent, HandlerEOI, Iret, Boot, EnableINT, SendEOI, InstallTimer, InstallKbd,
                  InstallAta, Install, ReadCode, ClearCode, EventHandled
    <3> QED BY <3>1 DEF Exception, Raise, Report, DisableINT, HALT, vars
  <2>2. CASE fault # NoFault
    BY <2>2, FaultLast
  <2> QED BY <2>1, <2>2
<1> QED BY <1>1, <1>2 DEF FaultOnTop

(* From an exception on, Err_hanlder has its number and its code, and      *)
(* nothing but it and the devices takes a step.                            *)
THEOREM FaultIsFinalTheorem == Spec => FaultIsFinal
<1>1. IInv /\ [Next]_vars =>
        [fault' # NoFault =>
           /\ fault'.regs = <<fault'.vector, fault'.code>>
           /\ UNCHANGED <<main, routines, driver, reader, pic.isr>>
           /\ Top'.line = Fault /\ ~cpu'.if]_vars
  BY FaultIsFinalStep
<1>2. Spec => [][Next]_vars
  BY PTL DEF Spec
<1> QED BY <1>1, <1>2, SpecIInv, PTL DEF FaultIsFinal

-----------------------------------------------------------------------------
(***************************************************************************)
(* No byte is forgotten.                                                   *)
(***************************************************************************)
Reading(f) == f.line = Kbd /\ f.at \in {"call", "status", "data"}

(* With one handler, a byte is being read if it is the one to read it.     *)
LEMMA OneReads ==
  ASSUME NEW s \in Seq(Frame), Len(s) = 1
  PROVE  (\E n \in DOMAIN s : Reading(s[n])) <=> Reading(Head(s))
<1>1. DOMAIN s = {1} /\ Head(s) = s[1]
  OBVIOUS
<1> QED BY <1>1

(* What becomes of the frames when another comes on top, and when the one  *)
(* on top moves on.                                                        *)
LEMMA PushedFrames ==
  ASSUME NEW s \in Seq(Frame), NEW f \in Frame, NEW n \in DOMAIN s
  PROVE  n + 1 \in DOMAIN (<<f>> \o s) /\ (<<f>> \o s)[n + 1] = s[n]
OBVIOUS

LEMMA MovedFrames ==
  ASSUME NEW s \in Seq(Frame), NEW f \in Frame, NEW n \in DOMAIN s, n # 1
  PROVE  /\ n \in DOMAIN (<<f>> \o Tail(s)) /\ (<<f>> \o Tail(s))[n] = s[n]
<1>1. s # << >> /\ n \in 1..Len(s) /\ Len(s) \in Nat
  OBVIOUS
<1>2. Tail(s) \in Seq(Frame) /\ n - 1 \in DOMAIN Tail(s) /\ Tail(s)[n - 1] = s[n]
  BY <1>1, HeadTailProperties
<1> DEFINE t == Tail(s)
<1> HIDE DEF t
<1>3. n - 1 + 1 \in DOMAIN (<<f>> \o t) /\ (<<f>> \o t)[n - 1 + 1] = t[n - 1]
  BY <1>2, PushedFrames DEF t
<1> QED BY <1>1, <1>2, <1>3 DEF t

(* Of the handlers' steps only those of the keyboard's concern its byte.   *)
LEMMA HandlerByte ==
  ASSUME IInv, NoByteForgotten, Handler PROVE NoByteForgotten'
<1> SUFFICES ASSUME kbc'.full, ~early' PROVE Kbd \in pic'.irr \/ BeingRead'
  BY DEF NoByteForgotten
<1>1. cpu.frames # << >> /\ Top.at \notin {"report", "disable", "halt"} /\ PicType /\ CpuType
  BY DEF IInv, Types, Handler, Call, ReadStatus, ReadData, SetEvent, HandlerEOI, Iret, At
<1>2. Len(cpu.frames) = 1
  BY <1>1, HandlerOnTop
<1>3. BeingRead <=> Reading(Top)
  <2>1. cpu.frames \in Seq(Frame)
    BY <1>1 DEF CpuType
  <2> QED BY <1>2, <2>1, OneReads DEF BeingRead, Reading, Top
<1>4. ASSUME NEW a \in Points, Goto(a)
      PROVE  BeingRead' <=> Top.line = Kbd /\ a \in {"call", "status", "data"}
  <2>1. CpuType' /\ Len(cpu'.frames) = 1 /\ Top'.line = Top.line /\ Top'.at = a
    BY <1>1, <1>2, <1>4, GotoTop DEF CpuType
  <2>a. cpu'.frames \in Seq(Frame)
    BY <2>1 DEF CpuType
  <2>2. BeingRead' <=> Reading(Top)'
    BY <2>1, <2>a, OneReads DEF BeingRead, Reading, Top
  <2> QED BY <2>1, <2>2 DEF Reading
<1>5. ASSUME NEW l \in Lines, Call(l) PROVE Kbd \in pic'.irr \/ BeingRead'
  <2>1. /\ UNCHANGED <<pic, kbc>> /\ Top.line = l /\ ~early /\ (l = Kbd => Kbd \in routines)
    BY <1>5 DEF Call, At
  <2>2. CASE l = Kbd
    <3>1. Goto("status") /\ "status" \in Points
      BY <1>5, <2>1, <2>2 DEF Call, HandlerOf, Points
    <3> QED BY <1>4, <2>1, <2>2, <3>1
  <2>3. CASE l # Kbd
    BY <1>3, <2>1, <2>3 DEF NoByteForgotten, Reading
  <2> QED BY <2>2, <2>3
<1>6. CASE ReadStatus
  <2>1. UNCHANGED <<pic, kbc>> /\ Top.line = Kbd
    BY <1>6 DEF ReadStatus, At
  <2>2. Goto("data") /\ "data" \in Points
    BY <1>6, <2>1 DEF ReadStatus, AfterStatus, Points
  <2> QED BY <1>4, <2>1, <2>2
<1>7. CASE ReadData
  <2>1. pic' = Request(pic, Kbd)
    BY <1>7, Zenon DEF ReadData
  <2> QED BY <1>1, <2>1, RequestPic, LinesKnown
<1>8. CASE SetEvent \/ HandlerEOI \/ Iret
  <2>1. UNCHANGED <<kbc, early>> /\ ~Reading(Top) /\ pic'.irr = pic.irr
    BY <1>1, <1>8, EoiType DEF SetEvent, HandlerEOI, Iret, At, Reading
  <2> QED BY <1>3, <2>1 DEF NoByteForgotten
<1> QED BY <1>5, <1>6, <1>7, <1>8 DEF Handler

(* The other steps leave the byte and the handler that reads it.           *)
LEMMA OtherByte ==
  ASSUME IInv, NoByteForgotten, [Next]_vars, ~Handler PROVE NoByteForgotten'
<1> SUFFICES ASSUME kbc'.full, ~early' PROVE Kbd \in pic'.irr \/ BeingRead'
  BY DEF NoByteForgotten
<1>1. PicType /\ CpuType
  BY DEF IInv, Types
<1>2. CASE Devices
  <2>1. UNCHANGED <<cpu, early>>
    BY <1>2 DEF Devices, Edge, PressKey
  <2>2. BeingRead' = BeingRead
    BY <2>1 DEF BeingRead
  <2>3. CASE kbc.full
    <3>1. PICK l \in Lines : pic' = pic \/ pic' = Request(pic, l)
      BY <1>2, LinesKnown DEF Devices, Edge, PressKey
    <3>2. pic.irr \subseteq pic'.irr
      BY <1>1, <3>1, RequestPic
    <3> QED BY <2>1, <2>2, <2>3, <3>2 DEF NoByteForgotten
  <2>4. CASE ~kbc.full
    <3>1. pic' = Request(pic, Kbd)
      BY <1>2, <2>4 DEF Devices, Edge, PressKey
    <3> QED BY <1>1, <3>1, RequestPic, LinesKnown
  <2> QED BY <2>3, <2>4
<1>3. CASE Dispatch
  <2>1. PICK l \in Offered(pic) :
          /\ pic' = Accepted(pic, l)
          /\ cpu' = [if |-> EnabledInHandler,
                     frames |-> <<[line |-> l, at |-> "call"]>> \o cpu.frames]
    BY <1>3 DEF Dispatch
  <2>2. cpu.frames = << >> /\ UNCHANGED <<kbc, early>>
    BY <1>3 DEF Dispatch, IInv, OneHandler, FaultOnTop
  <2>3. Kbd \in pic.irr
    BY <2>2 DEF NoByteForgotten, BeingRead
  <2>4. CASE l = Kbd
    <3> DEFINE f == [line |-> l, at |-> "call"]
    <3>1. cpu'.frames = <<f>>
      BY <2>1, <2>2
    <3>2. 1 \in DOMAIN cpu'.frames /\ cpu'.frames[1] = f
      BY <3>1
    <3> QED BY <2>4, <3>2 DEF BeingRead
  <2>5. CASE l # Kbd
    BY <2>1, <2>3, <2>5 DEF Accepted
  <2> QED BY <2>4, <2>5
<1>4. CASE Exception
  <2>1. UNCHANGED <<pic, kbc, early>>
    BY <1>4 DEF Exception, Raise, Report, DisableINT, HALT, vars
  <2>2. SUFFICES ASSUME BeingRead PROVE BeingRead'
    BY <2>1 DEF NoByteForgotten
  <2>3. PICK n \in DOMAIN cpu.frames : Reading(cpu.frames[n])
    BY <2>2 DEF BeingRead, Reading
  <2>4. cpu.frames \in Seq(Frame)
    BY <1>1 DEF CpuType
  <2>5. CASE \E v \in Faults : Raise(v, IF v \in HasCode THEN 2 ELSE 0)
    <3> DEFINE f == [line |-> Fault, at |-> "report"]
    <3>1. cpu' = [if |-> FALSE, frames |-> <<f>> \o cpu.frames]
      BY <2>5 DEF Raise, EnabledInFault
    <3>2. f \in Frame
      BY FrameOf DEF Points
    <3> HIDE DEF f
    <3>3. n + 1 \in DOMAIN cpu'.frames /\ cpu'.frames[n + 1] = cpu.frames[n]
      BY <2>4, <3>1, <3>2, PushedFrames
    <3> QED BY <2>3, <3>3 DEF BeingRead, Reading
  <2>6. CASE Report \/ DisableINT
    <3>1. Top = cpu.frames[1] /\ Top.line = Fault /\ Top \in Frame /\ cpu.frames # << >>
      BY <2>4, <2>6 DEF Report, DisableINT, At, Top
    <3>2. n # 1
      BY <2>3, <3>1, FaultNotLine, LinesKnown DEF Reading
    <3>3. PICK a \in {"disable", "halt"} : cpu'.frames = <<[Top EXCEPT !.at = a]>> \o Tail(cpu.frames)
      <4>1. CASE Report
        <5>1. PICK a \in {"disable", "halt"} : Goto(a)
          BY <4>1 DEF Report
        <5>2. cpu'.frames = <<[Top EXCEPT !.at = a]>> \o Tail(cpu.frames)
          BY <1>1, <5>1 DEF Goto, CpuType
        <5> QED BY <5>2
      <4>2. CASE DisableINT
        BY <4>2 DEF DisableINT
      <4> QED BY <2>6, <4>1, <4>2
    <3> DEFINE f == [Top EXCEPT !.at = a]
    <3>4. f \in Frame
      BY <3>1 DEF Frame, Points
    <3> HIDE DEF f
    <3>5. n \in DOMAIN cpu'.frames /\ cpu'.frames[n] = cpu.frames[n]
      BY <2>4, <3>2, <3>3, <3>4, MovedFrames DEF f
    <3> QED BY <2>3, <3>5 DEF BeingRead, Reading
  <2>7. CASE HALT
    BY <2>2, <2>7 DEF HALT, vars, BeingRead
  <2> QED BY <1>4, <2>5, <2>6, <2>7 DEF Exception
<1>5. CASE Boot \/ ReadCode \/ ClearCode \/ EventHandled
  <2>1. UNCHANGED <<kbc, early>> /\ cpu'.frames = cpu.frames
    <3>1. cpu' = cpu \/ cpu' = [cpu EXCEPT !.if = TRUE]
      BY <1>5 DEF Boot, EnableINT, SendEOI, InstallTimer, InstallKbd, InstallAta, Install,
                  ReadCode, ClearCode, EventHandled
    <3>2. cpu'.frames = cpu.frames
      BY <1>1, <3>1 DEF CpuType
    <3> QED BY <1>5, <3>2 DEF Boot, EnableINT, SendEOI, InstallTimer, InstallKbd, InstallAta,
                              Install, ReadCode, ClearCode, EventHandled
  <2>2. pic'.irr = pic.irr
    BY <1>1, <1>5, EoiType DEF Boot, EnableINT, SendEOI, InstallTimer, InstallKbd, InstallAta,
                               Install, ReadCode, ClearCode, EventHandled
  <2> QED BY <2>1, <2>2 DEF NoByteForgotten, BeingRead
<1>6. CASE UNCHANGED vars
  BY <1>6 DEF vars, NoByteForgotten, BeingRead
<1> QED BY <1>2, <1>3, <1>4, <1>5, <1>6 DEF Next

(* Once the keyboard's driver is there a byte in the controller has a      *)
(* request or a handler that has yet to read it, exceptions or not.        *)
THEOREM NoByteForgottenTheorem == Spec => []NoByteForgotten
<1>1. Init => NoByteForgotten
  BY DEF Init, NoByteForgotten
<1>2. IInv /\ NoByteForgotten /\ [Next]_vars => NoByteForgotten'
  BY HandlerByte, OtherByte
<1>3. Spec => Init /\ [][Next]_vars
  BY PTL DEF Spec
<1> QED BY <1>1, <1>2, <1>3, SpecIInv, PTL

-----------------------------------------------------------------------------
(***************************************************************************)
(* Keys come in the order they were pressed.                               *)
(***************************************************************************)

(* The bytes in the keyboard controller k when n keys have been pressed.   *)
Controller == [full : BOOLEAN, code : Nat, waiting : Seq(Nat)]

Queue(k, n) ==
  /\ k \in Controller
  /\ ~k.full => k.waiting = << >>
  /\ k.full => k.code \in 1..n
  /\ \A i \in DOMAIN k.waiting : k.code < k.waiting[i] /\ k.waiting[i] <= n
  /\ \A i, j \in DOMAIN k.waiting : i < j => k.waiting[i] < k.waiting[j]

(* A key that is read is later than the last one given, and one in the     *)
(* controller later than all that were read.                               *)
Order ==
  /\ reader \in [got : Nat, seen : Nat]
  /\ reader.seen <= made[Kbd] /\ reader.got <= made[Kbd] /\ driver.code <= made[Kbd]
  /\ reader.got # NoKey => reader.seen < reader.got
  /\ driver.code # NoKey => reader.seen < driver.code
  /\ kbc.full => reader.seen < kbc.code /\ reader.got < kbc.code /\ driver.code < kbc.code
  /\ Queue(kbc, made[Kbd])
  /\ At(Kbd, "data") => kbc.full

(* A key that is pressed is the last.                                      *)
LEMMA QueueLonger ==
  ASSUME NEW n \in Nat, NEW k, Queue(k, n), k.full
  PROVE  Queue([k EXCEPT !.waiting = Append(@, n + 1)], n + 1)
<1> DEFINE w == Append(k.waiting, n + 1)
           q == [k EXCEPT !.waiting = w]
<1>1. k \in Controller /\ k.waiting \in Seq(Nat) /\ k.code \in 1..n
  BY DEF Queue, Controller
<1>2. /\ w \in Seq(Nat) /\ Len(k.waiting) \in Nat /\ Len(w) = Len(k.waiting) + 1
      /\ w[Len(k.waiting) + 1] = n + 1
      /\ \A i \in 1..Len(k.waiting) : w[i] = k.waiting[i]
      /\ DOMAIN w = 1..(Len(k.waiting) + 1) /\ DOMAIN k.waiting = 1..Len(k.waiting)
  BY <1>1
<1>3. \A i \in DOMAIN k.waiting : k.waiting[i] \in Nat /\ k.code < k.waiting[i] /\ k.waiting[i] <= n
  BY <1>1 DEF Queue
<1> HIDE DEF w
<1>4. q \in Controller /\ q.waiting = w /\ q.full /\ q.code = k.code
  BY <1>1, <1>2 DEF Controller, Queue
<1>5. \A i \in DOMAIN w : k.code < w[i] /\ w[i] <= n + 1
  <2> SUFFICES ASSUME NEW i \in DOMAIN w PROVE k.code < w[i] /\ w[i] <= n + 1
    OBVIOUS
  <2>1. CASE i = Len(k.waiting) + 1
    BY <1>1, <1>2, <2>1
  <2>2. CASE i # Len(k.waiting) + 1
    <3>1. i \in DOMAIN k.waiting /\ w[i] = k.waiting[i]
      BY <1>2, <2>2
    <3> QED BY <1>3, <3>1
  <2> QED BY <2>1, <2>2
<1>6. \A i, j \in DOMAIN w : i < j => w[i] < w[j]
  <2> SUFFICES ASSUME NEW i \in DOMAIN w, NEW j \in DOMAIN w, i < j PROVE w[i] < w[j]
    OBVIOUS
  <2>1. i \in DOMAIN k.waiting /\ w[i] = k.waiting[i]
    BY <1>2
  <2>2. CASE j = Len(k.waiting) + 1
    BY <1>2, <1>3, <2>1, <2>2
  <2>3. CASE j # Len(k.waiting) + 1
    <3>1. j \in DOMAIN k.waiting /\ w[j] = k.waiting[j]
      BY <1>2, <2>3
    <3> QED BY <2>1, <3>1 DEF Queue
  <2> QED BY <2>2, <2>3
<1>7. Queue(q, n + 1)
  <2> HIDE DEF q
  <2> QED BY <1>1, <1>4, <1>5, <1>6 DEF Queue
<1> QED BY <1>7 DEF w

LEMMA QueueFirst ==
  ASSUME NEW n \in Nat, NEW k, Queue(k, n), ~k.full
  PROVE  Queue([k EXCEPT !.full = TRUE, !.code = n + 1], n + 1)
<1>1. k \in Controller /\ k.waiting = << >>
  BY DEF Queue
<1>2. PICK m \in Nat : m = n + 1
  OBVIOUS
<1> DEFINE q == [k EXCEPT !.full = TRUE, !.code = m]
<1>3. q \in Controller
  BY <1>1 DEF Controller
<1>4. q.full /\ q.code = m /\ q.waiting = << >>
  BY <1>1 DEF Controller
<1>5. q = [k EXCEPT !.full = TRUE, !.code = n + 1]
  BY <1>2, Zenon
<1> HIDE DEF q
<1>6. m \in 1..(n + 1)
  BY <1>2
<1>7. Queue(q, n + 1)
  BY <1>3, <1>4, <1>6 DEF Queue
<1> QED BY <1>5, <1>7

(* The byte after the one that is taken was pressed later.                 *)
LEMMA QueueTaken ==
  ASSUME NEW n \in Nat, Queue(kbc, n), kbc.full
  PROVE  Queue(ByteTaken, n) /\ (ByteTaken.full => kbc.code < ByteTaken.code)
<1>1. kbc \in Controller /\ kbc.waiting \in Seq(Nat)
  BY DEF Queue, Controller
<1>2. CASE kbc.waiting = << >>
  <2> DEFINE q == [kbc EXCEPT !.full = FALSE]
  <2>1. q \in Controller /\ ~q.full /\ q.waiting = << >> /\ ByteTaken = q
    BY <1>1, <1>2 DEF Controller, ByteTaken
  <2> HIDE DEF q
  <2> QED BY <2>1 DEF Queue
<1>3. CASE kbc.waiting # << >>
  <2> DEFINE w == kbc.waiting
             t == Tail(w)
             h == Head(w)
             q == [kbc EXCEPT !.code = h, !.waiting = t]
  <2>1. /\ h \in Nat /\ t \in Seq(Nat) /\ h = w[1] /\ 1 \in DOMAIN w
        /\ Len(t) = Len(w) - 1 /\ Len(w) \in Nat /\ DOMAIN t = 1..Len(t) /\ DOMAIN w = 1..Len(w)
        /\ \A i \in 1..Len(t) : t[i] = w[i + 1]
    BY <1>1, <1>3, HeadTailProperties
  <2>a. ByteTaken = q
    BY <1>3 DEF ByteTaken
  <2>b. kbc.code < h /\ h \in 1..n
    BY <1>1, <2>1 DEF Queue, Controller
  <2>c. \A i, j \in DOMAIN w : i < j => w[i] < w[j]
    BY DEF Queue
  <2>d. \A i \in DOMAIN w : w[i] <= n
    BY DEF Queue
  <2> HIDE DEF t, h, w
  <2>2. q \in Controller /\ q.full /\ q.code = h /\ q.waiting = t
    BY <1>1, <2>1 DEF Controller
  <2>3. \A i \in DOMAIN t : i + 1 \in DOMAIN w /\ t[i] = w[i + 1]
    BY <2>1
  <2>4. \A i \in DOMAIN t : h < t[i] /\ t[i] <= n
    <3> SUFFICES ASSUME NEW i \in DOMAIN t PROVE h < t[i] /\ t[i] <= n
      OBVIOUS
    <3>1. 1 < i + 1
      BY <2>1
    <3>2. w[1] < w[i + 1] /\ w[i + 1] <= n
      BY <2>1, <2>3, <2>c, <2>d, <3>1
    <3> QED BY <2>1, <2>3, <3>2
  <2>5. \A i, j \in DOMAIN t : i < j => t[i] < t[j]
    <3> SUFFICES ASSUME NEW i \in DOMAIN t, NEW j \in DOMAIN t, i < j PROVE t[i] < t[j]
      OBVIOUS
    <3>1. i + 1 < j + 1
      BY <2>1
    <3>2. w[i + 1] < w[j + 1]
      BY <2>3, <2>c, <3>1
    <3> QED BY <2>3, <3>2
  <2> HIDE DEF q
  <2>6. Queue(q, n)
    BY <2>2, <2>4, <2>5, <2>b DEF Queue
  <2> QED BY <2>2, <2>6, <2>a, <2>b
<1> QED BY <1>2, <1>3

(* Only the read of the status leads to the read of the byte.              *)
LEMMA NotAtData ==
  ASSUME IInv, Next, ~Devices, ~ReadStatus, ~UNCHANGED vars PROVE ~At(Kbd, "data")'
<1>1. CpuType /\ IInv'
  BY NextIInv DEF IInv, Types
<1>2. ASSUME NEW a \in Points, a # "data", cpu.frames # << >>, Goto(a) PROVE ~At(Kbd, "data")'
  <2>1. Top'.at = a
    BY <1>1, <1>2, GotoTop DEF CpuType
  <2> QED BY <1>2, <2>1 DEF At
<1>3. CASE Dispatch
  <2>1. PICK l \in Offered(pic) : cpu'.frames = <<[line |-> l, at |-> "call"]>> \o cpu.frames
    BY <1>3 DEF Dispatch
  <2>2. cpu.frames = << >>
    BY <1>3 DEF Dispatch, IInv, OneHandler, FaultOnTop
  <2> DEFINE f == [line |-> l, at |-> "call"]
  <2>3. cpu'.frames = <<f>>
    BY <2>1, <2>2
  <2>4. Top' = f
    BY <2>3 DEF Top
  <2> QED BY <2>4 DEF At
<1>4. CASE \E l \in Lines : Call(l)
  <2>1. PICK l \in Lines : Call(l)
    BY <1>4
  <2>2. PICK a : a = IF l \in routines THEN HandlerOf(l) ELSE EoiOf(l)
    OBVIOUS
  <2>3. a \in {"status", "own slave", "own master", "slave", "master"}
    BY <2>2 DEF HandlerOf, EoiOf, OwnEoiOf
  <2>4. Goto(a) /\ cpu.frames # << >>
    BY <2>1, <2>2 DEF Call, At
  <2> QED BY <1>2, <2>3, <2>4 DEF Points
<1>5. CASE ReadData
  <2>1. Goto("event") /\ cpu.frames # << >>
    BY <1>5, Zenon DEF ReadData, At
  <2> QED BY <1>2, <2>1 DEF Points
<1>6. CASE SetEvent \/ HandlerEOI
  <2>1. PICK a \in {"own slave", "own master", "slave", "master", "iret"} : Goto(a) /\ cpu.frames # << >>
    BY <1>6 DEF SetEvent, HandlerEOI, OwnEoiOf, EoiOf, AfterSlaveEoi, At
  <2> QED BY <1>2, <2>1 DEF Points
<1>7. CASE Iret
  <2>1. cpu.frames # << >> /\ Top.at = "iret" /\ cpu'.frames = Tail(cpu.frames)
    BY <1>7 DEF Iret
  <2>2. Len(cpu.frames) = 1 /\ cpu.frames \in Seq(Frame)
    BY <1>1, <2>1, HandlerOnTop DEF CpuType
  <2>3. cpu'.frames = << >>
    BY <2>1, <2>2, LastFrame
  <2> QED BY <2>3 DEF At
<1>8. CASE Exception
  <2>1. fault' # NoFault
    <3>1. ASSUME NEW v \in Faults, Raise(v, IF v \in HasCode THEN 2 ELSE 0) PROVE fault' # NoFault
      <4>1. v \in 0..31
        BY IrqAssumption
      <4>2. fault'.vector = v /\ NoFault.vector = 32
        BY <3>1 DEF Raise, NoFault
      <4> QED BY <4>1, <4>2
    <3>2. CASE Report \/ DisableINT \/ HALT
      <4>1. fault' = fault /\ cpu.frames # << >> /\ Top.line = Fault
        BY <3>2 DEF Report, DisableINT, HALT, At, vars
      <4> QED BY <4>1, FaultNotLine DEF IInv, OneHandler
    <3> QED BY <1>8, <3>1, <3>2 DEF Exception
  <2>2. Top'.line = Fault
    BY <1>1, <2>1 DEF IInv, FaultOnTop
  <2> QED BY <2>2, FaultNotLine, LinesKnown DEF At
<1>9. CASE Boot \/ ReadCode \/ ClearCode \/ EventHandled
  <2>1. cpu.frames = << >> /\ (cpu' = cpu \/ cpu' = [cpu EXCEPT !.if = TRUE])
    BY <1>9 DEF Boot, EnableINT, SendEOI, InstallTimer, InstallKbd, InstallAta, Install,
                ReadCode, ClearCode, EventHandled, Running
  <2>2. cpu'.frames = << >>
    BY <1>1, <2>1 DEF CpuType
  <2> QED BY <2>2 DEF At
<1> QED BY <1>3, <1>4, <1>5, <1>6, <1>7, <1>8, <1>9 DEF Next, Handler

(* What leaves the keys and the reader keeps the order.                    *)
LEMMA OrderKept ==
  ASSUME Order, UNCHANGED <<reader, kbc>>, made'[Kbd] = made[Kbd], driver'.code = driver.code,
         At(Kbd, "data")' => kbc.full
  PROVE  Order'
BY DEF Order, Queue

(* A key is pressed.                                                       *)
LEMMA PressKeyOrder == ASSUME IInv, Order, PressKey PROVE Order'
<1> DEFINE n == made[Kbd]
<1>1. MadeType /\ DriverType /\ n \in Nat
  BY LinesKnown DEF IInv, Types, MadeType
<1>2. made'[Kbd] = n + 1 /\ UNCHANGED <<cpu, reader, driver>>
  BY <1>1, LinesKnown DEF PressKey, MakeRequest, MadeType
<1>3. At(Kbd, "data")' <=> At(Kbd, "data")
  BY <1>2 DEF At, Top
<1>4. driver.code \in Nat
  BY <1>1, EdgesNat, LinesKnown DEF DriverType
<1>5. Queue(kbc, n) /\ kbc \in Controller /\ reader \in [got : Nat, seen : Nat]
  BY DEF Order, Queue
<1>6. CASE kbc.full
  <2>1. PICK m : m = n + 1
    OBVIOUS
  <2>2. kbc' = [kbc EXCEPT !.waiting = Append(@, m)]
    BY <1>2, <1>6, <2>1 DEF PressKey
  <2>3. kbc'.full = kbc.full /\ kbc'.code = kbc.code
    BY <1>5, <2>2 DEF Controller
  <2>4. Queue(kbc', n + 1)
    BY <1>1, <1>5, <1>6, <2>1, <2>2, QueueLonger
  <2>5. Queue(kbc, n)' <=> Queue(kbc', n + 1)
    BY <1>2
  <2> QED BY <1>1, <1>2, <1>3, <1>4, <1>5, <2>3, <2>4, <2>5 DEF Order
<1>7. CASE ~kbc.full
  <2>1. PICK m : m = n + 1
    OBVIOUS
  <2>2. kbc' = [kbc EXCEPT !.full = TRUE, !.code = m]
    BY <1>2, <1>7, <2>1 DEF PressKey
  <2>3. kbc'.full /\ kbc'.code = n + 1
    BY <1>5, <2>1, <2>2 DEF Controller
  <2>4. Queue(kbc', n + 1)
    BY <1>1, <1>5, <1>7, <2>1, <2>2, QueueFirst
  <2>5. Queue(kbc, n)' <=> Queue(kbc', n + 1)
    BY <1>2
  <2> QED BY <1>1, <1>2, <1>3, <1>4, <1>5, <2>3, <2>4, <2>5 DEF Order
<1> QED BY <1>6, <1>7

(* The handler reads the byte.                                             *)
LEMMA ReadDataOrder == ASSUME IInv, Order, ReadData PROVE Order'
<1>1. /\ kbc.full /\ Queue(kbc, made[Kbd]) /\ made[Kbd] \in Nat /\ kbc \in Controller
      /\ DriverType
  BY LinesKnown, Zenon DEF ReadData, Order, IInv, Types, MadeType, Queue
<1>2. /\ UNCHANGED <<reader, made>> /\ kbc' = ByteTaken
      /\ driver' = [driver EXCEPT !.code = kbc.code] /\ Goto("event") /\ cpu.frames # << >>
  BY Zenon DEF ReadData, At
<1>3. PICK c \in 1..made[Kbd] : c = kbc.code
  BY <1>1 DEF Queue
<1>4. driver' = [driver EXCEPT !.code = c]
  BY <1>2, <1>3, Zenon
<1>5. driver'.code = c
  BY <1>1, <1>4 DEF DriverType
<1>6. Queue(kbc', made[Kbd]) /\ (kbc'.full => c < kbc'.code)
  BY <1>1, <1>2, <1>3, QueueTaken
<1>7. ~At(Kbd, "data")'
  <2>1. Top'.at = "event"
    BY <1>2, GotoTop DEF IInv, Types, CpuType, Points
  <2> QED BY <2>1 DEF At
<1>8. reader.seen < c /\ reader.got < c /\ reader \in [got : Nat, seen : Nat]
  BY <1>1, <1>3 DEF Order
<1>9. kbc'.full => kbc'.code \in Nat
  BY <1>6 DEF Queue
<1>10. Queue(kbc, made[Kbd])'
  BY <1>2, <1>6
<1>11. /\ reader.got # NoKey => reader.seen < reader.got
       /\ reader.seen <= made[Kbd] /\ reader.got <= made[Kbd]
  BY DEF Order
<1>12. reader' = reader /\ made' = made
  BY <1>2
<1>13. kbc'.full => reader.seen < kbc'.code /\ reader.got < kbc'.code
  BY <1>3, <1>6, <1>8, <1>9
<1> QED BY <1>1, <1>3, <1>5, <1>6, <1>7, <1>8, <1>10, <1>11, <1>12, <1>13 DEF Order

(* GetKeyCode reads the code, and clears it.                               *)
LEMMA ReaderOrder == ASSUME IInv, Order, ReadCode \/ ClearCode PROVE Order'
<1>1. ~At(Kbd, "data")'
  BY DEF ReadCode, ClearCode, Running, At
<1>2. UNCHANGED <<kbc, made>> /\ DriverType /\ made[Kbd] \in Nat
  BY LinesKnown DEF ReadCode, ClearCode, IInv, Types, MadeType
<1>3. Queue(kbc, made[Kbd])' /\ (kbc.full => kbc.code \in 1..made[Kbd])
  BY <1>2 DEF Order, Queue
<1>4. reader \in [got : Nat, seen : Nat]
  BY DEF Order
<1>5. PICK c \in Nat : c = driver.code
  BY <1>2, EdgesNat, LinesKnown DEF DriverType
<1>6. CASE ReadCode
  <2>1. reader' = [reader EXCEPT !.got = driver.code] /\ driver' = driver
    BY <1>6, Zenon DEF ReadCode
  <2>2. reader' = [reader EXCEPT !.got = c]
    BY <1>5, <2>1, Zenon
  <2>3. reader' \in [got : Nat, seen : Nat] /\ reader'.got = c /\ reader'.seen = reader.seen
    BY <1>4, <2>2
  <2>4. driver'.code = c
    BY <1>5, <2>1
  <2>5. /\ reader.seen <= made[Kbd] /\ c <= made[Kbd] /\ (c # NoKey => reader.seen < c)
        /\ kbc.full => reader.seen < kbc.code /\ c < kbc.code
    BY <1>5 DEF Order
  <2> QED BY <1>1, <1>2, <1>3, <2>3, <2>4, <2>5 DEF Order
<1>7. CASE ClearCode
  <2>1. driver' = [driver EXCEPT !.code = 0]
    BY <1>7 DEF ClearCode, Cleared, NoKey
  <2>2. driver'.code = 0
    BY <1>2, <2>1 DEF DriverType
  <2>3. PICK s \in Nat : s = IF reader.got = NoKey THEN reader.seen ELSE reader.got
    BY <1>4
  <2>4. reader' = [got |-> 0, seen |-> s]
    BY <1>7, <2>3 DEF ClearCode, NoKey
  <2>5. reader' \in [got : Nat, seen : Nat] /\ reader'.got = 0 /\ reader'.seen = s
    BY <2>4
  <2>6. s <= made[Kbd] /\ (kbc.full => s < kbc.code)
    BY <2>3 DEF Order
  <2>7. kbc.full => 0 < kbc.code
    BY <1>2, <1>3
  <2> QED BY <1>1, <1>2, <1>3, <2>2, <2>5, <2>6, <2>7 DEF Order, NoKey
<1> QED BY <1>6, <1>7

(* The order is kept by every step.                                        *)
LEMMA OrderStep == IInv /\ Order /\ [Next]_vars => Order'
<1> SUFFICES ASSUME IInv, Order, [Next]_vars PROVE Order'
  OBVIOUS
<1>1. CASE UNCHANGED vars
  <2>1. UNCHANGED <<reader, kbc, made, driver, cpu>>
    BY <1>1 DEF vars
  <2>2. At(Kbd, "data")' => kbc.full
    BY <2>1 DEF At, Top, Order
  <2> QED BY <2>1, <2>2, OrderKept
<1>2. CASE PressKey
  BY <1>2, PressKeyOrder
<1>3. ASSUME NEW l \in Lines, Edge(l) PROVE Order'
  <2>1. UNCHANGED <<reader, kbc, driver, cpu>> /\ l # Kbd /\ made' = [made EXCEPT ![l] = @ + 1]
    BY <1>3 DEF Edge, MakeRequest
  <2>2. made'[Kbd] = made[Kbd]
    BY <2>1, LinesKnown DEF IInv, Types, MadeType
  <2>3. At(Kbd, "data")' => kbc.full
    BY <2>1 DEF At, Top, Order
  <2> QED BY <2>1, <2>2, <2>3, OrderKept
<1>4. CASE ReadStatus
  <2>1. UNCHANGED <<reader, kbc, driver, made>> /\ Goto(AfterStatus) /\ cpu.frames # << >>
    BY <1>4 DEF ReadStatus, At
  <2>2. Top'.at = AfterStatus
    BY <2>1, GotoTop DEF IInv, Types, CpuType, Points, AfterStatus
  <2>3. At(Kbd, "data")' => kbc.full
    BY <2>2 DEF At, AfterStatus
  <2> QED BY <2>1, <2>3, OrderKept
<1>5. CASE ReadData
  BY <1>5, ReadDataOrder
<1>6. CASE ReadCode \/ ClearCode
  BY <1>6, ReaderOrder
<1>7. CASE Next /\ ~(Devices \/ ReadStatus \/ ReadData \/ ReadCode \/ ClearCode \/ UNCHANGED vars)
  <2>1. ~At(Kbd, "data")'
    BY <1>7, NotAtData
  <2>2. UNCHANGED <<reader, kbc, made>>
    BY <1>7 DEF Next, Dispatch, Handler, Call, SetEvent, HandlerEOI, Iret, Exception, Raise, Report,
                DisableINT, HALT, Boot, EnableINT, SendEOI, InstallTimer, InstallKbd, InstallAta,
                Install, EventHandled
  <2>3. \/ driver' = driver
        \/ driver' = [driver EXCEPT !.ticks = @ + 1]
        \/ driver' = [driver EXCEPT !.event = TRUE]
        \/ driver' = [driver EXCEPT !.event = FALSE]
    BY <1>7 DEF Next, Dispatch, Handler, Call, SetEvent, HandlerEOI, Iret, Exception, Raise, Report,
                DisableINT, HALT, Boot, EnableINT, SendEOI, InstallTimer, InstallKbd, InstallAta,
                Install, EventHandled
  <2>4. driver'.code = driver.code
    BY <2>3 DEF IInv, Types, DriverType
  <2> QED BY <2>1, <2>2, <2>4, OrderKept
<1> QED BY <1>1, <1>2, <1>3, <1>4, <1>5, <1>6, <1>7 DEF Next, Devices

(* The caller of GetKeyCode is given keys in the order they were pressed,  *)
(* none twice, whatever comes between its read of the code and its clear.  *)
THEOREM KeysInOrderTheorem == Spec => []KeysInOrder
<1>1. Init => Order
  <2> SUFFICES ASSUME Init PROVE Order
    OBVIOUS
  <2>1. /\ reader = [got |-> 0, seen |-> 0] /\ made[Kbd] = 0 /\ driver.code = 0
        /\ kbc = [full |-> FALSE, code |-> 0, waiting |-> << >>] /\ cpu.frames = << >>
    BY LinesKnown DEF Init, NoKey
  <2>2. kbc \in Controller /\ kbc.waiting = << >> /\ ~kbc.full
    BY <2>1 DEF Controller
  <2>3. Queue(kbc, made[Kbd])
    BY <2>2 DEF Queue
  <2> QED BY <2>1, <2>2, <2>3 DEF Order, At, NoKey
<1>2. Order => KeysInOrder
  BY DEF Order, KeysInOrder
<1>3. Spec => Init /\ [][Next]_vars
  BY PTL DEF Spec
<1> QED BY <1>1, <1>2, <1>3, OrderStep, SpecIInv, PTL

=============================================================================
