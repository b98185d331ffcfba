----------------------------- MODULE ABlkProofs -----------------------------
(***************************************************************************)
(* Proofs about the disk channel for any ring, any limit on the vector and  *)
(* any number of requests and starts: the thread is woken exactly once for  *)
(* each activation, and when all is quiet the client knows that the engine  *)
(* is idle and how many requests are done.  And about the copy-on-write     *)
(* image, for any tables, any cache and any contents.                       *)
(***************************************************************************)
EXTENDS ABlk, Qcow, WellFoundedInduction, TLAPS

(* The index arithmetic of the ring stays in the ring.                      *)
LEMMA NextInRing == \A s \in Slots : NEXT(s) \in Slots
  BY RingAssumption DEF NEXT, Slots

(* What is needed besides the types: a buffer joins the vector only if there *)
(* is room for it, and no more is left to transfer than was collected.       *)
VectorFits ==
    /\ io.left <= io.n
    /\ io.pc = "ioirq" => io.n = 0
    /\ io.pc = "adv" => io.n < MaxVec

BlkInv == BlkTypeOK /\ VectorFits

(* The types and the limit of the I/O vector: do_work() transfers a full    *)
(* vector before the next buffer joins it.                                  *)
THEOREM BlkTypeCorrect == BlkSpec => []BlkTypeOK
<1> USE RingAssumption, VecAssumption, BoundAssumption
<1>1. BlkInit => BlkInv
  BY DEF BlkInit, BlkInv, BlkTypeOK, VectorFits, EmptyRing, Slot, Slots, Kinds, Working,
        IoLocals, Client
<1>2. BlkInv /\ [BlkNext]_blkVars => BlkInv'
  <2> SUFFICES ASSUME BlkInv, [BlkNext]_blkVars PROVE BlkInv'
    OBVIOUS
  <2> USE DEF BlkInv, BlkTypeOK, VectorFits
  <2>0. /\ 0 \in 0 .. MaxVec
        /\ \A p \in {"load", "io", "ioirq", "adv", "count", "stall", "err", "pipe", "hi"} :
              p \in Working \cup {"pipe", "hi"}
        /\ io.n \in 0 .. MaxVec /\ io.left \in 0 .. MaxVec /\ io.proceed \in {0, 1}
        /\ io \in IoLocals
    BY DEF Working, IoLocals
  <2>1. CASE ReadPipe
    <3>1. io' = [io EXCEPT !.pc = "load", !.n = 0, !.left = 0]
      BY <2>1 DEF ReadPipe
    <3>2. io' \in IoLocals /\ io'.pc = "load" /\ io'.n = 0 /\ io'.left = 0
      BY <2>0, <3>1 DEF IoLocals
    <3> QED BY <2>1, <3>2 DEF ReadPipe
  <2>2. CASE Load
    <3>1. ring[reqHead].proceed \in {0, 1}
      BY DEF Slot
    <3> DEFINE b == ring[reqHead].proceed
               exec == /\ io.n > 0
                       /\ b = 0 \/ io.n = MaxVec \/ ring[NEXT(reqHead)].flags # "sg"
               p == IF exec THEN "io" ELSE IF b = 0 THEN "stall" ELSE "adv"
    <3>2. io' = [io EXCEPT !.proceed = b, !.pc = p]
      BY <2>2 DEF Load
    <3>3. p \in {"io", "stall", "adv"} /\ (p = "adv" => io.n # MaxVec)
      BY <2>0
    <3> HIDE DEF b, exec, p
    <3>4. io' \in IoLocals /\ io'.pc = p /\ io'.n = io.n /\ io'.left = io.left
      BY <2>0, <3>1, <3>2, <3>3 DEF IoLocals, b
    <3> QED BY <2>0, <2>2, <3>3, <3>4 DEF Load
  <2>3. CASE IoShort
    BY <2>3 DEF IoShort, IoLocals
  <2>4. CASE IoDone
    <3>1. io' = [io EXCEPT !.pc = "ioirq", !.n = 0, !.left = 0]
      BY <2>4 DEF IoDone
    <3>2. io' \in IoLocals /\ io'.pc = "ioirq" /\ io'.n = 0 /\ io'.left = 0
      BY <2>0, <3>1 DEF IoLocals
    <3> QED BY <2>0, <2>4, <3>2 DEF IoDone
  <2>5. CASE IoError \/ Count \/ RaiseIrq
    <3>1. PICK p \in {"err", "load", "pipe"} : io' = [io EXCEPT !.pc = p]
      BY <2>5 DEF IoError, Count, RaiseIrq
    <3>2. io' \in IoLocals /\ io'.pc = p /\ io'.n = io.n /\ io'.left = io.left
      BY <2>0, <3>1 DEF IoLocals
    <3> QED BY <2>5, <3>2 DEF IoError, Count, RaiseIrq
  <2>6. CASE IoIrq
    <3>1. PICK p \in {"stall", "adv"} : io' = [io EXCEPT !.pc = p]
      BY <2>6 DEF IoIrq
    <3>2. io' \in IoLocals /\ io'.pc = p /\ io'.n = io.n /\ io'.left = io.left
      BY <2>0, <3>1 DEF IoLocals
    <3> QED BY <2>6, <3>2 DEF IoIrq
  <2>7. CASE Advance
    <3>1. NEXT(reqHead) \in Slots
      BY NextInRing
    <3>2. ring' \in [Slots -> Slot]
      BY <2>7 DEF Advance, Slot
    <3>3. line' \in {0, 1}
      BY <2>7 DEF Advance, Begin
    <3>4. io' \in IoLocals /\ io'.left <= io'.n /\ io'.pc \notin {"adv", "ioirq"}
      <4>1. io.n < MaxVec
        BY <2>7 DEF Advance
      <4>2. io.n + 1 \in 0 .. MaxVec /\ io.left + 1 \in 0 .. MaxVec
        BY <2>0, <4>1
      <4>3. CASE io' = [io EXCEPT !.pc = "load", !.n = io.n + 1, !.left = io.left + 1]
        <5>1. io' \in IoLocals /\ io'.pc = "load" /\ io'.n = io.n + 1
              /\ io'.left = io.left + 1
          BY <2>0, <4>2, <4>3 DEF IoLocals
        <5> QED BY <2>0, <5>1
      <4>4. ASSUME NEW p \in {"count", "err"}, io' = [io EXCEPT !.pc = p]
            PROVE io' \in IoLocals /\ io'.left <= io'.n /\ io'.pc \notin {"adv", "ioirq"}
        BY <2>0, <4>4 DEF IoLocals
      <4> QED BY <2>7, <4>3, <4>4 DEF Advance, Begin
    <3> QED BY <2>7, <3>1, <3>2, <3>3, <3>4 DEF Advance
  <2>8. CASE Stall
    <3>1. io' = [io EXCEPT !.pc = "hi", !.n = 0, !.left = 0]
      BY <2>8 DEF Stall
    <3>2. io' \in IoLocals /\ io'.pc = "hi" /\ io'.n = 0 /\ io'.left = 0
      BY <2>0, <3>1 DEF IoLocals
    <3> QED BY <2>8, <3>2 DEF Stall
  <2>9. ASSUME NEW k \in Kinds, NEW irq \in BOOLEAN, Submit(k, irq) PROVE BlkInv'
    <3>1. drv.tail \in Slots /\ NEXT(drv.tail) \in Slots
      <4>1. drv.tail \in Slots
        BY DEF Client
      <4> QED BY <4>1, NextInRing
    <3>2. ring' \in [Slots -> Slot]
      <4> DEFINE filled == [ring EXCEPT ![NEXT(drv.tail)] = [flags |-> k, irq |-> irq, proceed |-> 0]]
      <4>1. [flags |-> k, irq |-> irq, proceed |-> 0] \in Slot
        BY DEF Slot
      <4>2. filled \in [Slots -> Slot]
        BY <3>1, <4>1
      <4>3. ring' = [filled EXCEPT ![drv.tail].proceed = 1]
        BY <2>9 DEF Submit
      <4> HIDE DEF filled
      <4>4. [filled[drv.tail] EXCEPT !.proceed = 1] \in Slot
        BY <3>1, <4>2 DEF Slot
      <4> QED BY <3>1, <4>2, <4>3, <4>4
    <3>3. drv' \in Client
      <4>1. drv' = [drv EXCEPT !.tail = NEXT(drv.tail), !.queued = drv.queued + 1]
        BY <2>9 DEF Submit
      <4>2. drv.queued + 1 \in Nat
        BY DEF Client
      <4> QED BY <3>1, <4>1, <4>2 DEF Client
    <3> QED BY <2>9, <3>2, <3>3 DEF Submit
  <2>10. CASE osip_ablk_kick \/ AckTest \/ AckReply
    <3>1. drv' \in Client
      BY <2>10 DEF osip_ablk_kick, AckTest, AckReply, Client
    <3> QED BY <2>10, <3>1 DEF osip_ablk_kick, AckTest, AckReply, KickEngine
  <2>11. ASSUME NEW reset \in BOOLEAN, osip_ablk_cntrl_stop(reset) PROVE BlkInv'
    <3>1. drv' \in Client
      BY <2>11 DEF osip_ablk_cntrl_stop, Client
    <3> QED BY <2>11, <3>1 DEF osip_ablk_cntrl_stop
  <2>12. CASE osip_ablk_cntrl_start
    <3>1. 0 \in Slots
      BY DEF Slots
    <3>2. EmptyRing \in [Slots -> Slot] /\ "ctl" \in Kinds
      BY DEF EmptyRing, Slot, Kinds
    <3>3. ring' \in [Slots -> Slot]
      <4>1. [EmptyRing[0] EXCEPT !.flags = "ctl"] \in Slot
        BY <3>1, <3>2 DEF Slot
      <4>2. ring' = [EmptyRing EXCEPT ![0].flags = "ctl"]
        BY <2>12 DEF osip_ablk_cntrl_start
      <4> QED BY <3>1, <3>2, <4>1, <4>2
    <3>4. drv' \in Client
      <4>1. drv' = [drv EXCEPT !.up = TRUE, !.tail = 0, !.queued = 0, !.count = 0,
                               !.active = 0, !.starts = drv.starts + 1]
        BY <2>12 DEF osip_ablk_cntrl_start
      <4>2. drv.starts + 1 \in 0 .. MaxStarts
        BY <2>12 DEF osip_ablk_cntrl_start, Client
      <4> QED BY <3>1, <4>1, <4>2 DEF Client
    <3> QED BY <2>12, <3>1, <3>3, <3>4 DEF osip_ablk_cntrl_start
  <2>13. CASE osip_ablk_cntrl_events \/ ablk_post_event \/ UNCHANGED blkVars
    BY <2>13 DEF osip_ablk_cntrl_events, ablk_post_event, blkVars
  <2> QED BY <2>1, <2>2, <2>3, <2>4, <2>5, <2>6, <2>7, <2>8, <2>9, <2>10, <2>11, <2>12,
             <2>13 DEF BlkNext, IoStep, Ack
<1> QED BY <1>1, <1>2, PTL DEF BlkSpec, BlkInv

-----------------------------------------------------------------------------
(* The kick of the main thread and the stall of the I/O thread, which share *)
(* ablk.active without a lock, keep one token: active is set exactly while a *)
(* byte is in the pipe or the thread works, never both.                     *)
THEOREM OneWakeup == BlkSpec => []EngineToken
<1>1. BlkInit => EngineToken
  BY DEF BlkInit, EngineToken, Working
<1>2. BlkTypeOK /\ EngineToken /\ [BlkNext]_blkVars => EngineToken'
  <2> SUFFICES ASSUME BlkTypeOK, EngineToken, [BlkNext]_blkVars PROVE EngineToken'
    OBVIOUS
  <2> USE DEF EngineToken, Working
  <2> pipe \in Nat /\ active \in {0, 1}
    BY DEF BlkTypeOK, IoLocals, Client
  <2>0. /\ io.pc \in Working \cup {"pipe", "hi"}
        /\ \A p \in STRING : [io EXCEPT !.pc = p].pc = p
    BY DEF BlkTypeOK, IoLocals, Client
  <2>1. CASE ReadPipe
    BY <2>0, <2>1 DEF ReadPipe, BlkTypeOK, IoLocals
  <2>2. CASE Load \/ IoShort \/ IoDone \/ IoError \/ IoIrq \/ Count
    BY <2>0, <2>2 DEF Load, IoShort, IoDone, IoError, IoIrq, Count, BlkTypeOK, IoLocals, Client
  <2>3. CASE Advance
    BY <2>0, <2>3, ZenonT(30) DEF Advance, Begin, BlkTypeOK, IoLocals, Client
  <2>4. CASE Stall \/ RaiseIrq
    <3>1. io'.pc \in {"hi", "pipe"}
      BY <2>4 DEF Stall, RaiseIrq, BlkTypeOK, IoLocals
    <3>2. CASE Stall
      BY <3>1, <3>2 DEF Stall
    <3>3. CASE RaiseIrq
      BY <3>1, <3>3 DEF RaiseIrq
    <3> QED BY <2>4, <3>2, <3>3
  <2>5. ASSUME NEW k \in Kinds, NEW irq \in BOOLEAN, Submit(k, irq) PROVE EngineToken'
    BY <2>5 DEF Submit
  <2>6. CASE osip_ablk_kick \/ AckTest \/ AckReply
    BY <2>6 DEF osip_ablk_kick, AckTest, AckReply, KickEngine
  <2>7. ASSUME NEW reset \in BOOLEAN, osip_ablk_cntrl_stop(reset) PROVE EngineToken'
    BY <2>7 DEF osip_ablk_cntrl_stop
  <2>8. CASE osip_ablk_cntrl_start \/ osip_ablk_cntrl_events \/ ablk_post_event
             \/ UNCHANGED blkVars
    BY <2>8 DEF osip_ablk_cntrl_start, osip_ablk_cntrl_events, ablk_post_event, blkVars
  <2> QED BY <2>1, <2>2, <2>3, <2>4, <2>5, <2>6, <2>7, <2>8 DEF BlkNext, IoStep, Ack
<1> QED BY <1>1, <1>2, BlkTypeCorrect, PTL DEF BlkSpec

-----------------------------------------------------------------------------
(* A client that believes the engine active will be interrupted: the engine *)
(* is active, about to raise its interrupt, or has raised it.               *)
BeliefHolds ==
    drv.active = 1 /\ drv.pc = "run" /\ running = 1 =>
        active = 1 \/ io.pc = "hi" \/ line = 1

(* A count the client does not know is followed by an interrupt.            *)
CountFollows ==
    drv.count # nRequests /\ drv.pc = "run" /\ running = 1 => io.pc # "pipe" \/ line = 1

ClientInv == BeliefHolds /\ CountFollows

(* Whatever the order of stall, kick, acknowledgement, stop and start.      *)
LEMMA ClientInformed == BlkSpec => []ClientInv
<1>1. BlkInit => ClientInv
  BY DEF BlkInit, ClientInv, BeliefHolds, CountFollows
<1>2. BlkTypeOK /\ EngineToken /\ ClientInv /\ [BlkNext]_blkVars => ClientInv'
  <2> SUFFICES ASSUME BlkTypeOK, EngineToken, ClientInv, [BlkNext]_blkVars PROVE ClientInv'
    OBVIOUS
  <2> USE DEF ClientInv, BeliefHolds, CountFollows
  <2>0. active \in {0, 1} /\ line \in {0, 1} /\ running \in {0, 1}
    BY DEF BlkTypeOK, IoLocals, Client
  <2>1. CASE ReadPipe
    BY <2>1 DEF ReadPipe, BlkTypeOK, IoLocals
  <2>2. CASE Load \/ IoShort \/ IoDone \/ IoError \/ IoIrq \/ Count
    BY <2>0, <2>2 DEF Load, IoShort, IoDone, IoError, IoIrq, Count, BlkTypeOK, IoLocals, Client
  <2>3. CASE Advance
    BY <2>0, <2>3 DEF Advance, Begin, BlkTypeOK, IoLocals, Client
  <2>4. CASE Stall
    BY <2>0, <2>4 DEF Stall, BlkTypeOK, IoLocals, Client
  <2>5. CASE RaiseIrq
    BY <2>5 DEF RaiseIrq, BlkTypeOK, IoLocals, Client
  <2>6. ASSUME NEW k \in Kinds, NEW irq \in BOOLEAN, Submit(k, irq) PROVE ClientInv'
    BY <2>6 DEF Submit, BlkTypeOK, IoLocals, Client
  <2>7. CASE osip_ablk_kick
    BY <2>0, <2>7 DEF osip_ablk_kick, KickEngine, BlkTypeOK, IoLocals, Client
  <2>8. CASE AckTest
    BY <2>8 DEF AckTest, BlkTypeOK, IoLocals, Client
  <2>9. CASE AckReply
    BY <2>9 DEF AckReply, BlkTypeOK, IoLocals, Client
  <2>10. ASSUME NEW reset \in BOOLEAN, osip_ablk_cntrl_stop(reset) PROVE ClientInv'
    BY <2>10 DEF osip_ablk_cntrl_stop, BlkTypeOK, IoLocals, Client
  <2>11. CASE osip_ablk_cntrl_start
    BY <2>11 DEF osip_ablk_cntrl_start, BlkTypeOK, IoLocals, Client
  <2>12. CASE osip_ablk_cntrl_events \/ ablk_post_event \/ UNCHANGED blkVars
    BY <2>0, <2>12 DEF osip_ablk_cntrl_events, ablk_post_event, blkVars
  <2> QED BY <2>1, <2>2, <2>3, <2>4, <2>5, <2>6, <2>7, <2>8, <2>9, <2>10, <2>11, <2>12
             DEF BlkNext, IoStep, Ack
<1> QED BY <1>1, <1>2, BlkTypeCorrect, OneWakeup, PTL DEF BlkSpec

(* "The client only needs to call kick if we return 0 in active": work that *)
(* is left when all is quiet is work of a client that was told so.          *)
THEOREM NothingStranded == BlkSpec => []NoStrandedWork
<1>1. BlkTypeOK /\ EngineToken /\ ClientInv => NoStrandedWork
  BY DEF BlkTypeOK, IoLocals, Client, EngineToken, ClientInv, BeliefHolds, NoStrandedWork, AtRest, Working
<1> QED BY <1>1, BlkTypeCorrect, OneWakeup, ClientInformed, PTL

(* The client of a running channel that is quiet knows the count.           *)
THEOREM CompletionsTold == BlkSpec => []NoUntoldCompletion
<1>1. ClientInv => NoUntoldCompletion
  BY DEF ClientInv, CountFollows, NoUntoldCompletion, AtRest
<1> QED BY <1>1, ClientInformed, PTL

-----------------------------------------------------------------------------
(* The ring.  How far it is from slot a on to slot b, without a remainder.    *)
Dist(a, b) == IF b >= a THEN b - a ELSE b - a + RingSize

(* Descriptors between the head and the driver's tail, and those the head has *)
(* passed: counted, in the vector, or begun.                                  *)
Used == Dist(reqHead, drv.tail)
Handled == nRequests + io.n + (IF io.pc = "count" THEN 1 ELSE 0)

(* A driver that was told so is right in taking the engine for idle, so that  *)
(* a channel is only set up anew while the thread rests, with an empty vector.*)
IdleInv ==
    /\ io.pc \in {"pipe", "hi", "ioirq", "stall"} => io.n = 0
    /\ io.pc = "io" => io.n > 0
    /\ drv.active = 0 /\ drv.pc = "run" => active = 0
    /\ ~drv.up => active = 0 /\ running = 0 /\ drv.active = 0

(* The ring's two ends agree, also in a channel that has met an error, where  *)
(* some descriptors are passed and never counted.                             *)
ShapeInv ==
    drv.up =>
        /\ \A s \in Slots : ring[s].proceed = 1 <=> Dist(reqHead, s) < Used
        /\ \A s \in Slots : ring[s].flags # "free" <=> Dist(reqHead, s) <= Used
        /\ io.pc = "adv" \/ (io.pc \in {"io", "ioirq"} /\ io.proceed = 1) => Used > 0
        /\ Handled + Used <= drv.queued
        /\ running = 1 /\ io.pc # "err" =>
              Handled + Used = drv.queued /\ reqHead = Handled % RingSize

(* The arithmetic of the ring.                                               *)
LEMMA NextIs == \A s \in Slots : NEXT(s) = IF s = RingSize - 1 THEN 0 ELSE s + 1
  BY RingAssumption DEF NEXT, Slots

LEMMA DistIsRemainder == \A a, b \in Slots : (b - a) % RingSize = Dist(a, b)
  BY RingAssumption DEF Slots, Dist

LEMMA Division ==
  ASSUME NEW x \in Nat
  PROVE  (x % RingSize) + RingSize * (x \div RingSize) = x
  BY RingAssumption

LEMMA Remainder == \A q \in Int, c \in Slots : (RingSize * q + c) % RingSize = c
  BY RingAssumption DEF Slots

LEMMA RemainderOfNext ==
  ASSUME NEW x \in Nat
  PROVE  x % RingSize \in Slots /\ (x + 1) % RingSize = NEXT(x % RingSize)
<1> USE RingAssumption
<1> DEFINE q == x \div RingSize
           c == x % RingSize
<1>1. x = RingSize * q + c /\ c \in Slots /\ q \in Int
  BY Division DEF Slots
<1> HIDE DEF q, c
<1>2. CASE c # RingSize - 1
  <2>1. x + 1 = RingSize * q + (c + 1) /\ c + 1 \in Slots
    BY <1>1, <1>2 DEF Slots
  <2>2. (RingSize * q + (c + 1)) % RingSize = c + 1
    BY <1>1, <2>1, Remainder
  <2> QED BY <1>1, <1>2, <2>1, <2>2, NextIs DEF c
<1>3. CASE c = RingSize - 1
  <2>1. x + 1 = RingSize * (q + 1) + 0 /\ 0 \in Slots
    BY <1>1, <1>3 DEF Slots
  <2>2. (RingSize * (q + 1) + 0) % RingSize = 0
    BY <1>1, <2>1, Remainder
  <2> QED BY <1>1, <1>3, <2>1, <2>2, NextIs DEF c
<1> QED BY <1>2, <1>3

LEMMA DistFacts ==
  ASSUME NEW a \in Slots, NEW b \in Slots
  PROVE  /\ Dist(a, b) \in 0 .. RingSize - 1
         /\ Dist(a, a) = 0
         /\ NEXT(a) \in Slots /\ NEXT(b) \in Slots
         /\ Dist(NEXT(a), b) = IF a = b THEN RingSize - 1 ELSE Dist(a, b) - 1
         /\ Dist(a, NEXT(b)) = IF NEXT(b) = a THEN 0 ELSE Dist(a, b) + 1
         /\ \A c \in Slots : Dist(a, b) = Dist(a, c) => b = c
<1> USE RingAssumption
<1>1. NEXT(a) \in Slots /\ NEXT(b) \in Slots
  BY NextInRing
<1> QED BY <1>1, NextIs DEF Slots, Dist

LEMMA IdleIsKnown == BlkSpec => []IdleInv
<1>1. BlkInit => IdleInv
  BY DEF BlkInit, IdleInv
<1>2. BlkTypeOK /\ IdleInv /\ [BlkNext]_blkVars => IdleInv'
  <2> SUFFICES ASSUME BlkTypeOK, IdleInv, [BlkNext]_blkVars PROVE IdleInv'
    OBVIOUS
  <2> USE DEF IdleInv
  <2>0. io \in IoLocals /\ drv \in Client /\ io.n \in Nat
    BY DEF BlkTypeOK, IoLocals
  <2>1. CASE ReadPipe \/ IoShort \/ IoDone \/ IoError \/ Count \/ Stall \/ RaiseIrq
    <3>1. UNCHANGED drv /\ active' \in {0, active} /\ running' \in {0, running}
      BY <2>1 DEF ReadPipe, IoShort, IoDone, IoError, Count, Stall, RaiseIrq
    <3>2. /\ io'.pc \in {"pipe", "hi", "ioirq", "stall"} => io'.n = 0
          /\ io'.pc = "io" => io'.n > 0
      BY <2>0, <2>1 DEF ReadPipe, IoShort, IoDone, IoError, Count, Stall, RaiseIrq, IoLocals
    <3> QED BY <3>1, <3>2
  <2>2. CASE Load
    <3> DEFINE b == ring[reqHead].proceed
               exec == /\ io.n > 0
                       /\ b = 0 \/ io.n = MaxVec \/ ring[NEXT(reqHead)].flags # "sg"
               p == IF exec THEN "io" ELSE IF b = 0 THEN "stall" ELSE "adv"
    <3>1. /\ io' = [io EXCEPT !.proceed = b, !.pc = p] /\ p \in {"io", "stall", "adv"}
          /\ (p = "io" => io.n > 0) /\ (p = "stall" => io.n = 0)
      BY <2>0, <2>2 DEF Load
    <3> HIDE DEF b, exec, p
    <3>2. io'.pc = p /\ io'.n = io.n
      BY <2>0, <3>1 DEF IoLocals
    <3> QED BY <2>2, <3>1, <3>2 DEF Load
  <2>3. CASE IoIrq
    <3>1. PICK p \in {"stall", "adv"} : io' = [io EXCEPT !.pc = p]
      BY <2>3 DEF IoIrq
    <3>2. io'.pc = p /\ io'.n = io.n
      BY <2>0, <3>1 DEF IoLocals
    <3> QED BY <2>3, <3>2 DEF IoIrq
  <2>4. CASE Advance
    <3>1. io'.pc \in {"load", "count", "err"}
      BY <2>0, <2>4 DEF Advance, Begin, IoLocals
    <3> QED BY <2>4, <3>1 DEF Advance
  <2>5. ASSUME NEW k \in Kinds, NEW irq \in BOOLEAN, Submit(k, irq) PROVE IdleInv'
    <3>1. drv'.active = drv.active /\ drv'.pc = drv.pc /\ drv'.up = drv.up
      BY <2>0, <2>5 DEF Submit, Client
    <3> QED BY <2>5, <3>1 DEF Submit
  <2>6. CASE osip_ablk_kick
    <3>1. drv'.active = 1 /\ drv'.up = drv.up /\ drv.up
      BY <2>0, <2>6 DEF osip_ablk_kick, Client
    <3> QED BY <2>6, <3>1 DEF osip_ablk_kick
  <2>7. CASE AckTest
    <3>1. drv'.pc = "ack" /\ drv'.up = drv.up /\ drv'.active = drv.active
      BY <2>0, <2>7 DEF AckTest, Client
    <3>2. ~drv.up => active' = active
      BY <2>7 DEF AckTest, Restartable
    <3> QED BY <2>7, <3>1, <3>2 DEF AckTest
  <2>8. CASE AckReply
    <3>1. drv'.up = drv.up /\ drv'.active = active
      BY <2>0, <2>8 DEF AckReply, Client
    <3> QED BY <2>8, <3>1 DEF AckReply
  <2>9. ASSUME NEW reset \in BOOLEAN, osip_ablk_cntrl_stop(reset) PROVE IdleInv'
    <3>1. drv'.pc = drv.pc /\ drv'.active = drv.active /\ active = 0 /\ drv.active = 0
      BY <2>0, <2>9 DEF osip_ablk_cntrl_stop, MayHalt, Client
    <3> QED BY <2>9, <3>1 DEF osip_ablk_cntrl_stop
  <2>10. CASE osip_ablk_cntrl_start
    <3>1. active = 0 /\ drv'.up /\ drv'.active = 0
      BY <2>0, <2>10 DEF osip_ablk_cntrl_start, Client
    <3> QED BY <2>10, <3>1 DEF osip_ablk_cntrl_start
  <2>11. CASE osip_ablk_cntrl_events \/ ablk_post_event \/ UNCHANGED blkVars
    BY <2>11 DEF osip_ablk_cntrl_events, ablk_post_event, blkVars
  <2> QED BY <2>1, <2>2, <2>3, <2>4, <2>5, <2>6, <2>7, <2>8, <2>9, <2>10, <2>11
             DEF BlkNext, IoStep, Ack
<1> QED BY <1>1, <1>2, BlkTypeCorrect, PTL DEF BlkSpec

(* A step of the thread that leaves the ring as it is.                        *)
LEMMA RingUntouched ==
  ASSUME BlkTypeOK, ShapeInv, UNCHANGED <<ring, reqHead>>,
         drv'.tail = drv.tail, drv'.queued = drv.queued, drv'.up => drv.up,
         drv.up => /\ Handled' \in Nat /\ Handled' <= Handled
                   /\ io'.pc = "adv" \/ (io'.pc \in {"io", "ioirq"} /\ io'.proceed = 1) => Used > 0
                   /\ running' = 1 /\ io'.pc # "err" =>
                        running = 1 /\ io.pc # "err" /\ Handled' = Handled
  PROVE  ShapeInv'
<1>1. Used' = Used /\ Used \in Nat /\ Handled \in Nat /\ drv.queued \in Nat
  <2>1. reqHead \in Slots /\ drv.tail \in Slots /\ drv.queued \in Nat
    BY DEF BlkTypeOK, Client
  <2>2. Used \in Nat
    <3>1. Dist(reqHead, drv.tail) \in 0 .. RingSize - 1
      BY <2>1, DistFacts, Zenon
    <3> QED BY <3>1, RingAssumption DEF Used
  <2>3. Handled \in Nat
    BY VecAssumption DEF BlkTypeOK, IoLocals, Handled
  <2> QED BY <2>1, <2>2, <2>3 DEF Used, Dist
<1>2. ASSUME drv'.up, NEW s \in Slots
      PROVE  /\ ring'[s].proceed = 1 <=> Dist(reqHead', s) < Used'
             /\ ring'[s].flags # "free" <=> Dist(reqHead', s) <= Used'
  BY <1>1, <1>2 DEF ShapeInv, Dist
<1>3. ASSUME drv'.up
      PROVE  /\ Handled' + Used' <= drv'.queued
             /\ running' = 1 /\ io'.pc # "err" =>
                   Handled' + Used' = drv'.queued /\ reqHead' = Handled' % RingSize
  <2>1. Handled + Used <= drv.queued
    BY <1>3 DEF ShapeInv
  <2>2. Handled' \in Nat /\ Handled' <= Handled
    BY <1>3
  <2>3. Handled' + Used' <= drv'.queued
    BY <1>1, <2>1, <2>2
  <2>4. ASSUME running' = 1, io'.pc # "err"
        PROVE  Handled' + Used' = drv'.queued /\ reqHead' = Handled' % RingSize
    <3>1. Handled + Used = drv.queued /\ reqHead = Handled % RingSize /\ Handled' = Handled
      BY <1>3, <2>4 DEF ShapeInv
    <3> QED BY <1>1, <3>1
  <2> QED BY <2>3, <2>4
<1>4. ASSUME drv'.up
      PROVE  io'.pc = "adv" \/ (io'.pc \in {"io", "ioirq"} /\ io'.proceed = 1) => Used' > 0
  BY <1>1, <1>4
<1> QED BY <1>2, <1>3, <1>4 DEF ShapeInv

(* The head moves to the next descriptor, which it begins.                    *)
LEMMA AdvanceShape ==
  ASSUME BlkTypeOK, ShapeInv, Advance
  PROVE  ShapeInv'
<1> USE RingAssumption, VecAssumption
<1>1. /\ ring' = [ring EXCEPT ![reqHead] = [flags |-> "free", irq |-> FALSE, proceed |-> 0]]
      /\ reqHead' = NEXT(reqHead) /\ UNCHANGED <<running, nRequests, drv>> /\ io.pc = "adv"
  BY DEF Advance
<1>2. /\ reqHead \in Slots /\ drv.tail \in Slots /\ drv.queued \in Nat /\ nRequests \in Nat
      /\ io \in IoLocals /\ ring \in [Slots -> Slot] /\ io.n \in Nat
  BY DEF BlkTypeOK, Client, IoLocals
<1> SUFFICES ASSUME drv.up PROVE ShapeInv'
  BY <1>1 DEF ShapeInv
<1>3. Used > 0 /\ Used \in 1 .. RingSize - 1 /\ drv.tail # reqHead
  <2>1. Used > 0
    BY <1>1 DEF ShapeInv
  <2>2. Dist(reqHead, drv.tail) \in 0 .. RingSize - 1 /\ Dist(reqHead, reqHead) = 0
    BY <1>2, DistFacts, Zenon
  <2> QED BY <2>1, <2>2 DEF Used
<1>4. Used' = Used - 1
  <2>1. Used' = Dist(NEXT(reqHead), drv.tail)
    BY <1>1 DEF Used, Dist
  <2> QED BY <1>2, <1>3, <2>1, DistFacts DEF Used
<1>5. ASSUME NEW s \in Slots
      PROVE  /\ ring'[s].proceed = 1 <=> Dist(reqHead', s) < Used'
             /\ ring'[s].flags # "free" <=> Dist(reqHead', s) <= Used'
  <2>1. Dist(reqHead', s) = Dist(NEXT(reqHead), s)
    BY <1>1 DEF Dist
  <2>2. /\ Dist(reqHead, s) \in 0 .. RingSize - 1
        /\ Dist(NEXT(reqHead), s) = IF reqHead = s THEN RingSize - 1 ELSE Dist(reqHead, s) - 1
    BY <1>2, DistFacts
  <2>3. CASE s = reqHead
    <3>1. ring'[s].proceed = 0 /\ ring'[s].flags = "free"
      BY <1>1, <1>2, <2>3
    <3> QED BY <1>3, <1>4, <2>1, <2>2, <2>3, <3>1
  <2>4. CASE s # reqHead
    <3>1. ring'[s] = ring[s]
      BY <1>1, <1>2, <2>4
    <3>2. /\ ring[s].proceed = 1 <=> Dist(reqHead, s) < Used
          /\ ring[s].flags # "free" <=> Dist(reqHead, s) <= Used
      BY DEF ShapeInv
    <3> QED BY <1>3, <1>4, <2>1, <2>2, <2>4, <3>1, <3>2
  <2> QED BY <2>3, <2>4
<1>6. /\ io'.pc \in {"load", "count", "err"}
      /\ Handled' = IF io'.pc = "err" THEN Handled ELSE Handled + 1
  <2>1. Handled = nRequests + io.n
    BY <1>1, <1>2 DEF Handled
  <2>2. CASE io' = [io EXCEPT !.pc = "load", !.n = io.n + 1, !.left = io.left + 1]
    <3>1. io'.pc = "load" /\ io'.n = io.n + 1
      BY <1>2, <2>2 DEF IoLocals
    <3> QED BY <1>1, <1>2, <2>1, <3>1 DEF Handled
  <2>3. ASSUME NEW p \in {"count", "err"}, io' = [io EXCEPT !.pc = p]
        PROVE  /\ io'.pc \in {"load", "count", "err"}
               /\ Handled' = IF io'.pc = "err" THEN Handled ELSE Handled + 1
    <3>1. io'.pc = p /\ io'.n = io.n
      BY <1>2, <2>3 DEF IoLocals
    <3> QED BY <1>1, <1>2, <2>1, <3>1 DEF Handled
  <2> QED BY <2>2, <2>3 DEF Advance, Begin
<1>7. Handled \in Nat /\ Handled + Used <= drv.queued
  BY <1>2 DEF ShapeInv, Handled
<1>8. Handled' + Used' <= drv'.queued
  BY <1>1, <1>2, <1>3, <1>4, <1>6, <1>7
<1>9. ASSUME running' = 1, io'.pc # "err"
      PROVE  Handled' + Used' = drv'.queued /\ reqHead' = Handled' % RingSize
  <2>1. Handled + Used = drv.queued /\ reqHead = Handled % RingSize
    BY <1>1, <1>9 DEF ShapeInv
  <2>2. Handled' = Handled + 1
    BY <1>6, <1>9
  <2>3. (Handled + 1) % RingSize = NEXT(Handled % RingSize)
    BY <1>7, RemainderOfNext
  <2> QED BY <1>1, <1>2, <1>3, <1>4, <1>7, <2>1, <2>2, <2>3
<1> QED BY <1>5, <1>6, <1>8, <1>9 DEF ShapeInv

(* The driver's tail moves to a free slot, which is the next one.             *)
LEMMA SubmitShape ==
  ASSUME BlkTypeOK, ShapeInv, NEW k \in Kinds, NEW irq \in BOOLEAN, Submit(k, irq)
  PROVE  ShapeInv'
<1> USE RingAssumption, VecAssumption
<1> DEFINE t == NEXT(drv.tail)
           filled == [ring EXCEPT ![t] = [flags |-> k, irq |-> irq, proceed |-> 0]]
<1>1. /\ drv.up /\ ring[t].flags = "free" /\ UNCHANGED <<running, reqHead, nRequests, io>>
      /\ ring' = [filled EXCEPT ![drv.tail].proceed = 1]
      /\ drv' = [drv EXCEPT !.tail = t, !.queued = drv.queued + 1]
  BY DEF Submit
<1>2. /\ reqHead \in Slots /\ drv.tail \in Slots /\ drv.queued \in Nat /\ nRequests \in Nat
      /\ ring \in [Slots -> Slot] /\ drv \in Client
  BY DEF BlkTypeOK, Client
<1>3. t \in Slots /\ drv'.tail = t /\ drv'.queued = drv.queued + 1 /\ drv'.up = drv.up
  BY <1>1, <1>2, NextInRing DEF Client
<1>4. Used \in 0 .. RingSize - 1 /\ Dist(reqHead, t) \in 0 .. RingSize - 1
  BY <1>2, <1>3, DistFacts DEF Used
<1>5. Dist(reqHead, t) = Used + 1 /\ t # drv.tail
  <2>1. ~(Dist(reqHead, t) <= Used)
    BY <1>1, <1>3 DEF ShapeInv
  <2>2. Dist(reqHead, t) = IF t = reqHead THEN 0 ELSE Used + 1
    BY <1>2, DistFacts DEF Used
  <2> QED BY <1>4, <2>1, <2>2 DEF Used
<1>6. Used' = Used + 1
  <2>1. Used' = Dist(reqHead, t)
    BY <1>1, <1>3 DEF Used, Dist
  <2> QED BY <1>5, <2>1
<1>7. ASSUME NEW s \in Slots
      PROVE  /\ ring'[s].proceed = 1 <=> Dist(reqHead', s) < Used'
             /\ ring'[s].flags # "free" <=> Dist(reqHead', s) <= Used'
  <2>1. Dist(reqHead', s) = Dist(reqHead, s) /\ Dist(reqHead, s) \in 0 .. RingSize - 1
    BY <1>1, <1>2, DistFacts DEF Dist
  <2>2. filled \in [Slots -> Slot]
    BY <1>2, <1>3 DEF Slot
  <2>3. CASE s = t
    <3>1. ring'[s] = filled[t] /\ filled[t] = [flags |-> k, irq |-> irq, proceed |-> 0]
      BY <1>1, <1>2, <1>3, <1>5, <2>2, <2>3
    <3>2. ring'[s].proceed = 0 /\ ring'[s].flags # "free"
      BY <3>1 DEF Kinds
    <3> QED BY <1>4, <1>5, <1>6, <2>1, <2>3, <3>2
  <2>4. CASE s = drv.tail
    <3>1. filled[s] = ring[s]
      BY <1>2, <1>3, <1>5, <2>4
    <3>2. ring'[s] = [filled[s] EXCEPT !.proceed = 1]
      BY <1>1, <1>2, <2>2, <2>4
    <3>3. ring[s] \in Slot
      BY <1>2
    <3>4. ring'[s].proceed = 1 /\ ring'[s].flags = ring[s].flags
      BY <3>1, <3>2, <3>3 DEF Slot
    <3>5. Dist(reqHead, s) = Used
      BY <2>4 DEF Used
    <3>6. ring[s].flags # "free"
      BY <1>1, <1>4, <3>5 DEF ShapeInv
    <3> QED BY <1>4, <1>6, <2>1, <3>4, <3>5, <3>6
  <2>5. CASE s # t /\ s # drv.tail
    <3>1. ring'[s] = ring[s]
      BY <1>1, <1>2, <1>3, <2>2, <2>5
    <3>2. /\ ring[s].proceed = 1 <=> Dist(reqHead, s) < Used
          /\ ring[s].flags # "free" <=> Dist(reqHead, s) <= Used
      BY <1>1 DEF ShapeInv
    <3>3. Dist(reqHead, s) # Used /\ Dist(reqHead, s) # Dist(reqHead, t)
      BY <1>2, <1>3, <2>5, DistFacts DEF Used
    <3> QED BY <1>4, <1>5, <1>6, <2>1, <3>1, <3>2, <3>3
  <2> QED BY <2>3, <2>4, <2>5
<1>8. Handled' = Handled /\ Handled \in Nat
  BY <1>1 DEF Handled, BlkTypeOK, IoLocals
<1> HIDE DEF t, filled
<1>9. ASSUME running' = 1, io'.pc # "err"
      PROVE  Handled' + Used' = drv'.queued /\ reqHead' = Handled' % RingSize
  BY <1>1, <1>2, <1>3, <1>4, <1>6, <1>8, <1>9 DEF ShapeInv
<1>10. /\ Handled' + Used' <= drv'.queued
       /\ io'.pc = "adv" \/ (io'.pc \in {"io", "ioirq"} /\ io'.proceed = 1) => Used' > 0
  BY <1>1, <1>2, <1>3, <1>4, <1>6, <1>8 DEF ShapeInv
<1> QED BY <1>7, <1>9, <1>10 DEF ShapeInv

LEMMA ShapeKept == BlkSpec => []ShapeInv
<1>1. BlkInit => ShapeInv
  BY DEF BlkInit, ShapeInv
<1>2. BlkTypeOK /\ EngineToken /\ IdleInv /\ ShapeInv /\ [BlkNext]_blkVars => ShapeInv'
  <2> SUFFICES ASSUME BlkTypeOK, EngineToken, IdleInv, ShapeInv, [BlkNext]_blkVars PROVE ShapeInv'
    OBVIOUS
  <2> USE VecAssumption
  <2>0. io \in IoLocals /\ drv \in Client /\ io.n \in Nat /\ nRequests \in Nat /\ Handled \in Nat
    BY DEF BlkTypeOK, IoLocals, Handled
  <2>1. CASE ReadPipe
    <3>1. io.n = 0 /\ io'.pc = "load" /\ io'.n = 0 /\ io.pc = "pipe"
      BY <2>0, <2>1 DEF ReadPipe, IdleInv, IoLocals
    <3>2. Handled' = Handled
      BY <2>1, <3>1 DEF ReadPipe, Handled
    <3> QED BY <2>0, <2>1, <3>1, <3>2, RingUntouched DEF ReadPipe
  <2>2. CASE Load
    <3>1. PICK p \in {"io", "stall", "adv"} :
            /\ io' = [io EXCEPT !.proceed = ring[reqHead].proceed, !.pc = p]
            /\ p = "adv" => ring[reqHead].proceed # 0
      BY <2>2 DEF Load
    <3>2. io'.pc = p /\ io'.n = io.n /\ io'.proceed = ring[reqHead].proceed /\ io.pc = "load"
      BY <2>0, <2>2, <3>1 DEF IoLocals, Load
    <3>3. Handled' = Handled
      BY <2>2, <3>2 DEF Load, Handled
    <3>4. drv.up /\ ring[reqHead].proceed = 1 => Used > 0
      <4>1. reqHead \in Slots /\ drv.tail \in Slots
        BY DEF BlkTypeOK, Client
      <4>2. Dist(reqHead, reqHead) = 0
        BY <4>1, DistFacts
      <4> QED BY <4>1, <4>2 DEF ShapeInv
    <3>5. ring[reqHead].proceed \in {0, 1}
      BY DEF BlkTypeOK, Slot
    <3> QED BY <2>0, <2>2, <3>1, <3>2, <3>3, <3>4, <3>5, RingUntouched DEF Load
  <2>3. CASE IoShort \/ IoError
    <3>1. io'.n = io.n /\ io'.proceed = io.proceed /\ io.pc = "io" /\ io'.pc \in {"io", "err"}
      BY <2>0, <2>3 DEF IoShort, IoError, IoLocals
    <3>2. Handled' = Handled /\ UNCHANGED <<ring, reqHead, running, drv>>
      BY <2>3, <3>1 DEF IoShort, IoError, Handled
    <3>3. drv.up /\ io.proceed = 1 => Used > 0
      BY <3>1 DEF ShapeInv
    <3> QED BY <2>0, <3>1, <3>2, <3>3, RingUntouched
  <2>4. CASE IoDone
    <3>1. io'.n = 0 /\ io'.proceed = io.proceed /\ io.pc = "io" /\ io'.pc = "ioirq"
      BY <2>0, <2>4 DEF IoDone, IoLocals
    <3>2. Handled' = Handled
      BY <2>0, <2>4, <3>1 DEF IoDone, Handled
    <3>3. drv.up /\ io.proceed = 1 => Used > 0
      BY <3>1 DEF ShapeInv
    <3> QED BY <2>0, <2>4, <3>1, <3>2, <3>3, RingUntouched DEF IoDone
  <2>5. CASE IoIrq
    <3>1. /\ io'.n = io.n /\ io.pc = "ioirq" /\ io'.pc \in {"stall", "adv"}
          /\ io'.pc = "adv" => io.proceed = 1
      BY <2>0, <2>5 DEF IoIrq, IoLocals
    <3>2. Handled' = Handled
      BY <2>0, <2>5, <3>1 DEF IoIrq, Handled
    <3>3. drv.up /\ io.proceed = 1 => Used > 0
      BY <3>1 DEF ShapeInv
    <3> QED BY <2>0, <2>5, <3>1, <3>2, <3>3, RingUntouched DEF IoIrq
  <2>6. CASE Advance
    BY <2>6, AdvanceShape
  <2>7. CASE Count
    <3>1. io'.n = io.n /\ io.pc = "count" /\ io'.pc = "load"
      BY <2>0, <2>7 DEF Count, IoLocals
    <3>2. Handled' = Handled
      BY <2>0, <2>7, <3>1 DEF Count, Handled
    <3> QED BY <2>0, <2>7, <3>1, <3>2, RingUntouched DEF Count
  <2>8. CASE Stall
    <3>1. io'.n = 0 /\ io'.pc = "hi" /\ io.pc \in {"stall", "err"}
      BY <2>0, <2>8 DEF Stall, IoLocals
    <3>2. Handled' = nRequests /\ Handled = nRequests + io.n
      BY <2>0, <2>8, <3>1 DEF Stall, Handled
    <3>3. running' = 1 => running = 1 /\ io.pc = "stall"
      BY <2>8, <3>1 DEF Stall
    <3>4. io.pc = "stall" => io.n = 0
      BY DEF IdleInv
    <3> QED BY <2>0, <2>8, <3>1, <3>2, <3>3, <3>4, RingUntouched DEF Stall
  <2>9. CASE RaiseIrq
    <3>1. io'.n = io.n /\ io'.pc = "pipe" /\ io.pc = "hi"
      BY <2>0, <2>9 DEF RaiseIrq, IoLocals
    <3>2. Handled' = Handled
      BY <2>9, <3>1 DEF RaiseIrq, Handled
    <3> QED BY <2>0, <2>9, <3>1, <3>2, RingUntouched DEF RaiseIrq
  <2>10. ASSUME NEW k \in Kinds, NEW irq \in BOOLEAN, Submit(k, irq) PROVE ShapeInv'
    BY <2>10, SubmitShape
  <2>11. CASE osip_ablk_kick \/ AckTest \/ AckReply
    <3>1. drv'.tail = drv.tail /\ drv'.queued = drv.queued /\ drv'.up = drv.up
      BY <2>0, <2>11 DEF osip_ablk_kick, AckTest, AckReply, Client
    <3>2. UNCHANGED <<ring, reqHead, running, nRequests, io>>
      BY <2>11 DEF osip_ablk_kick, AckTest, AckReply
    <3>3. Handled' = Handled
      BY <3>2 DEF Handled
    <3>4. drv.up => (io.pc = "adv" \/ (io.pc \in {"io", "ioirq"} /\ io.proceed = 1) => Used > 0)
      BY DEF ShapeInv
    <3> QED BY <2>0, <3>1, <3>2, <3>3, <3>4, RingUntouched
  <2>12. ASSUME NEW reset \in BOOLEAN, osip_ablk_cntrl_stop(reset) PROVE ShapeInv'
    <3>1. ~drv'.up
      BY <2>0, <2>12 DEF osip_ablk_cntrl_stop, Client
    <3> QED BY <3>1 DEF ShapeInv
  <2>13. CASE osip_ablk_cntrl_start
    <3>1. io.pc \in {"pipe", "hi"} /\ io.n = 0
      BY <2>0, <2>13 DEF osip_ablk_cntrl_start, IdleInv, EngineToken, IoLocals
    <3>2. drv'.tail = 0 /\ drv'.queued = 0 /\ UNCHANGED io /\ reqHead' = 0 /\ nRequests' = 0
      BY <2>0, <2>13 DEF osip_ablk_cntrl_start, Client
    <3>3. Handled' = 0
      BY <3>1, <3>2 DEF Handled
    <3>4. 0 \in Slots /\ 0 = 0 % RingSize
      BY RingAssumption DEF Slots
    <3>5. Used' = 0 /\ \A s \in Slots : Dist(reqHead', s) = s
      BY <3>2, <3>4 DEF Used, Dist, Slots
    <3>6. /\ ring' \in [Slots -> Slot] /\ ring'[0].flags = "ctl" /\ ring'[0].proceed = 0
          /\ \A s \in Slots : s # 0 => ring'[s].flags = "free" /\ ring'[s].proceed = 0
      <4>1. EmptyRing \in [Slots -> Slot] /\ EmptyRing[0] = [flags |-> "free", irq |-> FALSE, proceed |-> 0]
        BY <3>4 DEF EmptyRing, Slot
      <4>2. ring' = [EmptyRing EXCEPT ![0].flags = "ctl"]
        BY <2>13 DEF osip_ablk_cntrl_start
      <4>3. ring'[0] = [EmptyRing[0] EXCEPT !.flags = "ctl"]
        BY <3>4, <4>1, <4>2
      <4>4. \A s \in Slots : s # 0 => ring'[s] = EmptyRing[s]
        BY <4>1, <4>2
      <4>5. ring'[0].flags = "ctl" /\ ring'[0].proceed = 0 /\ ring'[0] \in Slot
        <5>1. EmptyRing[0] \in Slot /\ EmptyRing[0].proceed = 0 /\ "ctl" \in Kinds
          BY <3>4, <4>1 DEF EmptyRing, Kinds
        <5> QED BY <4>3, <5>1 DEF Slot
      <4>6. \A s \in Slots : EmptyRing[s].flags = "free" /\ EmptyRing[s].proceed = 0
        BY DEF EmptyRing
      <4>7. ring' \in [Slots -> Slot]
        BY <3>4, <4>1, <4>2, <4>3, <4>5
      <4> QED BY <4>4, <4>5, <4>6, <4>7
    <3>7. /\ \A s \in Slots : ring'[s].proceed = 1 <=> Dist(reqHead', s) < Used'
          /\ \A s \in Slots : ring'[s].flags # "free" <=> Dist(reqHead', s) <= Used'
      BY <3>5, <3>6 DEF Slots
    <3>8. io'.pc # "adv" /\ io'.pc \notin {"io", "ioirq"}
      BY <3>1, <3>2
    <3>9. Handled' + Used' = drv'.queued /\ Handled' + Used' <= drv'.queued
          /\ reqHead' = Handled' % RingSize
      BY <3>2, <3>3, <3>4, <3>5
    <3>10. io'.pc = "adv" \/ (io'.pc \in {"io", "ioirq"} /\ io'.proceed = 1) => Used' > 0
      BY <3>8
    <3> QED BY <3>7, <3>9, <3>10, Zenon DEF ShapeInv
  <2>14. CASE osip_ablk_cntrl_events \/ ablk_post_event \/ UNCHANGED blkVars
    BY <2>14 DEF osip_ablk_cntrl_events, ablk_post_event, blkVars, ShapeInv, Used, Dist, Handled
  <2> QED BY <2>1, <2>2, <2>3, <2>4, <2>5, <2>6, <2>7, <2>8, <2>9, <2>10, <2>11, <2>12, <2>13, <2>14
             DEF BlkNext, IoStep, Ack
<1> QED BY <1>1, <1>2, BlkTypeCorrect, OneWakeup, IdleIsKnown, PTL DEF BlkSpec

(* Each descriptor of a running channel is counted once (HeadCount): buffers  *)
(* when their transfer ends, requests when they are begun.                    *)
THEOREM EachCountedOnce == BlkSpec => []HeadCount
<1>1. IdleInv /\ ShapeInv => HeadCount
  BY DEF IdleInv, ShapeInv, HeadCount, Handled
<1> QED BY <1>1, IdleIsKnown, ShapeKept, PTL

(* The two ends of the ring agree in a running channel (RingShape), although  *)
(* the driver fills it while the thread walks it.                             *)
THEOREM RingEndsAgree == BlkSpec => []RingShape
<1>1. BlkTypeOK /\ ShapeInv => RingShape
  <2> SUFFICES ASSUME BlkTypeOK, ShapeInv, drv.up, NEW s \in Slots
               PROVE  /\ ring[s].proceed = 1 <=> (s - reqHead) % RingSize < (drv.tail - reqHead) % RingSize
                      /\ ring[s].flags # "free" <=> (s - reqHead) % RingSize <= (drv.tail - reqHead) % RingSize
    BY DEF RingShape
  <2>1. reqHead \in Slots /\ drv.tail \in Slots
    BY DEF BlkTypeOK, Client
  <2>2. (s - reqHead) % RingSize = Dist(reqHead, s) /\ (drv.tail - reqHead) % RingSize = Used
    BY <2>1, DistIsRemainder DEF Used
  <2> QED BY <2>2 DEF ShapeInv
<1> QED BY <1>1, BlkTypeCorrect, ShapeKept, PTL

-----------------------------------------------------------------------------
(* The channel implements the abstract one, but for liveness: each step of    *)
(* the ring, thread, pipe and driver is a step of what was queued, is done,   *)
(* was told and whether the channel is up, or changes none of them.           *)
ChannelSteps == Channel!Init /\ [][Channel!Next]_Channel!vars

(* What was queued bounds what is done, also after an error: the reason why   *)
(* a completion is a completion of the abstract channel.                      *)
LEMMA CompletionStep ==
  ASSUME BlkTypeOK, EngineToken, IdleInv, ShapeInv, IoDone \/ Count
  PROVE  Channel!Complete
<1>1. /\ io \in IoLocals /\ io.n \in Nat /\ nRequests \in Nat /\ drv.queued \in Nat /\ Used \in Nat
  <2>1. reqHead \in Slots /\ drv.tail \in Slots
    BY DEF BlkTypeOK, Client
  <2>2. Dist(reqHead, drv.tail) \in 0 .. RingSize - 1
    BY <2>1, DistFacts, Zenon
  <2>3. Used \in Nat
    BY <2>2, RingAssumption DEF Used
  <2> QED BY <2>3 DEF BlkTypeOK, IoLocals, Client
<1>2. UNCHANGED <<running, drv>>
  BY DEF IoDone, Count
<1>3. active = 1
  BY DEF IoDone, Count, EngineToken, Working
<1>4. drv.up
  BY <1>3 DEF IdleInv
<1>5. Handled + Used <= drv.queued
  BY <1>4 DEF ShapeInv
<1>6. nRequests' \in nRequests + 1 .. drv.queued
  <2>1. CASE IoDone
    <3>1. nRequests' = nRequests + io.n /\ io.n > 0 /\ Handled = nRequests + io.n
      BY <1>1, <2>1 DEF IoDone, IdleInv, Handled
    <3> QED BY <1>1, <1>5, <3>1
  <2>2. CASE Count
    <3>1. nRequests' = nRequests + 1 /\ Handled = nRequests + io.n + 1
      BY <1>1, <2>2 DEF Count, Handled
    <3> QED BY <1>1, <1>5, <3>1
  <2> QED BY <2>1, <2>2
<1> QED BY <1>2, <1>6 DEF Channel!Complete

THEOREM ImplementsChannelSteps == BlkSpec => ChannelSteps
<1>1. BlkInit => Channel!Init
  BY DEF BlkInit, Channel!Init
<1>2. BlkTypeOK /\ EngineToken /\ IdleInv /\ ShapeInv /\ [BlkNext]_blkVars => [Channel!Next]_Channel!vars
  <2> SUFFICES ASSUME BlkTypeOK, EngineToken, IdleInv, ShapeInv, [BlkNext]_blkVars
               PROVE  [Channel!Next]_Channel!vars
    OBVIOUS
  <2>0. drv \in Client
    BY DEF BlkTypeOK
  <2>1. CASE IoDone \/ Count
    BY <2>1, CompletionStep DEF Channel!Next
  <2>2. CASE \/ ReadPipe \/ Load \/ IoShort \/ IoError \/ IoIrq \/ Advance \/ RaiseIrq
             \/ osip_ablk_cntrl_events \/ ablk_post_event \/ UNCHANGED blkVars
    <3>1. UNCHANGED <<running, drv, nRequests>>
      BY <2>2 DEF ReadPipe, Load, IoShort, IoError, IoIrq, Advance, RaiseIrq, osip_ablk_cntrl_events,
                  ablk_post_event, blkVars
    <3> QED BY <3>1 DEF Channel!vars
  <2>3. CASE Stall
    <3>1. UNCHANGED <<drv, nRequests>> /\ (running' = 0 \/ UNCHANGED running)
      BY <2>3 DEF Stall
    <3> QED BY <3>1 DEF Channel!vars, Channel!Next, Channel!Halt
  <2>4. ASSUME NEW k \in Kinds, NEW irq \in BOOLEAN, Submit(k, irq) PROVE Channel!Next
    <3>1. drv'.queued = drv.queued + 1 /\ drv'.count = drv.count /\ UNCHANGED <<running, nRequests>>
      BY <2>0, <2>4 DEF Submit, Client
    <3> QED BY <3>1 DEF Channel!Next, Channel!Submit
  <2>5. CASE osip_ablk_kick \/ AckTest
    <3>1. drv'.queued = drv.queued /\ drv'.count = drv.count /\ UNCHANGED <<running, nRequests>>
      BY <2>0, <2>5 DEF osip_ablk_kick, AckTest, Client
    <3> QED BY <3>1 DEF Channel!vars
  <2>6. CASE AckReply
    <3>1. drv'.queued = drv.queued /\ drv'.count = nRequests /\ UNCHANGED <<running, nRequests>>
      BY <2>0, <2>6 DEF AckReply, Client
    <3> QED BY <3>1 DEF Channel!Next, Channel!Report
  <2>7. ASSUME NEW reset \in BOOLEAN, osip_ablk_cntrl_stop(reset) PROVE Channel!Next
    <3>1. /\ drv'.queued = drv.queued /\ drv'.count = drv.count /\ running' = 0
          /\ nRequests' \in {0, nRequests}
      BY <2>0, <2>7 DEF osip_ablk_cntrl_stop, Client
    <3> QED BY <3>1 DEF Channel!Next, Channel!Halt
  <2>8. CASE osip_ablk_cntrl_start
    <3>1. /\ drv'.queued = 0 /\ drv'.count = 0 /\ running = 0 /\ running' = 1 /\ nRequests' = 0
      BY <2>0, <2>8 DEF osip_ablk_cntrl_start, Client
    <3> QED BY <3>1 DEF Channel!Next, Channel!Start
  <2> QED BY <2>1, <2>2, <2>3, <2>4, <2>5, <2>6, <2>7, <2>8 DEF BlkNext, IoStep, Ack
<1> QED BY <1>1, <1>2, BlkTypeCorrect, OneWakeup, IdleIsKnown, ShapeKept, PTL DEF BlkSpec, ChannelSteps

(* All together: the channel neither loses nor repeats a wakeup, a descriptor  *)
(* or the news of its completion (ChannelSafe).                                *)
THEOREM ChannelCorrect == BlkSpec => []ChannelSafe
BY BlkTypeCorrect, OneWakeup, EachCountedOnce, RingEndsAgree, NothingStranded, CompletionsTold, PTL
   DEF ChannelSafe

-----------------------------------------------------------------------------
(* The copy-on-write image (module Qcow).                                    *)

(* Every nonempty set of naturals has a least element.  The library's        *)
(* theorem takes a predicate as a parameter, which no prover here can        *)
(* instantiate; the well-foundedness of < gives it as well.                  *)
LEMMA LeastNatural ==
  ASSUME NEW T, T \subseteq Nat, T # {}
  PROVE  \E x \in T : \A y \in T : x <= y
<1> DEFINE R == OpToRel(<, Nat)
<1>1. IsWellFoundedOn(R, Nat)
  BY NatLessThanWellFounded
<1>2. \A x, y \in Nat : x < y => <<x, y>> \in R
  BY DEF OpToRel
<1> HIDE DEF R
<1>3. PICK x \in T : \A y \in T : ~(<<y, x>> \in R)
  BY <1>1, WFMin
<1>4. ASSUME NEW y \in T PROVE x <= y
  <2>1. x \in Nat /\ y \in Nat /\ ~(<<y, x>> \in R)
    BY <1>3
  <2> QED BY <2>1, <1>2
<1> QED BY <1>4

(* Indices and contents of the tables, the slots of the cache.                *)
FirstLevel == 0 .. L1Size - 1
SecondLevel == 0 .. L2Size - 1
CacheSlots == 1 .. CacheSize
L2Table == [SecondLevel -> [off : Units, compressed : BOOLEAN]]
ClusterData == [Sectors -> Values \cup {0}]

(* The entry of the cluster <<i, j>> in the file, and what the cluster holds. *)
Ref(s, i, j) == IF s.dl1[i] = 0 THEN NoRef ELSE s.tab[s.dl1[i]][j]
Content(s, i, j) == IF Ref(s, i, j).off = 0 THEN Zeros ELSE s.data[Ref(s, i, j).off]

(* Where things lie in the file: tables and clusters that are referred to are *)
(* distinct, and lie before its end.                                          *)
Placed(s) ==
    /\ \A i, k \in FirstLevel : i # k /\ s.dl1[i] # 0 => s.dl1[i] # s.dl1[k]
    /\ \A i, k \in FirstLevel, j, l \in SecondLevel :
          (i # k \/ j # l) /\ Ref(s, i, j).off # 0 => Ref(s, i, j).off # Ref(s, k, l).off
    /\ \A i, k \in FirstLevel, j \in SecondLevel : Ref(s, i, j).off # 0 => Ref(s, i, j).off # s.dl1[k]
    /\ \A i \in FirstLevel : s.dl1[i] < s.eof
    /\ \A i \in FirstLevel, j \in SecondLevel : Ref(s, i, j).off < s.eof
    /\ \A i \in FirstLevel, j \in SecondLevel : Ref(s, i, j).compressed => Ref(s, i, j).off # 0

(* What the caches hold: tables that are in use, as they are in the file, each *)
(* in one slot, and counts below the limit at which they are halved.          *)
Cached(s) ==
    /\ s.l1 = s.dl1
    /\ \A k \in CacheSlots : s.cache[k].off # 0 =>
          /\ s.cache[k].tab = s.tab[s.cache[k].off]
          /\ \E i \in FirstLevel : s.cache[k].off = s.dl1[i]
    /\ \A k, m \in CacheSlots : s.cache[k].off # 0 /\ s.cache[k].off = s.cache[m].off => k = m
    /\ \A k \in CacheSlots : s.cache[k].count < CountMax
    /\ s.cc.off # 0 => s.cc.data = s.data[s.cc.off]
    /\ s.cc.off < s.eof

(* The inductive invariant of an image: what the placement says of the file    *)
(* and what the caches hold, together.                                        *)
Sound(s) == s \in Image /\ s.eof > 0 /\ Placed(s) /\ Cached(s)

(* The sizes.                                                                *)
LEMMA QSizes ==
    /\ L1Size \in Nat /\ L1Size > 0 /\ L2Size \in Nat /\ L2Size > 0
    /\ CacheSize \in Nat /\ CacheSize > 0 /\ ClusterSectors \in Nat /\ ClusterSectors > 0
    /\ CountMax \in Nat /\ CountMax > 1 /\ MaxUnits \in Nat /\ MaxUnits > 2
  BY QcowAssumption

(* The constants of the model have their types.                              *)
LEMMA QConsts ==
    /\ NoRef \in [off : Units, compressed : BOOLEAN]
    /\ NoRef.off = 0 /\ NoRef.compressed = FALSE
    /\ ZeroTable \in L2Table /\ \A j \in SecondLevel : ZeroTable[j] = NoRef
    /\ Zeros \in ClusterData /\ Units \subseteq Nat /\ CacheSlots \subseteq Nat
  BY QSizes DEF NoRef, ZeroTable, Zeros, L2Table, ClusterData, Units, SecondLevel, CacheSlots

(* The type of an image, field by field.                                     *)
LEMMA ImageFields ==
  ASSUME NEW s
  PROVE  s \in Image <=> 
    /\ s = [dl1 |-> s.dl1, tab |-> s.tab, data |-> s.data, eof |-> s.eof, l1 |-> s.l1,
            cache |-> s.cache, cc |-> s.cc]
    /\ s.dl1 \in [FirstLevel -> Units] /\ s.tab \in [Units -> L2Table] /\ s.data \in [Units -> ClusterData]
    /\ s.eof \in Nat /\ s.l1 \in [FirstLevel -> Units]
    /\ s.cache \in [CacheSlots -> [off : Units, count : 0 .. CountMax, tab : L2Table]]
    /\ s.cc \in [off : Units, data : ClusterData]
  BY DEF Image, FirstLevel, SecondLevel, CacheSlots, L2Table, ClusterData

(* The smallest of one number.                                               *)
LEMMA MinSingle == ASSUME NEW k \in Int PROVE Min({k}) = k
  BY DEF Min

(* A least used slot exists.                                                 *)
LEMMA LeastUsed ==
  ASSUME NEW s, s \in Image
  PROVE  Min({j \in 1 .. CacheSize :
                \A k \in 1 .. CacheSize : s.cache[k].count >= s.cache[j].count}) \in CacheSlots
<1> DEFINE C == {s.cache[k].count : k \in CacheSlots}
           M == {j \in 1 .. CacheSize :
                \A k \in 1 .. CacheSize : s.cache[k].count >= s.cache[j].count}
<1>0. \A k \in CacheSlots : s.cache[k].count \in Nat
  BY ImageFields, QSizes
<1>1. C \subseteq Nat /\ C # {}
  <2>1. 1 \in CacheSlots
    BY QSizes DEF CacheSlots
  <2> QED BY <1>0, <2>1
<1> HIDE DEF C
<1>2. PICK c \in C : \A d \in C : c <= d
  BY <1>1, LeastNatural
<1>3. PICK j \in CacheSlots : s.cache[j].count = c
  BY <1>2 DEF C
<1>4. j \in M
  <2> SUFFICES ASSUME NEW k \in 1 .. CacheSize PROVE s.cache[k].count >= s.cache[j].count
    BY <1>3 DEF CacheSlots
  <2>1. s.cache[k].count \in C
    BY DEF C, CacheSlots
  <2>2. k \in CacheSlots
    BY DEF CacheSlots
  <2> QED BY <1>0, <1>2, <1>3, <2>1, <2>2
<1>5. M \subseteq Nat /\ M \subseteq CacheSlots
  BY QSizes DEF CacheSlots
<1> HIDE DEF M
<1>6. Min(M) \in M
  BY <1>4, <1>5, LeastNatural DEF Min
<1>7. Min(M) \in CacheSlots
  BY <1>5, <1>6
<1> QED BY <1>7 DEF M

(* Counting a hit changes only counts, and keeps them below the limit.       *)
LEMMA HitFields ==
  ASSUME NEW s, s \in Image, NEW i \in CacheSlots,
         \A k \in CacheSlots : s.cache[k].count < CountMax
  PROVE  /\ Hit(s, i) \in Image
         /\ Hit(s, i).dl1 = s.dl1 /\ Hit(s, i).tab = s.tab /\ Hit(s, i).data = s.data
         /\ Hit(s, i).eof = s.eof /\ Hit(s, i).l1 = s.l1 /\ Hit(s, i).cc = s.cc
         /\ \A k \in CacheSlots : /\ Hit(s, i).cache[k].off = s.cache[k].off
                                  /\ Hit(s, i).cache[k].tab = s.cache[k].tab
                                  /\ Hit(s, i).cache[k].count < CountMax
<1> DEFINE CacheEntry == [off : Units, count : 0 .. CountMax, tab : L2Table]
           halved == Halved(s.cache, i)
           bumped == [s.cache EXCEPT ![i].count = @ + 1]
           Good(h) == /\ h \in [CacheSlots -> CacheEntry]
                      /\ \A k \in CacheSlots : /\ h[k].off = s.cache[k].off
                                               /\ h[k].tab = s.cache[k].tab
                                               /\ h[k].count < CountMax
<1>0. /\ s.cache \in [CacheSlots -> CacheEntry]
      /\ \A j \in CacheSlots : s.cache[j] \in CacheEntry /\ s.cache[j].count \in 0 .. CountMax - 1
  BY ImageFields, QSizes
<1>1. ASSUME NEW h, Good(h), Hit(s, i) = [s EXCEPT !.cache = h]
      PROVE  /\ Hit(s, i) \in Image
             /\ Hit(s, i).dl1 = s.dl1 /\ Hit(s, i).tab = s.tab /\ Hit(s, i).data = s.data
             /\ Hit(s, i).eof = s.eof /\ Hit(s, i).l1 = s.l1 /\ Hit(s, i).cc = s.cc
             /\ Hit(s, i).cache = h
  <2> HIDE DEF CacheEntry
  <2>1. [s EXCEPT !.cache = h] \in Image
    BY <1>1 DEF Image, CacheEntry, CacheSlots, L2Table, SecondLevel
  <2> QED BY <1>1, <2>1 DEF Image
<1>2. CASE s.cache[i].count + 1 = CountMax
  <2>1. Hit(s, i) = [s EXCEPT !.cache = halved]
    BY <1>2 DEF Hit
  <2>2. ASSUME NEW j \in CacheSlots
        PROVE  /\ halved[j].off = s.cache[j].off /\ halved[j].tab = s.cache[j].tab
               /\ halved[j].count < CountMax /\ halved[j] \in CacheEntry
    <3> DEFINE q == (IF j = i THEN CountMax ELSE s.cache[j].count) \div 2
    <3>1. halved[j] = [s.cache[j] EXCEPT !.count = q]
      BY DEF CacheSlots, Halved
    <3>2. q \in 0 .. CountMax /\ q < CountMax
      BY <1>0, QSizes
    <3> HIDE DEF q, halved
    <3> QED BY <1>0, <3>1, <3>2
  <2>3. Good(halved)
    <3>1. halved = [j \in CacheSlots |-> halved[j]]
      BY DEF CacheSlots, Halved
    <3> QED BY <2>2, <3>1
  <2> HIDE DEF halved
  <2> QED BY <1>1, <2>1, <2>3
<1>3. CASE s.cache[i].count + 1 # CountMax
  <2>1. Hit(s, i) = [s EXCEPT !.cache = bumped]
    BY <1>3 DEF Hit
  <2>2. s.cache[i].count + 1 \in 0 .. CountMax /\ s.cache[i].count + 1 < CountMax
    BY <1>0, <1>3, QSizes
  <2>3. Good(bumped)
    BY <1>0, <2>2
  <2> HIDE DEF bumped
  <2> QED BY <1>1, <2>1, <2>3
<1> QED BY <1>2, <1>3

(* Taking a slot changes one slot of the cache.                              *)
LEMMA ReplaceFields ==
  ASSUME NEW s, s \in Image, NEW o \in Units, NEW t \in L2Table
  PROVE  /\ Replace(s, o, t) \in Image
         /\ Replace(s, o, t).dl1 = s.dl1 /\ Replace(s, o, t).tab = s.tab
         /\ Replace(s, o, t).data = s.data /\ Replace(s, o, t).eof = s.eof
         /\ Replace(s, o, t).l1 = s.l1 /\ Replace(s, o, t).cc = s.cc
         /\ \E i \in CacheSlots :
               Replace(s, o, t).cache = [s.cache EXCEPT ![i] = [off |-> o, count |-> 1, tab |-> t]]
<1> DEFINE i == Min({j \in 1 .. CacheSize :
                \A k \in 1 .. CacheSize : s.cache[k].count >= s.cache[j].count})
           slot == [off |-> o, count |-> 1, tab |-> t]
           cache == [s.cache EXCEPT ![i] = slot]
<1>1. i \in CacheSlots
  BY LeastUsed
<1>2. Replace(s, o, t) = [s EXCEPT !.cache = cache]
  BY DEF Replace
<1>3. slot \in [off : Units, count : 0 .. CountMax, tab : L2Table]
  BY QSizes
<1> HIDE DEF i, slot
<1>4. cache \in [CacheSlots -> [off : Units, count : 0 .. CountMax, tab : L2Table]]
  BY <1>1, <1>3, ImageFields
<1>5. \E k \in CacheSlots : cache = [s.cache EXCEPT ![k] = slot]
  BY <1>1
<1> HIDE DEF cache
<1>6. [s EXCEPT !.cache = cache] \in Image
  BY <1>4 DEF Image, CacheSlots, L2Table, SecondLevel
<1>7. /\ Replace(s, o, t).dl1 = s.dl1 /\ Replace(s, o, t).tab = s.tab
      /\ Replace(s, o, t).data = s.data /\ Replace(s, o, t).eof = s.eof
      /\ Replace(s, o, t).l1 = s.l1 /\ Replace(s, o, t).cc = s.cc
      /\ Replace(s, o, t).cache = cache
  BY <1>2 DEF Image
<1> QED BY <1>2, <1>5, <1>6, <1>7 DEF slot

(* The placement is a matter of the tables and the end of the file.          *)
LEMMA PlacedSame ==
  ASSUME NEW s, NEW r, Placed(s), r.dl1 = s.dl1, r.tab = s.tab, r.eof = s.eof
  PROVE  Placed(r) /\ \A i \in FirstLevel, j \in SecondLevel : Ref(r, i, j) = Ref(s, i, j)
BY DEF Placed, Ref

(* What an entry and a cluster are.                                          *)
LEMMA RefType ==
  ASSUME NEW s, s \in Image, NEW i \in FirstLevel, NEW j \in SecondLevel
  PROVE  /\ Ref(s, i, j) \in [off : Units, compressed : BOOLEAN]
         /\ Ref(s, i, j).off \in Units /\ Ref(s, i, j).compressed \in BOOLEAN
         /\ s.dl1[i] \in Units
<1>1. s.dl1[i] \in Units /\ s.tab[s.dl1[i]] \in L2Table
  BY ImageFields
<1>2. s.tab[s.dl1[i]][j] \in [off : Units, compressed : BOOLEAN]
  BY <1>1 DEF L2Table
<1>3. Ref(s, i, j) \in [off : Units, compressed : BOOLEAN]
  BY <1>2, QConsts DEF Ref
<1> QED BY <1>1, <1>3

(* A slot that holds a table is the only one.                                *)
LEMMA OneSlot ==
  ASSUME NEW s, Sound(s), NEW o \in Units, o # 0, SlotOf(s, o) # {}
  PROVE  /\ Min(SlotOf(s, o)) \in CacheSlots
         /\ s.cache[Min(SlotOf(s, o))].off = o
         /\ s.cache[Min(SlotOf(s, o))].tab = s.tab[o]
<1>1. PICK k \in CacheSlots : s.cache[k].off = o
  BY DEF SlotOf, CacheSlots
<1>2. SlotOf(s, o) = {k}
  BY <1>1 DEF Sound, Cached, SlotOf, CacheSlots
<1>3. Min(SlotOf(s, o)) = k
  BY <1>2, MinSingle DEF CacheSlots
<1> QED BY <1>1, <1>3 DEF Sound, Cached

(* No slot holds what lies behind the end of the file.                       *)
LEMMA NoSlotBehind ==
  ASSUME NEW s, Sound(s)
  PROVE  SlotOf(s, s.eof) = {}
<1> SUFFICES ASSUME NEW k \in CacheSlots, s.cache[k].off = s.eof PROVE FALSE
  BY DEF SlotOf, CacheSlots
<1>1. s.cache[k].off # 0
  BY DEF Sound
<1>2. PICK i \in FirstLevel : s.cache[k].off = s.dl1[i]
  BY <1>1 DEF Sound, Cached
<1>3. s.dl1[i] < s.eof /\ s.dl1[i] \in Nat
  BY RefType, ImageFields, QConsts DEF Sound, Placed
<1> QED BY <1>2, <1>3

(* A hit in the cache keeps an image sound and changes no reference.          *)
LEMMA HitSound ==
  ASSUME NEW s, Sound(s), NEW i \in CacheSlots
  PROVE  /\ Sound(Hit(s, i)) /\ Hit(s, i).data = s.data /\ Hit(s, i).eof = s.eof
         /\ \A m \in FirstLevel, j \in SecondLevel : Ref(Hit(s, i), m, j) = Ref(s, m, j)
         /\ Hit(s, i).dl1 = s.dl1
         /\ \A o : SlotOf(Hit(s, i), o) = SlotOf(s, o)
<1> DEFINE r == Hit(s, i)
<1>1. /\ r \in Image
      /\ r.dl1 = s.dl1 /\ r.tab = s.tab /\ r.data = s.data
      /\ r.eof = s.eof /\ r.l1 = s.l1 /\ r.cc = s.cc
      /\ \A k \in CacheSlots : /\ r.cache[k].off = s.cache[k].off
                               /\ r.cache[k].tab = s.cache[k].tab
                               /\ r.cache[k].count < CountMax
  BY HitFields DEF Sound, Cached
<1> HIDE DEF r
<1>2. Placed(r) /\ \A m \in FirstLevel, j \in SecondLevel : Ref(r, m, j) = Ref(s, m, j)
  BY <1>1, PlacedSame DEF Sound
<1>3. Cached(r)
  BY <1>1 DEF Sound, Cached
<1>4. \A o : SlotOf(r, o) = SlotOf(s, o)
  BY <1>1 DEF SlotOf, CacheSlots
<1> QED BY <1>1, <1>2, <1>3, <1>4 DEF r, Sound

(* So does loading a table that is in no slot.                               *)
LEMMA ReplaceSound ==
  ASSUME NEW s, Sound(s), NEW i \in FirstLevel, s.dl1[i] # 0, SlotOf(s, s.dl1[i]) = {},
         NEW t, t = s.tab[s.dl1[i]]
  PROVE  /\ Sound(Replace(s, s.dl1[i], t))
         /\ Replace(s, s.dl1[i], t).data = s.data /\ Replace(s, s.dl1[i], t).eof = s.eof
         /\ \A m \in FirstLevel, j \in SecondLevel :
               Ref(Replace(s, s.dl1[i], t), m, j) = Ref(s, m, j)
         /\ Replace(s, s.dl1[i], t).dl1 = s.dl1
         /\ SlotOf(Replace(s, s.dl1[i], t), s.dl1[i]) # {}
<1> DEFINE o == s.dl1[i]
           r == Replace(s, o, t)
<1>0. o \in Units /\ t \in L2Table
  BY ImageFields DEF Sound
<1>1. /\ r \in Image
      /\ r.dl1 = s.dl1 /\ r.tab = s.tab /\ r.data = s.data
      /\ r.eof = s.eof /\ r.l1 = s.l1 /\ r.cc = s.cc
      /\ \E k \in CacheSlots :
            r.cache = [s.cache EXCEPT ![k] = [off |-> o, count |-> 1, tab |-> t]]
  BY <1>0, ReplaceFields DEF Sound
<1> HIDE DEF r
<1>2. PICK k \in CacheSlots :
         r.cache = [s.cache EXCEPT ![k] = [off |-> o, count |-> 1, tab |-> t]]
  BY <1>1
<1>3. /\ r.cache[k].off = o /\ r.cache[k].count = 1 /\ r.cache[k].tab = t
      /\ \A m \in CacheSlots : m # k => r.cache[m] = s.cache[m]
  BY <1>2, ImageFields DEF Sound
<1>4. Placed(r) /\ \A m \in FirstLevel, j \in SecondLevel : Ref(r, m, j) = Ref(s, m, j)
  BY <1>1, PlacedSame DEF Sound
<1>5. \A m \in CacheSlots : s.cache[m].off # o
  BY DEF SlotOf, CacheSlots
<1>6. Cached(r)
  <2>1. r.l1 = r.dl1 /\ r.cc.off < r.eof /\ (r.cc.off # 0 => r.cc.data = r.data[r.cc.off])
    BY <1>1 DEF Sound, Cached
  <2>2. \A m \in CacheSlots : r.cache[m].count < CountMax
    BY <1>3, QSizes DEF Sound, Cached
  <2>3. \A m \in CacheSlots : r.cache[m].off # 0 =>
          /\ r.cache[m].tab = r.tab[r.cache[m].off]
          /\ \E n \in FirstLevel : r.cache[m].off = r.dl1[n]
    BY <1>1, <1>3 DEF Sound, Cached
  <2>4. \A m, n \in CacheSlots : r.cache[m].off # 0 /\ r.cache[m].off = r.cache[n].off => m = n
    BY <1>3, <1>5 DEF Sound, Cached
  <2> QED BY <2>1, <2>2, <2>3, <2>4 DEF Cached
<1>7. SlotOf(r, o) # {}
  BY <1>3 DEF SlotOf, CacheSlots
<1> QED BY <1>1, <1>4, <1>6, <1>7 DEF r, Sound

(* A new table at the end of the file.                                       *)
NewTable(s, i) ==
    LET s2 == [[s EXCEPT !.l1[i] = s.eof] EXCEPT !.dl1[i] = s.eof]
    IN [s2 EXCEPT !.eof = s.eof + 1, !.tab[s.eof] = ZeroTable]

(* The new table refers to nothing, so that no cluster changes.              *)
LEMMA NewTableSound ==
  ASSUME NEW s, Sound(s), NEW i \in FirstLevel, s.dl1[i] = 0, s.eof < MaxUnits
  PROVE  /\ Sound(NewTable(s, i)) /\ NewTable(s, i).data = s.data
         /\ NewTable(s, i).eof = s.eof + 1
         /\ \A m \in FirstLevel, j \in SecondLevel : Ref(NewTable(s, i), m, j) = Ref(s, m, j)
         /\ NewTable(s, i).dl1[i] = s.eof /\ NewTable(s, i).tab[s.eof] = ZeroTable
         /\ SlotOf(NewTable(s, i), s.eof) = {}
<1> DEFINE r == NewTable(s, i)
           newdl == [s.dl1 EXCEPT ![i] = s.eof]
           newtab == [s.tab EXCEPT ![s.eof] = ZeroTable]
<1>0. /\ s.eof \in Units /\ s.l1 = s.dl1 /\ s.dl1 \in [FirstLevel -> Units]
      /\ s.tab \in [Units -> L2Table] /\ s.eof \in Nat /\ s.eof > 0
  BY ImageFields, QSizes DEF Sound, Cached, Units
<1>1. /\ newdl \in [FirstLevel -> Units] /\ newtab \in [Units -> L2Table]
      /\ newdl[i] = s.eof /\ \A m \in FirstLevel : m # i => newdl[m] = s.dl1[m]
      /\ newtab[s.eof] = ZeroTable /\ \A u \in Units : u # s.eof => newtab[u] = s.tab[u]
  BY <1>0, QConsts
<1>2. /\ r.dl1 = newdl /\ r.tab = newtab /\ r.data = s.data /\ r.eof = s.eof + 1
      /\ r.l1 = newdl /\ r.cache = s.cache /\ r.cc = s.cc
  BY <1>0 DEF NewTable, Sound, Image
<1>3. r \in Image
  <2> DEFINE a == [s EXCEPT !.l1 = newdl]
             b == [a EXCEPT !.dl1 = newdl]
             c == [b EXCEPT !.eof = s.eof + 1]
             d == [c EXCEPT !.tab = newtab]
  <2>1. r = d
    BY <1>0 DEF NewTable, Sound, Image
  <2> HIDE DEF r, newdl, newtab, a, b, c, d
  <2> USE DEF Image, FirstLevel, SecondLevel, L2Table
  <2>2. a \in Image
    BY <1>1 DEF a, Sound
  <2>3. b \in Image
    BY <1>1, <2>2 DEF b
  <2>4. c \in Image
    <3> DEFINE e == s.eof + 1
    <3>1. e \in Nat
      BY <1>0
    <3> HIDE DEF e
    <3>2. [b EXCEPT !.eof = e] \in Image
      BY <2>3, <3>1
    <3> QED BY <3>2 DEF c, e
  <2>5. d \in Image
    BY <1>1, <2>4 DEF d
  <2> QED BY <2>1, <2>5
<1> HIDE DEF r, newdl, newtab
<1>4. \A m \in FirstLevel : s.dl1[m] \in Nat /\ s.dl1[m] \in Units /\ s.dl1[m] < s.eof
  BY <1>0, QConsts DEF Sound, Placed
<1>5. ASSUME NEW m \in FirstLevel, NEW j \in SecondLevel
      PROVE  Ref(r, m, j) = Ref(s, m, j)
  <2>1. CASE m = i
    BY <1>0, <1>1, <1>2, <2>1, QConsts DEF Ref
  <2>2. CASE m # i
    BY <1>1, <1>2, <1>4, <2>2 DEF Ref
  <2> QED BY <2>1, <2>2
<1>6. Placed(r)
  <2>1. \A m, k \in FirstLevel : m # k /\ r.dl1[m] # 0 => r.dl1[m] # r.dl1[k]
    BY <1>0, <1>1, <1>2, <1>4 DEF Sound, Placed
  <2>2. ASSUME NEW m \in FirstLevel, NEW k \in FirstLevel, NEW j \in SecondLevel,
               NEW l \in SecondLevel, m # k \/ j # l, Ref(r, m, j).off # 0
        PROVE  Ref(r, m, j).off # Ref(r, k, l).off
    <3>1. Ref(r, m, j) = Ref(s, m, j) /\ Ref(r, k, l) = Ref(s, k, l)
      BY <1>5
    <3> QED BY <2>2, <3>1 DEF Sound, Placed
  <2>3. \A m \in FirstLevel, j \in SecondLevel : /\ Ref(s, m, j).off \in Nat
                                                 /\ Ref(s, m, j).off < s.eof
    BY RefType, QConsts DEF Sound, Placed
  <2>4. \A m, k \in FirstLevel, j \in SecondLevel :
          Ref(r, m, j).off # 0 => Ref(r, m, j).off # r.dl1[k]
    BY <1>0, <1>1, <1>2, <1>5, <2>3 DEF Sound, Placed
  <2>5. \A m \in FirstLevel : r.dl1[m] < r.eof
    BY <1>0, <1>1, <1>2, <1>4
  <2>6. \A m \in FirstLevel, j \in SecondLevel : Ref(r, m, j).off < r.eof
    BY <1>0, <1>2, <1>5, <2>3
  <2>7. \A m \in FirstLevel, j \in SecondLevel : Ref(r, m, j).compressed => Ref(r, m, j).off # 0
    BY <1>5 DEF Sound, Placed
  <2> QED BY <2>1, <2>2, <2>4, <2>5, <2>6, <2>7 DEF Placed
<1>7. \A k \in CacheSlots : s.cache[k].off # s.eof
  BY NoSlotBehind DEF SlotOf, CacheSlots
<1>8. Cached(r)
  <2>1. r.l1 = r.dl1 /\ (r.cc.off # 0 => r.cc.data = r.data[r.cc.off])
    BY <1>2 DEF Sound, Cached
  <2>2. r.cc.off < r.eof
    <3>1. s.cc.off \in Nat /\ s.cc.off < s.eof
      BY ImageFields, QConsts DEF Sound, Cached
    <3> QED BY <1>0, <1>2, <3>1
  <2>3. ASSUME NEW k \in CacheSlots, r.cache[k].off # 0
        PROVE  /\ r.cache[k].tab = r.tab[r.cache[k].off]
               /\ \E n \in FirstLevel : r.cache[k].off = r.dl1[n]
    <3>1. PICK n \in FirstLevel : s.cache[k].off = s.dl1[n]
      BY <1>2, <2>3 DEF Sound, Cached
    <3>2. n # i /\ r.dl1[n] = s.dl1[n] /\ s.cache[k].off \in Units
      BY <1>1, <1>2, <1>4, <2>3, <3>1
    <3>3. s.cache[k].tab = s.tab[s.cache[k].off]
      BY <1>2, <2>3 DEF Sound, Cached
    <3> QED BY <1>1, <1>2, <1>7, <3>1, <3>2, <3>3
  <2>4. /\ \A k \in CacheSlots : r.cache[k].count < CountMax
        /\ \A k, m \in CacheSlots : r.cache[k].off # 0 /\ r.cache[k].off = r.cache[m].off => k = m
    BY <1>2 DEF Sound, Cached
  <2> QED BY <2>1, <2>2, <2>3, <2>4 DEF Cached
<1>9. SlotOf(r, s.eof) = {}
  BY <1>2, <1>7 DEF SlotOf, CacheSlots
<1>10. Sound(r)
  BY <1>0, <1>2, <1>3, <1>6, <1>8 DEF Sound
<1> QED BY <1>1, <1>2, <1>5, <1>9, <1>10 DEF r

(* The first half of get_cluster_offset(), when no access to a table fails:  *)
(* the table is in the cache, or there is none and none was asked for.       *)
TableInHand(s, i, allocate, t) ==
    /\ t.ok \in BOOLEAN /\ Sound(t.s)
    /\ t.s.data = s.data /\ t.s.eof <= s.eof + 1
    /\ \A m \in FirstLevel, j \in SecondLevel : Ref(t.s, m, j) = Ref(s, m, j)
    /\ t.ok => t.s.dl1[i] # 0 /\ SlotOf(t.s, t.s.dl1[i]) # {}
    /\ ~t.ok => ~allocate /\ t.s = s /\ s.dl1[i] = 0

(* GetTable() achieves this in each of its cases.                            *)
LEMMA GetTableSound ==
  ASSUME NEW s, Sound(s), NEW i \in FirstLevel, NEW allocate \in BOOLEAN,
         NEW fault \in {"data", NoFault}, allocate => s.eof < MaxUnits,
         NEW t, t = GetTable(s, i, allocate, fault)
  PROVE  TableInHand(s, i, allocate, t)
<1> USE DEF TableInHand
<1> DEFINE new == s.l1[i] = 0
           off == IF new THEN s.eof ELSE s.l1[i]
           s1 == IF new THEN [s EXCEPT !.l1[i] = off] ELSE s
           s2 == IF new THEN [s1 EXCEPT !.dl1[i] = off] ELSE s1
           u == Replace([s2 EXCEPT !.eof = off + 1, !.tab[off] = ZeroTable], off, ZeroTable)
<1>0. /\ s.l1 = s.dl1 /\ s.dl1[i] \in Units /\ s.eof \in Nat /\ s.eof > 0
      /\ fault # "l1" /\ fault # "l2_new" /\ fault # "l2_load"
  BY ImageFields DEF Sound, Cached, NoFault
<1>1. t = IF new /\ ~allocate        THEN [ok |-> FALSE, s |-> s]
          ELSE IF new /\ fault = "l1" THEN [ok |-> FALSE, s |-> s1]
          ELSE IF SlotOf(s, off) # {} THEN [ok |-> TRUE, s |-> Hit(s2, Min(SlotOf(s, off)))]
          ELSE IF fault = (IF new THEN "l2_new" ELSE "l2_load")
          THEN [ok |-> FALSE, s |-> Spoil(s2)]
          ELSE [ok |-> TRUE, s |-> IF new THEN u ELSE Replace(s2, off, s.tab[off])]
  BY DEF GetTable
<1>2. /\ new => off = s.eof /\ SlotOf(s, off) = {} /\ u = Replace(NewTable(s, i), s.eof, ZeroTable)
      /\ ~new => off = s.dl1[i] /\ s2 = s
      /\ new <=> s.dl1[i] = 0
  <2>1. CASE new
    <3>1. off = s.eof
      BY <2>1
    <3>2. s2 = [[s EXCEPT !.l1[i] = s.eof] EXCEPT !.dl1[i] = s.eof]
      BY <2>1
    <3>3. u = Replace(NewTable(s, i), s.eof, ZeroTable)
      BY <3>1, <3>2 DEF NewTable
    <3> HIDE DEF u, s2, off
    <3> QED BY <1>0, <2>1, <3>1, <3>3, NoSlotBehind
  <2>2. CASE ~new
    BY <1>0, <2>2
  <2> QED BY <2>1, <2>2
<1> HIDE DEF new, off, s1, s2, u
<1>3. CASE s.dl1[i] = 0 /\ ~allocate
  <2>1. t = [ok |-> FALSE, s |-> s]
    BY <1>0, <1>1, <1>2, <1>3
  <2> QED BY <1>0, <1>3, <2>1
<1>4. CASE s.dl1[i] = 0 /\ allocate
  <2> DEFINE r == NewTable(s, i)
  <2>1. t = [ok |-> TRUE, s |-> Replace(r, s.eof, ZeroTable)]
    BY <1>0, <1>1, <1>2, <1>4
  <2>2. /\ Sound(r) /\ r.data = s.data /\ r.eof = s.eof + 1
        /\ \A m \in FirstLevel, j \in SecondLevel : Ref(r, m, j) = Ref(s, m, j)
        /\ r.dl1[i] = s.eof /\ r.tab[s.eof] = ZeroTable
        /\ SlotOf(r, s.eof) = {}
    BY <1>4, NewTableSound
  <2> HIDE DEF r
  <2>3. /\ Sound(t.s) /\ t.s.data = r.data /\ t.s.eof = r.eof
        /\ \A m \in FirstLevel, j \in SecondLevel : Ref(t.s, m, j) = Ref(r, m, j)
        /\ t.s.dl1 = r.dl1 /\ SlotOf(t.s, r.dl1[i]) # {}
    <3>1. t.s = Replace(r, r.dl1[i], r.tab[r.dl1[i]]) /\ r.dl1[i] # 0
      BY <1>0, <2>1, <2>2
    <3> QED BY <2>2, <3>1, ReplaceSound
  <2>4. t.ok = TRUE
    BY <2>1
  <2>5. \A m \in FirstLevel, j \in SecondLevel : Ref(t.s, m, j) = Ref(s, m, j)
    BY <2>2, <2>3
  <2>6. t.s.dl1[i] # 0 /\ SlotOf(t.s, t.s.dl1[i]) # {}
    BY <1>0, <2>2, <2>3
  <2>7. t.s.data = s.data /\ t.s.eof <= s.eof + 1
    BY <1>0, <2>2, <2>3
  <2> QED BY <2>3, <2>4, <2>5, <2>6, <2>7
<1>5. CASE s.dl1[i] # 0 /\ SlotOf(s, s.dl1[i]) # {}
  <2>1. t = [ok |-> TRUE, s |-> Hit(s, Min(SlotOf(s, s.dl1[i])))]
    BY <1>0, <1>1, <1>2, <1>5
  <2>2. Min(SlotOf(s, s.dl1[i])) \in CacheSlots
    BY <1>0, <1>5, OneSlot
  <2>3. /\ Sound(t.s) /\ t.s.data = s.data /\ t.s.eof = s.eof
        /\ \A m \in FirstLevel, j \in SecondLevel : Ref(t.s, m, j) = Ref(s, m, j)
        /\ t.s.dl1 = s.dl1 /\ \A o : SlotOf(t.s, o) = SlotOf(s, o)
    BY <2>1, <2>2, HitSound
  <2> QED BY <1>0, <1>5, <2>1, <2>3
<1>6. CASE s.dl1[i] # 0 /\ SlotOf(s, s.dl1[i]) = {}
  <2>1. t = [ok |-> TRUE, s |-> Replace(s, s.dl1[i], s.tab[s.dl1[i]])]
    BY <1>0, <1>1, <1>2, <1>6
  <2>2. /\ Sound(t.s) /\ t.s.data = s.data /\ t.s.eof = s.eof
        /\ \A m \in FirstLevel, j \in SecondLevel : Ref(t.s, m, j) = Ref(s, m, j)
        /\ t.s.dl1 = s.dl1 /\ SlotOf(t.s, s.dl1[i]) # {}
    BY <1>6, <2>1, ReplaceSound
  <2>3. t.ok = TRUE
    BY <2>1
  <2>4. t.s.dl1[i] # 0 /\ SlotOf(t.s, t.s.dl1[i]) # {}
    BY <1>6, <2>2
  <2>5. t.s.eof <= s.eof + 1
    BY <1>0, <2>2
  <2> QED BY <2>2, <2>3, <2>4, <2>5
<1> QED BY <1>3, <1>4, <1>5, <1>6

(* The entry that the cache shows is the one in the file.                    *)
LEMMA EntryIsRef ==
  ASSUME NEW s, Sound(s), NEW i \in FirstLevel, NEW j \in SecondLevel,
         s.dl1[i] # 0, SlotOf(s, s.dl1[i]) # {}
  PROVE  Entry(s, <<i, j>>) = Ref(s, i, j)
<1>1. s.l1[i] = s.dl1[i] /\ s.dl1[i] \in Units
  BY RefType DEF Sound, Cached
<1> QED BY <1>1, OneSlot DEF Entry, Ref

(* decompress_cluster() changes only the cache of one cluster.               *)
LEMMA DecompressSound ==
  ASSUME NEW s, Sound(s), NEW o \in Units, o # 0, o < s.eof
  PROVE  /\ Sound(Decompress(s, o)) /\ Decompress(s, o).data = s.data
         /\ Decompress(s, o).eof = s.eof /\ Decompress(s, o).dl1 = s.dl1
         /\ Decompress(s, o).tab = s.tab
         /\ Decompress(s, o).cc.data = s.data[o]
         /\ \A m \in FirstLevel, j \in SecondLevel : Ref(Decompress(s, o), m, j) = Ref(s, m, j)
         /\ \A u : SlotOf(Decompress(s, o), u) = SlotOf(s, u)
<1>1. CASE s.cc.off = o
  BY <1>1 DEF Decompress, Sound, Cached
<1>2. CASE s.cc.off # o
  <2> DEFINE c == [off |-> o, data |-> s.data[o]]
             r == Decompress(s, o)
  <2>1. r = [s EXCEPT !.cc = c]
    BY <1>2 DEF Decompress
  <2>2. c \in [off : Units, data : ClusterData]
    BY ImageFields DEF Sound
  <2>3. c.off = o /\ c.data = s.data[o]
    OBVIOUS
  <2> HIDE DEF c, r
  <2>4. /\ r \in Image /\ r.dl1 = s.dl1 /\ r.tab = s.tab /\ r.data = s.data /\ r.eof = s.eof
        /\ r.l1 = s.l1 /\ r.cache = s.cache /\ r.cc = c
    BY <2>1, <2>2 DEF Sound, Image, ClusterData
  <2>5. Placed(r) /\ \A m \in FirstLevel, j \in SecondLevel : Ref(r, m, j) = Ref(s, m, j)
    BY <2>4, PlacedSame DEF Sound
  <2>6. Cached(r)
    BY <2>3, <2>4 DEF Sound, Cached
  <2> QED BY <2>3, <2>4, <2>5, <2>6 DEF r, Sound, SlotOf
<1> QED BY <1>1, <1>2

(* A cluster with the contents d at the end of the file.                     *)
Grow(s, d) == [s EXCEPT !.data[s.eof] = d, !.eof = @ + 1]

(* The cluster behind the end of the file was in nobody's use.               *)
LEMMA GrowSound ==
  ASSUME NEW s, Sound(s), NEW d \in ClusterData, s.eof < MaxUnits
  PROVE  /\ Sound(Grow(s, d)) /\ Grow(s, d).dl1 = s.dl1
         /\ Grow(s, d).data = [s.data EXCEPT ![s.eof] = d] /\ Grow(s, d).eof = s.eof + 1
         /\ \A m \in FirstLevel, j \in SecondLevel : Ref(Grow(s, d), m, j) = Ref(s, m, j)
         /\ \A u : SlotOf(Grow(s, d), u) = SlotOf(s, u)
<1> DEFINE r == Grow(s, d)
           newdata == [s.data EXCEPT ![s.eof] = d]
           e == s.eof + 1
           a == [s EXCEPT !.data = newdata]
<1>0. s.eof \in Units /\ s.eof \in Nat /\ e \in Nat
  BY ImageFields, QSizes DEF Sound, Units
<1>1. /\ newdata \in [Units -> ClusterData] /\ newdata[s.eof] = d
      /\ \A u \in Units : u # s.eof => newdata[u] = s.data[u]
  BY <1>0, ImageFields DEF Sound
<1>2. r = [a EXCEPT !.eof = e]
  BY DEF Grow, Sound, Image
<1> HIDE DEF newdata, a, e
<1>3. a \in Image /\ a.eof = s.eof /\ a.dl1 = s.dl1 /\ a.tab = s.tab /\ a.l1 = s.l1
      /\ a.cache = s.cache /\ a.cc = s.cc /\ a.data = newdata
  BY <1>1 DEF a, Sound, Image, ClusterData
<1>4. r \in Image /\ r.eof = e /\ r.dl1 = s.dl1 /\ r.tab = s.tab /\ r.l1 = s.l1
      /\ r.cache = s.cache /\ r.cc = s.cc /\ r.data = newdata
  BY <1>0, <1>2, <1>3 DEF Image
<1> HIDE DEF r
<1>5. \A m \in FirstLevel, j \in SecondLevel : Ref(r, m, j) = Ref(s, m, j)
  BY <1>4 DEF Ref
<1>6. Placed(r)
  <2>1. \A m \in FirstLevel, j \in SecondLevel :
           s.dl1[m] \in Nat /\ Ref(s, m, j).off \in Nat /\ s.eof \in Nat
    BY <1>0, RefType, QConsts DEF Sound
  <2>2. ASSUME NEW m \in FirstLevel, NEW k \in FirstLevel, NEW j \in SecondLevel,
               NEW l \in SecondLevel, m # k \/ j # l, Ref(r, m, j).off # 0
        PROVE  Ref(r, m, j).off # Ref(r, k, l).off
    <3>1. Ref(r, m, j) = Ref(s, m, j) /\ Ref(r, k, l) = Ref(s, k, l)
      BY <1>5
    <3> QED BY <2>2, <3>1 DEF Sound, Placed
  <2>3. /\ \A m, k \in FirstLevel : m # k /\ r.dl1[m] # 0 => r.dl1[m] # r.dl1[k]
        /\ \A m, k \in FirstLevel, j \in SecondLevel :
              Ref(r, m, j).off # 0 => Ref(r, m, j).off # r.dl1[k]
        /\ \A m \in FirstLevel, j \in SecondLevel :
              Ref(r, m, j).compressed => Ref(r, m, j).off # 0
    BY <1>4, <1>5 DEF Sound, Placed
  <2>4. \A m \in FirstLevel : r.dl1[m] < r.eof
    <3>1. \A m \in FirstLevel : s.dl1[m] \in Nat /\ s.dl1[m] < s.eof
      BY ImageFields, QConsts DEF Sound, Placed
    <3> QED BY <1>0, <1>4, <3>1 DEF e
  <2>5. \A m \in FirstLevel, j \in SecondLevel : Ref(r, m, j).off < r.eof
    BY <1>4, <1>5, <2>1 DEF e, Sound, Placed
  <2> QED BY <2>2, <2>3, <2>4, <2>5 DEF Placed
<1>7. Cached(r)
  <2>1. s.cc.off \in Units /\ s.cc.off \in Nat /\ s.cc.off < s.eof
    BY ImageFields, QConsts DEF Sound, Cached
  <2>2. r.cc.off < r.eof /\ (r.cc.off # 0 => r.cc.data = r.data[r.cc.off])
    BY <1>0, <1>1, <1>4, <2>1 DEF e, Sound, Cached
  <2> QED BY <1>4, <2>2 DEF Sound, Cached
<1>8. Sound(r)
  BY <1>0, <1>4, <1>6, <1>7 DEF e, Sound
<1> QED BY <1>4, <1>5, <1>8 DEF r, e, newdata, SlotOf

(* The entry of <<i, j>> becomes o, a cluster that nothing refers to.        *)
LEMMA SetEntrySound ==
  ASSUME NEW s, Sound(s), NEW i \in FirstLevel, NEW j \in SecondLevel,
         s.dl1[i] # 0, SlotOf(s, s.dl1[i]) # {},
         NEW o \in Units, o # 0, o < s.eof,
         \A m \in FirstLevel : s.dl1[m] # o,
         \A m \in FirstLevel, n \in SecondLevel : Ref(s, m, n).off # o,
         NEW r, r = SetEntry(s, <<i, j>>, o)
  PROVE  /\ Sound(r) /\ r.dl1 = s.dl1
         /\ r.data = s.data /\ r.eof = s.eof
         /\ Ref(r, i, j) = [off |-> o, compressed |-> FALSE]
         /\ \A m \in FirstLevel, n \in SecondLevel :
               m # i \/ n # j => Ref(r, m, n) = Ref(s, m, n)
         /\ SlotOf(r, s.dl1[i]) # {}
<1> DEFINE
           t == s.dl1[i]
           k == Min(SlotOf(s, t))
           ref == [off |-> o, compressed |-> FALSE]
           newcache == [s.cache EXCEPT ![k].tab[j] = ref]
           newtab == [s.tab EXCEPT ![t][j] = ref]
           a == [s EXCEPT !.cache = newcache]
<1>1. /\ t \in Units /\ s.l1[i] = t /\ k \in CacheSlots /\ s.cache[k].off = t
      /\ s.cache[k].tab = s.tab[t] /\ s.tab \in [Units -> L2Table] /\ s.tab[t] \in L2Table
      /\ s.cache \in [CacheSlots -> [off : Units, count : 0 .. CountMax, tab : L2Table]]
      /\ s.cache[k] \in [off : Units, count : 0 .. CountMax, tab : L2Table]
  BY RefType, OneSlot, ImageFields DEF Sound, Cached
<1>2. ref \in [off : Units, compressed : BOOLEAN]
  OBVIOUS
<1>3. r = [a EXCEPT !.tab = newtab]
  BY <1>1 DEF SetEntry, Sound, Image
<1>d. ref.off = o /\ ref.compressed = FALSE
  OBVIOUS
<1> HIDE DEF k, ref, t
<1>4. /\ newtab \in [Units -> L2Table] /\ newtab[t] = [s.tab[t] EXCEPT ![j] = ref]
      /\ \A u \in Units : u # t => newtab[u] = s.tab[u]
  BY <1>1, <1>2 DEF L2Table
<1>5. /\ newcache \in [CacheSlots -> [off : Units, count : 0 .. CountMax, tab : L2Table]]
      /\ newcache[k].tab = [s.tab[t] EXCEPT ![j] = ref]
      /\ newcache[k].off = t /\ newcache[k].count = s.cache[k].count
      /\ \A m \in CacheSlots : m # k => newcache[m] = s.cache[m]
  <2>1. [s.tab[t] EXCEPT ![j] = ref] \in L2Table
    BY <1>1, <1>2 DEF L2Table
  <2>2. newcache = [s.cache EXCEPT ![k] = [s.cache[k] EXCEPT !.tab = [s.tab[t] EXCEPT ![j] = ref]]]
    BY <1>1
  <2> DEFINE nt == [s.tab[t] EXCEPT ![j] = ref]
             slot == [s.cache[k] EXCEPT !.tab = nt]
  <2> HIDE DEF nt
  <2>3. slot \in [off : Units, count : 0 .. CountMax, tab : L2Table] /\ slot.tab = nt
        /\ slot.off = t /\ slot.count = s.cache[k].count
    BY <1>1, <2>1 DEF nt
  <2> HIDE DEF slot
  <2>4. newcache = [s.cache EXCEPT ![k] = slot]
    BY <2>2 DEF slot, nt
  <2> HIDE DEF newcache
  <2> QED BY <1>1, <2>3, <2>4 DEF nt
<1>6. /\ newtab[t][j] = ref
      /\ \A n \in SecondLevel : n # j => newtab[t][n] = s.tab[t][n]
  BY <1>1, <1>4 DEF L2Table
<1> HIDE DEF newtab, newcache, a
<1>7. a \in Image /\ a.eof = s.eof /\ a.dl1 = s.dl1 /\ a.tab = s.tab /\ a.l1 = s.l1
      /\ a.cache = newcache /\ a.cc = s.cc /\ a.data = s.data
  BY <1>5 DEF a, Sound, Image, L2Table, CacheSlots, SecondLevel
<1>8. r \in Image /\ r.eof = s.eof /\ r.dl1 = s.dl1 /\ r.tab = newtab /\ r.l1 = s.l1
      /\ r.cache = newcache /\ r.cc = s.cc /\ r.data = s.data
  BY <1>3, <1>4, <1>7 DEF Image, L2Table, SecondLevel
<1>9. Ref(r, i, j) = ref
  BY <1>6, <1>8 DEF Ref, t
<1>10. ASSUME NEW m \in FirstLevel, NEW n \in SecondLevel, m # i \/ n # j
       PROVE  Ref(r, m, n) = Ref(s, m, n)
  <2>1. CASE m = i
    BY <1>6, <1>8, <1>10, <2>1 DEF Ref, t
  <2>2. CASE m # i
    <3>1. s.dl1[m] # 0 => s.dl1[m] # t
      BY <2>2 DEF t, Sound, Placed
    <3>2. s.dl1[m] \in Units
      BY RefType DEF Sound
    <3> QED BY <1>4, <1>8, <3>1, <3>2 DEF Ref
  <2> QED BY <2>1, <2>2
<1>11. Placed(r)
  <2>1. ASSUME NEW m \in FirstLevel, NEW p \in FirstLevel, NEW n \in SecondLevel,
               NEW l \in SecondLevel, m # p \/ n # l, Ref(r, m, n).off # 0
        PROVE  Ref(r, m, n).off # Ref(r, p, l).off
    <3>1. CASE m = i /\ n = j
      BY <1>9, <1>10, <1>d, <2>1, <3>1
    <3>2. CASE p = i /\ l = j
      BY <1>9, <1>10, <1>d, <2>1, <3>2
    <3>3. CASE ~(m = i /\ n = j) /\ ~(p = i /\ l = j)
      <4>1. Ref(r, m, n) = Ref(s, m, n) /\ Ref(r, p, l) = Ref(s, p, l)
        BY <1>10, <3>3
      <4> QED BY <2>1, <4>1 DEF Sound, Placed
    <3> QED BY <3>1, <3>2, <3>3
  <2>2. ASSUME NEW m \in FirstLevel, NEW n \in SecondLevel
        PROVE  /\ \A p \in FirstLevel : Ref(r, m, n).off # 0 => Ref(r, m, n).off # r.dl1[p]
               /\ Ref(r, m, n).off < r.eof
               /\ Ref(r, m, n).compressed => Ref(r, m, n).off # 0
    <3>1. CASE m = i /\ n = j
      BY <1>8, <1>9, <1>d, <3>1
    <3>2. CASE ~(m = i /\ n = j)
      BY <1>8, <1>10, <3>2 DEF Sound, Placed
    <3> QED BY <3>1, <3>2
  <2>3. /\ \A m, p \in FirstLevel : m # p /\ r.dl1[m] # 0 => r.dl1[m] # r.dl1[p]
        /\ \A m \in FirstLevel : r.dl1[m] < r.eof
    BY <1>8 DEF Sound, Placed
  <2> QED BY <2>1, <2>2, <2>3 DEF Placed
<1>12. Cached(r)
  <2>1. ASSUME NEW m \in CacheSlots, r.cache[m].off # 0
        PROVE  /\ r.cache[m].tab = r.tab[r.cache[m].off]
               /\ \E n \in FirstLevel : r.cache[m].off = r.dl1[n]
    <3>1. CASE m = k
      BY <1>4, <1>5, <1>8, <3>1 DEF t
    <3>2. CASE m # k
      <4>1. r.cache[m] = s.cache[m]
        BY <1>5, <1>8, <3>2
      <4>2. s.cache[m].off # t /\ s.cache[m].off \in Units
        BY <1>1, <2>1, <3>2, <4>1 DEF Sound, Cached
      <4> QED BY <1>4, <1>8, <2>1, <4>1, <4>2 DEF Sound, Cached
    <3> QED BY <3>1, <3>2
  <2>2. \A m, n \in CacheSlots : r.cache[m].off # 0 /\ r.cache[m].off = r.cache[n].off => m = n
    <3>1. \A m \in CacheSlots : r.cache[m].off = s.cache[m].off
      BY <1>1, <1>5, <1>8
    <3> QED BY <3>1 DEF Sound, Cached
  <2>3. \A m \in CacheSlots : r.cache[m].count < CountMax
    BY <1>5, <1>8 DEF Sound, Cached
  <2> QED BY <1>8, <2>1, <2>2, <2>3 DEF Sound, Cached
<1>13. SlotOf(r, t) # {}
  BY <1>1, <1>5, <1>8 DEF SlotOf, CacheSlots
<1> QED BY <1>8, <1>9, <1>10, <1>11, <1>12, <1>13 DEF t, ref, Sound

(* A write to a cluster, which also forgets the decompressed one.            *)
Store(s, o, d) == [s EXCEPT !.data[o] = d, !.cc.off = 0]

(* Such a write keeps the image sound: references do not change.             *)
LEMMA StoreSound ==
  ASSUME NEW s, Sound(s), NEW o \in Units, NEW d \in ClusterData
  PROVE  /\ Sound(Store(s, o, d)) /\ Store(s, o, d).data = [s.data EXCEPT ![o] = d]
         /\ \A m \in FirstLevel, n \in SecondLevel : Ref(Store(s, o, d), m, n) = Ref(s, m, n)
<1> DEFINE r == Store(s, o, d)
           newdata == [s.data EXCEPT ![o] = d]
           c == [s.cc EXCEPT !.off = 0]
           a == [s EXCEPT !.data = newdata]
<1>1. newdata \in [Units -> ClusterData]
  BY ImageFields DEF Sound
<1>2. c \in [off : Units, data : ClusterData] /\ c.off = 0
  BY ImageFields, QConsts DEF Sound, Units
<1>3. r = [a EXCEPT !.cc = c]
  BY DEF Store, Sound, Image
<1> HIDE DEF newdata, a, c
<1>4. a \in Image /\ a.eof = s.eof /\ a.dl1 = s.dl1 /\ a.tab = s.tab /\ a.l1 = s.l1
      /\ a.cache = s.cache /\ a.data = newdata
  BY <1>1 DEF a, Sound, Image, ClusterData
<1>5. r \in Image /\ r.eof = s.eof /\ r.dl1 = s.dl1 /\ r.tab = s.tab /\ r.l1 = s.l1
      /\ r.cache = s.cache /\ r.cc = c /\ r.data = newdata
  BY <1>2, <1>3, <1>4 DEF Image, ClusterData
<1> HIDE DEF r
<1>6. Placed(r) /\ \A m \in FirstLevel, n \in SecondLevel : Ref(r, m, n) = Ref(s, m, n)
  BY <1>5, PlacedSame DEF Sound
<1>7. Cached(r)
  BY <1>2, <1>5 DEF Sound, Cached
<1>8. Sound(r)
  BY <1>5, <1>6, <1>7 DEF Sound
<1> QED BY <1>5, <1>6, <1>8 DEF r, newdata

(* Allocation: the entry gets a cluster of its own, with the old contents if *)
(* they were compressed and are not overwritten completely.                  *)
Allocated(s, i, j, full, e, r) ==
    /\ Sound(r) /\ r.dl1 = s.dl1 /\ r.eof = s.eof + 1
    /\ Ref(r, i, j) = [off |-> s.eof, compressed |-> FALSE]
    /\ \A m \in FirstLevel, n \in SecondLevel :
          m # i \/ n # j => Ref(r, m, n) = Ref(s, m, n)
    /\ r.data = [s.data EXCEPT ![s.eof] =
                   IF e.compressed /\ ~full THEN s.data[e.off] ELSE Zeros]
    /\ SlotOf(r, r.dl1[i]) # {}

(* Allocate() does so and keeps the image sound.                             *)
LEMMA AllocateSound ==
  ASSUME NEW s, Sound(s), NEW i \in FirstLevel, NEW j \in SecondLevel, NEW full \in BOOLEAN,
         s.dl1[i] # 0, SlotOf(s, s.dl1[i]) # {}, s.eof < MaxUnits,
         NEW r, r = Allocate(s, <<i, j>>, full), NEW e, e = Ref(s, i, j)
  PROVE  Allocated(s, i, j, full, e, r)
<1> USE DEF Allocated
<1> DEFINE unpack == e.compressed /\ ~full
           s1 == IF unpack THEN Decompress(s, e.off) ELSE s
           d == IF unpack THEN s1.cc.data ELSE Zeros
           g == Grow(s1, d)
<1>1. Entry(s, <<i, j>>) = e
  BY EntryIsRef
<1>2. /\ e.off \in Units /\ e.off < s.eof /\ e.compressed \in BOOLEAN
      /\ e.compressed => e.off # 0
  BY RefType DEF Sound, Placed
<1>3. /\ Sound(s1) /\ s1.data = s.data /\ s1.eof = s.eof /\ s1.dl1 = s.dl1
      /\ \A m \in FirstLevel, n \in SecondLevel : Ref(s1, m, n) = Ref(s, m, n)
      /\ \A u : SlotOf(s1, u) = SlotOf(s, u)
      /\ unpack => s1.cc.data = s.data[e.off]
  <2>1. CASE unpack
    <3>1. s1 = Decompress(s, e.off)
      BY <2>1
    <3> HIDE DEF s1
    <3> QED BY <1>2, <2>1, <3>1, DecompressSound
  <2>2. CASE ~unpack
    BY <2>2
  <2> QED BY <2>1, <2>2
<1>4. d = IF unpack THEN s.data[e.off] ELSE Zeros
  BY <1>3
<1>5. d \in ClusterData
  BY <1>2, <1>4, ImageFields, QConsts DEF Sound
<1>6. r = SetEntry(g, <<i, j>>, s.eof)
  <2>1. r = SetEntry([s1 EXCEPT !.data[s.eof] = d, !.eof = @ + 1], <<i, j>>, s.eof)
    BY <1>1 DEF Allocate
  <2>2. g = [s1 EXCEPT !.data[s.eof] = d, !.eof = @ + 1]
    BY <1>3 DEF Grow
  <2> QED BY <2>1, <2>2
<1> HIDE DEF unpack, s1, d
<1>7. /\ Sound(g) /\ g.dl1 = s.dl1
      /\ g.data = [s.data EXCEPT ![s.eof] = d] /\ g.eof = s.eof + 1
      /\ \A m \in FirstLevel, n \in SecondLevel : Ref(g, m, n) = Ref(s, m, n)
      /\ SlotOf(g, g.dl1[i]) # {}
  BY <1>3, <1>5, GrowSound
<1> HIDE DEF g
<1>8. s.eof \in Units /\ s.eof \in Nat /\ s.eof # 0 /\ s.eof < g.eof
  BY <1>7, ImageFields, QSizes DEF Sound, Units
<1>9. \A m \in FirstLevel : g.dl1[m] # s.eof
  <2>1. \A m \in FirstLevel : s.dl1[m] \in Nat /\ s.dl1[m] < s.eof
    BY ImageFields, QConsts DEF Sound, Placed
  <2> QED BY <1>7, <1>8, <2>1
<1>10. \A m \in FirstLevel, n \in SecondLevel : Ref(g, m, n).off # s.eof
  <2>1. \A m \in FirstLevel, n \in SecondLevel :
           Ref(s, m, n).off \in Nat /\ Ref(s, m, n).off < s.eof
    BY RefType, QConsts DEF Sound, Placed
  <2> QED BY <1>7, <1>8, <2>1
<1>11. g.dl1[i] # 0
  BY <1>7
<1>12. /\ Sound(r) /\ r.dl1 = g.dl1
       /\ r.data = g.data /\ r.eof = g.eof
       /\ Ref(r, i, j) = [off |-> s.eof, compressed |-> FALSE]
       /\ \A m \in FirstLevel, n \in SecondLevel :
               m # i \/ n # j => Ref(r, m, n) = Ref(g, m, n)
       /\ SlotOf(r, g.dl1[i]) # {}
  <2>1. Sound(g) /\ SlotOf(g, g.dl1[i]) # {}
    BY <1>7
  <2> QED BY <1>6, <1>8, <1>9, <1>10, <1>11, <2>1, SetEntrySound, Zenon
<1>13. r.data = [s.data EXCEPT ![s.eof] =
                        IF e.compressed /\ ~full THEN s.data[e.off] ELSE Zeros]
  BY <1>4, <1>7, <1>12 DEF unpack
<1> QED BY <1>7, <1>12, <1>13

-----------------------------------------------------------------------------
(* A call of get_cluster_offset() that comes back with a table, or that has   *)
(* none to look for, is one in which no access to a table failed.             *)
LEMMA UntornTable ==
  ASSUME NEW s, NEW i, NEW allocate \in BOOLEAN, NEW fault,
         NEW t, t = GetTable(s, i, allocate, fault),
         t.ok = TRUE \/ (s.l1[i] = 0 /\ ~allocate)
  PROVE  t = GetTable(s, i, allocate, NoFault)
<1> DEFINE new == s.l1[i] = 0
           off == IF new THEN s.eof ELSE s.l1[i]
           s1 == IF new THEN [s EXCEPT !.l1[i] = off] ELSE s
           s2 == IF new THEN [s1 EXCEPT !.dl1[i] = off] ELSE s1
           hit == SlotOf(s, off) # {}
           h == Hit(s2, Min(SlotOf(s, off)))
           u == IF new THEN Replace([s2 EXCEPT !.eof = off + 1, !.tab[off] = ZeroTable],
                                    off, ZeroTable)
                ELSE Replace(s2, off, s.tab[off])
           Result(g) == IF new /\ ~allocate THEN [ok |-> FALSE, s |-> s]
                        ELSE IF new /\ g = "l1" THEN [ok |-> FALSE, s |-> s1]
                        ELSE IF hit THEN [ok |-> TRUE, s |-> h]
                        ELSE IF g = (IF new THEN "l2_new" ELSE "l2_load")
                        THEN [ok |-> FALSE, s |-> Spoil(s2)]
                        ELSE [ok |-> TRUE, s |-> u]
<1>1. t = Result(fault)
  BY DEF GetTable
<1>2. GetTable(s, i, allocate, NoFault) = Result(NoFault)
  BY DEF GetTable
<1>3. t.ok = TRUE \/ (new /\ ~allocate)
  OBVIOUS
<1> DEFINE sp == Spoil(s2)
<1>4. Result(fault) = IF new /\ ~allocate THEN [ok |-> FALSE, s |-> s]
                      ELSE IF new /\ fault = "l1" THEN [ok |-> FALSE, s |-> s1]
                      ELSE IF hit THEN [ok |-> TRUE, s |-> h]
                      ELSE IF fault = (IF new THEN "l2_new" ELSE "l2_load")
                      THEN [ok |-> FALSE, s |-> sp]
                      ELSE [ok |-> TRUE, s |-> u]
  OBVIOUS
<1>5. Result(NoFault) = IF new /\ ~allocate THEN [ok |-> FALSE, s |-> s]
                        ELSE IF hit THEN [ok |-> TRUE, s |-> h]
                        ELSE [ok |-> TRUE, s |-> u]
  BY DEF NoFault
<1> HIDE DEF Result, u, h, s1, s2, sp, hit, new
<1> QED BY <1>1, <1>2, <1>3, <1>4, <1>5

(* The inductive invariant of the specification while the tables are whole:   *)
(* the image is sound, each sector holds what is expected of it, and the      *)
(* clusters that exist are the ones that were written to.                     *)
ImageInv ==
    /\ Sound(img)
    /\ expect \in [Clusters -> [Sectors -> Values \cup {0, Unknown}]]
    /\ \A i \in FirstLevel, j \in SecondLevel : \A x \in Sectors :
          expect[<<i, j>>][x] # Unknown => Content(img, i, j)[x] = expect[<<i, j>>][x]
    /\ written \subseteq Clusters
    /\ \A i \in FirstLevel, j \in SecondLevel : <<i, j>> \in written <=> Ref(img, i, j).off # 0

(* The contents of a cluster are a matter of its reference and of the data.   *)
LEMMA ContentSame ==
  ASSUME NEW s, NEW r, r.data = s.data,
         NEW i \in FirstLevel, NEW j \in SecondLevel, Ref(r, i, j) = Ref(s, i, j)
  PROVE  Content(r, i, j) = Content(s, i, j)
  BY DEF Content

(* A cluster of the disk is a pair of indices.                               *)
LEMMA ClusterParts ==
  ASSUME NEW c \in Clusters
  PROVE  c[1] \in FirstLevel /\ c[2] \in SecondLevel /\ c = <<c[1], c[2]>>
  BY DEF Clusters, FirstLevel, SecondLevel

(* qcow_read() keeps the invariant, whatever it evicts.                      *)
LEMMA ReadKeepsInv ==
  ASSUME ImageInv, NEW c \in Clusters, NEW fault, qcow_read(c, fault), ~torn'
  PROVE  ImageInv'
<1> DEFINE i == c[1]
           j == c[2]
           t == GetTable(img, i, FALSE, fault)
           e == Ref(t.s, i, j)
<1>0. t = GetTable(img, i, FALSE, NoFault)
  <2> DEFINE no == FALSE
  <2>1. ~(~t.ok /\ img.l1[i] # 0)
    BY DEF qcow_read
  <2>2. t.ok \in BOOLEAN
    BY DEF GetTable
  <2>3. t = GetTable(img, i, no, fault) /\ no \in BOOLEAN /\ ~no
    OBVIOUS
  <2> HIDE DEF t, i, no
  <2>4. t = GetTable(img, i, no, NoFault)
    BY <2>1, <2>2, <2>3, UntornTable
  <2> QED BY <2>4 DEF no
<1>1. i \in FirstLevel /\ j \in SecondLevel /\ c = <<i, j>>
  BY ClusterParts
<1>2. /\ t.ok \in BOOLEAN /\ Sound(t.s) /\ t.s.data = img.data
      /\ \A m \in FirstLevel, n \in SecondLevel : Ref(t.s, m, n) = Ref(img, m, n)
      /\ t.ok => t.s.dl1[i] # 0 /\ SlotOf(t.s, t.s.dl1[i]) # {}
  <2> DEFINE no == FALSE
  <2>1. t = GetTable(img, i, no, NoFault) /\ Sound(img) /\ (no => img.eof < MaxUnits)
    BY <1>0 DEF ImageInv
  <2>2. no \in BOOLEAN
    OBVIOUS
  <2> HIDE DEF t, i, j, no, e
  <2>3. TableInHand(img, i, no, t)
    BY <1>1, <2>1, <2>2, GetTableSound
  <2> QED BY <2>3 DEF TableInHand
<1>3. t.ok => Entry(t.s, c) = e
  BY <1>1, <1>2, EntryIsRef
<1>4. img' = IF t.ok /\ Entry(t.s, c).compressed THEN Decompress(t.s, Entry(t.s, c).off) ELSE t.s
  BY DEF qcow_read
<1> HIDE DEF i, j, t
<1>5. Sound(img)' /\ img'.data = img.data
      /\ \A m \in FirstLevel, n \in SecondLevel : Ref(img', m, n) = Ref(img, m, n)
  <2>1. CASE t.ok /\ e.compressed
    <3>1. e.off \in Units /\ e.off # 0 /\ e.off < t.s.eof
      BY <1>1, <1>2, <2>1, RefType DEF Sound, Placed
    <3>2. img' = Decompress(t.s, e.off)
      BY <1>3, <1>4, <2>1
    <3> HIDE DEF e
    <3>3. /\ Sound(Decompress(t.s, e.off)) /\ Decompress(t.s, e.off).data = t.s.data
          /\ \A m \in FirstLevel, n \in SecondLevel :
                Ref(Decompress(t.s, e.off), m, n) = Ref(t.s, m, n)
      BY <1>2, <3>1, DecompressSound, Zenon
    <3>4. Sound(img')
      BY <3>2, <3>3
    <3>5. img'.data = img.data
          /\ \A m \in FirstLevel, n \in SecondLevel : Ref(img', m, n) = Ref(img, m, n)
      BY <1>2, <3>2, <3>3
    <3> QED BY <3>4, <3>5
  <2>2. CASE ~(t.ok /\ e.compressed)
    <3>1. img' = t.s
      BY <1>3, <1>4, <2>2
    <3> QED BY <1>2, <3>1
  <2> QED BY <2>1, <2>2
<1>6. \A m \in FirstLevel, n \in SecondLevel : Content(img', m, n) = Content(img, m, n)
  BY <1>5, ContentSame
<1>7. expect' = expect /\ written' = written
  BY DEF qcow_read
<1>8. \A m \in FirstLevel, n \in SecondLevel :
         /\ Content(img, m, n)' = Content(img', m, n)
         /\ Ref(img, m, n)' = Ref(img', m, n)
  BY DEF Content, Ref
<1> QED BY <1>5, <1>6, <1>7, <1>8 DEF ImageInv

(* The cluster that qcow_write() writes to: the entry has one of its own,    *)
(* and nothing that is not about to be overwritten has changed.              *)
Target(s, i, j, full, r) ==
    /\ Sound(r) /\ Entry(r, <<i, j>>) = Ref(r, i, j) /\ Ref(r, i, j).off # 0
    /\ \A m \in FirstLevel, n \in SecondLevel :
          m # i \/ n # j \/ ~full => Content(r, m, n) = Content(s, m, n)
    /\ \A m \in FirstLevel, n \in SecondLevel :
          m # i \/ n # j => Ref(r, m, n) = Ref(s, m, n)

(* get_cluster_offset() finds or makes that cluster.                         *)
LEMMA TargetSound ==
  ASSUME NEW s, Sound(s), NEW i \in FirstLevel, NEW j \in SecondLevel, NEW full \in BOOLEAN,
         s.dl1[i] # 0, SlotOf(s, s.dl1[i]) # {}, s.eof < MaxUnits,
         NEW e, e = Ref(s, i, j),
         NEW r, r = IF e.off = 0 \/ e.compressed THEN Allocate(s, <<i, j>>, full) ELSE s
  PROVE  Target(s, i, j, full, r)
<1>1. CASE ~(e.off = 0 \/ e.compressed)
  BY <1>1, EntryIsRef DEF Target
<1>2. CASE e.off = 0 \/ e.compressed
  <2>1. r = Allocate(s, <<i, j>>, full)
    BY <1>2
  <2>2. /\ Sound(r) /\ r.dl1 = s.dl1
        /\ Ref(r, i, j) = [off |-> s.eof, compressed |-> FALSE]
        /\ \A m \in FirstLevel, n \in SecondLevel :
              m # i \/ n # j => Ref(r, m, n) = Ref(s, m, n)
        /\ r.data = [s.data EXCEPT ![s.eof] =
                       IF e.compressed /\ ~full THEN s.data[e.off] ELSE Zeros]
        /\ SlotOf(r, r.dl1[i]) # {}
    <3>1. Allocated(s, i, j, full, e, r)
      BY <2>1, AllocateSound, Zenon
    <3> QED BY <3>1 DEF Allocated
  <2>3. /\ s.eof \in Units /\ s.eof \in Nat /\ s.eof # 0 /\ s.data \in [Units -> ClusterData]
        /\ e.compressed \in BOOLEAN /\ (e.compressed => e.off # 0)
    BY ImageFields, RefType, QSizes DEF Sound, Placed, Units
  <2>4. Entry(r, <<i, j>>) = Ref(r, i, j)
    BY <2>2, EntryIsRef
  <2>5. Ref(r, i, j).off = s.eof
    BY <2>2
  <2>6. ASSUME NEW m \in FirstLevel, NEW n \in SecondLevel, m # i \/ n # j
        PROVE  Content(r, m, n) = Content(s, m, n)
    <3>1. Ref(s, m, n).off \in Units /\ Ref(s, m, n).off \in Nat /\ Ref(s, m, n).off < s.eof
      BY RefType, QConsts DEF Sound, Placed
    <3> QED BY <2>2, <2>3, <2>6, <3>1 DEF Content
  <2>7. ASSUME ~full PROVE Content(r, i, j) = Content(s, i, j)
    <3>1. Content(r, i, j) = IF e.compressed /\ ~full THEN s.data[e.off] ELSE Zeros
      BY <2>2, <2>3, <2>5 DEF Content
    <3> QED BY <1>2, <2>3, <2>7, <3>1 DEF Content
  <2> QED BY <2>2, <2>3, <2>4, <2>5, <2>6, <2>7 DEF Target
<1> QED BY <1>1, <1>2

(* The bookkeeping of the history: sectors of S become v, or unknown.        *)
LEMMA ExpectKeeps ==
  ASSUME ImageInv, Sound(img)', NEW i \in FirstLevel, NEW j \in SecondLevel,
         NEW S \in SUBSET Sectors, NEW w \in Values \cup {0, Unknown},
         Expect(<<i, j>>, S, w),
         \A m \in FirstLevel, n \in SecondLevel :
            m # i \/ n # j => Content(img', m, n) = Content(img, m, n),
         \A x \in Sectors : x \notin S => Content(img', i, j)[x] = Content(img, i, j)[x],
         w # Unknown => \A x \in S : Content(img', i, j)[x] = w,
         Ref(img', i, j).off # 0,
         \A m \in FirstLevel, n \in SecondLevel :
            m # i \/ n # j => Ref(img', m, n) = Ref(img, m, n)
  PROVE  ImageInv'
<1> DEFINE row == [x \in Sectors |-> IF x \in S THEN w ELSE expect[<<i, j>>][x]]
           Row == [Sectors -> Values \cup {0, Unknown}]
<1>1. /\ expect \in [Clusters -> Row] /\ <<i, j>> \in Clusters
      /\ \A m \in FirstLevel, n \in SecondLevel : <<m, n>> \in Clusters
      /\ expect[<<i, j>>] \in Row
  BY DEF ImageInv, Clusters, FirstLevel, SecondLevel
<1>2. expect' = [expect EXCEPT ![<<i, j>>] = row]
  BY DEF Expect
<1>3. row \in Row
  BY <1>1
<1>4. \A x \in Sectors : row[x] = IF x \in S THEN w ELSE expect[<<i, j>>][x]
  OBVIOUS
<1> HIDE DEF row, Row
<1>5. expect' \in [Clusters -> Row] /\ expect'[<<i, j>>] = row
  BY <1>1, <1>2, <1>3
<1>6. \A m \in FirstLevel, n \in SecondLevel :
         m # i \/ n # j => expect'[<<m, n>>] = expect[<<m, n>>]
  BY <1>1, <1>2
<1>7. ASSUME NEW m \in FirstLevel, NEW n \in SecondLevel, NEW x \in Sectors,
             expect'[<<m, n>>][x] # Unknown
      PROVE  Content(img', m, n)[x] = expect'[<<m, n>>][x]
  <2>1. CASE m # i \/ n # j
    BY <1>6, <1>7, <2>1 DEF ImageInv
  <2>2. CASE m = i /\ n = j
    BY <1>4, <1>5, <1>7, <2>2 DEF ImageInv
  <2> QED BY <2>1, <2>2
<1>8. \A m \in FirstLevel, n \in SecondLevel : \A x \in Sectors :
         expect'[<<m, n>>][x] # Unknown => Content(img, m, n)'[x] = expect'[<<m, n>>][x]
  BY <1>7 DEF Content, Ref
<1>9. written' = written \cup {<<i, j>>} /\ written \subseteq Clusters
      /\ \A m \in FirstLevel, n \in SecondLevel : <<m, n>> \in written <=> Ref(img, m, n).off # 0
  BY DEF ImageInv, Expect
<1>10. \A m \in FirstLevel, n \in SecondLevel : <<m, n>> \in written' <=> Ref(img', m, n).off # 0
  <2> SUFFICES ASSUME NEW m \in FirstLevel, NEW n \in SecondLevel
               PROVE  <<m, n>> \in written' <=> Ref(img', m, n).off # 0
    OBVIOUS
  <2>1. CASE m = i /\ n = j
    BY <1>9, <2>1
  <2>2. CASE m # i \/ n # j
    <3>1. <<m, n>> # <<i, j>>
      BY <2>2
    <3> QED BY <1>9, <2>2, <3>1
  <2> QED BY <2>1, <2>2
<1>11. written' \subseteq Clusters
  BY <1>1, <1>9
<1>12. \A m \in FirstLevel, n \in SecondLevel : Ref(img, m, n)' = Ref(img', m, n)
  BY DEF Ref
<1> QED BY <1>5, <1>8, <1>10, <1>11, <1>12 DEF ImageInv, Row

(* qcow_write() keeps the invariant, also when the write of the data fails.   *)
LEMMA WriteKeepsInv ==
  ASSUME ImageInv, NEW c \in Clusters, NEW S \in {Sectors, {0}}, NEW v \in Values,
         NEW fault, qcow_write(c, S, v, fault), ~torn'
  PROVE  ImageInv'
<1> DEFINE i == c[1]
           j == c[2]
           t == GetTable(img, c[1], TRUE, fault)
           e == Entry(t.s, c)
           want == e.off = 0 \/ e.compressed
           full == S = Sectors
           s1 == IF want THEN Allocate(t.s, c, S = Sectors) ELSE t.s
           off == Entry(s1, c).off
           d == [x \in Sectors |-> IF x \in S THEN v ELSE s1.data[off][x]]
<1>1. i \in FirstLevel /\ j \in SecondLevel /\ c = <<i, j>>
  BY ClusterParts
<1>2. Sound(img) /\ img.eof + 2 <= MaxUnits /\ img.eof \in Nat
  BY ImageFields DEF ImageInv, Sound, qcow_write
<1>0. t.ok = TRUE /\ ~(want /\ fault \in {"extend", "l2_entry"})
  <2>1. t.ok \in BOOLEAN
    BY DEF GetTable
  <2> HIDE DEF e
  <2> QED BY <2>1 DEF qcow_write, e
<1>3. TableInHand(img, i, TRUE, t)
  <2> DEFINE yes == TRUE
  <2>0. t = GetTable(img, i, yes, fault) /\ yes \in BOOLEAN /\ t.ok = TRUE
    BY <1>0
  <2>00. t = GetTable(img, i, yes, NoFault)
    <3> HIDE DEF t, i, yes
    <3> QED BY <2>0, UntornTable
  <2>1. t = GetTable(img, i, yes, NoFault) /\ (yes => img.eof < MaxUnits) /\ yes \in BOOLEAN
    <3>1. img.eof < MaxUnits
      BY <1>2, QSizes
    <3> HIDE DEF t, i
    <3> QED BY <2>00, <3>1
  <2>2. i \in FirstLevel
    BY <1>1
  <2> HIDE DEF t, i, yes
  <2>3. TableInHand(img, i, yes, t)
    BY <1>2, <2>1, <2>2, GetTableSound
  <2> QED BY <2>3 DEF yes
<1>4. /\ Sound(t.s) /\ t.s.data = img.data /\ t.s.eof <= img.eof + 1 /\ t.ok = TRUE
      /\ \A m \in FirstLevel, n \in SecondLevel : Ref(t.s, m, n) = Ref(img, m, n)
      /\ t.s.dl1[i] # 0 /\ SlotOf(t.s, t.s.dl1[i]) # {}
  <2> HIDE DEF t, i
  <2> QED BY <1>3 DEF TableInHand
<1>5. e = Ref(t.s, i, j)
  <2> HIDE DEF t, i, j
  <2> QED BY <1>1, <1>4, EntryIsRef
<1>7. (fault = "data" /\ img' = s1 /\ Expect(c, S, Unknown))
      \/ (img' = Store(s1, off, d) /\ Expect(c, S, v))
  <2>1. CASE fault = "data"
    <3>1. t.ok = TRUE => img' = s1 /\ Expect(c, S, Unknown)
      BY <2>1 DEF qcow_write
    <3> QED BY <1>4, <2>1, <3>1
  <2>2. CASE fault # "data"
    <3>1. t.ok = TRUE /\ ~(want /\ fault \in {"extend", "l2_entry"}) =>
             /\ img' = [s1 EXCEPT !.data[off] = [x \in Sectors |-> IF x \in S THEN v ELSE @[x]],
                                  !.cc.off = 0]
             /\ Expect(c, S, v)
      BY <2>2 DEF qcow_write, NoFault
    <3> QED BY <1>0, <3>1 DEF Store
  <2> QED BY <2>1, <2>2
<1>8. s1 = IF e.off = 0 \/ e.compressed THEN Allocate(t.s, <<i, j>>, full) ELSE t.s
  BY <1>1
<1>9. off = Entry(s1, <<i, j>>).off /\ d = [x \in Sectors |-> IF x \in S THEN v ELSE s1.data[off][x]]
  BY <1>1
<1>10. full \in BOOLEAN /\ (full <=> S = Sectors) /\ S \in SUBSET Sectors
  BY QSizes DEF Sectors
<1> HIDE DEF i, j, t, e, full, s1, off, d
<1>11. Target(t.s, i, j, full, s1)
  <2>1. t.s.eof \in Nat /\ t.s.eof < MaxUnits
    BY <1>2, <1>4, ImageFields, QSizes DEF Sound
  <2> QED BY <1>1, <1>4, <1>5, <1>8, <1>10, <2>1, TargetSound
<1>12. /\ Sound(s1) /\ off = Ref(s1, i, j).off /\ off # 0
       /\ \A m \in FirstLevel, n \in SecondLevel :
             m # i \/ n # j \/ ~full => Content(s1, m, n) = Content(img, m, n)
       /\ \A m \in FirstLevel, n \in SecondLevel :
             m # i \/ n # j => Ref(s1, m, n) = Ref(img, m, n)
  <2>1. \A m \in FirstLevel, n \in SecondLevel : Content(t.s, m, n) = Content(img, m, n)
    BY <1>4, ContentSame
  <2> QED BY <1>4, <1>9, <1>11, <2>1 DEF Target
<1>13. CASE fault = "data" /\ img' = s1 /\ Expect(c, S, Unknown)
  <2>1. Sound(img)'
    BY <1>12, <1>13
  <2>2. \A m \in FirstLevel, n \in SecondLevel :
            m # i \/ n # j => Content(img', m, n) = Content(img, m, n)
    BY <1>12, <1>13
  <2>3. \A x \in Sectors : x \notin S => Content(img', i, j)[x] = Content(img, i, j)[x]
    BY <1>1, <1>10, <1>12, <1>13
  <2>4. Expect(<<i, j>>, S, Unknown)
    BY <1>1, <1>13
  <2> DEFINE w == Unknown
  <2>5. w \in Values \cup {0, Unknown} /\ w = Unknown
    OBVIOUS
  <2> HIDE DEF w
  <2>6. Ref(img', i, j).off # 0
        /\ \A m \in FirstLevel, n \in SecondLevel : m # i \/ n # j => Ref(img', m, n) = Ref(img, m, n)
    BY <1>12, <1>13
  <2> QED BY <1>1, <1>10, <2>1, <2>2, <2>3, <2>4, <2>5, <2>6, ExpectKeeps
<1>14. CASE img' = Store(s1, off, d) /\ Expect(c, S, v)
  <2>1. off \in Units /\ s1.data \in [Units -> ClusterData] /\ s1.data[off] \in ClusterData
    BY <1>1, <1>12, RefType, ImageFields DEF Sound
  <2>2. d \in ClusterData
    BY <1>9, <2>1 DEF ClusterData
  <2>3. /\ Sound(Store(s1, off, d)) /\ Store(s1, off, d).data = [s1.data EXCEPT ![off] = d]
        /\ \A m \in FirstLevel, n \in SecondLevel : Ref(Store(s1, off, d), m, n) = Ref(s1, m, n)
    BY <1>12, <2>1, <2>2, StoreSound
  <2>4. /\ Sound(img') /\ img'.data = [s1.data EXCEPT ![off] = d]
        /\ \A m \in FirstLevel, n \in SecondLevel : Ref(img', m, n) = Ref(s1, m, n)
    BY <1>14, <2>3
  <2>5. ASSUME NEW m \in FirstLevel, NEW n \in SecondLevel, m # i \/ n # j
        PROVE  Content(img', m, n) = Content(img, m, n)
    <3>1. Ref(s1, m, n).off # 0 => Ref(s1, m, n).off # off
      BY <1>1, <1>12, <2>5 DEF Sound, Placed
    <3>2. Content(img', m, n) = Content(s1, m, n)
      <4>1. Ref(img', m, n) = Ref(s1, m, n) /\ Ref(s1, m, n).off \in Units
        BY <1>12, <2>4, RefType DEF Sound
      <4> QED BY <2>1, <2>4, <3>1, <4>1 DEF Content
    <3> QED BY <1>12, <2>5, <3>2
  <2>6. Content(img', i, j) = d
    BY <1>1, <1>12, <2>1, <2>4 DEF Content
  <2>7. \A x \in Sectors : x \notin S => Content(img', i, j)[x] = Content(img, i, j)[x]
    <3> SUFFICES ASSUME NEW x \in Sectors, x \notin S
                 PROVE  Content(img', i, j)[x] = Content(img, i, j)[x]
      OBVIOUS
    <3>1. ~full
      BY <1>10
    <3>2. Content(s1, i, j) = Content(img, i, j)
      BY <1>1, <1>12, <3>1
    <3>3. d[x] = s1.data[off][x]
      BY <1>9
    <3>4. Content(s1, i, j) = s1.data[off]
      BY <1>12 DEF Content
    <3> QED BY <2>6, <3>2, <3>3, <3>4
  <2>8. \A x \in S : Content(img', i, j)[x] = v
    BY <1>9, <1>10, <2>6
  <2>9. Expect(<<i, j>>, S, v)
    BY <1>1, <1>14
  <2>10. Ref(img', i, j).off # 0
         /\ \A m \in FirstLevel, n \in SecondLevel : m # i \/ n # j => Ref(img', m, n) = Ref(img, m, n)
    BY <1>1, <1>12, <2>4
  <2> QED BY <1>1, <1>10, <2>4, <2>5, <2>7, <2>8, <2>9, <2>10, ExpectKeeps
<1> QED BY <1>7, <1>13, <1>14

(* Opening an image empties the caches.                                      *)
LEMMA OpenSound ==
  ASSUME NEW s,
         s.dl1 \in [FirstLevel -> Units], s.tab \in [Units -> L2Table],
         s.data \in [Units -> ClusterData], s.eof \in Nat, s.eof > 0, Placed(s),
         NEW r, r = [dl1 |-> s.dl1, tab |-> s.tab, data |-> s.data, eof |-> s.eof,
                     l1 |-> s.dl1, cache |-> NoCache, cc |-> [off |-> 0, data |-> Zeros]]
  PROVE  Sound(r) /\ r.data = s.data
         /\ \A m \in FirstLevel, n \in SecondLevel : Ref(r, m, n) = Ref(s, m, n)
<1> DEFINE c == [off |-> 0, data |-> Zeros]
<1>1. NoCache \in [CacheSlots -> [off : Units, count : 0 .. CountMax, tab : L2Table]]
      /\ \A k \in CacheSlots : NoCache[k].off = 0 /\ NoCache[k].count = 0
  <2>1. 0 \in Units /\ 0 \in 0 .. CountMax /\ ZeroTable \in L2Table
    BY QSizes, QConsts DEF Units
  <2> QED BY <2>1 DEF NoCache, CacheSlots
<1>2. c \in [off : Units, data : ClusterData] /\ c.off = 0
  BY QSizes, QConsts DEF Units
<1> HIDE DEF c
<1>3. /\ r.dl1 = s.dl1 /\ r.tab = s.tab /\ r.data = s.data /\ r.eof = s.eof /\ r.l1 = s.dl1
      /\ r.cache = NoCache /\ r.cc = c
      /\ r = [dl1 |-> r.dl1, tab |-> r.tab, data |-> r.data, eof |-> r.eof, l1 |-> r.l1,
            cache |-> r.cache, cc |-> r.cc]
  BY DEF c
<1>4. r \in Image
  BY <1>1, <1>2, <1>3, ImageFields
<1>5. Placed(r) /\ \A m \in FirstLevel, n \in SecondLevel : Ref(r, m, n) = Ref(s, m, n)
  BY <1>3, PlacedSame
<1>6. Cached(r)
  BY <1>1, <1>2, <1>3, QSizes DEF Cached
<1> QED BY <1>3, <1>4, <1>5, <1>6 DEF Sound

(* Closing and opening the image keeps the invariant.                        *)
LEMMA ReopenKeepsInv ==
  ASSUME ImageInv, qcow_reopen
  PROVE  ImageInv'
<1> DEFINE r == [dl1 |-> img.dl1, tab |-> img.tab, data |-> img.data, eof |-> img.eof,
                 l1 |-> img.dl1, cache |-> NoCache, cc |-> [off |-> 0, data |-> Zeros]]
<1>1. /\ img.dl1 \in [FirstLevel -> Units] /\ img.tab \in [Units -> L2Table]
      /\ img.data \in [Units -> ClusterData] /\ img.eof \in Nat /\ img.eof > 0 /\ Placed(img)
  BY ImageFields DEF ImageInv, Sound
<1>2. img' = r
  BY DEF ImageInv, Sound, Image, qcow_reopen, Open
<1>3. Sound(r) /\ r.data = img.data
      /\ \A m \in FirstLevel, n \in SecondLevel : Ref(r, m, n) = Ref(img, m, n)
  <2>1. r = [dl1 |-> img.dl1, tab |-> img.tab, data |-> img.data, eof |-> img.eof,
             l1 |-> img.dl1, cache |-> NoCache, cc |-> [off |-> 0, data |-> Zeros]]
    OBVIOUS
  <2> HIDE DEF r
  <2> QED BY <1>1, <2>1, OpenSound
<1> HIDE DEF r
<1>4. \A m \in FirstLevel, n \in SecondLevel : Content(img', m, n) = Content(img, m, n)
  BY <1>2, <1>3, ContentSame
<1>5. expect' = expect /\ written' = written
  BY DEF qcow_reopen
<1>6. \A m \in FirstLevel, n \in SecondLevel :
         /\ Content(img, m, n)' = Content(img', m, n)
         /\ Ref(img, m, n)' = Ref(img, m, n)
  BY <1>2, <1>3 DEF Content, Ref
<1>7. Sound(img)'
  BY <1>2, <1>3
<1> QED BY <1>4, <1>5, <1>6, <1>7 DEF ImageInv

(* The first image satisfies the invariant.                                  *)
LEMMA InitImage == QcowInit => ImageInv /\ torn = FALSE
<1> SUFFICES ASSUME QcowInit PROVE ImageInv /\ torn = FALSE
  OBVIOUS
<1>1. PICK v \in Values :
        LET file == [dl1 |-> [i \in 0 .. L1Size - 1 |-> IF i = 0 THEN 1 ELSE 0],
                     tab |-> [u \in Units |-> IF u = 1
                        THEN [ZeroTable EXCEPT ![0] = [off |-> 2, compressed |-> TRUE]]
                        ELSE ZeroTable],
                     data |-> [u \in Units |-> IF u = 2 THEN [x \in Sectors |-> v] ELSE Zeros],
                     eof |-> 3, l1 |-> 0, cache |-> 0, cc |-> 0]
        IN /\ img = Open(file)
           /\ expect = [c \in Clusters |-> IF c = <<0, 0>> THEN [x \in Sectors |-> v]
                                           ELSE Zeros]
           /\ written = {<<0, 0>>}
           /\ torn = FALSE
  BY DEF QcowInit
<1> DEFINE first == [off |-> 2, compressed |-> TRUE]
           table == [ZeroTable EXCEPT ![0] = first]
           stored == [x \in Sectors |-> v]
           dl1 == [i \in 0 .. L1Size - 1 |-> IF i = 0 THEN 1 ELSE 0]
           tab == [u \in Units |-> IF u = 1 THEN table ELSE ZeroTable]
           data == [u \in Units |-> IF u = 2 THEN stored ELSE Zeros]
           file == [dl1 |-> dl1, tab |-> tab, data |-> data,
                    eof |-> 3, l1 |-> 0, cache |-> 0, cc |-> 0]
<1>2. img = Open(file)
  BY <1>1
<1>3. expect = [c \in Clusters |-> IF c = <<0, 0>> THEN stored ELSE Zeros]
  BY <1>1
<1>4. 1 \in Units /\ 2 \in Units /\ 0 \in Units /\ 0 \in FirstLevel /\ 0 \in SecondLevel
  BY QSizes DEF Units, FirstLevel, SecondLevel
<1>5. /\ first \in [off : Units, compressed : BOOLEAN] /\ first.off = 2
      /\ table \in L2Table /\ table[0] = first
      /\ \A j \in SecondLevel : j # 0 => table[j] = NoRef
  <2>1. first \in [off : Units, compressed : BOOLEAN] /\ first.off = 2
    BY <1>4
  <2> HIDE DEF first
  <2> QED BY <1>4, <2>1, QConsts DEF L2Table
<1>6. stored \in ClusterData
  BY DEF ClusterData
<1>7. /\ dl1 \in [FirstLevel -> Units] /\ dl1[0] = 1
      /\ \A i \in FirstLevel : i # 0 => dl1[i] = 0
  BY <1>4 DEF FirstLevel
<1> HIDE DEF first, table, stored
<1>8. tab \in [Units -> L2Table] /\ tab[1] = table
  BY <1>4, <1>5, QConsts
<1>9. /\ data \in [Units -> ClusterData] /\ data[2] = stored
  BY <1>4, <1>6, QConsts
<1> HIDE DEF dl1, tab, data
<1>10. /\ file.dl1 = dl1 /\ file.tab = tab /\ file.data = data /\ file.eof = 3
       /\ img = [dl1 |-> file.dl1, tab |-> file.tab, data |-> file.data, eof |-> file.eof,
                 l1 |-> file.dl1, cache |-> NoCache, cc |-> [off |-> 0, data |-> Zeros]]
  BY <1>2 DEF Open
<1> HIDE DEF file
<1>11. /\ Ref(file, 0, 0) = first
       /\ \A i \in FirstLevel, j \in SecondLevel : i # 0 \/ j # 0 => Ref(file, i, j) = NoRef
  BY <1>5, <1>7, <1>8, <1>10 DEF Ref
<1>12. Placed(file)
  <2>1. \A i, k \in FirstLevel, j, l \in SecondLevel :
          (i # k \/ j # l) /\ Ref(file, i, j).off # 0 => Ref(file, i, j).off # Ref(file, k, l).off
    BY <1>5, <1>11, QConsts
  <2>2. \A i, k \in FirstLevel, j \in SecondLevel :
          Ref(file, i, j).off # 0 => Ref(file, i, j).off # file.dl1[k]
    BY <1>5, <1>7, <1>10, <1>11, QConsts
  <2>3. /\ \A i, k \in FirstLevel : i # k /\ file.dl1[i] # 0 => file.dl1[i] # file.dl1[k]
        /\ \A i \in FirstLevel : file.dl1[i] < file.eof
    BY <1>7, <1>10
  <2>4. /\ \A i \in FirstLevel, j \in SecondLevel : Ref(file, i, j).off < file.eof
        /\ \A i \in FirstLevel, j \in SecondLevel :
              Ref(file, i, j).compressed => Ref(file, i, j).off # 0
    BY <1>5, <1>10, <1>11, QConsts
  <2> QED BY <2>1, <2>2, <2>3, <2>4 DEF Placed
<1>13. /\ Sound(img) /\ img.data = data
       /\ \A m \in FirstLevel, n \in SecondLevel : Ref(img, m, n) = Ref(file, m, n)
  BY <1>7, <1>8, <1>9, <1>10, <1>12, OpenSound
<1>14. \A m \in FirstLevel, n \in SecondLevel :
          Content(img, m, n) = IF m = 0 /\ n = 0 THEN stored ELSE Zeros
  BY <1>5, <1>9, <1>11, <1>13, QConsts DEF Content
<1>15. \A m \in FirstLevel, n \in SecondLevel :
          expect[<<m, n>>] = IF m = 0 /\ n = 0 THEN stored ELSE Zeros
  BY <1>3 DEF Clusters, FirstLevel, SecondLevel
<1>16. expect \in [Clusters -> [Sectors -> Values \cup {0, Unknown}]]
  <2>1. stored \in [Sectors -> Values \cup {0, Unknown}]
        /\ Zeros \in [Sectors -> Values \cup {0, Unknown}]
    BY DEF stored, Zeros
  <2> QED BY <1>3, <2>1
<1>17. written \subseteq Clusters
       /\ \A m \in FirstLevel, n \in SecondLevel : <<m, n>> \in written <=> Ref(img, m, n).off # 0
  <2>1. written = {<<0, 0>>} /\ <<0, 0>> \in Clusters
    BY <1>1, <1>4 DEF Clusters, FirstLevel, SecondLevel
  <2>2. \A m, n : <<m, n>> \in written <=> m = 0 /\ n = 0
    BY <2>1
  <2> QED BY <1>5, <1>11, <1>13, <2>1, <2>2, QConsts
<1>18. torn = FALSE
  BY <1>1
<1>19. \A m \in FirstLevel, n \in SecondLevel : \A x \in Sectors :
         expect[<<m, n>>][x] # Unknown => Content(img, m, n)[x] = expect[<<m, n>>][x]
  BY <1>14, <1>15
<1> QED BY <1>13, <1>16, <1>17, <1>18, <1>19 DEF ImageInv

(* The inductive invariant says what the property says.                      *)
LEMMA InvIsSound == torn \in BOOLEAN /\ (~torn => ImageInv) => ImageSound
<1> SUFFICES ASSUME ImageInv, torn \in BOOLEAN
             PROVE  QcowTypeOK /\ QcowDisjoint /\ QcowCoherent /\ QcowReadsBack
  BY DEF ImageSound
<1>1. img \in Image /\ Placed(img) /\ Cached(img)
  BY DEF ImageInv, Sound
<1>2. QcowTypeOK
  BY <1>1 DEF ImageInv, QcowTypeOK
<1>3. \A r \in Refs : \E i \in FirstLevel : /\ r[1] = img.dl1[i] /\ img.dl1[i] # 0
                                            /\ r[2] \in SecondLevel /\ r = <<r[1], r[2]>>
                                            /\ img.tab[r[1]][r[2]] = Ref(img, i, r[2])
                                            /\ Ref(img, i, r[2]).off # 0
  BY DEF Refs, Tables, FirstLevel, SecondLevel, Ref
<1>4. \A u \in Tables : \E i \in FirstLevel : u = img.dl1[i] /\ u # 0
  BY DEF Tables, FirstLevel
<1>5. QcowDisjoint
  <2>1. \A i, j \in 0 .. L1Size - 1 : i # j /\ img.dl1[i] # 0 => img.dl1[i] # img.dl1[j]
    BY <1>1 DEF Placed, FirstLevel
  <2>2. ASSUME NEW r \in Refs, NEW q \in Refs, r # q
        PROVE  img.tab[r[1]][r[2]].off # img.tab[q[1]][q[2]].off
    <3>1. PICK i \in FirstLevel : /\ r[1] = img.dl1[i] /\ img.dl1[i] # 0
                                  /\ r[2] \in SecondLevel /\ r = <<r[1], r[2]>>
                                  /\ img.tab[r[1]][r[2]] = Ref(img, i, r[2])
                                  /\ Ref(img, i, r[2]).off # 0
      BY <1>3
    <3>2. PICK k \in FirstLevel : /\ q[1] = img.dl1[k] /\ img.dl1[k] # 0
                                  /\ q[2] \in SecondLevel /\ q = <<q[1], q[2]>>
                                  /\ img.tab[q[1]][q[2]] = Ref(img, k, q[2])
                                  /\ Ref(img, k, q[2]).off # 0
      BY <1>3
    <3>3. i # k \/ r[2] # q[2]
      BY <2>2, <3>1, <3>2
    <3> QED BY <1>1, <3>1, <3>2, <3>3 DEF Placed
  <2>3. ASSUME NEW r \in Refs
        PROVE  img.tab[r[1]][r[2]].off \notin Tables /\ img.tab[r[1]][r[2]].off < img.eof
    BY <1>1, <1>3, <1>4 DEF Placed
  <2>4. \A u \in Tables : u < img.eof
    BY <1>1, <1>4 DEF Placed
  <2> QED BY <2>1, <2>2, <2>3, <2>4 DEF QcowDisjoint
<1>6. QcowCoherent
  BY <1>1 DEF Cached, QcowCoherent, CacheSlots
<1>7. ASSUME NEW c \in Clusters, NEW x \in Sectors
      PROVE  ReadSector(c, x) = IF c \in written THEN Content(img, c[1], c[2])[x] ELSE Base
  <2> DEFINE i == c[1]
             j == c[2]
             off == img.l1[i]
             t == IF off # 0 /\ SlotOf(img, off) # {} THEN img.cache[Min(SlotOf(img, off))].tab
                  ELSE img.tab[off]
             e == t[j]
  <2>1. i \in FirstLevel /\ j \in SecondLevel
    BY ClusterParts
  <2>2. ReadSector(c, x) = IF off = 0 \/ e.off = 0 THEN Base
                           ELSE IF e.compressed /\ img.cc.off = e.off THEN img.cc.data[x]
                           ELSE img.data[e.off][x]
    BY DEF ReadSector
  <2>3. off = img.dl1[i] /\ off \in Units
    BY <1>1, <2>1, RefType DEF Cached
  <2>4. off # 0 => t = img.tab[off]
    BY <2>3, OneSlot DEF ImageInv
  <2>5. off # 0 => e = Ref(img, i, j)
    BY <2>3, <2>4 DEF Ref
  <2>6. off = 0 => Ref(img, i, j).off = 0
    BY <2>3, QConsts DEF Ref
  <2>7. c \in written <=> Ref(img, i, j).off # 0
    BY <2>1, ClusterParts DEF ImageInv
  <2>8. img.cc.off # 0 => img.cc.data = img.data[img.cc.off]
    BY <1>1 DEF Cached
  <2> HIDE DEF e, t, off
  <2> QED BY <2>2, <2>5, <2>6, <2>7, <2>8 DEF Content
<1>8. QcowReadsBack
  <2> SUFFICES ASSUME NEW c \in Clusters, NEW x \in Sectors, expect[c][x] # Unknown
               PROVE  ReadSector(c, x) = IF c \in written THEN expect[c][x] ELSE Base
    BY DEF QcowReadsBack
  <2>1. c[1] \in FirstLevel /\ c[2] \in SecondLevel /\ c = <<c[1], c[2]>>
    BY ClusterParts
  <2>2. expect[<<c[1], c[2]>>][x] # Unknown
    BY <2>1
  <2>3. Content(img, c[1], c[2])[x] = expect[<<c[1], c[2]>>][x]
    BY <2>1, <2>2 DEF ImageInv
  <2> QED BY <1>7, <2>1, <2>3
<1> QED BY <1>2, <1>5, <1>6, <1>8

(* What is proved of every image, whatever its tables, its cache and the     *)
(* order of reads, writes and reopenings, and whichever file operations may  *)
(* fail: until one on the tables does, nothing of the file is handed out     *)
(* twice, the caches agree with it and a sector reads what was last written. *)
THEOREM ImageIsSound == QcowSpec => []ImageSound
<1> DEFINE Inv == torn \in BOOLEAN /\ (~torn => ImageInv)
<1>1. QcowInit => Inv
  BY InitImage
<1>2. Inv /\ [QcowNext]_qcowVars => Inv'
  <2> SUFFICES ASSUME Inv, [QcowNext]_qcowVars PROVE Inv'
    OBVIOUS
  <2>1. ASSUME ~torn, NEW fault \in QcowFaults \cup {NoFault}, NEW c \in Clusters, qcow_read(c, fault)
        PROVE  Inv'
    <3>1. torn' \in BOOLEAN
      BY <2>1 DEF qcow_read
    <3> QED BY <2>1, <3>1, ReadKeepsInv
  <2>2. ASSUME ~torn, NEW fault \in QcowFaults \cup {NoFault}, NEW c \in Clusters, NEW v \in Values,
               NEW S \in {Sectors, {0}}, qcow_write(c, S, v, fault)
        PROVE  Inv'
    <3>1. torn' \in BOOLEAN
      BY <2>2 DEF qcow_write
    <3> QED BY <2>2, <3>1, WriteKeepsInv
  <2>3. CASE ~torn /\ qcow_reopen
    <3>1. torn' = torn
      BY <2>3 DEF qcow_reopen
    <3> QED BY <2>3, <3>1, ReopenKeepsInv
  <2>4. CASE UNCHANGED qcowVars
    <3>1. img' = img /\ expect' = expect /\ written' = written /\ torn' = torn
      BY <2>4 DEF qcowVars
    <3>2. ImageInv => ImageInv'
      BY <3>1 DEF ImageInv
    <3> QED BY <3>1, <3>2
  <2> QED BY <2>1, <2>2, <2>3, <2>4 DEF QcowNext
<1>3. Inv => ImageSound
  BY InvIsSound
<1> QED BY <1>1, <1>2, <1>3, PTL DEF QcowSpec
=============================================================================
