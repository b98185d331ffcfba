-------------------------------- MODULE ABlk --------------------------------
(***************************************************************************)
(* The asynchronous disk channel: a ring of descriptors in guest memory, an *)
(* I/O thread that walks it, a pipe that wakes the thread, and the OSI      *)
(* calls with which the guest starts the engine and acknowledges its        *)
(* interrupt.                                                              *)
(*                                                                         *)
(* The thread and the main thread (which makes the guest's calls) share     *)
(* ablk.active, ablk.running, req_head, n_requests and the ring without a   *)
(* lock.  A step of the thread below is one access to that shared state.    *)
(* The guest's driver is external: it is the client the channel's header    *)
(* and comments describe, which rings the bell only when it was told that   *)
(* the engine is not active.                                               *)
(*                                                                         *)
(* Sources: drivers/disk/ablk.c, drivers/disk/include/ablk_sh.h.            *)
(***************************************************************************)
EXTENDS Integers, FiniteSets

CONSTANTS
    RingSize,       \* ring_mask + 1
    MaxVec,         \* MAX_IOVEC
    MaxReq,         \* bound: descriptors queued after the first start,
                    \* divided by the number of starts after later ones
    MaxStarts       \* bound: starts of the channel

ASSUME RingAssumption == RingSize \in Nat /\ RingSize > 1
ASSUME VecAssumption == MaxVec \in Nat \ {0}
ASSUME BoundAssumption == MaxReq \in Nat /\ MaxStarts \in Nat

VARIABLES
    ring,           \* ablk.ring: flags, ABLK_RAISE_IRQ and proceed per slot
    running, active, reqHead, nRequests,    \* fields of ablk
    pipe,           \* bytes in ablk.ctrl_pipe
    line,           \* the channel's interrupt line
    io,             \* locals of the I/O thread: pc, n, left, proceed
    drv             \* the guest's driver (external)

blkVars == <<ring, running, active, reqHead, nRequests, pipe,
             line, io, drv>>

Slots == 0 .. RingSize - 1
(* Flags of a descriptor: 0, a control request, a read or write, a buffer,   *)
(* and one the engine refuses (unit, sector, buffer or command is bad).      *)
Kinds == {"ctl", "rw", "sg", "bad"}
Slot == [flags : Kinds \cup {"free"}, irq : BOOLEAN, proceed : {0, 1}]
EmptyRing == [s \in Slots |-> [flags |-> "free", irq |-> FALSE, proceed |-> 0]]
NEXT(ind) == (ind + 1) % RingSize

Working == {"load", "io", "ioirq", "adv", "count", "stall", "err"}

IoLocals == [pc : Working \cup {"pipe", "hi"}, n : 0 .. MaxVec,
             left : 0 .. MaxVec, proceed : {0, 1}]
Client == [pc : {"run", "ack"}, tail : Slots, queued : Nat, count : Nat,
           active : {0, 1}, up : BOOLEAN, starts : 0 .. MaxStarts]

BlkTypeOK ==
    /\ ring \in [Slots -> Slot]
    /\ running \in {0, 1} /\ active \in {0, 1}
    /\ reqHead \in Slots /\ nRequests \in Nat
    /\ pipe \in Nat /\ line \in {0, 1}
    /\ io \in IoLocals /\ drv \in Client

BlkInit ==
    /\ ring = EmptyRing
    /\ running = 0 /\ active = 0 /\ reqHead = 0 /\ nRequests = 0
    /\ pipe = 0 /\ line = 0
    /\ io = [pc |-> "pipe", n |-> 0, left |-> 0, proceed |-> 0]
    /\ drv = [pc |-> "run", tail |-> 0, queued |-> 0, count |-> 0, active |-> 0,
              up |-> FALSE, starts |-> 0]

-----------------------------------------------------------------------------
(* io_thread(): a byte in the pipe starts do_work().                        *)
ReadPipe ==
    /\ io.pc = "pipe" /\ pipe > 0
    /\ pipe' = pipe - 1
    /\ io' = [io EXCEPT !.pc = "load", !.n = 0, !.left = 0]
    /\ UNCHANGED <<ring, running, active, reqHead, nRequests, line, drv>>

(* Top of the loop: proceed is read once, and decides whether the collected  *)
(* buffers are transferred now, the engine stalls or the head advances.      *)
Load ==
    /\ io.pc = "load"
    /\ LET p == ring[reqHead].proceed
           exec == /\ io.n > 0
                   /\ p = 0 \/ io.n = MaxVec \/ ring[NEXT(reqHead)].flags # "sg"
       IN io' = [io EXCEPT !.proceed = p,
                           !.pc = IF exec THEN "io"
                                  ELSE IF p = 0 THEN "stall" ELSE "adv"]
    /\ UNCHANGED <<ring, running, active, reqHead, nRequests, pipe, line, drv>>

(* iofunc() moved a part of the data; it is called again with the same       *)
(* vector, whose first elements are now empty.  (EINTR changes nothing.)     *)
IoShort ==
    /\ io.pc = "io"
    /\ \E k \in 1 .. io.left - 1 : io' = [io EXCEPT !.left = k]
    /\ UNCHANGED <<ring, running, active, reqHead, nRequests, pipe, line, drv>>

IoDone ==
    /\ io.pc = "io"
    /\ nRequests' = nRequests + io.n
    /\ io' = [io EXCEPT !.pc = "ioirq", !.n = 0, !.left = 0]
    /\ UNCHANGED <<ring, running, active, reqHead, pipe, line, drv>>

IoError ==
    /\ io.pc = "io"
    /\ io' = [io EXCEPT !.pc = "err"]
    /\ UNCHANGED <<ring, running, active, reqHead, nRequests, pipe, line, drv>>

IoIrq ==
    /\ io.pc = "ioirq"
    /\ line' = IF ring[reqHead].irq /\ io.proceed = 1 THEN 1 ELSE line
    /\ io' = [io EXCEPT !.pc = IF io.proceed = 0 THEN "stall" ELSE "adv"]
    /\ UNCHANGED <<ring, running, active, reqHead, nRequests, pipe, drv>>

(* The old head slot is released and the next descriptor is begun: a buffer  *)
(* joins the vector; a request selects device and function (and a control    *)
(* request is executed here, its interrupt raised before it is counted).     *)
Begin(r) ==
    IF r.flags = "sg"
    THEN io' = [io EXCEPT !.pc = "load", !.n = @ + 1, !.left = @ + 1] /\ UNCHANGED line
    ELSE /\ io' = [io EXCEPT !.pc = IF r.flags \in {"rw", "ctl"} THEN "count" ELSE "err"]
         /\ line' = IF r.flags = "ctl" /\ r.irq THEN 1 ELSE line

Advance ==
    /\ io.pc = "adv"
    /\ ring' = [ring EXCEPT ![reqHead] = [flags |-> "free", irq |-> FALSE, proceed |-> 0]]
    /\ reqHead' = NEXT(reqHead)
    /\ Begin(ring[NEXT(reqHead)])
    /\ UNCHANGED <<running, active, nRequests, pipe, drv>>

Count ==
    /\ io.pc = "count"
    /\ nRequests' = nRequests + 1
    /\ io' = [io EXCEPT !.pc = "load"]
    /\ UNCHANGED <<ring, running, active, reqHead, pipe, line, drv>>

(* Engine stall, or engine error: active is cleared before the interrupt.    *)
Stall ==
    /\ io.pc \in {"stall", "err"}
    /\ active' = 0
    /\ running' = IF io.pc = "err" THEN 0 ELSE running
    /\ io' = [io EXCEPT !.pc = "hi", !.n = 0, !.left = 0]
    /\ UNCHANGED <<ring, reqHead, nRequests, pipe, line, drv>>

(* Mutant: the stall interrupt is left out when the last request asked for one. *)
RaiseIrqUnlessIdle ==
    /\ io.pc = "hi"
    /\ line' = IF ring[reqHead].irq THEN line ELSE 1
    /\ io' = [io EXCEPT !.pc = "pipe"]
    /\ UNCHANGED <<ring, running, active, reqHead, nRequests, pipe, drv>>

RaiseIrq ==
    /\ io.pc = "hi"
    /\ line' = 1
    /\ io' = [io EXCEPT !.pc = "pipe"]
    /\ UNCHANGED <<ring, running, active, reqHead, nRequests, pipe, drv>>

-----------------------------------------------------------------------------
(* The guest's driver fills the slot after its tail, then sets proceed.      *)
Submit(k, irq) ==
    /\ drv.pc = "run" /\ drv.up /\ drv.queued * drv.starts < MaxReq
    /\ LET t == NEXT(drv.tail)
       IN /\ ring[t].flags = "free"
          /\ ring' = [ring EXCEPT ![t] = [flags |-> k, irq |-> irq, proceed |-> 0],
                                  ![drv.tail].proceed = 1]
          /\ drv' = [drv EXCEPT !.tail = t, !.queued = @ + 1]
    /\ UNCHANGED <<running, active, reqHead, nRequests, pipe,
                   line, io>>

(* osip_ablk_kick().                                                         *)
KickEngine ==
    IF active = 1 THEN UNCHANGED <<active, pipe>> ELSE active' = 1 /\ pipe' = pipe + 1

osip_ablk_kick ==
    /\ drv.pc = "run" /\ drv.up
    /\ KickEngine
    /\ drv' = [drv EXCEPT !.active = 1]
    /\ UNCHANGED <<ring, running, reqHead, nRequests, line, io>>

(* osip_ablk_irq_ack(): the line is lowered and an idle engine with work is  *)
(* restarted; then the state is reported, the thread running meanwhile.      *)
Restartable == active = 0 /\ running = 1 /\ ring[reqHead].proceed = 1

(* Mutant: the engine is left to the client. *)
AckNoRestart ==
    /\ drv.pc = "run" /\ line = 1
    /\ line' = 0
    /\ drv' = [drv EXCEPT !.pc = "ack"]
    /\ UNCHANGED <<ring, running, active, reqHead, nRequests, pipe, io>>

AckTest ==
    /\ drv.pc = "run" /\ line = 1
    /\ line' = 0
    /\ IF Restartable THEN KickEngine ELSE UNCHANGED <<active, pipe>>
    /\ drv' = [drv EXCEPT !.pc = "ack"]
    /\ UNCHANGED <<ring, running, reqHead, nRequests, io>>

AckReply ==
    /\ drv.pc = "ack"
    /\ drv' = [drv EXCEPT !.pc = "run", !.count = nRequests, !.active = active]
    /\ UNCHANGED <<ring, running, active, reqHead, nRequests, pipe, line, io>>

(* osip_ablk_cntrl( kABlkStop ) and ( kABlkReset ).  The code has no answer  *)
(* to a stop of a working engine; the driver makes it when it was told that  *)
(* the engine is idle.                                                       *)
MayHalt == drv.pc = "run" /\ drv.up /\ drv.active = 0

osip_ablk_cntrl_stop(reset) ==
    /\ MayHalt
    /\ running' = 0 /\ line' = 0
    /\ nRequests' = IF reset THEN 0 ELSE nRequests
    /\ drv' = [drv EXCEPT !.up = FALSE]
    /\ UNCHANGED <<ring, active, reqHead, pipe, io>>

(* osip_ablk_ring_setup() and osip_ablk_cntrl( kABlkStart ): the driver has  *)
(* cleared the ring; element 0 counts as busy.                               *)
osip_ablk_cntrl_start ==
    /\ drv.pc = "run" /\ ~drv.up /\ running = 0 /\ drv.starts < MaxStarts
    /\ ring' = [EmptyRing EXCEPT ![0].flags = "ctl"]
    /\ reqHead' = 0 /\ nRequests' = 0 /\ running' = 1
    /\ drv' = [drv EXCEPT !.up = TRUE, !.tail = 0, !.queued = 0, !.count = 0,
                          !.active = 0, !.starts = @ + 1]
    /\ UNCHANGED <<active, pipe, line, io>>

(* osip_ablk_cntrl( kABlkGetEvents ), which lowers the line of a stopped     *)
(* channel, and ablk_post_event(), from a timer of the main thread, which    *)
(* raises it; what the events say is left out.                               *)
osip_ablk_cntrl_events ==
    /\ drv.pc = "run" /\ drv.up
    /\ line' = IF running = 0 THEN 0 ELSE line
    /\ UNCHANGED <<ring, running, active, reqHead, nRequests, pipe, io, drv>>

ablk_post_event ==
    /\ drv.pc = "run"
    /\ line' = 1
    /\ UNCHANGED <<ring, running, active, reqHead, nRequests, pipe, io, drv>>

-----------------------------------------------------------------------------
IoStep == ReadPipe \/ Load \/ IoDone \/ IoIrq \/ Advance \/ Count \/ Stall \/ RaiseIrq
Ack == AckTest \/ AckReply
(* The client's rule: told that the engine is idle, it kicks if it has work. *)
NeedsKick == drv.active = 0 /\ drv.queued > drv.count

BlkNext ==
    \/ IoStep \/ IoShort \/ IoError
    \/ \E k \in Kinds, irq \in BOOLEAN : (k = "bad" => ~irq) /\ Submit(k, irq)
    \/ osip_ablk_kick \/ Ack
    \/ \E reset \in BOOLEAN : osip_ablk_cntrl_stop(reset)
    \/ osip_ablk_cntrl_start \/ osip_ablk_cntrl_events \/ ablk_post_event

(* The thread is scheduled and its I/O ends; the guest acknowledges its      *)
(* interrupt and follows its rule.                                           *)
BlkFairness ==
    /\ WF_blkVars(IoStep) /\ WF_blkVars(Ack)
    /\ WF_blkVars(NeedsKick /\ osip_ablk_kick)

BlkSpec == BlkInit /\ [][BlkNext]_blkVars /\ BlkFairness

-----------------------------------------------------------------------------
(* Clearing active, the kick's test of it and the byte in the pipe are never *)
(* out of step: active is set exactly while one byte is on its way or the    *)
(* thread works, so that the thread is woken once and no wakeup is lost.     *)
EngineToken ==
    /\ active = 1 <=> pipe > 0 \/ io.pc \in Working
    /\ pipe + (IF io.pc \in Working THEN 1 ELSE 0) <= 1

(* Each descriptor is counted once although buffers are counted only when    *)
(* their transfer ends, perhaps in several calls: in a running channel the   *)
(* head is as far as the count, the buffers in hand and the request begun.   *)
HeadCount ==
    running = 1 /\ io.pc # "err" =>
        reqHead = (nRequests + io.n + (IF io.pc = "count" THEN 1 ELSE 0)) % RingSize

(* The ring's two ends agree: proceed is set from the head up to, and not    *)
(* at, the driver's tail, and a slot is released when the head has passed it.*)
RingShape ==
    drv.up /\ io.pc # "err" /\ running = 1 =>
        LET used == (drv.tail - reqHead) % RingSize
        IN \A s \in Slots :
              LET d == (s - reqHead) % RingSize
              IN /\ ring[s].proceed = 1 <=> d < used
                 /\ ring[s].flags # "free" <=> d <= used

AtRest == io.pc = "pipe" /\ pipe = 0 /\ line = 0 /\ drv.pc = "run"

(* "The client only needs to call kick if we return 0 in active": whatever   *)
(* the order of stall, kick and acknowledgement, when all is quiet either    *)
(* the ring has no work or the client was told that the engine is idle.      *)
NoStrandedWork == AtRest /\ running = 1 /\ ring[reqHead].proceed = 1 => drv.active = 0

(* Every completion is followed by an interrupt: when a running channel is   *)
(* quiet the client knows the count, with or without ABLK_RAISE_IRQ.         *)
NoUntoldCompletion == AtRest /\ running = 1 => drv.count = nRequests

Channel == INSTANCE BlkChannel WITH
    up <- running, queued <- drv.queued, done <- nRequests, told <- drv.count

(* The channel implements its abstract specification, liveness included.     *)
ImplementsChannel == Channel!Spec

(* The channel is safe: the I/O thread is woken once, each descriptor is     *)
(* counted once, both ends of the ring agree, and neither a request nor its  *)
(* completion is left lying when all is quiet.                               *)
ChannelSafe ==
    /\ BlkTypeOK /\ EngineToken
    /\ HeadCount /\ RingShape
    /\ NoStrandedWork /\ NoUntoldCompletion
=============================================================================
