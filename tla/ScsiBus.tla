------------------------------ MODULE ScsiBus ------------------------------
(* The SCSI bus of oldworld machines (drivers/oldworld/scsi-bus.c) between a *)
(* controller chip (mesh.c, the initiator) and a disk (scsi-unit.c, the      *)
(* target).                                                                  *)
(*                                                                           *)
(* The engine is a state machine that any thread may run: the main thread    *)
(* without blocking, and threads created for what may block.  It holds the   *)
(* bus lock except in callbacks of initiator and target (CALL_USER), during  *)
(* which engine_lock = identifier keeps other threads out of the engine.     *)
(* bpc[t] is a thread's place: "loop" with the lock held at the top of       *)
(* scsi_engine(), "call" in a callback, "ret" after it and before LOCK,      *)
(* "start" a new thread, "issue" the main thread before scsi_xfer_status().  *)
(* The initiator's registers are reduced to `ready', the bytes that the      *)
(* command the guest has issued for the current phase is still to move.      *)
(*                                                                           *)
(* The engine is not proof against two things: an arbitration while the      *)
(* thread that frees the bus is still in its callback (that thread then      *)
(* clears the new initiator), and a thread that comes back from a callback   *)
(* while scsi_reset() is in its own, before the identifier has changed (that *)
(* thread goes on with a bus that is being cleared).  From then on the       *)
(* program may use a unit that is NULL; `raced' records it and the model     *)
(* stops there.                                                              *)
EXTENDS Integers, FiniteSets, FiniteSetsExt

CONSTANTS
    BusThreads,     \* threads of the pool
    BlockSize,      \* pb.block_size of the sender
    BusCommands,    \* commands the guest gives to the disk
    XferCounts,     \* transfer counts of the guest's commands to the chip
    MaxBusEvents    \* bound: selections, settings of ATN and resets together

(* A command: of 6 bytes (len 1) or longer (2), the length of its data and   *)
(* whether the disk sends them.                                              *)
Commands == [len : {1, 2}, size : Nat, in : BOOLEAN]

ASSUME BusAssumption ==
    /\ BlockSize \in Nat \ {0} /\ BusCommands \subseteq Commands
    /\ XferCounts \subseteq Nat \ {0}
    /\ MaxBusEvents \in Nat
    /\ "main" \notin BusThreads /\ "free" \notin BusThreads

VARIABLES
    busLock,      \* owner of bus->lock_mutex, or "free"
    identifier, engine_lock,
    bstate, sphase, xfer,        \* bus->state, sphase; xfer: "info" or "data"
    saved,        \* save_state, save_sphase, save_xfer
    info, data,   \* info_xfer, data_xfer
    atn, mesq,    \* mesq: number of messages in mes_queue
    initiator, target,           \* bus->initiator # NULL, bus->target # NULL
    dreq,         \* bus->data
    available,    \* data_available of the initiator; the disk's is always 1
    bpc,          \* where each thread is
    ready,        \* cur_xfer_count of the chip's command, 0 if it has none
    scmd, msg,    \* the guest's command, and its message out
    trace,        \* of this command: bytes sent, received, messages received
    broken,       \* some command was aborted or the bus was reset
    events,       \* selections, settings of ATN and resets so far
    raced         \* history: one of the two races has happened

busVars == <<busLock, identifier, engine_lock, bstate, sphase, xfer, saved, info,
             data, atn, mesq, initiator, target, dreq, available, bpc, ready, scmd,
             msg, trace, broken, events, raced>>
guestSide == <<ready, scmd, broken, events>>
units == <<initiator, target>>
pending == <<atn, mesq, dreq>>
place == <<busLock, engine_lock, bpc>>

BusActors == BusThreads \cup {"main"}
MesPhases == {"mes_in", "mes_out"}
DataPhases == {"data_in", "data_out"}
Phases == MesPhases \cup DataPhases
          \cup {"bus_free", "arbitration", "selection", "command", "status"}
States == {"idling", "advancing", "transfering", "mes_out_ending", "mes_handling",
           "mes_in_ending", "cmd_preparing", "cmd_read_ending", "cmd_handling",
           "data_preparing", "data_switching", "status_preparing", "bus_freeing"}

(* Messages the guest sends: their length, and whether the target's handler  *)
(* keeps the bus: it is freed by an abort, and by an extended message (len   *)
(* 3), whose length is in its second byte and which is rejected.             *)
Messages == {[len |-> 1, keep |-> TRUE], [len |-> 1, keep |-> FALSE],
             [len |-> 3, keep |-> FALSE]}

Xfer(u, n, d) == [unit |-> u, req |-> n, res |-> 0, done |-> d]
XferOf(x) == IF x = "info" THEN info ELSE data
DataAvailable(x) == XferOf(x).unit = "target" \/ available

ERR_MAY_BLOCK == -1
ERR_NO_DATA == -2

At(a) == [at |-> a, call |-> "", arg |-> <<"", "">>, id |-> 0, res |-> 0]

BusInit ==
    /\ busLock = "free" /\ identifier = 1 /\ engine_lock = 0
    /\ bstate = "idling" /\ sphase = "bus_free" /\ xfer = "data"
    /\ saved = [state |-> "idling", sphase |-> "bus_free", xfer |-> "data"]
    /\ info = Xfer("initiator", 0, "idling") /\ data = Xfer("initiator", 0, "idling")
    /\ atn = FALSE /\ mesq = 0 /\ initiator = FALSE /\ target = FALSE
    /\ dreq = [count |-> 0, in |-> FALSE] /\ available = FALSE
    /\ bpc = [t \in BusActors |-> At("out")]
    /\ ready = 0 /\ scmd = [len |-> 1, size |-> 0, in |-> FALSE]
    /\ msg = [len |-> 1, keep |-> TRUE]
    /\ trace = [sent |-> 0, got |-> 0, told |-> 0]
    /\ broken = FALSE /\ events = 0 /\ raced = FALSE

-----------------------------------------------------------------------------
(* Ways a thread goes on; CALL_USER_END gives the engine back.               *)
Engine(t) == busLock' = t /\ bpc' = [bpc EXCEPT ![t] = At("loop")]
Leave(t) == busLock' = "free" /\ bpc' = [bpc EXCEPT ![t] = At("out")]
Unlocked(t) == IF bpc[t].at = "ret" THEN engine_lock - 1 ELSE engine_lock

(* CALL_USER: c is the callback; k says what is done after it, and for a     *)
(* change of phase also the old one.  Callbacks that only compute something  *)
(* are past their effect at once.                                            *)
CallUser(t, c, k, old) ==
    /\ engine_lock' = identifier
    /\ busLock' = "free"
    /\ bpc' = [bpc EXCEPT ![t] =
                  [at |-> IF c \in {"next", "mes"} THEN "ret" ELSE "call",
                   call |-> c, arg |-> <<k, old>>, id |-> identifier, res |-> 0]]

(* k: "loop" and "advance" go on with the engine; if the bus was reset       *)
(* meanwhile "advance" leaves it.                                            *)
ChangeSphase(t, new, k) ==
    /\ sphase' = new
    /\ available' = (available \/ initiator)
    /\ IF sphase = new THEN Engine(t) /\ engine_lock' = Unlocked(t)
       ELSE CallUser(t, "sphase", k, sphase)

StartMesOut(t, k) ==
    /\ info' = Xfer("initiator", 1, "mes_out_ending")
    /\ xfer' = "info" /\ bstate' = "transfering"
    /\ msg' \in Messages
    /\ ChangeSphase(t, "mes_out", k)
    /\ UNCHANGED mesq

StartMesIn(t, k) ==
    /\ mesq' = mesq - 1
    /\ info' = Xfer("initiator", 1, "mes_in_ending")
    /\ xfer' = "info" /\ bstate' = "transfering"
    /\ ChangeSphase(t, "mes_in", k)
    /\ UNCHANGED msg

(* A message phase is due; what it interrupts is saved, unless that is       *)
(* itself a message.                                                         *)
MesDue == atn \/ mesq > 0

SavePhase ==
    saved' = IF sphase \in MesPhases THEN saved
             ELSE [state |-> bstate, sphase |-> sphase, xfer |-> xfer]

ConditionalMesPhase(t, k) ==
    /\ MesDue
    /\ SavePhase
    /\ IF atn THEN StartMesOut(t, k) ELSE StartMesIn(t, k)
    /\ UNCHANGED <<data, atn, dreq>>

GoNextPhase(t, k) ==
    \/ ConditionalMesPhase(t, k)
    \/ /\ ~MesDue
       /\ CallUser(t, "next", k, sphase)
       /\ UNCHANGED <<bstate, sphase, xfer, saved, info, data, pending, msg, available>>

BackToSaved(t, k) ==
    /\ bstate' = saved.state /\ xfer' = saved.xfer
    /\ ChangeSphase(t, saved.sphase, k)

RestoreSavePhase(t, k) ==
    \/ ConditionalMesPhase(t, k)
    \/ /\ ~MesDue
       /\ BackToSaved(t, k)
       /\ UNCHANGED <<saved, info, data, pending, msg>>

-----------------------------------------------------------------------------
(* scsi_engine(): one iteration.                                             *)
InEngine(t) == busLock = t /\ bpc[t].at = "loop"

Iterate(t, s) == InEngine(t) /\ engine_lock # identifier /\ bstate = s

EngineEnds(t) ==
    /\ InEngine(t)
    /\ engine_lock = identifier \/ bstate = "idling"
    /\ Leave(t)
    /\ UNCHANGED <<identifier, engine_lock, bstate, sphase, xfer, saved, info, data,
                   pending, units, available, guestSide, msg, trace>>

DoTransfer(t) ==
    /\ Iterate(t, "transfering")
    /\ LET x == XferOf(xfer) IN
       \/ ~DataAvailable(xfer) /\ Leave(t) /\ UNCHANGED <<bstate, engine_lock>>
       \/ /\ DataAvailable(xfer) /\ x.res < x.req
          /\ CallUser(t, "xfer", xfer, sphase) /\ UNCHANGED bstate
       \/ /\ DataAvailable(xfer) /\ x.res = x.req
          /\ bstate' = x.done /\ UNCHANGED place
    /\ UNCHANGED <<identifier, sphase, xfer, saved, info, data, pending, units,
                   available, guestSide, msg, trace>>

(* Length of a message of which r bytes have been received.                  *)
GetMesLen(r) == IF msg.len = 3 /\ r = 1 THEN 2 ELSE msg.len

EndMesOut(t) ==
    /\ Iterate(t, "mes_out_ending")
    /\ LET len == GetMesLen(info.req) IN
       IF len = info.req THEN bstate' = "mes_handling" /\ UNCHANGED info
       ELSE bstate' = "transfering" /\ info' = [info EXCEPT !.req = len]
    /\ UNCHANGED <<identifier, sphase, xfer, saved, data, pending, units, available,
                   place, guestSide, msg, trace>>

DoMesHandling(t) ==
    /\ Iterate(t, "mes_handling")
    /\ CallUser(t, "mes", "advance", sphase)
    /\ UNCHANGED <<identifier, bstate, sphase, xfer, saved, info, data, pending, units,
                   available, guestSide, msg, trace>>

EndMesIn(t) ==
    /\ Iterate(t, "mes_in_ending")
    /\ trace' = [trace EXCEPT !.told = @ + 1]
    /\ RestoreSavePhase(t, "loop")
    /\ UNCHANGED <<identifier, units, guestSide>>

StartCmdRead(t) ==
    /\ Iterate(t, "cmd_preparing")
    /\ data' = Xfer("initiator", 1, "cmd_read_ending")
    /\ xfer' = "data" /\ bstate' = "transfering"
    /\ ChangeSphase(t, "command", "loop")
    /\ UNCHANGED <<identifier, saved, info, pending, units, guestSide, msg, trace>>

EndCmdRead(t) ==
    /\ Iterate(t, "cmd_read_ending")
    /\ IF scmd.len = data.req THEN bstate' = "cmd_handling" /\ UNCHANGED data
       ELSE bstate' = "transfering" /\ data' = [data EXCEPT !.req = scmd.len]
    /\ UNCHANGED <<identifier, sphase, xfer, saved, info, pending, units, available,
                   place, guestSide, msg, trace>>

DoCmdHandling(t) ==
    /\ Iterate(t, "cmd_handling")
    /\ CallUser(t, "cmd", "loop", sphase)
    /\ UNCHANGED <<identifier, bstate, sphase, xfer, saved, info, data, pending, units,
                   available, guestSide, msg, trace>>

(* The next block, from its sender.                                          *)
NextBlock == Min({BlockSize, dreq.count})

StartBlock(t) ==
    /\ ~MesDue /\ dreq.count > 0
    /\ dreq' = [dreq EXCEPT !.count = @ - NextBlock]
    /\ data' = Xfer(IF dreq.in THEN "target" ELSE "initiator", NextBlock, "data_switching")
    /\ xfer' = "data" /\ bstate' = "transfering"
    /\ ChangeSphase(t, IF dreq.in THEN "data_in" ELSE "data_out", "loop")
    /\ UNCHANGED <<saved, info, atn, mesq, msg>>

StartDataTransfer(t) ==
    /\ Iterate(t, "data_preparing")
    /\ \/ StartBlock(t)
       \/ (MesDue \/ dreq.count = 0) /\ GoNextPhase(t, "loop")
    /\ UNCHANGED <<identifier, units, guestSide, trace>>

(* The block has arrived in the buffer and goes to its receiver.             *)
DoDataSwitching(t) ==
    /\ Iterate(t, "data_switching")
    /\ data' = Xfer(IF data.unit = "target" THEN "initiator" ELSE "target", data.req,
                    "data_preparing")
    /\ bstate' = "transfering"
    /\ UNCHANGED <<identifier, sphase, xfer, saved, info, pending, units, available,
                   place, guestSide, msg, trace>>

StartStatusTransfer(t) ==
    /\ Iterate(t, "status_preparing")
    /\ data' = Xfer("initiator", 1, "advancing")
    /\ xfer' = "data" /\ bstate' = "transfering"
    /\ ChangeSphase(t, "status", "status")
    /\ UNCHANGED <<identifier, saved, info, pending, units, guestSide, msg, trace>>

Advance(t) ==
    /\ Iterate(t, "advancing")
    /\ GoNextPhase(t, "advance")
    /\ UNCHANGED <<identifier, units, guestSide, trace>>

BusFreeing(t) ==
    /\ Iterate(t, "bus_freeing")
    /\ bstate' = "idling"
    /\ ChangeSphase(t, "bus_free", "freeing")
    /\ UNCHANGED <<identifier, xfer, saved, info, data, pending, units, guestSide, msg,
                   trace>>

-----------------------------------------------------------------------------
(* The callbacks, which run without the bus lock.                            *)
InCall(t, c) == bpc[t].at = "call" /\ bpc[t].call = c

CallbackDone(t, r) == bpc' = [bpc EXCEPT ![t].at = "ret", ![t].res = r]

(* sphase_changed() of the controller chip.  After a message in it holds the *)
(* bus; a command issued for another phase may end, and one that a reset     *)
(* meets does.  (It may also report data available, which change_sphase()    *)
(* has done already.)                                                        *)
SphaseChanged(t) ==
    /\ InCall(t, "sphase")
    /\ busLock = "free"
    /\ available' = (available /\ bpc[t].arg[2] # "mes_in")
    /\ ready' \in (IF bpc[t].arg[1] = "reset" THEN {0} ELSE {ready, 0})
    /\ CallbackDone(t, 0)
    /\ UNCHANGED <<busLock, identifier, engine_lock, bstate, sphase, xfer, saved, info,
                   data, pending, units, scmd, broken, events, msg, trace>>

MayBlock(t) == t # "main"

(* bus_data_in(), bus_data_req(): without a command nothing is moved; with   *)
(* one, some bytes, after the last of which it may hold the bus (ACK) until  *)
(* the next.  If DMA is not set up yet the caller must be one that may wait; *)
(* if its channel was stopped meanwhile nothing is moved.                    *)
InitiatorXfer(t, x) ==
    \/ /\ ready = 0
       /\ available' = FALSE /\ CallbackDone(t, ERR_NO_DATA) /\ UNCHANGED ready
    \/ /\ ready > 0 /\ ~MayBlock(t)
       /\ CallbackDone(t, ERR_MAY_BLOCK) /\ UNCHANGED <<ready, available>>
    \/ \E n \in 0 .. Min({ready, x.req - x.res}), hold \in BOOLEAN :
          /\ ready > 0
          /\ CallbackDone(t, n)
          /\ ready' = ready - n
          /\ hold => ready' = 0
          /\ available' = (available /\ ~hold)

(* data_req(), data_provided(): from a buffer at once, from or to the disk   *)
(* only by a caller that may wait.  The disk may move less than asked for,   *)
(* and nothing if it fails: the engine asks again.                           *)
TargetXfer(t, x) ==
    /\ \/ CallbackDone(t, x.req - x.res)
       \/ ~MayBlock(t) /\ CallbackDone(t, ERR_MAY_BLOCK)
       \/ MayBlock(t) /\ \E n \in 0 .. x.req - x.res : CallbackDone(t, n)
    /\ UNCHANGED <<ready, available>>

XferProc(t) ==
    /\ InCall(t, "xfer")
    /\ busLock = "free"
    /\ LET x == XferOf(bpc[t].arg[1]) IN
       IF x.unit = "initiator" THEN InitiatorXfer(t, x) ELSE TargetXfer(t, x)
    /\ UNCHANGED <<busLock, identifier, engine_lock, bstate, sphase, xfer, saved, info,
                   data, pending, units, scmd, broken, events, msg, trace>>

(* do_cmd() of the disk: only commands with data set the request.  The       *)
(* interface also allows that it asks for a caller that may wait.            *)
HandleCmd(t) ==
    /\ InCall(t, "cmd")
    /\ busLock = "free"
    /\ \/ ~MayBlock(t) /\ CallbackDone(t, ERR_MAY_BLOCK) /\ UNCHANGED dreq
       \/ /\ dreq' = IF scmd.size = 0 THEN dreq ELSE [count |-> scmd.size, in |-> scmd.in]
          /\ CallbackDone(t, 0)
    /\ UNCHANGED <<busLock, identifier, engine_lock, bstate, sphase, xfer, saved, info,
                   data, atn, mesq, units, available, guestSide, msg, trace>>

-----------------------------------------------------------------------------
(* Back from a callback: LOCK, IF_ABORTED, CALL_USER_END.                    *)
Back(t, c) == bpc[t].at = "ret" /\ bpc[t].call = c /\ busLock = "free"
Aborted(t) == bpc[t].id # identifier
Valid(t) == ~Aborted(t) /\ engine_lock' = Unlocked(t)
How(t) == bpc[t].arg[1]

(* After an abort the engine is left, or entered again where the code        *)
(* ignores it.                                                               *)
BackAborted(t) ==
    /\ bpc[t].at = "ret" /\ busLock = "free"
    /\ Aborted(t)
    /\ IF \/ bpc[t].call = "next" /\ How(t) = "loop"
          \/ bpc[t].call = "sphase" /\ How(t) \in {"loop", "status"}
       THEN Engine(t) ELSE Leave(t)
    /\ UNCHANGED <<identifier, engine_lock, bstate, sphase, xfer, saved, info, data,
                   pending, units, available, guestSide, msg, trace>>

BackFromSphase(t) ==
    /\ Back(t, "sphase") /\ How(t) # "reset" /\ Valid(t)
    /\ CASE How(t) \in {"loop", "advance"} ->
               Engine(t) /\ UNCHANGED <<mesq, units, bstate>>
         [] How(t) = "status" ->         \* the ending message
               mesq' = mesq + 1 /\ Engine(t) /\ UNCHANGED <<units, bstate>>
         [] How(t) = "freeing" ->
               initiator' = FALSE /\ target' = FALSE /\ Leave(t) /\ UNCHANGED <<mesq, bstate>>
         [] How(t) = "select" ->
               target' = TRUE /\ bstate' = "advancing" /\ Engine(t)
               /\ UNCHANGED <<mesq, initiator>>
         [] How(t) = "return" ->
               Leave(t) /\ UNCHANGED <<mesq, units, bstate>>
    /\ UNCHANGED <<identifier, sphase, xfer, saved, info, data, atn, dreq, available,
                   guestSide, msg, trace>>

(* Mutant: nobody is asked to wait.                                          *)
CreateNone(t) == Leave(t)

(* create_thread( scsi_engine_entry ).  Bound: one of BusThreads is free.    *)
CreateThread(t) ==
    /\ \E n \in BusThreads : bpc[n].at = "out"
    /\ busLock' = "free"
    /\ bpc' = [bpc EXCEPT ![CHOOSE n \in BusThreads : bpc[n].at = "out"] = At("start"),
                          ![t] = At("out")]

Counted(x, n) ==
    trace' = [trace EXCEPT !.sent = IF x.done = "data_switching" THEN @ + n ELSE @,
                           !.got = IF x.done = "data_preparing" THEN @ + n ELSE @]

(* Mutant: NO_DATA is taken at its word.                                     *)
NoDataLeaves(t) == Leave(t)

(* NO_DATA may be out of date: whether to go on is decided by data_available. *)
NoData(t) == IF DataAvailable(How(t)) THEN Engine(t) ELSE Leave(t)

(* Mutant: a transfer function that moved a part is taken to be done.        *)
MovedSome(t, x, n) ==
    IF DataAvailable(How(t)) THEN bstate' = x.done /\ Engine(t)
    ELSE Leave(t) /\ UNCHANGED bstate

MovedAll(t, x, n) ==
    /\ x.res + n = x.req
    /\ IF DataAvailable(How(t)) THEN bstate' = x.done /\ Engine(t)
       ELSE Leave(t) /\ UNCHANGED bstate     \* ACK is held: the phase is frozen

BackFromXfer(t) ==
    /\ Back(t, "xfer") /\ Valid(t)
    /\ LET x == XferOf(How(t)) n == bpc[t].res IN
       CASE n = ERR_MAY_BLOCK -> CreateThread(t) /\ UNCHANGED <<info, data, bstate, trace>>
         [] n = ERR_NO_DATA -> NoData(t) /\ UNCHANGED <<info, data, bstate, trace>>
         [] OTHER ->
              /\ IF How(t) = "info" THEN info' = [x EXCEPT !.res = @ + n] /\ UNCHANGED data
                 ELSE data' = [x EXCEPT !.res = @ + n] /\ UNCHANGED info
              /\ Counted(x, n)
              /\ \/ MovedAll(t, x, n)
                 \/ x.res + n < x.req /\ Engine(t) /\ UNCHANGED bstate
    /\ UNCHANGED <<identifier, sphase, xfer, saved, pending, units, available, guestSide, msg>>

BackFromMes(t) ==
    /\ Back(t, "mes") /\ ~Aborted(t)
    /\ IF msg.keep THEN
         /\ UNCHANGED broken
         /\ RestoreSavePhase(t, "advance")
       ELSE
         /\ bstate' = "bus_freeing" /\ broken' = TRUE
         /\ engine_lock' = Unlocked(t) /\ Engine(t)
         /\ UNCHANGED <<sphase, xfer, saved, info, data, pending, available, msg>>
    /\ UNCHANGED <<identifier, units, ready, scmd, events, trace>>

BackFromCmd(t) ==
    /\ Back(t, "cmd") /\ ~Aborted(t)
    /\ IF bpc[t].res = ERR_MAY_BLOCK THEN
         /\ engine_lock' = Unlocked(t) /\ CreateThread(t)
         /\ UNCHANGED <<bstate, sphase, xfer, saved, info, data, pending, available, msg>>
       ELSE GoNextPhase(t, "loop")
    /\ UNCHANGED <<identifier, units, guestSide, trace>>

(* default_next_sphase(), and the state for the phase it names; a data phase *)
(* without data is passed over by asking again.                              *)
DefaultNextSphase(p) ==
    CASE p = "selection" -> "command"
      [] p = "command" -> "data_in"
      [] p \in DataPhases -> "status"
      [] OTHER -> "bus_free"

StateFor(p) ==
    CASE p = "command" -> "cmd_preparing"
      [] p = "data_in" -> "data_preparing"
      [] p = "status" -> "status_preparing"
      [] OTHER -> "bus_freeing"

BackFromNext(t) ==
    /\ Back(t, "next") /\ ~Aborted(t)
    /\ LET next == DefaultNextSphase(bpc[t].arg[2]) IN
       /\ bstate' = StateFor(next)
       /\ IF next = "data_in" /\ dreq.count = 0 THEN CallUser(t, "next", How(t), next)
          ELSE Engine(t) /\ engine_lock' = Unlocked(t)
    /\ UNCHANGED <<identifier, sphase, xfer, saved, info, data, pending, units, available,
                   guestSide, msg, trace>>

EngineEntry(t) ==
    /\ bpc[t].at = "start" /\ busLock = "free"
    /\ Engine(t)
    /\ UNCHANGED <<identifier, engine_lock, bstate, sphase, xfer, saved, info, data,
                   pending, units, available, guestSide, msg, trace>>

-----------------------------------------------------------------------------
(* What the guest makes the controller chip do, on the main thread.          *)
MainIdle == bpc["main"].at = "out" /\ busLock = "free"

(* scsi_arbitration(): also while the thread that freed the bus is telling   *)
(* the chip so.                                                              *)
Arbitrate ==
    /\ MainIdle /\ sphase = "bus_free"
    /\ events < MaxBusEvents
    /\ initiator' = TRUE /\ available' = TRUE
    /\ sphase' = "arbitration"
    /\ CallUser("main", "sphase", "return", sphase)
    /\ UNCHANGED <<identifier, bstate, xfer, saved, info, data, pending, target, guestSide,
                   msg, trace>>

(* scsi_selection(), with a target of that number or without; the write to   *)
(* the sequence register that asks for it has set ATN already.               *)
Select ==
    /\ MainIdle /\ sphase = "arbitration"
    /\ \E c \in BusCommands, a \in BOOLEAN, exists \in BOOLEAN :
          /\ scmd' = c /\ atn' = a
          /\ events' = events + (IF a THEN 2 ELSE 1)
          /\ a => events' <= MaxBusEvents
          /\ ChangeSphase("main", IF exists THEN "selection" ELSE "bus_free",
                          IF exists THEN "select" ELSE "return")
    /\ trace' = [sent |-> 0, got |-> 0, told |-> 0]
    /\ ready' = 0
    /\ UNCHANGED <<identifier, bstate, xfer, saved, info, data, mesq, dreq, units, msg, broken>>

(* A write to the sequence register: scsi_set_atn(), the command for the     *)
(* current phase and, in a step of its own, scsi_xfer_status().  Bound: a    *)
(* thread of the pool is free, so that create_thread() finds one.            *)
Issue ==
    /\ MainIdle /\ sphase \notin {"bus_free", "arbitration"}
    /\ ready = 0 \/ ~available
    /\ \E n \in BusThreads : bpc[n].at = "out"
    /\ \E a \in BOOLEAN :
          /\ atn' = a
          /\ events' = events + (IF a THEN 1 ELSE 0)
          /\ a => events' <= MaxBusEvents
    /\ ready' \in XferCounts
    /\ bpc' = [bpc EXCEPT !["main"] = At("issue")]
    /\ UNCHANGED <<busLock, identifier, engine_lock, bstate, sphase, xfer, saved, info, data,
                   mesq, dreq, units, available, scmd, broken, msg, trace>>

XferStatus ==
    /\ bpc["main"].at = "issue" /\ busLock = "free"
    /\ available' = TRUE
    /\ IF ~available /\ bstate = "transfering" THEN Engine("main") ELSE Leave("main")
    /\ UNCHANGED <<identifier, engine_lock, bstate, sphase, xfer, saved, info, data, pending,
                   units, guestSide, msg, trace>>

(* scsi_reset(): the chip is told if the bus was in use, and only then are   *)
(* the units cleared and the callbacks under way disowned.                   *)
ClearBus == initiator' = FALSE /\ target' = FALSE /\ identifier' = identifier + 1

ResetBus ==
    /\ MainIdle /\ events < MaxBusEvents
    /\ atn' = FALSE /\ bstate' = "idling" /\ sphase' = "bus_free"
    /\ available' = (available \/ initiator)
    /\ IF sphase = "bus_free" THEN ClearBus /\ UNCHANGED place
       ELSE CallUser("main", "sphase", "reset", sphase) /\ UNCHANGED <<identifier, units>>
    /\ broken' = TRUE
    /\ events' = events + 1
    /\ UNCHANGED <<xfer, saved, info, data, mesq, dreq, ready, scmd, msg, trace>>

BackFromReset ==
    /\ Back("main", "sphase") /\ How("main") = "reset" /\ Valid("main")
    /\ ClearBus
    /\ Leave("main")
    /\ UNCHANGED <<bstate, sphase, xfer, saved, info, data, pending, available, guestSide, msg,
                   trace>>

-----------------------------------------------------------------------------
EngineStep(t) ==
    \/ EngineEnds(t) \/ DoTransfer(t) \/ EndMesOut(t) \/ DoMesHandling(t) \/ EndMesIn(t)
    \/ StartCmdRead(t) \/ EndCmdRead(t) \/ DoCmdHandling(t) \/ StartDataTransfer(t)
    \/ DoDataSwitching(t) \/ StartStatusTransfer(t) \/ Advance(t) \/ BusFreeing(t)
    \/ SphaseChanged(t) \/ XferProc(t) \/ HandleCmd(t)
    \/ BackAborted(t) \/ BackFromSphase(t) \/ BackFromXfer(t) \/ BackFromMes(t)
    \/ BackFromCmd(t) \/ BackFromNext(t) \/ EngineEntry(t)

Calling(t) == bpc[t].at \in {"call", "ret"} /\ bpc[t].id = identifier

(* scsi_reset() is in its callback, and thread t comes back into the engine. *)
Resetting == Calling("main") /\ bpc["main"].call = "sphase" /\ bpc["main"].arg[1] = "reset"
SlipsIn(t) == Resetting /\ t # "main" /\ Calling(t) /\ bpc[t].at = "ret"

(* Something happens as long as a thread can take a step (threads are        *)
(* scheduled, callbacks return) or a guest that has taken the bus can carry  *)
(* its command on.  No more is needed: nothing but transfers of no bytes can *)
(* go on for ever.                                                           *)
BusGoesOn ==
    /\ ~raced
    /\ \/ \E t \in BusActors : EngineStep(t) /\ raced' = SlipsIn(t)
       \/ (Select \/ Issue \/ XferStatus \/ BackFromReset) /\ UNCHANGED raced

BusNext ==
    \/ BusGoesOn
    \/ ~raced /\ Arbitrate /\ raced' = (engine_lock = identifier)
    \/ ~raced /\ ResetBus /\ UNCHANGED raced

BusFairness == WF_busVars(BusGoesOn)

BusSpec == BusInit /\ [][BusNext]_busVars /\ BusFairness

-----------------------------------------------------------------------------
BusTypeOK ==
    /\ busLock \in BusActors \cup {"free"}
    /\ bstate \in States /\ sphase \in Phases
    /\ \A x \in {info, data} : x.res \in 0 .. x.req
    /\ dreq.count = 0 \/ \E c \in BusCommands : dreq.count \in 1 .. c.size
    /\ mesq \in Nat
    /\ engine_lock \in 0 .. identifier

(* engine_lock equals the identifier exactly while some thread is in a       *)
(* callback of this identifier, and there is never a second one, but for the *)
(* main thread in scsi_reset(): no two threads run the bus at a time, and    *)
(* nobody is locked out for good.                                            *)
EngineExclusive ==
    /\ \A t, u \in BusActors : Calling(t) /\ Calling(u) => t = u \/ Resetting
    /\ engine_lock = identifier <=> \E t \in BusActors : Calling(t)

(* Whenever the bus could go on, some thread is in the engine, in a callback *)
(* from which it comes back to it, or on its way to it: scsi_xfer_status()   *)
(* of one thread is not lost on another that is about to leave.              *)
BusNeverStalls ==
    \/ bstate = "idling"
    \/ bstate = "transfering" /\ ~DataAvailable(xfer)
    \/ \E t \in BusActors : bpc[t].at \in {"loop", "start", "issue"} \/ Calling(t)

(* The units that the engine and change_sphase() use without a check are     *)
(* there.                                                                    *)
UnitsThere == (sphase # "bus_free" => initiator) /\ (bstate # "idling" => target)

(* What the engine expects of the phase in each state (PREREQ and the other  *)
(* checks under ERROR_CHECKING), however messages interrupt it.              *)
PhasesExpected ==
    /\ bstate \in {"mes_out_ending", "mes_handling"} => sphase = "mes_out"
    /\ bstate = "mes_in_ending" => sphase = "mes_in"
    /\ bstate \in {"cmd_read_ending", "cmd_handling"} => sphase = "command"
    /\ bstate = "data_switching" => sphase \in DataPhases
    /\ bstate = "advancing" => sphase \notin MesPhases

(* A command that comes to its regular end has moved exactly its data, block *)
(* by block, and has told the initiator so once, unless an earlier one was   *)
(* broken off.                                                               *)
TransferWhole ==
    bstate = "bus_freeing" /\ sphase = "status" /\ ~broken =>
        /\ trace.sent = scmd.size /\ trace.got = scmd.size
        /\ trace.told = 1

(* A call to the disk or for DMA has moved nothing.                          *)
NothingMoved == \E t \in BusActors : bpc[t].at = "ret" /\ bpc[t].call = "xfer" /\ bpc[t].res = 0

(* Every stay on the bus ends with the bus free (or in a race), unless the   *)
(* disk or the DMA channel fails again and again: the engine reports no      *)
(* error to the guest and asks for ever.                                     *)
BusGoesFree == []<>NothingMoved \/ (sphase # "bus_free" ~> sphase = "bus_free" \/ raced)

(* The engine is safe until one of the two races happens: one thread at a    *)
(* time runs it although the lock is given up in every callback, it does not *)
(* stop while it could go on, the units it uses are there and each state     *)
(* finds the phase it expects, however messages, resets and new commands     *)
(* come between.                                                             *)
EngineSafe ==
    ~raced => BusTypeOK /\ EngineExclusive /\ BusNeverStalls /\ UnitsThere /\ PhasesExpected
=============================================================================
