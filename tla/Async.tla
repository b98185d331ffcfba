------------------------------- MODULE Async --------------------------------
(***************************************************************************)
(* Asynchronous I/O: the async-io thread polls the descriptors of a table   *)
(* that belongs to the main thread.  The two share the table without a      *)
(* lock; the thread that may touch it is determined by __io_is_pending and  *)
(* the acknowledgement pipe.  Other threads talk to the main thread by      *)
(* bytes in the event pipe, one of the polled descriptors.                  *)
(*                                                                         *)
(* The model starts after start_async_thread(), with the event pipe's       *)
(* handler registered.  A handler is registered for one kind of event, so   *)
(* events and revents are 0 or 1.                                           *)
(*                                                                         *)
(* Source: main/async.c.                                                    *)
(***************************************************************************)
EXTENDS Integers, Sequences, FiniteSets, SequencesExt

CONSTANTS
    Fds,           \* descriptors of device drivers
    MaxHandlers,   \* MAX_NUM_HANDLERS
    MaxId,         \* bound on next_handler_id
    MaxSends       \* bound on the number of aevents sent by other threads

AEV == "aev"       \* as.pipefds[0]

ASSUME FdsAssumption == AEV \notin Fds
ASSUME BoundsAssumption ==
    MaxHandlers \in Nat \ {0} /\ MaxId \in Nat \ {0} /\ MaxSends \in Nat

VARIABLES
    table,         \* as.handlers and as.ufds
    npoll, npending, next_id, modified,
    io_pending,    \* __io_is_pending
    evpipe,        \* bytes in the event pipe: 0, or 1 for an aevent token
    ack,           \* bytes in the acknowledgement pipe
    cancel,        \* as.cancel_thread
    ppc, polling,  \* the poll thread; the descriptors its poll() waits for
    pc, op, i,     \* the main thread; the call that waits; the loop index
    ready,         \* descriptors of drivers with data
    sends          \* aevents sent so far

vars == <<table, npoll, npending, next_id, modified, io_pending, evpipe, ack,
          cancel, ppc, polling, pc, op, i, ready, sends>>
tbl    == <<table, npoll, next_id, modified>>
thread == <<ppc, polling>>
main   == <<pc, op, i>>

Bit == {0, 1}
Entries == [id : Nat, fd : Fds \cup {AEV}, events : Bit, revents : Bit]
PollPoints == {"top", "poll", "set", "ack", "done"}
MainPoints == {"run", "spin", "scan", "handler", "ackw", "cancel", "join", "closed"}
NoOp == [call |-> "none"]
Ops == [call : {"add"}, fd : Fds, events : Bit]
       \cup [call : {"set"}, id : 2..MaxId, events : Bit]
       \cup [call : {"delete"}, id : 2..MaxId]
       \cup {[call |-> "cleanup"]}

TypeOK ==
    /\ table \in Seq(Entries) /\ Len(table) <= MaxHandlers
    /\ npoll \in 0..Len(table) /\ npending \in -1..MaxHandlers
    /\ next_id \in 2..MaxId + 1
    /\ modified \in Bit /\ io_pending \in Bit /\ cancel \in Bit
    /\ evpipe \in Seq(Bit) /\ ack \in 0..1
    /\ ppc \in PollPoints /\ polling \in Seq(Fds \cup {AEV})
    /\ pc \in MainPoints /\ op \in Ops \cup {NoOp} /\ i \in 1..MaxHandlers + 1
    /\ ready \in SUBSET Fds /\ sends \in 0..MaxSends

Init ==
    /\ table = <<[id |-> 1, fd |-> AEV, events |-> 1, revents |-> 0]>>
    /\ npoll = 1 /\ npending = 0 /\ next_id = 2 /\ modified = 1
    /\ io_pending = 0 /\ evpipe = <<>> /\ ack = 0 /\ cancel = 0
    /\ ppc = "top" /\ polling = <<>>
    /\ pc = "run" /\ op = NoOp /\ i = 1
    /\ ready = {} /\ sends = 0

-----------------------------------------------------------------------------
(* The poll thread.                                                         *)
PollStarts ==
    /\ ppc = "top" /\ cancel = 0
    /\ ppc' = "poll"
    /\ polling' = [j \in 1..npoll |-> table[j].fd]
    /\ UNCHANGED <<tbl, npending, io_pending, evpipe, ack, cancel, main, ready, sends>>

ThreadExits ==
    /\ ppc = "top" /\ cancel = 1
    /\ ppc' = "done" /\ cancel' = 0
    /\ UNCHANGED <<tbl, npending, io_pending, evpipe, ack, polling, main, ready, sends>>

Readable(fd) == IF fd = AEV THEN evpipe # <<>> ELSE fd \in ready
Found == {j \in 1..Len(polling) : Readable(polling[j])}

(* poll() writes the results at the positions that it was given.            *)
PollReturns ==
    /\ ppc = "poll" /\ Found # {}
    /\ table' = [j \in 1..Len(table) |->
                    IF j \in 1..Len(polling)
                    THEN [table[j] EXCEPT !.revents = IF j \in Found THEN 1 ELSE 0]
                    ELSE table[j]]
    /\ npending' = Cardinality(Found)
    /\ ppc' = "set" /\ polling' = <<>>
    /\ UNCHANGED <<npoll, next_id, modified, io_pending, evpipe, ack, cancel, main, ready, sends>>

(* A signal ends poll() when no descriptor is ready.                        *)
PollInterrupted ==
    /\ ppc = "poll" /\ Found = {}
    /\ npending' = -1
    /\ ppc' = "top" /\ polling' = <<>>
    /\ UNCHANGED <<tbl, io_pending, evpipe, ack, cancel, main, ready, sends>>

SetPending ==
    /\ ppc = "set"
    /\ io_pending' = 1
    /\ ppc' = "ack"
    /\ UNCHANGED <<tbl, npending, evpipe, ack, cancel, polling, main, ready, sends>>

ReadAck ==
    /\ ppc = "ack" /\ ack > 0
    /\ ack' = ack - 1
    /\ ppc' = "top"
    /\ UNCHANGED <<tbl, npending, io_pending, evpipe, cancel, polling, main, ready, sends>>

-----------------------------------------------------------------------------
(* The handler table.                                                       *)

(* Mutant: the last entry is not considered. *)
SwapInMissesLast(t, k) ==
    LET later == {j \in k + 1..Len(t) - 1 : t[j].events = 1}
    IN IF t[k].events = 1 \/ later = {} THEN t
       ELSE [t EXCEPT ![k] = t[Min(later)], ![Min(later)] = t[k]]

(* One turn of its loop: if entry k is inactive, it changes places with the  *)
(* first active one behind it.                                              *)
SwapIn(t, k) ==
    LET later == {j \in k + 1..Len(t) : t[j].events = 1}
    IN IF t[k].events = 1 \/ later = {} THEN t
       ELSE [t EXCEPT ![k] = t[Min(later)], ![Min(later)] = t[k]]

(* permute_inactive(), without the count and the flag.                      *)
permute_inactive(t) ==
    LET turn[k \in 0..Len(t)] == IF k = 0 THEN t ELSE SwapIn(turn[k - 1], k)
    IN turn[Len(t)]

(* Mutant: the count is one short when every entry is active. *)
NumActiveShort(t) == LET hole == SelectInSeq(t, LAMBDA e : e.events = 0)
                     IN IF hole = 0 THEN Len(t) - 1 ELSE hole - 1

NumActive(t) == LET hole == SelectInSeq(t, LAMBDA e : e.events = 0)
                IN IF hole = 0 THEN Len(t) ELSE hole - 1

Install(t) ==
    LET p == permute_inactive(t)
    IN table' = p /\ npoll' = NumActive(p) /\ modified' = 1

(* What add_async_handler(), set_async_handler_events(),                    *)
(* delete_async_handler() and async_cleanup() do after wait_safe().         *)
Perform(o) ==
    \/ /\ o.call = "add"
       /\ Install(Append(table, [id |-> next_id, fd |-> o.fd, events |-> o.events, revents |-> 0]))
       /\ next_id' = next_id + 1
       /\ UNCHANGED cancel
    \/ /\ o.call = "set"
       /\ Install([j \in 1..Len(table) |->
                      IF table[j].id = o.id THEN [table[j] EXCEPT !.events = o.events]
                                            ELSE table[j]])
       /\ UNCHANGED <<next_id, cancel>>
    \/ /\ o.call = "delete"
       /\ LET at == SelectInSeq(table, LAMBDA e : e.id = o.id)
          IN IF at = 0 THEN UNCHANGED <<table, npoll, modified>>
                       ELSE Install(RemoveAt(table, at))
       /\ UNCHANGED <<next_id, cancel>>
    \/ /\ o.call = "cleanup"
       /\ cancel' = 1
       /\ UNCHANGED tbl

(* Drivers add a descriptor once, and change or delete what they added.     *)
Legal(o) ==
    /\ o.call = "add" => /\ \A j \in 1..Len(table) : table[j].fd # o.fd
                         /\ Len(table) < MaxHandlers /\ next_id <= MaxId
    /\ o.call \in {"set", "delete"} => \E j \in 1..Len(table) : table[j].id = o.id
    /\ o.call = "cleanup" => pc = "run"

(* Mutant: the table is changed without wait_safe(). *)
CallUnsafe(o) ==
    /\ pc \in {"run", "handler"} /\ Legal(o)
    /\ Perform(o)
    /\ pc' = IF o.call = "cleanup" THEN "cancel" ELSE pc
    /\ UNCHANGED <<npending, io_pending, evpipe, ack, thread, op, i, ready, sends>>

(* The call, up to and including wait_safe() if that does not wait.         *)
Call(o) ==
    /\ pc \in {"run", "handler"} /\ Legal(o)
    /\ IF io_pending = 1
       THEN /\ Perform(o)
            /\ pc' = IF o.call = "cleanup" THEN "cancel" ELSE pc
            /\ UNCHANGED <<evpipe, op>>
       ELSE /\ evpipe' = Append(evpipe, 0)
            /\ pc' = "spin" /\ op' = o
            /\ UNCHANGED <<tbl, cancel>>
    /\ UNCHANGED <<npending, io_pending, ack, thread, i, ready, sends>>

WaitSafeDone ==
    /\ pc = "spin" /\ io_pending = 1
    /\ Perform(op)
    /\ pc' = IF op.call = "cleanup" THEN "cancel" ELSE "run"
    /\ op' = NoOp
    /\ UNCHANGED <<npending, io_pending, evpipe, ack, thread, i, ready, sends>>

-----------------------------------------------------------------------------
(* __do_async_io(), called by mainloop_interrupt().                         *)
DoAsyncIo ==
    /\ pc = "run" /\ io_pending = 1
    /\ pc' = "scan" /\ i' = 1
    /\ UNCHANGED <<tbl, npending, io_pending, evpipe, ack, cancel, thread, op, ready, sends>>

More == i <= npoll /\ npending > 0
Due(e) == e.revents = 1 /\ e.events = 1

SkipEntry ==
    /\ pc = "scan" /\ More /\ ~Due(table[i])
    /\ i' = i + 1
    /\ UNCHANGED <<tbl, npending, io_pending, evpipe, ack, cancel, thread, pc, op, ready, sends>>

(* A handler reads its descriptor, aevent_rx() a single byte.               *)
CallHandler ==
    /\ pc = "scan" /\ More /\ Due(table[i])
    /\ npending' = npending - 1
    /\ table' = [table EXCEPT ![i].revents = 0]
    /\ modified' = 0
    /\ pc' = "handler"
    /\ IF table[i].fd = AEV
       THEN evpipe' = (IF evpipe = <<>> THEN <<>> ELSE Tail(evpipe)) /\ UNCHANGED ready
       ELSE ready' = ready \ {table[i].fd} /\ UNCHANGED evpipe
    /\ UNCHANGED <<npoll, next_id, io_pending, ack, cancel, thread, op, i, sends>>

(* "i=0" and the loop's "i++": the first entry is not looked at again.      *)
HandlerReturns ==
    /\ pc = "handler"
    /\ i' = IF modified = 1 THEN 2 ELSE i + 1
    /\ modified' = 0
    /\ pc' = "scan"
    /\ UNCHANGED <<table, npoll, next_id, npending, io_pending, evpipe, ack, cancel, thread,
                   op, ready, sends>>

(* The flag is cleared before the poll thread is restarted.                 *)
ScanDone ==
    /\ pc = "scan" /\ ~More
    /\ io_pending' = 0
    /\ pc' = "ackw" /\ i' = 1
    /\ UNCHANGED <<tbl, npending, evpipe, ack, cancel, thread, op, ready, sends>>

WriteAck ==
    /\ pc = "ackw"
    /\ ack' = ack + 1
    /\ pc' = "run"
    /\ UNCHANGED <<tbl, npending, io_pending, evpipe, cancel, thread, op, i, ready, sends>>

-----------------------------------------------------------------------------
(* The rest of async_cleanup().                                             *)
CleanupAcks ==
    /\ pc = "cancel"
    /\ ack' = ack + 1
    /\ pc' = "join"
    /\ UNCHANGED <<tbl, npending, io_pending, evpipe, cancel, thread, op, i, ready, sends>>

ThreadJoined ==
    /\ pc = "join" /\ cancel = 0
    /\ pc' = "closed"
    /\ UNCHANGED <<tbl, npending, io_pending, evpipe, ack, cancel, thread, op, i, ready, sends>>

Closed ==
    /\ pc = "closed"
    /\ UNCHANGED vars

(* send_aevent() by another thread; data arrives at a descriptor.           *)
send_aevent ==
    /\ pc # "closed" /\ sends < MaxSends
    /\ evpipe' = Append(evpipe, 1)
    /\ sends' = sends + 1
    /\ UNCHANGED <<tbl, npending, io_pending, ack, cancel, thread, main, ready>>

Arrive(fd) ==
    /\ pc # "closed"
    /\ ready' = ready \cup {fd}
    /\ UNCHANGED <<tbl, npending, io_pending, evpipe, ack, cancel, thread, main, sends>>

-----------------------------------------------------------------------------
PollThread == PollStarts \/ ThreadExits \/ PollReturns \/ SetPending \/ ReadAck
MainThread == \/ WaitSafeDone \/ DoAsyncIo \/ SkipEntry \/ CallHandler \/ HandlerReturns
              \/ ScanDone \/ WriteAck \/ CleanupAcks \/ ThreadJoined

Next ==
    \/ PollThread \/ PollInterrupted
    \/ MainThread
    \/ \E o \in Ops : Call(o)
    \/ send_aevent \/ \E fd \in Fds : Arrive(fd)
    \/ Closed

(* Both threads are scheduled, and the main thread comes back to            *)
(* mainloop_interrupt() (WorkIsTaken of module Mainloop).                   *)
Spec == Init /\ [][Next]_vars /\ WF_vars(PollThread) /\ WF_vars(MainThread)

-----------------------------------------------------------------------------
(* The table does not change under poll(): whenever the poll thread is      *)
(* inside poll(), it waits for exactly the active part of the table, so the *)
(* results go to the entries they are about.                                *)
PollSeesTable == ppc = "poll" => polling = [j \in 1..npoll |-> table[j].fd]

(* permute_inactive() leaves the active entries, and only those, in the     *)
(* part of the table that is polled and scanned.                            *)
ActiveFirst == \A j \in 1..Len(table) : table[j].events = 1 <=> j <= npoll

(* The bytes by which wait_safe() ends a poll() do not pile up in the pipe, *)
(* where they would delay aevents and finally block the main thread: at     *)
(* most two more bytes are in the pipe than other threads ever sent.        *)
WakeupsBounded == Len(evpipe) <= sends + 2

(* An aevent reaches its handler unless the emulator shuts down first.      *)
EventArrives == Contains(evpipe, 1) ~> (~Contains(evpipe, 1) \/ pc = "closed")

(* async_cleanup() ends, wherever the poll thread is when it is called.     *)
CleanupEnds == pc = "cancel" \/ (pc = "spin" /\ op.call = "cleanup") ~> pc = "closed"

Enabled(fd) == \E j \in 1..Len(table) : table[j].fd = fd /\ table[j].events = 1

(* Data at an enabled descriptor is handled in the end, although the scan   *)
(* starts over and skips entries when a handler changes the table.          *)
ReadyIsServed ==
    \A fd \in Fds : fd \in ready /\ Enabled(fd) ~> (fd \notin ready \/ ~Enabled(fd) \/ pc = "closed")

(* The table of handlers is in order: handlers that wait for something come  *)
(* first, so that poll() watches all of them, and wait_safe() does not fill  *)
(* the event pipe.                                                           *)
TableInOrder == TypeOK /\ ActiveFirst /\ WakeupsBounded

(* Events and descriptors that stay readable are served, however the table   *)
(* is changed, and async_cleanup() comes to its end.                         *)
AsyncServed == EventArrives /\ ReadyIsServed /\ CleanupEnds
=============================================================================
