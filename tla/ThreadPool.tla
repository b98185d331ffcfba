----------------------------- MODULE ThreadPool -----------------------------
(***************************************************************************)
(* The pool of threads.  create_thread() puts a record on the start list    *)
(* under the pool's mutex and writes a byte to a pipe after it; any waiting *)
(* thread reads the byte and then takes a record off the list.  A thread is *)
(* created only when no record is free.  Records and threads are not tied   *)
(* to each other.                                                           *)
(*                                                                         *)
(* Source: main/thread.c.                                                   *)
(***************************************************************************)
EXTENDS Integers, Sequences, FiniteSets

CONSTANTS
    Threads,    \* thread identities; a pool thread and its record are created together
    Callers,    \* the threads that call create_thread()
    MaxJobs     \* bound: calls of create_thread()

ASSUME PoolAssumption == IsFiniteSet(Threads) /\ IsFiniteSet(Callers) /\ MaxJobs \in Nat

NoRec == 0
NoJob == 0

VARIABLES
    records,    \* number of records allocated: tm.all
    startList, freeList,    \* tm.start, tm.free: records, head first
    bytes,      \* bytes in tm.startpipe, oldest first; 0 ends a thread
    worker,     \* pc and record of each pool thread
    func,       \* the job of each record
    jobs,       \* number of calls so far; a call's number is its job
    runs,       \* history: how often each job was started
    caller,     \* callers that have to write their byte
    closing     \* threadpool_cleanup() was called

poolVars == <<records, startList, freeList, bytes, worker, func, jobs, runs, caller, closing>>

Recs == 1 .. Cardinality(Threads)
Jobs == 1 .. MaxJobs
In(pc) == {t \in Threads : worker[t].pc \in pc}
Elems(s) == {s[k] : k \in 1 .. Len(s)}

PoolTypeOK ==
    /\ records \in 0 .. Cardinality(Threads)
    /\ startList \in Seq(Recs) /\ freeList \in Seq(Recs) /\ bytes \in Seq({0, 1})
    /\ worker \in [Threads -> [pc : {"none", "read", "pop", "run", "dead"},
                               rec : Recs \cup {NoRec}]]
    /\ func \in [Recs -> Jobs \cup {NoJob}]
    /\ jobs \in 0 .. MaxJobs /\ runs \in [Jobs -> Nat]
    /\ caller \in [Callers -> BOOLEAN] /\ closing \in BOOLEAN

PoolInit ==
    /\ records = 0 /\ startList = <<>> /\ freeList = <<>> /\ bytes = <<>>
    /\ worker = [t \in Threads |-> [pc |-> "none", rec |-> NoRec]]
    /\ func = [r \in Recs |-> NoJob]
    /\ jobs = 0 /\ runs = [j \in Jobs |-> 0]
    /\ caller = [c \in Callers |-> FALSE] /\ closing = FALSE

-----------------------------------------------------------------------------
(* create_thread() up to UNLOCK: a free record, or a new one with a thread.  *)
Queue(c, r) ==
    /\ startList' = <<r>> \o startList
    /\ func' = [func EXCEPT ![r] = jobs + 1]
    /\ jobs' = jobs + 1
    /\ caller' = [caller EXCEPT ![c] = TRUE]
    /\ UNCHANGED <<bytes, runs, closing>>

MayCreate(c) == ~closing /\ ~caller[c] /\ jobs < MaxJobs

(* Mutant: a thread is created only for the first record. *)
CreateNewOnce(c) ==
    /\ MayCreate(c) /\ freeList = <<>>
    /\ records < Cardinality(Threads)
    /\ records' = records + 1
    /\ \E t \in In({"none"}) :
          worker' = IF records = 0 THEN [worker EXCEPT ![t].pc = "read"] ELSE worker
    /\ Queue(c, records + 1)
    /\ UNCHANGED freeList

CreateNew(c) ==
    /\ MayCreate(c) /\ freeList = <<>>
    /\ records < Cardinality(Threads)
    /\ records' = records + 1
    /\ \E t \in In({"none"}) : worker' = [worker EXCEPT ![t].pc = "read"]
    /\ Queue(c, records + 1)
    /\ UNCHANGED freeList

CreateReuse(c) ==
    /\ MayCreate(c) /\ freeList # <<>>
    /\ freeList' = Tail(freeList)
    /\ Queue(c, Head(freeList))
    /\ UNCHANGED <<records, worker>>

(* ... and the write to the pipe, outside the mutex.                         *)
CreateWrites(c) ==
    /\ caller[c]
    /\ bytes' = Append(bytes, 1)
    /\ caller' = [caller EXCEPT ![c] = FALSE]
    /\ UNCHANGED <<records, startList, freeList, worker, func, jobs, runs, closing>>

(* thread_entry(): read a byte; 0 ends the thread.                           *)
WorkerReads(t) ==
    /\ worker[t].pc = "read" /\ bytes # <<>>
    /\ bytes' = Tail(bytes)
    /\ worker' = [worker EXCEPT ![t].pc = IF Head(bytes) = 0 THEN "dead" ELSE "pop"]
    /\ UNCHANGED <<records, startList, freeList, func, jobs, runs, caller, closing>>

(* Mutant: the record is looked at before the mutex is taken, and may be     *)
(* taken by two threads.                                                     *)
WorkerPopsShared(t) ==
    /\ worker[t].pc = "pop" /\ startList # <<>>
    /\ worker' = [worker EXCEPT ![t] = [pc |-> "run", rec |-> Head(startList)]]
    /\ startList' = IF Cardinality(In({"pop"})) > 1 THEN startList ELSE Tail(startList)
    /\ runs' = [runs EXCEPT ![func[Head(startList)]] = @ + 1]
    /\ UNCHANGED <<records, freeList, bytes, func, jobs, caller, closing>>

WorkerPops(t) ==
    /\ worker[t].pc = "pop" /\ startList # <<>>
    /\ worker' = [worker EXCEPT ![t] = [pc |-> "run", rec |-> Head(startList)]]
    /\ startList' = Tail(startList)
    /\ runs' = [runs EXCEPT ![func[Head(startList)]] = @ + 1]
    /\ UNCHANGED <<records, freeList, bytes, func, jobs, caller, closing>>

(* The job returns (some run as long as the emulator) and its record is freed. *)
WorkerEnds(t) ==
    /\ worker[t].pc = "run"
    /\ freeList' = <<worker[t].rec>> \o freeList
    /\ worker' = [worker EXCEPT ![t] = [pc |-> "read", rec |-> NoRec]]
    /\ UNCHANGED <<records, startList, bytes, func, jobs, runs, caller, closing>>

(* threadpool_cleanup(): more zeros than threads (64 in the code).           *)
threadpool_cleanup ==
    /\ ~closing /\ \A c \in Callers : ~caller[c]
    /\ closing' = TRUE
    /\ bytes' = bytes \o [k \in 1 .. Cardinality(Threads) |-> 0]
    /\ UNCHANGED <<records, startList, freeList, worker, func, jobs, runs, caller>>

PoolNext ==
    \/ \E c \in Callers : CreateNew(c) \/ CreateReuse(c) \/ CreateWrites(c)
    \/ \E t \in Threads : WorkerReads(t) \/ WorkerPops(t) \/ WorkerEnds(t)
    \/ threadpool_cleanup

(* Threads are scheduled; nothing says that a job returns.                   *)
PoolFairness ==
    /\ \A c \in Callers : WF_poolVars(CreateWrites(c))
    /\ \A t \in Threads : WF_poolVars(WorkerReads(t)) /\ WF_poolVars(WorkerPops(t))

PoolSpec == PoolInit /\ [][PoolNext]_poolVars /\ PoolFairness

-----------------------------------------------------------------------------
Ones == Cardinality({k \in 1 .. Len(bytes) : bytes[k] = 1})

(* A thread that has read a byte finds a record: thread_entry() follows      *)
(* tm.start without a test.  Each record on the list is matched by a byte    *)
(* that is not yet written, in the pipe, or read.                            *)
ByteHasRecord ==
    Len(startList) = Ones + Cardinality(In({"pop"})) + Cardinality({c \in Callers : caller[c]})

(* A record has one owner: the start list, the free list or one thread.      *)
OneOwner ==
    /\ Len(startList) + Len(freeList) + Cardinality(In({"run"})) = records
    /\ Elems(startList) \cup Elems(freeList) \cup {worker[t].rec : t \in In({"run"})}
         = 1 .. records

(* No job waits for another one to end: there are as many threads that wait  *)
(* as records that are to be started, whichever thread ran which record.     *)
NoJobWaits == ~closing => Cardinality(In({"read", "pop"})) >= Len(startList)

(* Every job is run once, and none twice.                                    *)
RunAtMostOnce == \A j \in Jobs : runs[j] <= (IF j <= jobs THEN 1 ELSE 0)
JobsRun == \A j \in Jobs : jobs >= j ~> runs[j] = 1

(* The pool is safe: each byte finds a record, each record has one owner, no *)
(* job waits for another to end, and none runs twice.                        *)
PoolSafe == PoolTypeOK /\ ByteHasRecord /\ OneOwner /\ NoJobWaits /\ RunAtMostOnce
=============================================================================
