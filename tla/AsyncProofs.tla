---------------------------- MODULE AsyncProofs -----------------------------
(***************************************************************************)
(* Proofs about asynchronous I/O, for any number of descriptors and          *)
(* handlers: the main thread and the poll thread never touch the handler     *)
(* table at the same time; permute_inactive() brings the entries that wait   *)
(* to the front of the table; the bytes of wait_safe() do not pile up.       *)
(*                                                                         *)
(* permute_inactive() is a loop, a recursive function of the number of its   *)
(* turns.  Its induction is by the least turn that fails (LeastNatural).     *)
(***************************************************************************)
EXTENDS Async, FiniteSetTheorems, TLAPS

(* Who owns the table.  From the moment __io_is_pending is set until the    *)
(* acknowledgement is written, the poll thread waits for a byte that is not *)
(* there; async_cleanup() writes its acknowledgement only once, and then    *)
(* nothing is called any more.                                              *)
Handshake ==
    /\ io_pending \in {0, 1}
    /\ ack \in {0, 1}
    /\ ack = 1 => ppc = "ack" /\ pc # "ackw" /\ pc \notin {"scan", "handler", "cancel"}
    /\ io_pending = 1 /\ pc \notin {"join", "closed"} => ppc = "ack" /\ ack = 0
    /\ pc \in {"scan", "handler", "cancel", "join", "closed"} => io_pending = 1
    /\ pc = "ackw" => io_pending = 0 /\ ppc = "ack" /\ ack = 0
    /\ pc \in {"run", "spin"} /\ io_pending = 0 /\ ppc = "ack" => ack = 1

(* The handshake holds in every reachable state: while the main thread      *)
(* changes the table or scans it, the poll thread waits for the             *)
(* acknowledgement.                                                         *)
THEOREM HandshakeCorrect == Spec => []Handshake
<1>1. Init => Handshake
  BY DEF Init, Handshake
<1>2. Handshake /\ [Next]_vars => Handshake'
  <2> SUFFICES ASSUME Handshake, [Next]_vars PROVE Handshake'
    OBVIOUS
  <2> USE DEF Handshake, main, thread
  <2>1. CASE PollStarts
    BY <2>1 DEF PollStarts
  <2>2. CASE ThreadExits
    BY <2>2 DEF ThreadExits
  <2>3. CASE PollReturns
    BY <2>3 DEF PollReturns
  <2>4. CASE PollInterrupted
    BY <2>4 DEF PollInterrupted
  <2>5. CASE SetPending
    BY <2>5 DEF SetPending
  <2>6. CASE ReadAck
    BY <2>6 DEF ReadAck
  <2>7. CASE WaitSafeDone
    BY <2>7 DEF WaitSafeDone
  <2>8. CASE DoAsyncIo
    BY <2>8 DEF DoAsyncIo
  <2>9. CASE SkipEntry
    BY <2>9 DEF SkipEntry
  <2>10. CASE CallHandler
    BY <2>10 DEF CallHandler
  <2>11. CASE HandlerReturns
    BY <2>11 DEF HandlerReturns
  <2>12. CASE ScanDone
    BY <2>12 DEF ScanDone
  <2>13. CASE WriteAck
    BY <2>13 DEF WriteAck
  <2>14. CASE CleanupAcks
    BY <2>14 DEF CleanupAcks
  <2>15. CASE ThreadJoined
    BY <2>15 DEF ThreadJoined
  <2>16. CASE send_aevent
    BY <2>16 DEF send_aevent
  <2>17. CASE Closed
    BY <2>17 DEF Closed, vars
  <2>18. ASSUME NEW o \in Ops, Call(o) PROVE Handshake'
    BY <2>18 DEF Call
  <2>19. ASSUME NEW fd \in Fds, Arrive(fd) PROVE Handshake'
    BY <2>19 DEF Arrive
  <2>20. CASE UNCHANGED vars
    BY <2>20 DEF vars
  <2> QED BY <2>1, <2>2, <2>3, <2>4, <2>5, <2>6, <2>7, <2>8, <2>9, <2>10,
             <2>11, <2>12, <2>13, <2>14, <2>15, <2>16, <2>17, <2>18, <2>19, <2>20
          DEF Next, PollThread, MainThread
<1> QED BY <1>1, <1>2, PTL DEF Spec

(* The table does not change under poll().  The main thread changes it only *)
(* when __io_is_pending is set, and then the poll thread is not in poll().   *)
THEOREM TableStable == Spec => []PollSeesTable
<1>1. Init => PollSeesTable
  BY DEF Init, PollSeesTable
<1>2. Handshake /\ PollSeesTable /\ [Next]_vars => PollSeesTable'
  <2> SUFFICES ASSUME Handshake, PollSeesTable, [Next]_vars PROVE PollSeesTable'
    OBVIOUS
  <2> USE DEF Handshake, PollSeesTable, main, thread, tbl
  <2>1. CASE PollStarts
    BY <2>1 DEF PollStarts
  <2>2. CASE ThreadExits
    BY <2>2 DEF ThreadExits
  <2>3. CASE PollReturns
    BY <2>3 DEF PollReturns
  <2>4. CASE PollInterrupted
    BY <2>4 DEF PollInterrupted
  <2>5. CASE SetPending
    BY <2>5 DEF SetPending
  <2>6. CASE ReadAck
    BY <2>6 DEF ReadAck
  <2>7. CASE WaitSafeDone
    BY <2>7 DEF WaitSafeDone
  <2>8. CASE DoAsyncIo
    BY <2>8 DEF DoAsyncIo
  <2>9. CASE SkipEntry
    BY <2>9 DEF SkipEntry
  <2>10. CASE CallHandler
    BY <2>10 DEF CallHandler
  <2>11. CASE HandlerReturns
    BY <2>11 DEF HandlerReturns
  <2>12. CASE ScanDone
    BY <2>12 DEF ScanDone
  <2>13. CASE WriteAck
    BY <2>13 DEF WriteAck
  <2>14. CASE CleanupAcks
    BY <2>14 DEF CleanupAcks
  <2>15. CASE ThreadJoined
    BY <2>15 DEF ThreadJoined
  <2>16. CASE send_aevent
    BY <2>16 DEF send_aevent
  <2>17. CASE Closed
    BY <2>17 DEF Closed, vars
  <2>18. ASSUME NEW o \in Ops, Call(o) PROVE PollSeesTable'
    BY <2>18 DEF Call
  <2>19. ASSUME NEW fd \in Fds, Arrive(fd) PROVE PollSeesTable'
    BY <2>19 DEF Arrive
  <2>20. CASE UNCHANGED vars
    BY <2>20 DEF vars
  <2> QED BY <2>1, <2>2, <2>3, <2>4, <2>5, <2>6, <2>7, <2>8, <2>9, <2>10,
             <2>11, <2>12, <2>13, <2>14, <2>15, <2>16, <2>17, <2>18, <2>19, <2>20
          DEF Next, PollThread, MainThread
<1> QED BY <1>1, <1>2, HandshakeCorrect, PTL DEF Spec

(* Every nonempty set of naturals has a least element: the intervals 0 .. x,  *)
(* ordered by inclusion, have a minimal one.                                 *)
LEMMA LeastNatural ==
  ASSUME NEW T, T \subseteq Nat, T # {}
  PROVE  \E x \in T : \A y \in T : x <= y
<1> DEFINE D == {0 .. x : x \in T}
<1>1. D \subseteq FiniteSubsetsOf(Nat)
  <2> SUFFICES ASSUME NEW x \in T PROVE 0 .. x \in FiniteSubsetsOf(Nat)
    OBVIOUS
  <2>1. x \in Nat /\ 0 .. x \subseteq Nat
    OBVIOUS
  <2> QED BY <2>1, FS_Interval DEF FiniteSubsetsOf
<1>2. D # {}
  OBVIOUS
<1>3. IsWellFoundedOn(StrictSubsetOrdering(Nat), FiniteSubsetsOf(Nat))
  BY FS_StrictSubsetOrderingWellFounded
<1>4. PICK d \in D : \A e \in D : <<e, d>> \notin StrictSubsetOrdering(Nat)
  BY <1>1, <1>2, <1>3, WFMin, Zenon
<1>5. PICK x \in T : d = 0 .. x
  OBVIOUS
<1>6. ASSUME NEW y \in T, y < x PROVE FALSE
  <2>1. 0 .. y \in D /\ 0 .. y \subseteq 0 .. x /\ 0 .. y # 0 .. x /\ 0 .. x \subseteq Nat
    BY <1>6
  <2> QED BY <1>4, <1>5, <2>1 DEF StrictSubsetOrdering
<1> QED BY <1>6

(* Min of such a set is its least element.                                   *)
LEMMA MinNatural ==
  ASSUME NEW T, T \subseteq Nat, T # {}
  PROVE  Min(T) \in T /\ \A y \in T : Min(T) <= y
BY LeastNatural DEF Min

-----------------------------------------------------------------------------
(* The position that SelectInSeq() of the count finds: the first inactive    *)
(* entry, if there is one.                                                   *)
LEMMA CountUpToHole ==
  ASSUME NEW t \in Seq(Entries)
  PROVE  /\ NumActive(t) \in 0 .. Len(t)
         /\ \A j \in 1 .. Len(t) : j <= NumActive(t) => t[j].events = 1
         /\ NumActive(t) < Len(t) => t[NumActive(t) + 1].events = 0
<1> DEFINE I == {j \in 1 .. Len(t) : t[j].events = 0}
<1>1. Len(t) \in Nat /\ \A j \in 1 .. Len(t) : t[j] \in Entries
  OBVIOUS
<1>2. \A j \in 1 .. Len(t) : t[j].events \in {0, 1}
  BY <1>1 DEF Entries, Bit
<1>3. NumActive(t) = IF (IF I # {} THEN Min(I) ELSE 0) = 0 THEN Len(t)
                     ELSE (IF I # {} THEN Min(I) ELSE 0) - 1
  BY DEF NumActive, SelectInSeq
<1>4. CASE I = {}
  <2>1. NumActive(t) = Len(t)
    BY <1>3, <1>4
  <2> QED BY <1>1, <1>2, <1>4, <2>1
<1>5. CASE I # {}
  <2>1. I \subseteq Nat
    BY <1>1
  <2>2. Min(I) \in I /\ \A y \in I : Min(I) <= y
    BY <2>1, <1>5, MinNatural
  <2> HIDE DEF I
  <2>3. Min(I) \in 1 .. Len(t) /\ t[Min(I)].events = 0
    BY <2>2 DEF I
  <2>4. NumActive(t) = Min(I) - 1
    BY <1>3, <1>5, <2>3
  <2>5. \A j \in 1 .. Len(t) : j < Min(I) => t[j].events = 1
    BY <2>2, <2>3, <1>2 DEF I
  <2> QED BY <2>3, <2>4, <2>5, <1>1
<1> QED BY <1>4, <1>5

(* After k turns of the loop: no active entry is behind an inactive one of   *)
(* the first k; a first entry that is active has not moved.                  *)
Turned(u, t, k) ==
    /\ u \in Seq(Entries) /\ Len(u) = Len(t)
    /\ \A a \in 1 .. k : u[a].events = 0 => \A b \in a + 1 .. Len(u) : u[b].events = 0
    /\ t # <<>> /\ t[1].events = 1 => u[1] = t[1]

(* The next turn of the loop keeps that.                                     *)
LEMMA TurnKeeps ==
  ASSUME NEW t \in Seq(Entries), NEW u, NEW k \in 1 .. Len(t), Turned(u, t, k - 1)
  PROVE  Turned(SwapIn(u, k), t, k)
<1> DEFINE later == {j \in k + 1 .. Len(u) : u[j].events = 1}
<1> DEFINE v == SwapIn(u, k)
<1>1. /\ u \in Seq(Entries) /\ Len(u) = Len(t) /\ Len(t) \in Nat
      /\ \A a \in 1 .. k - 1 : u[a].events = 0 => \A b \in a + 1 .. Len(u) : u[b].events = 0
      /\ t # <<>> /\ t[1].events = 1 => u[1] = t[1]
  BY DEF Turned
<1>2. \A j \in 1 .. Len(u) : u[j] \in Entries /\ u[j].events \in {0, 1}
  <2>1. \A j \in 1 .. Len(u) : u[j] \in Entries
    BY <1>1
  <2> QED BY <2>1 DEF Entries, Bit
<1>3. CASE u[k].events = 1
  <2>1. v = u
    BY <1>3 DEF SwapIn
  <2> QED BY <2>1, <1>1, <1>3 DEF Turned
<1>4. CASE later = {}
  <2>1. v = u
    BY <1>4 DEF SwapIn
  <2>2. \A b \in k + 1 .. Len(u) : u[b].events = 0
    BY <1>4, <1>2, <1>1
  <2> QED BY <2>1, <2>2, <1>1 DEF Turned
<1>5. CASE u[k].events # 1 /\ later # {}
  <2>1. later \subseteq Nat
    BY <1>1
  <2>2. Min(later) \in later
    BY <2>1, <1>5, MinNatural
  <2>3. v = [u EXCEPT ![k] = u[Min(later)], ![Min(later)] = u[k]]
    BY <1>5 DEF SwapIn
  <2>4. PICK m \in later : m = Min(later)
    BY <2>2
  <2>5. m \in k + 1 .. Len(u) /\ u[m].events = 1
    OBVIOUS
  <2> HIDE DEF later, v
  <2>6. v \in Seq(Entries) /\ Len(v) = Len(u) /\ v[k] = u[m] /\ v[m] = u[k]
        /\ \A j \in 1 .. Len(u) : j # k /\ j # m => v[j] = u[j]
    BY <2>3, <2>4, <2>5, <1>1, <1>2
  <2>7. \A a \in 1 .. k - 1 : u[a].events # 0
    BY <2>5, <1>1
  <2>8. \A a \in 1 .. k : v[a].events # 0
    BY <2>5, <2>6, <2>7, <1>1
  <2>9. t # <<>> /\ t[1].events = 1 => v[1] = t[1]
    <3> SUFFICES ASSUME t # <<>>, t[1].events = 1 PROVE v[1] = t[1]
      OBVIOUS
    <3>1. u[1] = t[1] /\ k # 1
      BY <1>1, <1>5
    <3> QED BY <3>1, <2>5, <2>6, <1>1
  <2> QED BY <2>6, <2>8, <2>9, <1>1 DEF Turned, v
<1> QED BY <1>3, <1>4, <1>5

(* The loop of permute_inactive() has a turn for every entry.                *)
LEMMA LoopRuns ==
  ASSUME NEW t \in Seq(Entries), NEW n \in 0 .. Len(t)
  PROVE  \E g : g = [k \in 0 .. n |-> IF k = 0 THEN t ELSE SwapIn(g[k - 1], k)]
<1> DEFINE Runs(m) == \E g : g = [k \in 0 .. m |-> IF k = 0 THEN t ELSE SwapIn(g[k - 1], k)]
<1> DEFINE T == {m \in 0 .. Len(t) : ~Runs(m)}
<1> SUFFICES ASSUME T # {} PROVE FALSE
  OBVIOUS
<1>1. T \subseteq Nat
  OBVIOUS
<1>2. PICK m \in T : \A y \in T : m <= y
  BY <1>1, LeastNatural
<1>3. Runs(0)
  <2> DEFINE g == [k \in 0 .. 0 |-> t]
  <2>1. \A k \in 0 .. 0 : g[k] = IF k = 0 THEN t ELSE SwapIn(g[k - 1], k)
    OBVIOUS
  <2>2. g = [k \in 0 .. 0 |-> IF k = 0 THEN t ELSE SwapIn(g[k - 1], k)]
    BY <2>1
  <2> HIDE DEF g
  <2> QED BY <2>2
<1>4. m # 0 /\ m - 1 \in 0 .. Len(t) /\ Runs(m - 1)
  <2>1. m \in 0 .. Len(t) /\ ~Runs(m)
    OBVIOUS
  <2> HIDE DEF Runs
  <2>2. m # 0
    BY <1>3, <2>1
  <2>3. m - 1 \in 0 .. Len(t) /\ ~(m <= m - 1)
    BY <2>1, <2>2
  <2> QED BY <1>2, <2>2, <2>3
<1>5. PICK g : g = [k \in 0 .. m - 1 |-> IF k = 0 THEN t ELSE SwapIn(g[k - 1], k)]
  BY <1>4
<1> DEFINE h == [k \in 0 .. m |-> IF k = m THEN SwapIn(g[m - 1], m) ELSE g[k]]
<1>6. ASSUME NEW k \in 0 .. m PROVE h[k] = IF k = 0 THEN t ELSE SwapIn(h[k - 1], k)
  <2>0. m \in Nat /\ m # 0
    BY <1>4
  <2>1. CASE k = m
    <3>1. h[k - 1] = g[m - 1] /\ h[k] = SwapIn(g[m - 1], m)
      BY <2>0, <2>1
    <3> QED BY <3>1, <2>0, <2>1
  <2>2. CASE k # m
    <3>1. k \in 0 .. m - 1 /\ h[k] = g[k]
      BY <2>0, <2>2
    <3>2. k # 0 => k - 1 \in 0 .. m - 1 /\ h[k - 1] = g[k - 1]
      BY <2>0, <3>1
    <3>3. g[k] = IF k = 0 THEN t ELSE SwapIn(g[k - 1], k)
      BY <1>5, <3>1
    <3> HIDE DEF h
    <3> QED BY <3>1, <3>2, <3>3
  <2> QED BY <2>1, <2>2
<1>7. h = [k \in 0 .. m |-> IF k = 0 THEN t ELSE SwapIn(h[k - 1], k)]
  BY <1>6
<1>8. Runs(m)
  <2> HIDE DEF h
  <2> QED BY <1>7
<1> QED BY <1>2, <1>8

(* What permute_inactive() does to a table.                                  *)
LEMMA PermutedTable ==
  ASSUME NEW t \in Seq(Entries)
  PROVE  Turned(permute_inactive(t), t, Len(t))
<1> DEFINE h == CHOOSE g : g = [k \in 0 .. Len(t) |-> IF k = 0 THEN t ELSE SwapIn(g[k - 1], k)]
<1>1. permute_inactive(t) = h[Len(t)]
  BY DEF permute_inactive
<1>2. h = [k \in 0 .. Len(t) |-> IF k = 0 THEN t ELSE SwapIn(h[k - 1], k)]
  <2>1. Len(t) \in 0 .. Len(t)
    OBVIOUS
  <2> QED BY <2>1, LoopRuns
<1> HIDE DEF h
<1> DEFINE T == {k \in 0 .. Len(t) : ~Turned(h[k], t, k)}
<1> SUFFICES ASSUME T # {} PROVE FALSE
  BY <1>1
<1>3. T \subseteq Nat
  OBVIOUS
<1>4. PICK m \in T : \A y \in T : m <= y
  BY <1>3, LeastNatural
<1>5. Turned(h[0], t, 0)
  <2>1. h[0] = t
    BY <1>2
  <2> QED BY <2>1 DEF Turned
<1>6. m \in 1 .. Len(t) /\ Turned(h[m - 1], t, m - 1)
  BY <1>4, <1>5
<1>7. h[m] = SwapIn(h[m - 1], m)
  BY <1>2, <1>6
<1> QED BY <1>4, <1>6, <1>7, TurnKeeps

(* The table after a call has installed it.                                  *)
LEMMA Installed ==
  ASSUME NEW t \in Seq(Entries), t # <<>>, t[1].events = 1, Install(t)
  PROVE  /\ table' \in Seq(Entries) /\ Len(table') = Len(t) /\ table'[1] = t[1]
         /\ npoll' \in 0 .. Len(t) /\ modified' = 1
         /\ ActiveFirst'
<1>1. table' = permute_inactive(t) /\ npoll' = NumActive(table') /\ modified' = 1
  BY DEF Install
<1>2. Turned(table', t, Len(t))
  BY <1>1, PermutedTable
<1>3. /\ table' \in Seq(Entries) /\ Len(table') = Len(t) /\ table'[1] = t[1]
      /\ \A a \in 1 .. Len(t) : table'[a].events = 0 =>
            \A b \in a + 1 .. Len(table') : table'[b].events = 0
  BY <1>2 DEF Turned
<1>4. /\ npoll' \in 0 .. Len(table')
      /\ \A j \in 1 .. Len(table') : j <= npoll' => table'[j].events = 1
      /\ npoll' < Len(table') => table'[npoll' + 1].events = 0
  BY <1>1, <1>3, CountUpToHole
<1>5. ActiveFirst'
  <2> SUFFICES ASSUME NEW j \in 1 .. Len(table'), npoll' < j
               PROVE  table'[j].events = 0
    BY <1>4 DEF ActiveFirst
  <2>1. Len(table') = Len(t) /\ Len(t) \in Nat /\ npoll' \in 0 .. Len(t)
    BY <1>3, <1>4
  <2> DEFINE a == npoll' + 1
  <2>2. npoll' < Len(table') /\ a \in 1 .. Len(t)
    BY <2>1
  <2>3. table'[a].events = 0
    BY <1>4, <2>2
  <2>4. j = a \/ j \in a + 1 .. Len(table')
    BY <2>1
  <2> HIDE DEF a
  <2> QED BY <1>3, <2>2, <2>3, <2>4
<1> QED BY <1>1, <1>3, <1>4, <1>5

-----------------------------------------------------------------------------
(* The event pipe's handler is the first entry and always active; a call     *)
(* that waits for the poll thread still has room in the table.               *)
Shape ==
    /\ table # <<>> /\ table[1].id = 1 /\ table[1].fd = AEV /\ table[1].events = 1
    /\ pc = "spin" => /\ op \in Ops
                      /\ op.call = "add" => Len(table) < MaxHandlers /\ next_id <= MaxId
    /\ pc = "handler" => i <= MaxHandlers

(* Why the bytes of wait_safe() do not pile up.  Between two scans there is  *)
(* at most one of them, and the next scan reads a byte, because it begins at *)
(* the pipe's entry, unless poll() found the pipe empty.                     *)
Wakeups ==
    /\ Len(evpipe) <= sends + 2
    /\ io_pending = 0 /\ pc # "spin" => Len(evpipe) <= sends + 1
    /\ ppc = "set" => /\ npending > 0
                      /\ table[1].revents = 0 =>
                            Len(evpipe) <= sends + (IF pc = "spin" THEN 1 ELSE 0)
    /\ (io_pending = 1 /\ pc \in {"run", "spin"}) \/ (pc = "scan" /\ i = 1) =>
          npending > 0 /\ (table[1].revents = 0 => Len(evpipe) <= sends + 1)
    /\ pc = "handler" \/ (pc = "scan" /\ i # 1) => Len(evpipe) <= sends + 1

(* The inductive invariant.                                                  *)
AsyncInv == TypeOK /\ ActiveFirst /\ Shape /\ Wakeups

(* A call leaves the table sorted, and the pipe's entry where it is.          *)
LEMMA PerformKeeps ==
  ASSUME TypeOK, ActiveFirst, Shape, NEW o \in Ops, Perform(o),
         o.call = "add" => Len(table) < MaxHandlers /\ next_id <= MaxId
  PROVE  /\ table' \in Seq(Entries) /\ Len(table') <= MaxHandlers
         /\ npoll' \in 0 .. Len(table') /\ next_id' \in 2 .. MaxId + 1
         /\ modified' \in Bit /\ cancel' \in Bit
         /\ ActiveFirst' /\ table' # <<>> /\ table'[1] = table[1]
<1> USE BoundsAssumption
<1>1. /\ table \in Seq(Entries) /\ Len(table) \in Nat /\ Len(table) <= MaxHandlers
      /\ npoll \in 0 .. Len(table) /\ next_id \in 2 .. MaxId + 1
      /\ modified \in Bit /\ cancel \in Bit /\ table # <<>> /\ Len(table) >= 1
      /\ table[1].id = 1 /\ table[1].events = 1 /\ 1 \in Bit
  BY DEF TypeOK, Shape, Bit
<1>2. CASE o.call = "add"
  <2>1. o.fd \in Fds /\ o.events \in Bit
    BY <1>2 DEF Ops
  <2> DEFINE e == [id |-> next_id, fd |-> o.fd, events |-> o.events, revents |-> 0]
  <2>2. e \in Entries
    BY <2>1, <1>1 DEF Entries, Bit
  <2>3. Install(Append(table, e)) /\ next_id' = next_id + 1 /\ UNCHANGED cancel
    BY <1>2 DEF Perform
  <2> HIDE DEF e
  <2>4. /\ Append(table, e) \in Seq(Entries) /\ Append(table, e) # <<>>
        /\ Append(table, e)[1] = table[1] /\ Len(Append(table, e)) = Len(table) + 1
    BY <1>1, <2>2
  <2>5. /\ table' \in Seq(Entries) /\ Len(table') = Len(table) + 1 /\ table'[1] = table[1]
        /\ npoll' \in 0 .. Len(table) + 1 /\ modified' = 1 /\ ActiveFirst'
    BY <2>3, <2>4, <1>1, Installed
  <2> QED BY <2>5, <2>3, <1>1, <1>2
<1>3. CASE o.call = "set"
  <2>1. o.id \in 2 .. MaxId /\ o.events \in Bit
    BY <1>3 DEF Ops
  <2> DEFINE t == [j \in 1..Len(table) |->
                      IF table[j].id = o.id THEN [table[j] EXCEPT !.events = o.events]
                                            ELSE table[j]]
  <2>2. Install(t) /\ UNCHANGED <<next_id, cancel>>
    BY <1>3 DEF Perform
  <2>3. \A j \in 1 .. Len(table) : t[j] \in Entries
    <3> SUFFICES ASSUME NEW j \in 1 .. Len(table) PROVE t[j] \in Entries
      OBVIOUS
    <3>1. table[j] \in Entries
      BY <1>1
    <3> QED BY <3>1, <2>1 DEF Entries
  <2>4. t \in Seq(Entries) /\ Len(t) = Len(table) /\ t[1] = table[1]
    <3>1. t[1] = table[1]
      BY <2>1, <1>1
    <3>2. t \in [1 .. Len(table) -> Entries]
      BY <2>3
    <3> HIDE DEF t
    <3> QED BY <3>1, <3>2, <1>1
  <2> HIDE DEF t
  <2>5. t # <<>> /\ t[1].events = 1
    BY <2>4, <1>1
  <2>6. /\ table' \in Seq(Entries) /\ Len(table') = Len(table) /\ table'[1] = table[1]
        /\ npoll' \in 0 .. Len(table) /\ modified' = 1 /\ ActiveFirst'
    BY <2>2, <2>4, <2>5, Installed
  <2> QED BY <2>6, <2>2, <1>1
<1>4. CASE o.call = "delete"
  <2>1. o.id \in 2 .. MaxId
    BY <1>4 DEF Ops
  <2> DEFINE at == SelectInSeq(table, LAMBDA e : e.id = o.id)
  <2>2. /\ IF at = 0 THEN UNCHANGED <<table, npoll, modified>> ELSE Install(RemoveAt(table, at))
        /\ UNCHANGED <<next_id, cancel>>
    BY <1>4 DEF Perform
  <2>3. at = 0 \/ (at \in 1 .. Len(table) /\ table[at].id = o.id)
    <3> DEFINE I == {j \in 1 .. Len(table) : table[j].id = o.id}
    <3>1. at = IF I # {} THEN Min(I) ELSE 0
      BY DEF SelectInSeq
    <3>2. I \subseteq Nat
      OBVIOUS
    <3>3. I # {} => Min(I) \in I
      BY <3>2, MinNatural
    <3> QED BY <3>1, <3>3
  <2> HIDE DEF at
  <2>4. CASE at = 0
    BY <2>2, <2>4, <1>1 DEF ActiveFirst
  <2>5. CASE at # 0
    <3>1. at \in 2 .. Len(table)
      BY <2>3, <2>5, <2>1, <1>1
    <3> DEFINE t == RemoveAt(table, at)
    <3>2. t \in Seq(Entries) /\ Len(t) = Len(table) - 1 /\ t[1] = table[1]
      BY <3>1, <1>1 DEF RemoveAt
    <3>3. Install(t)
      BY <2>2, <2>5
    <3> HIDE DEF t
    <3>4. t # <<>> /\ t[1].events = 1
      BY <3>1, <3>2, <1>1
    <3>5. /\ table' \in Seq(Entries) /\ Len(table') = Len(t) /\ table'[1] = table[1]
          /\ npoll' \in 0 .. Len(t) /\ modified' = 1 /\ ActiveFirst'
      BY <3>2, <3>3, <3>4, Installed
    <3> QED BY <3>1, <3>2, <3>5, <2>2, <1>1
  <2> QED BY <2>4, <2>5
<1>5. CASE o.call = "cleanup"
  <2>1. cancel' = 1 /\ UNCHANGED tbl
    BY <1>5 DEF Perform
  <2> QED BY <2>1, <1>1 DEF ActiveFirst, tbl
<1> QED BY <1>2, <1>3, <1>4, <1>5 DEF Ops

(* poll() returns: the results are written, and counted.                     *)
LEMMA PollReturnKeeps ==
  ASSUME AsyncInv, Handshake, PollSeesTable, PollReturns
  PROVE  AsyncInv'
<1> USE BoundsAssumption
<1>1. /\ table \in Seq(Entries) /\ Len(table) \in Nat /\ Len(table) <= MaxHandlers
      /\ npoll \in 0 .. Len(table) /\ Len(table) >= 1
      /\ table[1].events = 1 /\ table[1].fd = AEV /\ table[1].id = 1
  BY DEF AsyncInv, TypeOK, Shape
<1>2. npoll >= 1
  BY <1>1 DEF AsyncInv, ActiveFirst
<1>3. Len(polling) = npoll /\ polling[1] = AEV
  BY <1>1, <1>2 DEF PollReturns, PollSeesTable
<1>4. Found \subseteq 1 .. npoll /\ Found # {}
  BY <1>3 DEF Found, PollReturns
<1>5. npending' \in 1 .. MaxHandlers
  <2>1. IsFiniteSet(1 .. npoll) /\ Cardinality(1 .. npoll) = npoll
    BY <1>1, <1>2, FS_Interval
  <2>2. IsFiniteSet(Found) /\ Cardinality(Found) <= npoll
    BY <2>1, <1>4, FS_Subset
  <2>3. Cardinality(Found) \in Nat /\ Cardinality(Found) # 0
    BY <2>2, <1>4, FS_CardinalityType, FS_EmptySet
  <2> QED BY <2>2, <2>3, <1>1 DEF PollReturns
<1>6. ASSUME NEW j \in 1 .. Len(table)
      PROVE  /\ table'[j] \in Entries /\ table'[j].id = table[j].id
             /\ table'[j].fd = table[j].fd /\ table'[j].events = table[j].events
  <2>1. table[j] \in Entries
    BY <1>1
  <2>2. table'[j] = IF j \in 1 .. npoll
                    THEN [table[j] EXCEPT !.revents = IF j \in Found THEN 1 ELSE 0]
                    ELSE table[j]
    BY <1>3 DEF PollReturns
  <2> QED BY <2>1, <2>2 DEF Entries, Bit
<1>7. table' \in Seq(Entries) /\ Len(table') = Len(table)
  BY <1>1, <1>6 DEF PollReturns
<1>8. table'[1].revents = 0 => evpipe = <<>>
  <2>1. table[1] \in Entries
    BY <1>1
  <2>2. table'[1].revents = IF 1 \in Found THEN 1 ELSE 0
    BY <1>1, <1>2, <1>3, <2>1 DEF PollReturns, Entries
  <2> QED BY <2>2, <1>2, <1>3 DEF Found, Readable
<1>9. TypeOK'
  <2>1. npoll' \in 0 .. Len(table') /\ Len(table') <= MaxHandlers /\ npending' \in -1 .. MaxHandlers
    BY <1>1, <1>5, <1>7 DEF PollReturns
  <2>2. polling' \in Seq(Fds \cup {AEV}) /\ ppc' \in PollPoints
    BY DEF PollReturns, PollPoints
  <2>3. UNCHANGED <<next_id, modified, io_pending, evpipe, ack, cancel, pc, op, i, ready, sends>>
    BY DEF PollReturns, main
  <2> QED BY <1>7, <2>1, <2>2, <2>3 DEF AsyncInv, TypeOK
<1>10. ActiveFirst'
  BY <1>6, <1>7 DEF AsyncInv, ActiveFirst, PollReturns
<1>11. Shape'
  BY <1>1, <1>6, <1>7 DEF AsyncInv, Shape, PollReturns, main
<1>12. Wakeups'
  <2>1. pc # "scan" /\ pc # "handler" /\ (io_pending = 1 => pc \in {"join", "closed"})
    BY DEF Handshake, PollReturns
  <2>2. evpipe = <<>> => Len(evpipe) = 0
    OBVIOUS
  <2>3. sends \in Nat /\ UNCHANGED <<evpipe, sends, io_pending, pc, i>> /\ ppc' = "set"
    BY DEF AsyncInv, TypeOK, PollReturns, main
  <2> QED BY <1>5, <1>8, <2>1, <2>2, <2>3 DEF AsyncInv, Wakeups
<1> QED BY <1>9, <1>10, <1>11, <1>12 DEF AsyncInv

(* A call of the main thread, and its end after wait_safe() waited.          *)
LEMMA CallKeeps ==
  ASSUME AsyncInv, Handshake, NEW o \in Ops, Call(o) \/ (WaitSafeDone /\ o = op)
  PROVE  AsyncInv'
<1> USE BoundsAssumption DEF AsyncInv
<1>1. CASE Call(o) /\ io_pending = 0
  <2>1. /\ evpipe' = Append(evpipe, 0) /\ pc' = "spin" /\ op' = o
        /\ UNCHANGED <<table, npoll, next_id, modified, cancel>>
        /\ UNCHANGED <<npending, io_pending, ack, ppc, polling, i, ready, sends>>
    BY <1>1 DEF Call, tbl, thread
  <2>2. pc = "run"
    BY <1>1 DEF Call, Handshake
  <2>3. o.call = "add" => Len(table) < MaxHandlers /\ next_id <= MaxId
    BY <1>1 DEF Call, Legal
  <2>4. evpipe' \in Seq(Bit) /\ Len(evpipe') = Len(evpipe) + 1 /\ Len(evpipe) \in Nat
    BY <2>1 DEF TypeOK, Bit
  <2>5. TypeOK'
    BY <2>1, <2>4 DEF TypeOK, MainPoints
  <2>6. ActiveFirst'
    BY <2>1 DEF ActiveFirst
  <2>7. Shape'
    BY <2>1, <2>3 DEF Shape
  <2>8. sends \in Nat
    BY DEF TypeOK
  <2>9. Wakeups'
    BY <1>1, <2>1, <2>2, <2>4, <2>8 DEF Wakeups
  <2> QED BY <2>5, <2>6, <2>7, <2>9
<1>2. CASE io_pending = 1
  <2>1. /\ Perform(o)
        /\ o.call = "add" => Len(table) < MaxHandlers /\ next_id <= MaxId
        /\ pc \in {"run", "handler", "spin"}
        /\ pc' = IF o.call = "cleanup" THEN "cancel" ELSE IF pc = "spin" THEN "run" ELSE pc
        /\ op' \in {op, NoOp}
        /\ UNCHANGED <<npending, io_pending, evpipe, ack, ppc, polling, i, ready, sends>>
    BY <1>2 DEF Call, Legal, WaitSafeDone, Shape, thread
  <2>2. /\ table' \in Seq(Entries) /\ Len(table') <= MaxHandlers
        /\ npoll' \in 0 .. Len(table') /\ next_id' \in 2 .. MaxId + 1
        /\ modified' \in Bit /\ cancel' \in Bit
        /\ ActiveFirst' /\ table' # <<>> /\ table'[1] = table[1]
    BY <2>1, PerformKeeps
  <2>3. op' \in Ops \cup {NoOp} /\ pc' \in {"run", "handler", "cancel"}
    BY <2>1 DEF TypeOK
  <2>4. TypeOK'
    BY <2>1, <2>2, <2>3 DEF TypeOK, MainPoints
  <2>5. Shape'
    BY <2>1, <2>2, <2>3 DEF Shape
  <2>6. Wakeups'
    BY <1>2, <2>1, <2>2, <2>3 DEF Wakeups, Handshake
  <2> QED BY <2>2, <2>4, <2>5, <2>6
<1> QED BY <1>1, <1>2 DEF TypeOK, Bit, WaitSafeDone

(* A scan calls the handler of the entry it is at.                           *)
LEMMA HandlerKeeps ==
  ASSUME AsyncInv, Handshake, CallHandler
  PROVE  AsyncInv'
<1> USE BoundsAssumption DEF AsyncInv
<1>1. /\ table \in Seq(Entries) /\ Len(table) \in Nat /\ Len(table) <= MaxHandlers
      /\ npoll \in 0 .. Len(table) /\ i \in 1 .. MaxHandlers + 1
      /\ evpipe \in Seq(Bit) /\ sends \in Nat /\ npending \in -1 .. MaxHandlers
  BY DEF TypeOK
<1>2. /\ i \in 1 .. Len(table) /\ npending > 0 /\ npending' = npending - 1
      /\ pc = "scan" /\ pc' = "handler" /\ modified' = 0
      /\ table' = [table EXCEPT ![i].revents = 0]
      /\ UNCHANGED <<npoll, next_id, io_pending, ack, cancel, ppc, polling, op, i, sends>>
  BY <1>1 DEF CallHandler, More, thread
<1>3. \A j \in 1 .. Len(table) :
          /\ table[j] \in Entries /\ table'[j] \in Entries
          /\ table'[j].id = table[j].id /\ table'[j].fd = table[j].fd
          /\ table'[j].events = table[j].events
  <2> SUFFICES ASSUME NEW j \in 1 .. Len(table)
               PROVE  /\ table[j] \in Entries /\ table'[j] \in Entries
                      /\ table'[j].id = table[j].id /\ table'[j].fd = table[j].fd
                      /\ table'[j].events = table[j].events
    OBVIOUS
  <2>1. table[j] \in Entries /\ table[i] \in Entries
    BY <1>1, <1>2
  <2>2. table'[j] = IF j = i THEN [table[i] EXCEPT !.revents = 0] ELSE table[j]
    BY <1>1, <1>2
  <2> QED BY <2>1, <2>2 DEF Entries, Bit
<1>4. table' \in Seq(Entries) /\ Len(table') = Len(table)
  <2>1. PICK e \in Entries : e = [table[i] EXCEPT !.revents = 0]
    BY <1>1, <1>2, <1>3
  <2>2. table' = [table EXCEPT ![i] = e]
    BY <1>2, <2>1
  <2> QED BY <2>2, <1>1, <1>2
<1>5. evpipe' \in Seq(Bit) /\ Len(evpipe') <= Len(evpipe)
      /\ (table[i].fd = AEV => Len(evpipe') <= Len(evpipe) - 1 \/ Len(evpipe') = 0)
  <2>1. CASE table[i].fd = AEV /\ evpipe # <<>>
    <3>1. evpipe' = Tail(evpipe)
      BY <2>1 DEF CallHandler
    <3>2. Tail(evpipe) \in Seq(Bit) /\ Len(Tail(evpipe)) = Len(evpipe) - 1 /\ Len(evpipe) \in Nat
      BY <1>1, <2>1
    <3> QED BY <3>1, <3>2
  <2>2. CASE table[i].fd # AEV \/ evpipe = <<>>
    <3>1. evpipe' = evpipe /\ Len(evpipe) \in Nat
      BY <1>1, <2>2 DEF CallHandler
    <3> QED BY <1>1, <2>2, <3>1
  <2> QED BY <2>1, <2>2
<1>6. ready' \subseteq Fds
  BY DEF CallHandler, TypeOK
<1>7. TypeOK'
  <2>1. /\ npoll' \in 0 .. Len(table') /\ Len(table') <= MaxHandlers
        /\ npending' \in -1 .. MaxHandlers
    BY <1>1, <1>2, <1>4
  <2>2. modified' \in Bit /\ pc' \in MainPoints
    BY <1>2 DEF Bit, MainPoints
  <2> QED BY <1>2, <1>4, <1>5, <1>6, <2>1, <2>2 DEF TypeOK
<1>8. ActiveFirst'
  BY <1>2, <1>3, <1>4 DEF ActiveFirst
<1>9. Shape'
  BY <1>1, <1>2, <1>3, <1>4 DEF Shape
<1>10. Wakeups'
  <2>0. Len(evpipe) \in Nat /\ Len(evpipe') \in Nat /\ sends \in Nat
    BY <1>1, <1>5
  <2>1. Len(evpipe') <= sends + 1
    <3>1. CASE i = 1
      <4>1. table[i].fd = AEV /\ Len(evpipe) <= sends + 2
        BY <3>1 DEF Wakeups, Shape
      <4> QED BY <4>1, <2>0, <1>5
    <3>2. CASE i # 1
      <4>1. Len(evpipe) <= sends + 1
        BY <3>2, <1>2 DEF Wakeups
      <4> QED BY <4>1, <2>0, <1>5
    <3> QED BY <3>1, <3>2
  <2>2. ppc # "set" /\ io_pending = 1
    BY <1>2 DEF Handshake
  <2>3. /\ pc' = "handler" /\ io_pending' = 1 /\ ppc' # "set" /\ sends' = sends
        /\ Len(evpipe') <= sends + 2
    BY <1>2, <2>0, <2>1, <2>2
  <2> QED BY <2>1, <2>3 DEF Wakeups
<1> QED BY <1>7, <1>8, <1>9, <1>10

(* The handlers that wait come first in the table, and wait_safe() does not   *)
(* fill the event pipe, for any number of descriptors, handlers and events.   *)
THEOREM TableSorted == Spec => []TableInOrder
<1> USE BoundsAssumption
<1>1. Init => AsyncInv
  <2> SUFFICES ASSUME Init PROVE AsyncInv
    OBVIOUS
  <2> DEFINE e == [id |-> 1, fd |-> AEV, events |-> 1, revents |-> 0]
  <2>1. e \in Entries
    BY DEF Entries, Bit
  <2>2. table = <<e>> /\ table \in Seq(Entries) /\ Len(table) = 1 /\ table[1] = e
    BY <2>1 DEF Init
  <2>3. TypeOK
    BY <2>2 DEF Init, TypeOK, Bit, PollPoints, MainPoints
  <2>4. ActiveFirst
    BY <2>2 DEF Init, ActiveFirst
  <2>5. Shape
    BY <2>2 DEF Init, Shape
  <2>6. Wakeups
    BY DEF Init, Wakeups
  <2> QED BY <2>3, <2>4, <2>5, <2>6 DEF AsyncInv
<1>2. ASSUME AsyncInv, Handshake, PollSeesTable, [Next]_vars PROVE AsyncInv'
  <2> USE <1>2 DEF AsyncInv
  <2>0. /\ sends \in Nat /\ Len(evpipe) \in Nat /\ evpipe \in Seq(Bit)
        /\ npoll \in 0 .. Len(table) /\ Len(table) \in Nat /\ Len(table) <= MaxHandlers
        /\ i \in 1 .. MaxHandlers + 1
    BY DEF TypeOK
  <2>1. CASE PollStarts
    <3>1. /\ UNCHANGED <<table, npoll, npending, next_id, modified, io_pending, evpipe, ack,
                         cancel, pc, op, i, ready, sends>>
          /\ ppc' = "poll" /\ polling' = [j \in 1..npoll |-> table[j].fd]
      BY <2>1 DEF PollStarts, tbl, main
    <3>2. \A j \in 1 .. npoll : table[j].fd \in Fds \cup {AEV}
      <4> SUFFICES ASSUME NEW j \in 1 .. npoll PROVE table[j].fd \in Fds \cup {AEV}
        OBVIOUS
      <4>1. table[j] \in Entries
        BY <2>0 DEF TypeOK
      <4> QED BY <4>1 DEF Entries
    <3>3. polling' \in Seq(Fds \cup {AEV})
      BY <3>1, <3>2, <2>0
    <3> QED BY <3>1, <3>3, <2>0 DEF TypeOK, PollPoints, ActiveFirst, Shape, Wakeups
  <2>2. CASE ThreadExits
    BY <2>2 DEF ThreadExits, TypeOK, PollPoints, Bit, ActiveFirst, Shape, Wakeups, tbl, main
  <2>3. CASE PollReturns
    BY <2>3, PollReturnKeeps
  <2>4. CASE PollInterrupted
    <3>1. /\ UNCHANGED <<table, npoll, next_id, modified, io_pending, evpipe, ack,
                         cancel, pc, op, i, ready, sends>>
          /\ ppc = "poll" /\ ppc' = "top" /\ polling' = <<>> /\ npending' = -1
      BY <2>4 DEF PollInterrupted, tbl, main
    <3>2. TypeOK'
      BY <3>1 DEF TypeOK, PollPoints
    <3>3. ActiveFirst' /\ Shape'
      BY <3>1 DEF ActiveFirst, Shape
    <3>4. Wakeups'
      BY <3>1 DEF Wakeups, Handshake
    <3> QED BY <3>2, <3>3, <3>4
  <2>5. CASE SetPending
    <3>1. /\ UNCHANGED <<table, npoll, npending, next_id, modified, evpipe, ack,
                         cancel, polling, pc, op, i, ready, sends>>
          /\ ppc = "set" /\ ppc' = "ack" /\ io_pending' = 1
      BY <2>5 DEF SetPending, tbl, main
    <3>2. TypeOK'
      BY <3>1 DEF TypeOK, PollPoints, Bit
    <3>3. ActiveFirst' /\ Shape'
      BY <3>1 DEF ActiveFirst, Shape
    <3>4. Wakeups'
      BY <3>1, <2>0 DEF Wakeups, Handshake
    <3> QED BY <3>2, <3>3, <3>4
  <2>6. CASE ReadAck
    BY <2>6 DEF ReadAck, TypeOK, PollPoints, ActiveFirst, Shape, Wakeups, tbl, main
  <2>7. CASE WaitSafeDone
    <3>1. op \in Ops
      BY <2>7 DEF WaitSafeDone, Shape
    <3> QED BY <2>7, <3>1, CallKeeps
  <2>8. CASE DoAsyncIo
    BY <2>8, <2>0 DEF DoAsyncIo, TypeOK, MainPoints, ActiveFirst, Shape, Wakeups, Handshake,
                      tbl, thread
  <2>9. CASE SkipEntry
    <3>1. /\ UNCHANGED <<table, npoll, npending, next_id, modified, io_pending, evpipe, ack,
                         cancel, ppc, polling, pc, op, ready, sends>>
          /\ pc = "scan" /\ i <= npoll /\ i' = i + 1 /\ ~Due(table[i])
      BY <2>9 DEF SkipEntry, tbl, thread, More
    <3>2. TypeOK'
      BY <3>1, <2>0 DEF TypeOK
    <3>3. ActiveFirst' /\ Shape'
      BY <3>1 DEF ActiveFirst, Shape
    <3>4. i = 1 => table[1].revents = 0
      <4>1. table[1] \in Entries
        BY <2>0 DEF TypeOK, Shape
      <4> QED BY <4>1, <3>1 DEF Due, Shape, Entries, Bit
    <3>5. Wakeups'
      BY <3>1, <3>4, <2>0 DEF Wakeups, Handshake
    <3> QED BY <3>2, <3>3, <3>5
  <2>10. CASE CallHandler
    BY <2>10, HandlerKeeps
  <2>11. CASE HandlerReturns
    <3>1. /\ UNCHANGED <<table, npoll, npending, next_id, io_pending, evpipe, ack,
                         cancel, ppc, polling, op, ready, sends>>
          /\ pc = "handler" /\ pc' = "scan" /\ modified' = 0 /\ i' \in {2, i + 1}
      BY <2>11 DEF HandlerReturns, thread
    <3>2. i <= MaxHandlers
      BY <3>1 DEF Shape
    <3>3. TypeOK'
      BY <3>1, <3>2, <2>0 DEF TypeOK, MainPoints, Bit
    <3>4. ActiveFirst' /\ Shape'
      BY <3>1 DEF ActiveFirst, Shape
    <3>5. Wakeups'
      BY <3>1, <2>0 DEF Wakeups, Handshake
    <3> QED BY <3>3, <3>4, <3>5
  <2>12. CASE ScanDone
    <3>1. /\ UNCHANGED <<table, npoll, npending, next_id, modified, evpipe, ack,
                         cancel, ppc, polling, op, ready, sends>>
          /\ pc = "scan" /\ pc' = "ackw" /\ io_pending' = 0 /\ i' = 1
          /\ ~(i <= npoll /\ npending > 0)
      BY <2>12 DEF ScanDone, tbl, thread, More
    <3>2. TypeOK'
      BY <3>1, <2>0 DEF TypeOK, MainPoints, Bit
    <3>3. ActiveFirst' /\ Shape'
      BY <3>1 DEF ActiveFirst, Shape
    <3>4. npoll >= 1
      <4>1. 1 \in 1 .. Len(table) /\ table[1].events = 1
        BY <2>0 DEF Shape, TypeOK
      <4> QED BY <4>1 DEF ActiveFirst
    <3>5. i # 1
      BY <3>1, <3>4 DEF Wakeups
    <3>6. Len(evpipe) <= sends + 1 /\ ppc # "set"
      BY <3>1, <3>5 DEF Wakeups, Handshake
    <3>7. Wakeups'
      BY <3>1, <3>6, <2>0 DEF Wakeups
    <3> QED BY <3>2, <3>3, <3>7
  <2>13. CASE WriteAck
    <3>1. /\ UNCHANGED <<table, npoll, npending, next_id, modified, io_pending, evpipe,
                         cancel, ppc, polling, op, i, ready, sends>>
          /\ pc = "ackw" /\ pc' = "run" /\ ack' = ack + 1
      BY <2>13 DEF WriteAck, tbl, thread
    <3>2. ack = 0 /\ io_pending = 0 /\ ppc = "ack"
      BY <3>1 DEF Handshake
    <3>3. TypeOK'
      BY <3>1, <3>2 DEF TypeOK, MainPoints
    <3>4. ActiveFirst' /\ Shape'
      BY <3>1 DEF ActiveFirst, Shape
    <3>5. Wakeups'
      BY <3>1, <3>2, <2>0 DEF Wakeups
    <3> QED BY <3>3, <3>4, <3>5
  <2>14. CASE CleanupAcks
    <3>1. /\ UNCHANGED <<table, npoll, npending, next_id, modified, io_pending, evpipe,
                         cancel, ppc, polling, op, i, ready, sends>>
          /\ pc = "cancel" /\ pc' = "join" /\ ack' = ack + 1
      BY <2>14 DEF CleanupAcks, tbl, thread
    <3>2. ack = 0 /\ io_pending = 1 /\ ppc = "ack"
      BY <3>1 DEF Handshake
    <3>3. TypeOK'
      BY <3>1, <3>2 DEF TypeOK, MainPoints
    <3>4. ActiveFirst' /\ Shape'
      BY <3>1 DEF ActiveFirst, Shape
    <3>5. Wakeups'
      BY <3>1, <3>2, <2>0 DEF Wakeups
    <3> QED BY <3>3, <3>4, <3>5
  <2>15. CASE ThreadJoined
    <3>1. /\ UNCHANGED <<table, npoll, npending, next_id, modified, io_pending, evpipe, ack,
                         cancel, ppc, polling, op, i, ready, sends>>
          /\ pc = "join" /\ pc' = "closed"
      BY <2>15 DEF ThreadJoined, tbl, thread
    <3>2. TypeOK'
      BY <3>1 DEF TypeOK, MainPoints
    <3>3. ActiveFirst' /\ Shape'
      BY <3>1 DEF ActiveFirst, Shape
    <3>4. Wakeups'
      BY <3>1, <2>0 DEF Wakeups, Handshake
    <3> QED BY <3>2, <3>3, <3>4
  <2>16. CASE send_aevent
    <3>1. /\ UNCHANGED <<table, npoll, npending, next_id, modified, io_pending, ack,
                         cancel, ppc, polling, pc, op, i, ready>>
          /\ sends < MaxSends /\ sends' = sends + 1 /\ evpipe' = Append(evpipe, 1)
      BY <2>16 DEF send_aevent, tbl, thread, main
    <3>2. evpipe' \in Seq(Bit) /\ Len(evpipe') = Len(evpipe) + 1
      BY <3>1, <2>0 DEF Bit
    <3>3. TypeOK'
      BY <3>1, <3>2 DEF TypeOK
    <3>4. ActiveFirst' /\ Shape'
      BY <3>1 DEF ActiveFirst, Shape
    <3>5. Wakeups'
      BY <3>1, <3>2, <2>0 DEF Wakeups
    <3> QED BY <3>3, <3>4, <3>5
  <2>17. CASE UNCHANGED vars \/ Closed
    <3>1. UNCHANGED vars
      BY <2>17 DEF Closed
    <3>2. TypeOK'
      BY <3>1 DEF vars, TypeOK
    <3>3. ActiveFirst' /\ Shape'
      BY <3>1 DEF vars, ActiveFirst, Shape
    <3>4. Wakeups'
      BY <3>1 DEF vars, Wakeups
    <3> QED BY <3>2, <3>3, <3>4
  <2>18. ASSUME NEW o \in Ops, Call(o) PROVE AsyncInv'
    BY <2>18, CallKeeps
  <2>19. ASSUME NEW fd \in Fds, Arrive(fd) PROVE AsyncInv'
    BY <2>19 DEF Arrive, TypeOK, ActiveFirst, Shape, Wakeups, tbl, thread, main
  <2> QED BY <2>1, <2>2, <2>3, <2>4, <2>5, <2>6, <2>7, <2>8, <2>9, <2>10,
             <2>11, <2>12, <2>13, <2>14, <2>15, <2>16, <2>17, <2>18, <2>19
          DEF Next, PollThread, MainThread
<1>3. AsyncInv => TableInOrder
  BY DEF AsyncInv, TableInOrder, Wakeups, WakeupsBounded
<1> QED BY <1>1, <1>2, <1>3, HandshakeCorrect, TableStable, PTL DEF Spec
=============================================================================
