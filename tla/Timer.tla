------------------------------- MODULE Timer --------------------------------
(***************************************************************************)
(* The timer queue: one-shot and periodic timers kept in a list that is     *)
(* sorted by the low word of their expiration time alone.  A timer beyond   *)
(* the range of that comparison waits, flagged TF_OVERFLOW, behind the      *)
(* overflow timer, whose handler sorts it in when its time comes nearer.    *)
(*                                                                         *)
(* Every call of the interface runs under timer_lock_mutex and may come     *)
(* from any thread; rvec_timer() runs on the main thread and drops the lock *)
(* around each handler.  A step below is one critical section.  A timer id  *)
(* changes each time its slot is allocated, so a call with an id of an      *)
(* earlier use finds nothing; such calls change nothing and are left out.   *)
(*                                                                         *)
(* Source: main/timer.c.                                                    *)
(***************************************************************************)
EXTENDS Integers, Sequences, SequencesExt

CONSTANTS
    Slots,        \* ts.slots except the one the overflow timer takes
    Half,         \* half the range of the low word of the time base (2^31 in the code)
    Delays,       \* expiration times, relative to now, that callers ask for
    Reprogram,    \* may set_ptimer/pause_ptimer hit a TF_OVERFLOW timer?
    Start,        \* the time base at timer_init()
    MaxTime,      \* bound on the time base
    MaxLate,      \* bound on the delay of the timer interrupt
    MaxFreeze     \* bound on the time spent in the debugger

OVF == "overflow"                     \* ts.overflow
All == Slots \cup {OVF}
M   == 2 * Half
TIMER_MAX == Half - 1
DefaultPeriod == 2                    \* stands for "uperiod = 2000"

ASSUME SlotsAssumption == IsFiniteSet(Slots) /\ OVF \notin Slots
ASSUME HalfAssumption == Half \in Nat \ {0, 1}
ASSUME DelaysAssumption == Delays \subseteq Nat
ASSUME ReprogramAssumption == Reprogram \in BOOLEAN
ASSUME BoundsAssumption == /\ Start \in Nat /\ MaxTime \in Nat /\ Start <= MaxTime
                           /\ MaxLate \in Nat /\ MaxLate < TIMER_MAX
                           /\ MaxFreeze \in Nat

VARIABLES
    now,          \* the time base, mticks
    tm,           \* the slots
    head,         \* active timers, in list order
    inactive,     \* inactive periodic timers (without the overflow timer)
    free,         \* unused slots
    stamp,        \* mregs->timer_stamp
    pc,           \* where the main thread is: see Points
    running,      \* the timer whose handler runs (else OVF)
    frozen        \* time at which the debugger froze the timers (else 0)

vars == <<now, tm, head, inactive, free, stamp, pc, running, frozen>>
lists == <<head, inactive, free>>

Points == {"guest", "loop", "handler", "frozen"}
Kinds  == {"shot", "auto", "manual"}

TypeOK ==
    /\ now \in 0..MaxTime
    /\ tm \in [All -> [mark : Nat, overflow : BOOLEAN, kind : Kinds, period : Nat]]
    /\ head \in Seq(All) /\ inactive \in Seq(Slots) /\ free \in Seq(Slots)
    /\ stamp \in 0..M - 1
    /\ pc \in Points
    /\ running \in All
    /\ frozen \in 0..MaxTime

(* tbl, and a difference of low words as the signed int of the code.        *)
Low(m) == m % M
Signed(x) == ((x + Half) % M) - Half

(* A free slot: what it held is overwritten before it is read again.        *)
Unused == [mark |-> 0, overflow |-> FALSE, kind |-> "shot", period |-> 0]

Init ==
    /\ now = Start
    /\ tm = [s \in All |-> IF s = OVF
                           THEN [mark |-> Start + TIMER_MAX, overflow |-> FALSE, kind |-> "auto",
                                 period |-> TIMER_MAX]
                           ELSE Unused]
    /\ head = <<OVF>> /\ inactive = <<>> /\ free = SetToSeq(Slots)
    /\ stamp = Low(Start + TIMER_MAX)
    /\ pc = "guest" /\ running = OVF /\ frozen = 0

-----------------------------------------------------------------------------
(* dequeue_timer(): the list without s, and as it is if s is not on it.     *)
Position(list, s) == SelectInSeq(list, LAMBDA x : x = s)
dequeue_timer(list, s) ==
    LET i == Position(list, s) IN IF i = 0 THEN list ELSE RemoveAt(list, i)

(* Mutant: the time base is compared without regard to its wrap. *)
SortInUnsigned(q, s) ==
    LET i == SelectInSeq(q.list, LAMBDA x : Low(q.tm[x].mark) >= Low(q.tm[s].mark))
    IN IF i = 0 THEN Append(q.list, s) ELSE InsertAt(q.list, i, s)

(* Where insert_timer() sorts s in: in front of the first timer that is not *)
(* earlier, by the sign of the low words' difference.                       *)
SortIn(q, s) ==
    LET i == SelectInSeq(q.list, LAMBDA x : Signed(Low(q.tm[x].mark) - Low(q.tm[s].mark)) >= 0)
    IN IF i = 0 THEN Append(q.list, s) ELSE InsertAt(q.list, i, s)

(* insert_timer(): q is the list of active timers, the slots and the stamp  *)
(* at which the kernel calls rvec_timer().  A mark after the overflow       *)
(* timer's goes right behind it; any other is sorted in, and a new first    *)
(* timer sets the stamp.                                                    *)
insert_timer(q, s) ==
    IF q.tm[s].mark > q.tm[OVF].mark
    THEN [q EXCEPT !.list = InsertAt(q.list, Position(q.list, OVF) + 1, s),
                   !.tm[s].overflow = TRUE]
    ELSE LET list == SortIn(q, s)
         IN [q EXCEPT !.list = list,
                      !.stamp = IF list[1] = s THEN Low(q.tm[s].mark) ELSE @]

Install(q) == head' = q.list /\ tm' = q.tm /\ stamp' = q.stamp
Enqueue(list, slots, s) == Install(insert_timer([list |-> list, tm |-> slots, stamp |-> stamp], s))

(* The interface may be called by the main thread from handlers and by      *)
(* other threads at any time.                                               *)
main == <<now, pc, running, frozen>>

(* abs_timer(), by way of tick_timer() and usec_timer().                    *)
abs_timer(delay) ==
    /\ free # <<>>
    /\ LET s == Head(free)
       IN Enqueue(head, [tm EXCEPT ![s] = [Unused EXCEPT !.mark = now + delay]], s)
    /\ free' = Tail(free)
    /\ UNCHANGED <<inactive, main>>

cancel_timer(s) ==
    /\ Contains(head, s) /\ tm[s].kind = "shot"
    /\ head' = dequeue_timer(head, s)
    /\ free' = <<s>> \o free
    /\ tm' = [tm EXCEPT ![s] = Unused]
    /\ UNCHANGED <<inactive, stamp, main>>

new_ptimer(kind) ==
    /\ free # <<>>
    /\ LET s == Head(free)
       IN /\ tm' = [tm EXCEPT ![s] = [Unused EXCEPT !.kind = kind]]
          /\ inactive' = <<s>> \o inactive
    /\ free' = Tail(free)
    /\ UNCHANGED <<head, stamp, main>>

Periodic(s) == tm[s].kind # "shot"
Active(s) == Contains(head, s)
Reachable(s) == Reprogram \/ ~(Active(s) /\ tm[s].overflow)

(* set_ptimer(): TF_OVERFLOW is not cleared.                                *)
set_ptimer(s, uperiod) ==
    LET period == IF uperiod = 0 THEN DefaultPeriod ELSE uperiod
    IN /\ Active(s) \/ Contains(inactive, s)
       /\ Periodic(s) /\ Reachable(s)
       /\ inactive' = dequeue_timer(inactive, s)
       /\ Enqueue(dequeue_timer(head, s),
                  [tm EXCEPT ![s].mark = now + period, ![s].period = period], s)
       /\ UNCHANGED <<free, main>>

(* recalc_ptimer(): the first mark of the series that is in the future.     *)
Recalc(t) ==
    IF now < t.mark THEN t
    ELSE [t EXCEPT !.mark = @ + t.period * ((now - @) \div t.period + 1)]

(* resume_ptimer(): the list of inactive timers ends with the overflow      *)
(* timer, which is active, and so goes on with the timers behind it.        *)
BehindOverflow(s) ==
    Active(s) /\ Position(head, s) > Position(head, OVF)

resume_ptimer(s) ==
    /\ Contains(inactive, s) \/ BehindOverflow(s)
    /\ Periodic(s) /\ tm[s].period > 0
    /\ inactive' = dequeue_timer(inactive, s)
    /\ Enqueue(dequeue_timer(head, s), [tm EXCEPT ![s] = Recalc(@)], s)
    /\ UNCHANGED <<free, main>>

pause_ptimer(s) ==
    /\ Active(s) /\ Periodic(s) /\ Reachable(s)
    /\ head' = dequeue_timer(head, s)
    /\ inactive' = <<s>> \o inactive
    /\ UNCHANGED <<tm, free, stamp, main>>

free_ptimer(s) ==
    /\ Active(s) \/ Contains(inactive, s)
    /\ Periodic(s)
    /\ head' = dequeue_timer(head, s)
    /\ inactive' = dequeue_timer(inactive, s)
    /\ free' = <<s>> \o free
    /\ tm' = [tm EXCEPT ![s] = Unused]
    /\ UNCHANGED <<stamp, main>>

-----------------------------------------------------------------------------
(* The kernel calls rvec_timer() when the stamp has passed, by the sign of  *)
(* a difference of low words.                                               *)
Expired(s) == Signed(Low(now) - Low(tm[s].mark)) >= 0

rvec_timer ==
    /\ pc = "guest"
    /\ Signed(stamp - Low(now)) < 0
    /\ pc' = "loop"
    /\ UNCHANGED <<now, tm, lists, stamp, running, frozen>>

(* One turn of its loop takes the first timer off the list, puts it where   *)
(* its kind belongs and calls the handler with the lock released.           *)
Fire ==
    LET s == head[1]
    IN /\ pc = "loop"
       /\ Expired(s) /\ ~tm[s].overflow
       /\ \/ /\ tm[s].kind = "auto"
             /\ Enqueue(Tail(head), [tm EXCEPT ![s] = Recalc(@)], s)
             /\ UNCHANGED <<inactive, free>>
          \/ /\ tm[s].kind = "manual"
             /\ head' = Tail(head)
             /\ inactive' = <<s>> \o inactive
             /\ UNCHANGED <<tm, free, stamp>>
          \/ /\ tm[s].kind = "shot"
             /\ head' = Tail(head)
             /\ free' = <<s>> \o free
             /\ tm' = [tm EXCEPT ![s] = Unused]
             /\ UNCHANGED <<inactive, stamp>>
       /\ running' = s
       /\ pc' = "handler"
       /\ UNCHANGED <<now, frozen>>

LoopDone ==
    /\ pc = "loop"
    /\ ~Expired(head[1]) \/ tm[head[1]].overflow
    /\ stamp' = Low(tm[head[1]].mark)
    /\ pc' = "guest"
    /\ UNCHANGED <<now, tm, lists, running, frozen>>

HandlerReturns ==
    /\ pc = "handler" /\ running # OVF
    /\ pc' = "loop" /\ running' = OVF
    /\ UNCHANGED <<now, tm, lists, stamp, frozen>>

(* The two loops of overflow_handler().  The timers that wait are taken off *)
(* the list and chained, which reverses them; then they are sorted in       *)
(* again, in the order of the chain.                                        *)
Unhook(w, slots, s) ==
    IF slots[s].overflow THEN [w EXCEPT !.chain = <<s>> \o @]
                         ELSE [w EXCEPT !.rest = Append(@, s)]
Unhooked(list, slots) ==
    LET walk[k \in 0..Len(list)] == IF k = 0 THEN [rest |-> <<>>, chain |-> <<>>]
                                    ELSE Unhook(walk[k - 1], slots, list[k])
    IN walk[Len(list)]

SortBack(q, s) == insert_timer([q EXCEPT !.tm = [@ EXCEPT ![s].overflow = FALSE]], s)
SortedIn(q, chain) ==
    LET turn[k \in 0..Len(chain)] == IF k = 0 THEN q ELSE SortBack(turn[k - 1], chain[k])
    IN turn[Len(chain)]

(* Mutant: only the last of the timers that wait is sorted in. *)
OverflowHandlerFirst ==
    LET w == Unhooked(head, tm)
        q == SortedIn([list |-> w.rest, tm |-> tm, stamp |-> stamp],
                      IF w.chain = <<>> THEN <<>> ELSE <<Head(w.chain)>>)
    IN /\ pc = "handler" /\ running = OVF
       /\ Install([q EXCEPT !.list = @ \o IF w.chain = <<>> THEN <<>> ELSE Tail(w.chain)])
       /\ pc' = "loop"
       /\ UNCHANGED <<now, inactive, free, running, frozen>>

overflow_handler ==
    LET w == Unhooked(head, tm)
    IN /\ pc = "handler" /\ running = OVF
       /\ Install(SortedIn([list |-> w.rest, tm |-> tm, stamp |-> stamp], w.chain))
       /\ pc' = "loop"
       /\ UNCHANGED <<now, inactive, free, running, frozen>>

-----------------------------------------------------------------------------
(* The main thread stops in the debugger and moves the active timers by the *)
(* time it spent there; a timer interrupt that was due before is taken      *)
(* before the main thread stops again.                                      *)
Freeze ==
    /\ pc = "guest" /\ Signed(Low(now) - stamp) <= MaxLate
    /\ frozen' = now
    /\ pc' = "frozen"
    /\ UNCHANGED <<now, tm, lists, stamp, running>>

retune_timers ==
    /\ pc = "frozen"
    /\ tm' = [s \in All |-> IF Active(s) THEN [tm[s] EXCEPT !.mark = @ + now - frozen]
                                         ELSE tm[s]]
    /\ pc' = "guest" /\ frozen' = 0
    /\ UNCHANGED <<now, lists, stamp, running>>

(* Time passes.  The kernel's timer interrupt and the main thread in the    *)
(* loop are at most MaxLate late, except in the debugger.                   *)
Tick ==
    /\ now < MaxTime
    /\ IF pc = "frozen"
       THEN now < frozen + MaxFreeze
       ELSE /\ pc = "guest" => Signed(Low(now) - stamp) < MaxLate
            /\ \A i \in 1..Len(head) : now < tm[head[i]].mark + MaxLate
    /\ now' = now + 1
    /\ UNCHANGED <<tm, lists, stamp, pc, running, frozen>>

Next ==
    \/ \E d \in Delays : abs_timer(d)
    \/ \E k \in {"auto", "manual"} : new_ptimer(k)
    \/ \E s \in Slots : \/ cancel_timer(s) \/ resume_ptimer(s)
                        \/ pause_ptimer(s) \/ free_ptimer(s)
                        \/ \E u \in Delays : set_ptimer(s, u)
    \/ rvec_timer \/ Fire \/ LoopDone \/ HandlerReturns \/ overflow_handler
    \/ Freeze \/ retune_timers
    \/ Tick

Spec == Init /\ [][Next]_vars

-----------------------------------------------------------------------------
(* Every slot is in exactly one list, once: no call and no handler that     *)
(* races it loses a timer, queues it twice or frees it twice.  In           *)
(* particular the overflow timer is always active, so that the list that    *)
(* doze() and rvec_timer() dereference is never empty.                      *)
SlotsAccounted ==
    /\ IsInjective(head) /\ IsInjective(inactive) /\ IsInjective(free)
    /\ ToSet(head) \cap ToSet(inactive) = {}
    /\ (ToSet(head) \cup ToSet(inactive)) \cap ToSet(free) = {}
    /\ ToSet(head) \cup ToSet(inactive) \cup ToSet(free) = All
    /\ Active(OVF)

(* Comparing low words sorts by time: of two active timers of which neither *)
(* waits for overflow_handler(), the one in front expires first.            *)
SortedByTime ==
    \A i, j \in 1..Len(head) :
        i < j /\ ~tm[head[i]].overflow /\ ~tm[head[j]].overflow
            => tm[head[i]].mark <= tm[head[j]].mark

(* While the guest runs, the kernel calls rvec_timer() no later than the    *)
(* first timer expires: a timer that was inserted, moved or left behind by  *)
(* a cancelled one is not overlooked.                                       *)
StampNotLate ==
    LET wait == Signed(stamp - Low(now))      \* as dec.S computes it
    IN pc = "guest" => wait <= 0 \/ now + wait <= tm[head[1]].mark

(* No handler is called before its time, although only the low word of the  *)
(* time is looked at.                                                       *)
NeverEarly ==
    [][pc = "loop" /\ pc' = "handler" => now >= tm[head[1]].mark]_vars

(* The autoresume timers of video.c and usb.c keep firing: rvec_timer()     *)
(* never returns to the guest and leaves an expired timer first in line.    *)
NothingExpiredLeft ==
    [][pc = "loop" /\ pc' = "guest" => tm[head[1]].mark > now]_vars

(* The lists of timers are in order: every slot is on one list, the active   *)
(* list is sorted by time across the wrap of the low word, and the stamp of  *)
(* the kernel is no later than the first timer.                              *)
ListsInOrder == TypeOK /\ SlotsAccounted /\ SortedByTime /\ StampNotLate

(* No timer fires early, and none that is due is left behind by              *)
(* rvec_timer().                                                             *)
FiresOnTime == NeverEarly /\ NothingExpiredLeft
=============================================================================
