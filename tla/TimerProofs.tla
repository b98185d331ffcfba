---------------------------- MODULE TimerProofs -----------------------------
(***************************************************************************)
(* Proofs about the timers of the machine, for any set of slots, any width  *)
(* of the compared word, any delays and any length of the run.  The code     *)
(* compares times by the sign of a difference of low words, so a list is     *)
(* sorted only while all its marks lie within half the word of each other:   *)
(* the overflow timer at its end bounds them from above, the punctuality of  *)
(* the main loop (MaxLate, MaxFreeze) from below.  TimerInv states both,     *)
(* where the timers beyond the overflow timer stand while they wait to be    *)
(* sorted in again, and which time the decrementer was last programmed for.  *)
(* The loops of overflow_handler() are recursive functions of the turn; what *)
(* a turn keeps, the loop keeps, by its least failing turn.                  *)
(***************************************************************************)
EXTENDS Timer, FiniteSetTheorems, TLAPS

(* a is in front of b in a list.                                             *)
InFront(list, a, b) ==
    \E i, j \in 1 .. Len(list) : i < j /\ list[i] = a /\ list[j] = b

(* How far a is from the overflow timer, by the low words.                    *)
Away(slots, a) == Signed(Low(slots[a].mark) - Low(slots[OVF].mark))

(* The list of active timers.  Timers that do not wait are within the range  *)
(* of the comparison, sorted, and in front of the overflow timer; one that   *)
(* waits may be anywhere while overflow_handler() is due, but is where the   *)
(* comparison would have put it.                                             *)
Listed(list, slots) ==
    /\ IsInjective(list)
    /\ OVF \in ToSet(list)
    /\ ~slots[OVF].overflow
InReach(list, slots) ==
    \A a \in ToSet(list) :
        /\ slots[OVF].mark - TIMER_MAX <= slots[a].mark
        /\ ~slots[a].overflow => slots[a].mark <= slots[OVF].mark
Ordered(list, slots) ==
    \A a, b \in ToSet(list) :
        InFront(list, a, b) /\ ~slots[b].overflow => Away(slots, a) <= Away(slots, b)
NoneBehind(list, slots) ==
    \A a \in ToSet(list) : InFront(list, OVF, a) => slots[a].overflow
QueueOK(list, slots) ==
    Listed(list, slots) /\ InReach(list, slots) /\ Ordered(list, slots) /\ NoneBehind(list, slots)

(* The timers that wait are the ones behind the overflow timer.              *)
Settled(list, slots) ==
    \A a \in ToSet(list) :
        slots[a].overflow => InFront(list, OVF, a) /\ slots[a].mark > slots[OVF].mark

(* The time the marks are relative to: they stand still in the debugger.     *)
Ref == IF pc = "frozen" THEN frozen ELSE now

Kept ==
    /\ \A s \in ToSet(inactive) : ~tm[s].overflow /\ tm[s].kind # "shot"
    /\ \A s \in ToSet(head) : tm[s].kind # "shot" => tm[s].period > 0
    /\ tm[OVF].kind = "auto" /\ tm[OVF].period = TIMER_MAX
OnTime ==
    /\ \A s \in ToSet(head) : Ref <= tm[s].mark + MaxLate
    /\ tm[OVF].mark <= Ref + TIMER_MAX
    /\ Ref <= now /\ now <= Ref + MaxFreeze
StampAt(t) ==
    /\ stamp = Low(t) /\ t <= Ref + TIMER_MAX
    /\ \A s \in ToSet(head) : t <= tm[s].mark
    /\ Ref - (IF pc = "guest" THEN MaxLate + MaxFreeze ELSE MaxLate) <= t
StampKept == pc \in {"guest", "frozen"} => \E t \in Int : StampAt(t)

TimerInv ==
    /\ TypeOK /\ SlotsAccounted
    /\ QueueOK(head, tm)
    /\ pc # "handler" \/ running # OVF => Settled(head, tm)
    /\ Kept /\ OnTime /\ StampKept
-----------------------------------------------------------------------------
(* Every nonempty set of naturals has a least element: the intervals 0 .. x,  *)
(* ordered by inclusion, have a minimal one.                                 *)
LEMMA LeastNatural ==
  ASSUME NEW T, T \subseteq Nat, T # {}
  PROVE  \E x \in T : \A y \in T : x <= y
<1> DEFINE D == {0 .. x : x \in T}
<1>1. D \subseteq FiniteSubsetsOf(Nat)
  <2> SUFFICES ASSUME NEW x \in T PROVE 0 .. x \in FiniteSubsetsOf(Nat)
    OBVIOUS
  <2>1. x \in Nat /\ 0 .. x \subseteq Nat
    OBVIOUS
  <2> QED BY <2>1, FS_Interval DEF FiniteSubsetsOf
<1>2. D # {}
  OBVIOUS
<1>3. IsWellFoundedOn(StrictSubsetOrdering(Nat), FiniteSubsetsOf(Nat))
  BY FS_StrictSubsetOrderingWellFounded
<1>4. PICK d \in D : \A e \in D : <<e, d>> \notin StrictSubsetOrdering(Nat)
  BY <1>1, <1>2, <1>3, WFMin, Zenon
<1>5. PICK x \in T : d = 0 .. x
  OBVIOUS
<1>6. ASSUME NEW y \in T, y < x PROVE FALSE
  <2>1. 0 .. y \in D /\ 0 .. y \subseteq 0 .. x /\ 0 .. y # 0 .. x /\ 0 .. x \subseteq Nat
    BY <1>6
  <2> QED BY <1>4, <1>5, <2>1 DEF StrictSubsetOrdering
<1> QED BY <1>6

(* Min of such a set is its least element.                                   *)
LEMMA MinNatural ==
  ASSUME NEW T, T \subseteq Nat, T # {}
  PROVE  Min(T) \in T /\ \A y \in T : Min(T) <= y
BY LeastNatural DEF Min

-----------------------------------------------------------------------------
(* The signed difference of two low words is the difference of the times, if *)
(* that is in the range of a signed word.                                    *)
LEMMA Remainder ==
  ASSUME NEW a \in Int, NEW k \in Int, NEW r \in 0 .. M - 1, a = k * M + r
  PROVE  (a % M) = r
BY HalfAssumption DEF M

LEMMA Quotient ==
  ASSUME NEW a \in Int
  PROVE  (a % M) \in 0 .. M - 1 /\ \E k \in Int : a = k * M + (a % M)
<1>1. a \div M \in Int /\ a = M * (a \div M) + (a % M) /\ (a % M) \in 0 .. M - 1 /\ M \in Int
  BY HalfAssumption DEF M
<1>2. M * (a \div M) = (a \div M) * M
  BY <1>1
<1> QED BY <1>1, <1>2

LEMMA LowRange ==
  ASSUME NEW a \in Int
  PROVE  Low(a) \in 0 .. M - 1
BY Quotient DEF Low

LEMMA SignedDifference ==
  ASSUME NEW a \in Int, NEW b \in Int, -Half <= a - b, a - b < Half
  PROVE  Signed(Low(a) - Low(b)) = a - b
<1> USE HalfAssumption
<1>1. M \in Int /\ M = 2 * Half
  BY DEF M
<1>2. PICK i \in Int : a = i * M + (a % M)
  BY Quotient
<1>3. PICK j \in Int : b = j * M + (b % M)
  BY Quotient
<1>4. (a % M) \in Int /\ (b % M) \in Int
  BY Quotient
<1> DEFINE x == (a % M) - (b % M) + Half
<1>5. x = (j - i) * M + (a - b + Half)
  <2>1. (j - i) * M = j * M - i * M
    BY <1>1
  <2>2. i * M \in Int /\ j * M \in Int
    BY <1>1
  <2> QED BY <1>2, <1>3, <1>4, <2>1, <2>2
<1>6. x \in Int /\ a - b + Half \in 0 .. M - 1 /\ j - i \in Int
  BY <1>1, <1>4
<1>7. (x % M) = a - b + Half
  BY <1>5, <1>6, Remainder
<1> QED BY <1>7 DEF Signed, Low

(* A signed word is in its range, and says what the difference is up to       *)
(* multiples of the range.                                                   *)
LEMMA SignedRange ==
  ASSUME NEW a \in Int, NEW b \in Int
  PROVE  /\ Signed(Low(a) - Low(b)) \in -Half .. Half - 1
         /\ \E k \in Int : a - b = k * M + Signed(Low(a) - Low(b))
<1> USE HalfAssumption
<1>1. M \in Int /\ M = 2 * Half
  BY DEF M
<1>2. PICK i \in Int : a = i * M + (a % M)
  BY Quotient
<1>3. PICK j \in Int : b = j * M + (b % M)
  BY Quotient
<1>4. (a % M) \in Int /\ (b % M) \in Int
  BY Quotient
<1> DEFINE x == (a % M) - (b % M) + Half
<1>5. x \in Int /\ Signed(Low(a) - Low(b)) = (x % M) - Half
  BY <1>4 DEF Signed, Low
<1>6. (x % M) \in 0 .. M - 1
  BY <1>5, Quotient
<1>7. PICK n \in Int : x = n * M + (x % M)
  BY <1>5, Quotient
<1>8. a - b = (i - j + n) * M + ((x % M) - Half)
  <2>1. (i - j + n) * M = i * M - j * M + n * M
    BY <1>1
  <2>2. i * M \in Int /\ j * M \in Int /\ n * M \in Int
    BY <1>1
  <2>3. a - b = i * M - j * M + ((a % M) - (b % M))
    <3> DEFINE iM == i * M
    <3> DEFINE jM == j * M
    <3> DEFINE ra == a % M
    <3> DEFINE rb == b % M
    <3>1. a = iM + ra /\ b = jM + rb /\ iM \in Int /\ jM \in Int /\ ra \in Int /\ rb \in Int
      BY <1>2, <1>3, <1>4, <2>2
    <3> HIDE DEF iM, jM, ra, rb
    <3>2. a - b = iM - jM + (ra - rb)
      BY <3>1
    <3> QED BY <3>2 DEF iM, jM, ra, rb
  <2>4. (a % M) - (b % M) = n * M + (x % M) - Half
    BY <1>4, <1>6, <1>7, <1>1, <2>2
  <2> QED BY <2>1, <2>2, <2>3, <2>4, <1>6, <1>1
<1>9. i - j + n \in Int
  OBVIOUS
<1> QED BY <1>1, <1>5, <1>6, <1>8, <1>9

(* Differences by the low words add up, if they stay in the range.           *)
LEMMA SignedChain ==
  ASSUME NEW a \in Int, NEW b \in Int, NEW c \in Int,
         NEW d \in Int, d = Signed(Low(a) - Low(c)), NEW e \in Int, e = b - c,
         -Half <= d - e, d - e < Half
  PROVE  Signed(Low(a) - Low(b)) = d - e
<1> USE HalfAssumption
<1>1. M \in Int /\ M = 2 * Half
  BY DEF M
<1>2. PICK k \in Int : a - c = k * M + d
  BY SignedRange
<1> DEFINE f == Signed(Low(a) - Low(b))
<1>3. f \in -Half .. Half - 1
  BY SignedRange
<1>4. PICK n \in Int : a - b = n * M + f
  BY SignedRange
<1> HIDE DEF f
<1>5. k * M \in Int /\ n * M \in Int /\ (k - n) * M = k * M - n * M
  BY <1>1
<1>6. (k - n) * M = f - (d - e)
  BY <1>2, <1>3, <1>4, <1>5
<1>7. f - (d - e) \in 1 - M .. M - 1
  BY <1>1, <1>3
<1>8. k - n = 0
  BY <1>1, <1>6, <1>7
<1> QED BY <1>1, <1>3, <1>6, <1>8 DEF f

(* The next mark of a periodic timer: in the future, by at most a period.    *)
LEMMA NextMark ==
  ASSUME NEW t \in [mark : Nat, overflow : BOOLEAN, kind : Kinds, period : Nat],
         t.period > 0, now \in Nat
  PROVE  /\ Recalc(t) \in [mark : Nat, overflow : BOOLEAN, kind : Kinds, period : Nat]
         /\ Recalc(t).overflow = t.overflow /\ Recalc(t).kind = t.kind
         /\ Recalc(t).period = t.period
         /\ Recalc(t).mark > now /\ Recalc(t).mark >= t.mark
         /\ now < t.mark \/ Recalc(t).mark <= now + t.period
         /\ now < t.mark => Recalc(t).mark = t.mark
<1>1. CASE now < t.mark
  BY <1>1 DEF Recalc
<1>2. CASE ~(now < t.mark)
  <2> DEFINE n == now - t.mark
  <2> DEFINE p == t.period
  <2>1. n \in Nat /\ p \in Nat \ {0} /\ t.mark \in Nat
    BY <1>2
  <2> HIDE DEF n, p
  <2>2. n \div p \in Nat /\ p * (n \div p) <= n /\ n < p * (n \div p + 1)
        /\ p * (n \div p + 1) = p * (n \div p) + p /\ p * (n \div p) \in Nat
    BY <2>1
  <2>3. Recalc(t) = [t EXCEPT !.mark = t.mark + p * (n \div p + 1)]
    BY <1>2 DEF Recalc, n, p
  <2>4. t.mark + p * (n \div p + 1) \in Nat /\ t.mark + p * (n \div p + 1) > now
        /\ t.mark + p * (n \div p + 1) <= now + p
        /\ t.mark + p * (n \div p + 1) >= t.mark
    BY <2>1, <2>2 DEF n
  <2> QED BY <2>1, <2>3, <2>4, <1>2 DEF p
<1> QED BY <1>1, <1>2
-----------------------------------------------------------------------------
(* Lists.                                                                    *)

(* The elements of a list.                                                   *)
LEMMA Elements ==
  ASSUME NEW S, NEW l \in Seq(S)
  PROVE  /\ Len(l) \in Nat /\ ToSet(l) \subseteq S
         /\ \A i \in 1 .. Len(l) : l[i] \in ToSet(l) /\ l[i] \in S
         /\ \A x : x \in ToSet(l) <=> \E i \in 1 .. Len(l) : l[i] = x
         /\ IsInjective(l) <=> \A i, j \in 1 .. Len(l) : l[i] = l[j] => i = j
BY DEF ToSet, IsInjective

LEMMA Concatenation ==
  ASSUME NEW S, NEW f \in Seq(S), NEW g \in Seq(S)
  PROVE  /\ f \o g \in Seq(S) /\ Len(f \o g) = Len(f) + Len(g)
         /\ \A i \in 1 .. Len(f) : (f \o g)[i] = f[i]
         /\ \A i \in Len(f) + 1 .. Len(f) + Len(g) : (f \o g)[i] = g[i - Len(f)]
OBVIOUS

(* m is l with s put at position k.                                          *)
Placed(m, l, k, s) ==
    /\ Len(m) = Len(l) + 1 /\ k \in 1 .. Len(l) + 1 /\ m[k] = s
    /\ \A i \in 1 .. k - 1 : m[i] = l[i]
    /\ \A i \in k .. Len(l) : m[i + 1] = l[i]

(* m is l without its element at position k.                                 *)
Dropped(m, l, k) ==
    /\ Len(m) = Len(l) - 1 /\ k \in 1 .. Len(l)
    /\ \A i \in 1 .. k - 1 : m[i] = l[i]
    /\ \A i \in k .. Len(m) : m[i] = l[i + 1]

LEMMA InsertAtPlaces ==
  ASSUME NEW S, NEW l \in Seq(S), NEW s \in S, NEW k \in 1 .. Len(l) + 1
  PROVE  InsertAt(l, k, s) \in Seq(S) /\ Placed(InsertAt(l, k, s), l, k, s)
<1>1. SubSeq(l, 1, k - 1) \in Seq(S) /\ Len(SubSeq(l, 1, k - 1)) = k - 1
      /\ \A i \in 1 .. k - 1 : SubSeq(l, 1, k - 1)[i] = l[i]
  OBVIOUS
<1>2. SubSeq(l, k, Len(l)) \in Seq(S) /\ Len(SubSeq(l, k, Len(l))) = Len(l) - k + 1
      /\ \A i \in 1 .. Len(l) - k + 1 : SubSeq(l, k, Len(l))[i] = l[k + i - 1]
  OBVIOUS
<1> DEFINE f == SubSeq(l, 1, k - 1)
<1> DEFINE g == SubSeq(l, k, Len(l))
<1> DEFINE m == f \o <<s>> \o g
<1>3. m = InsertAt(l, k, s)
  BY DEF InsertAt
<1> HIDE DEF f, g
<1>4. f \in Seq(S) /\ g \in Seq(S) /\ Len(f) = k - 1 /\ Len(g) = Len(l) - k + 1 /\ Len(l) \in Nat
  BY <1>1, <1>2 DEF f, g
<1>5. f \o <<s>> \in Seq(S) /\ Len(f \o <<s>>) = k /\ (f \o <<s>>)[k] = s
      /\ \A i \in 1 .. k - 1 : (f \o <<s>>)[i] = f[i]
  BY <1>4
<1>6. m \in Seq(S) /\ Len(m) = Len(l) + 1
      /\ (\A i \in 1 .. k : m[i] = (f \o <<s>>)[i])
      /\ \A i \in k .. Len(l) : m[i + 1] = g[i + 1 - k]
  <2> DEFINE h == f \o <<s>>
  <2>1. h \in Seq(S) /\ Len(h) = k
    BY <1>5
  <2> HIDE DEF h
  <2>2. h \o g \in Seq(S) /\ Len(h \o g) = Len(l) + 1
    <3>0. h \in Seq(S) /\ g \in Seq(S)
      BY <2>1, <1>4
    <3>1. h \o g \in Seq(S) /\ Len(h \o g) = Len(h) + Len(g)
      BY <3>0
    <3> QED BY <2>1, <1>4, <3>1
  <2>3. \A i \in 1 .. k : (h \o g)[i] = h[i]
    BY <2>1, <1>4, Concatenation
  <2>4. \A i \in k + 1 .. Len(l) + 1 : (h \o g)[i] = g[i - k]
    <3>1. \A i \in Len(h) + 1 .. Len(h) + Len(g) : (h \o g)[i] = g[i - Len(h)]
      BY <2>1, <1>4, Concatenation
    <3>2. Len(h) + 1 = k + 1 /\ Len(h) + Len(g) = Len(l) + 1
      BY <2>1, <1>4
    <3> QED BY <2>1, <3>1, <3>2
  <2>5. \A i \in k .. Len(l) : i + 1 \in k + 1 .. Len(l) + 1
    BY <1>4
  <2>6. \A i \in k .. Len(l) : (h \o g)[i + 1] = g[i + 1 - k]
    <3> SUFFICES ASSUME NEW i \in k .. Len(l) PROVE (h \o g)[i + 1] = g[i + 1 - k]
      OBVIOUS
    <3> DEFINE j == i + 1
    <3>1. j \in k + 1 .. Len(l) + 1
      BY <2>5
    <3> HIDE DEF j
    <3>2. (h \o g)[j] = g[j - k]
      BY <3>1, <2>4
    <3> QED BY <3>2 DEF j
  <2>7. m = h \o g
    BY DEF h
  <2> HIDE DEF m
  <2> QED BY <2>2, <2>3, <2>6, <2>7 DEF h
<1> HIDE DEF m
<1>7. m[k] = s
  BY <1>5, <1>6
<1>8. \A i \in 1 .. k - 1 : m[i] = l[i]
  <2> SUFFICES ASSUME NEW i \in 1 .. k - 1 PROVE m[i] = l[i]
    OBVIOUS
  <2>1. i \in 1 .. k
    OBVIOUS
  <2> QED BY <2>1, <1>1, <1>5, <1>6 DEF f
<1>9. \A i \in k .. Len(l) : m[i + 1] = l[i]
  <2> SUFFICES ASSUME NEW i \in k .. Len(l) PROVE m[i + 1] = l[i]
    OBVIOUS
  <2> DEFINE j == i + 1 - k
  <2>1. j \in 1 .. Len(l) - k + 1 /\ k + j - 1 = i
    BY <1>4
  <2>2. m[i + 1] = g[j]
    BY <1>6
  <2> HIDE DEF j
  <2> QED BY <2>1, <2>2, <1>2 DEF g
<1> QED BY <1>3, <1>4, <1>6, <1>7, <1>8, <1>9 DEF Placed

LEMMA AppendPlaces ==
  ASSUME NEW S, NEW l \in Seq(S), NEW s \in S
  PROVE  /\ Append(l, s) \in Seq(S) /\ Placed(Append(l, s), l, Len(l) + 1, s)
         /\ <<s>> \o l \in Seq(S) /\ Placed(<<s>> \o l, l, 1, s)
BY DEF Placed

LEMMA RemoveAtDrops ==
  ASSUME NEW S, NEW l \in Seq(S), NEW k \in 1 .. Len(l)
  PROVE  RemoveAt(l, k) \in Seq(S) /\ Dropped(RemoveAt(l, k), l, k)
<1> DEFINE f == SubSeq(l, 1, k - 1)
<1> DEFINE g == SubSeq(l, k + 1, Len(l))
<1>1. f \in Seq(S) /\ Len(f) = k - 1 /\ \A i \in 1 .. k - 1 : f[i] = l[i]
  OBVIOUS
<1>2. g \in Seq(S) /\ Len(g) = Len(l) - k /\ \A i \in 1 .. Len(l) - k : g[i] = l[k + i]
  OBVIOUS
<1>3. RemoveAt(l, k) = f \o g
  BY DEF RemoveAt
<1> HIDE DEF f, g
<1>4. f \o g \in Seq(S) /\ Len(f \o g) = Len(l) - 1 /\ Len(l) \in Nat
      /\ (\A i \in 1 .. k - 1 : (f \o g)[i] = f[i])
      /\ \A i \in k .. Len(l) - 1 : (f \o g)[i] = g[i - k + 1]
  <2>1. Len(l) \in Nat /\ f \o g \in Seq(S) /\ Len(f \o g) = Len(l) - 1
    <3>0. f \in Seq(S) /\ g \in Seq(S)
      BY <1>1, <1>2
    <3>1. f \o g \in Seq(S) /\ Len(f \o g) = Len(f) + Len(g)
      BY <3>0
    <3> QED BY <1>1, <1>2, <3>1
  <2>2. \A i \in 1 .. k - 1 : (f \o g)[i] = f[i]
    BY <1>1, <1>2, Concatenation
  <2>3. \A i \in k .. Len(l) - 1 : (f \o g)[i] = g[i - (k - 1)]
    <3>1. \A i \in Len(f) + 1 .. Len(f) + Len(g) : (f \o g)[i] = g[i - Len(f)]
      BY <1>1, <1>2, Concatenation
    <3>2. Len(f) + 1 = k /\ Len(f) + Len(g) = Len(l) - 1
      BY <1>1, <1>2, <2>1
    <3> QED BY <1>1, <3>1, <3>2
  <2>4. \A i \in k .. Len(l) - 1 : i - (k - 1) = i - k + 1
    OBVIOUS
  <2> QED BY <2>1, <2>2, <2>3, <2>4
<1>5. \A i \in k .. Len(l) - 1 : (f \o g)[i] = l[i + 1]
  <2> SUFFICES ASSUME NEW i \in k .. Len(l) - 1 PROVE (f \o g)[i] = l[i + 1]
    OBVIOUS
  <2> DEFINE j == i - k + 1
  <2>1. j \in 1 .. Len(l) - k /\ k + j = i + 1
    BY <1>4
  <2>2. (f \o g)[i] = g[j]
    BY <1>4
  <2> HIDE DEF j
  <2> QED BY <2>1, <2>2, <1>2
<1> QED BY <1>1, <1>3, <1>4, <1>5 DEF Dropped

LEMMA TailDrops ==
  ASSUME NEW S, NEW l \in Seq(S), l # <<>>
  PROVE  Tail(l) \in Seq(S) /\ Dropped(Tail(l), l, 1)
BY DEF Dropped

(* What putting s into a list does to its elements and their order.          *)
LEMMA PlacedList ==
  ASSUME NEW S, NEW l \in Seq(S), NEW m \in Seq(S), NEW s \in S, NEW k, Placed(m, l, k, s),
         IsInjective(l), s \notin ToSet(l)
  PROVE  /\ IsInjective(m) /\ ToSet(m) = ToSet(l) \cup {s}
         /\ \A a, b : a # s /\ b # s => (InFront(m, a, b) <=> InFront(l, a, b))
         /\ \A b : InFront(m, s, b) <=> \E i \in k .. Len(l) : l[i] = b
         /\ \A a : InFront(m, a, s) <=> \E i \in 1 .. k - 1 : l[i] = a
         /\ m[1] = IF k = 1 THEN s ELSE l[1]
<1> DEFINE at(i) == IF i < k THEN i ELSE i + 1
<1>1. /\ Len(l) \in Nat /\ Len(m) = Len(l) + 1 /\ k \in 1 .. Len(l) + 1 /\ m[k] = s
      /\ \A i \in 1 .. k - 1 : m[i] = l[i]
      /\ \A i \in k .. Len(l) : m[i + 1] = l[i]
  BY DEF Placed
<1>2. \A i \in 1 .. Len(l) : at(i) \in 1 .. Len(m) /\ at(i) # k /\ m[at(i)] = l[i]
  BY <1>1
<1>3. \A j \in 1 .. Len(m) : j = k \/ \E i \in 1 .. Len(l) : j = at(i)
  <2> SUFFICES ASSUME NEW j \in 1 .. Len(m), j # k PROVE \E i \in 1 .. Len(l) : j = at(i)
    OBVIOUS
  <2>1. CASE j < k
    BY <2>1, <1>1
  <2>2. CASE j > k
    <3>1. j - 1 \in 1 .. Len(l) /\ at(j - 1) = j
      BY <2>2, <1>1
    <3> QED BY <3>1
  <2> QED BY <2>1, <2>2, <1>1
<1>4. \A i, j \in 1 .. Len(l) : (i < j <=> at(i) < at(j)) /\ (at(i) < k <=> i < k)
                                /\ (at(i) = at(j) => i = j)
  BY <1>1
<1>5. \A i, j \in 1 .. Len(l) : l[i] = l[j] => i = j
  BY Elements
<1>6. \A i \in 1 .. Len(l) : l[i] # s
  BY Elements
<1> HIDE DEF at
<1>7. \A i, j \in 1 .. Len(m) : m[i] = m[j] => i = j
  <2> SUFFICES ASSUME NEW i \in 1 .. Len(m), NEW j \in 1 .. Len(m), m[i] = m[j]
               PROVE  i = j
    OBVIOUS
  <2>1. CASE i = k \/ j = k
    <3>1. \A x \in 1 .. Len(m) : m[x] = s => x = k
      <4> SUFFICES ASSUME NEW x \in 1 .. Len(m), m[x] = s, x # k PROVE FALSE
        OBVIOUS
      <4>1. PICK y \in 1 .. Len(l) : x = at(y)
        BY <1>3
      <4> QED BY <4>1, <1>2, <1>6
    <3> QED BY <2>1, <3>1, <1>1
  <2>2. CASE i # k /\ j # k
    <3>1. PICK x \in 1 .. Len(l) : i = at(x)
      BY <2>2, <1>3
    <3>2. PICK y \in 1 .. Len(l) : j = at(y)
      BY <2>2, <1>3
    <3>3. l[x] = l[y]
      BY <3>1, <3>2, <1>2
    <3> QED BY <3>1, <3>2, <3>3, <1>5
  <2> QED BY <2>1, <2>2
<1>8. IsInjective(m)
  BY <1>7, Elements
<1>9. ToSet(m) = ToSet(l) \cup {s}
  <2>1. \A x : (\E j \in 1 .. Len(m) : m[j] = x) <=> (x = s \/ \E i \in 1 .. Len(l) : l[i] = x)
    <3> SUFFICES ASSUME NEW x
                 PROVE  (\E j \in 1 .. Len(m) : m[j] = x)
                          <=> (x = s \/ \E i \in 1 .. Len(l) : l[i] = x)
      OBVIOUS
    <3>1. k \in 1 .. Len(m)
      BY <1>1
    <3>2. ASSUME NEW i \in 1 .. Len(l), l[i] = x PROVE \E j \in 1 .. Len(m) : m[j] = x
      BY <3>2, <1>2
    <3>3. ASSUME NEW j \in 1 .. Len(m), m[j] = x, x # s PROVE \E i \in 1 .. Len(l) : l[i] = x
      BY <3>3, <1>1, <1>2, <1>3
    <3> QED BY <3>1, <3>2, <3>3, <1>1
  <2>2. \A x : x \in ToSet(m) <=> \E j \in 1 .. Len(m) : m[j] = x
    BY Elements
  <2>3. \A x : x \in ToSet(l) <=> \E j \in 1 .. Len(l) : l[j] = x
    BY Elements
  <2> QED BY <2>1, <2>2, <2>3
<1>10. \A a, b : a # s /\ b # s => (InFront(m, a, b) <=> InFront(l, a, b))
  <2> SUFFICES ASSUME NEW a, NEW b, a # s, b # s
               PROVE  InFront(m, a, b) <=> InFront(l, a, b)
    OBVIOUS
  <2>1. ASSUME InFront(l, a, b) PROVE InFront(m, a, b)
    <3>1. PICK i \in 1 .. Len(l), j \in 1 .. Len(l) : i < j /\ l[i] = a /\ l[j] = b
      BY <2>1 DEF InFront
    <3>2. at(i) \in 1 .. Len(m) /\ at(j) \in 1 .. Len(m) /\ at(i) < at(j)
          /\ m[at(i)] = a /\ m[at(j)] = b
      BY <3>1, <1>2, <1>4
    <3> QED BY <3>2 DEF InFront
  <2>2. ASSUME InFront(m, a, b) PROVE InFront(l, a, b)
    <3>1. PICK x \in 1 .. Len(m), y \in 1 .. Len(m) : x < y /\ m[x] = a /\ m[y] = b
      BY <2>2 DEF InFront
    <3>2. PICK i \in 1 .. Len(l) : x = at(i)
      BY <3>1, <1>1, <1>3
    <3>3. PICK j \in 1 .. Len(l) : y = at(j)
      BY <3>1, <1>1, <1>3
    <3>4. i < j /\ l[i] = a /\ l[j] = b
      BY <3>1, <3>2, <3>3, <1>2, <1>4
    <3> QED BY <3>4 DEF InFront
  <2> QED BY <2>1, <2>2
<1>11. \A b : InFront(m, s, b) <=> \E i \in k .. Len(l) : l[i] = b
  <2> SUFFICES ASSUME NEW b PROVE InFront(m, s, b) <=> \E i \in k .. Len(l) : l[i] = b
    OBVIOUS
  <2>1. ASSUME NEW i \in k .. Len(l), l[i] = b PROVE InFront(m, s, b)
    <3>1. i + 1 \in 1 .. Len(m) /\ k \in 1 .. Len(m) /\ k < i + 1 /\ m[i + 1] = b /\ m[k] = s
      BY <2>1, <1>1
    <3> QED BY <3>1 DEF InFront
  <2>2. ASSUME InFront(m, s, b) PROVE \E i \in k .. Len(l) : l[i] = b
    <3>1. PICK x \in 1 .. Len(m), y \in 1 .. Len(m) : x < y /\ m[x] = s /\ m[y] = b
      BY <2>2 DEF InFront
    <3>2. x = k
      BY <3>1, <1>1, <1>7
    <3>3. y - 1 \in k .. Len(l) /\ m[(y - 1) + 1] = l[y - 1] /\ (y - 1) + 1 = y
      BY <3>1, <3>2, <1>1
    <3> QED BY <3>1, <3>3
  <2> QED BY <2>1, <2>2
<1>12. \A a : InFront(m, a, s) <=> \E i \in 1 .. k - 1 : l[i] = a
  <2> SUFFICES ASSUME NEW a PROVE InFront(m, a, s) <=> \E i \in 1 .. k - 1 : l[i] = a
    OBVIOUS
  <2>1. ASSUME NEW i \in 1 .. k - 1, l[i] = a PROVE InFront(m, a, s)
    <3>1. i \in 1 .. Len(m) /\ k \in 1 .. Len(m) /\ i < k /\ m[i] = a /\ m[k] = s
      BY <2>1, <1>1
    <3> QED BY <3>1 DEF InFront
  <2>2. ASSUME InFront(m, a, s) PROVE \E i \in 1 .. k - 1 : l[i] = a
    <3>1. PICK x \in 1 .. Len(m), y \in 1 .. Len(m) : x < y /\ m[x] = a /\ m[y] = s
      BY <2>2 DEF InFront
    <3>2. y = k
      BY <3>1, <1>1, <1>7
    <3>3. x \in 1 .. k - 1 /\ m[x] = l[x]
      BY <3>1, <3>2, <1>1
    <3> QED BY <3>1, <3>3
  <2> QED BY <2>1, <2>2
<1>13. m[1] = IF k = 1 THEN s ELSE l[1]
  BY <1>1
<1> QED BY <1>8, <1>9, <1>10, <1>11, <1>12, <1>13

(* What taking an element out of a list does.                                *)
LEMMA DroppedList ==
  ASSUME NEW S, NEW l \in Seq(S), NEW m \in Seq(S), NEW k, Dropped(m, l, k), IsInjective(l)
  PROVE  /\ IsInjective(m) /\ ToSet(m) = ToSet(l) \ {l[k]} /\ l[k] \in ToSet(l)
         /\ \A a, b : InFront(m, a, b) <=> a # l[k] /\ b # l[k] /\ InFront(l, a, b)
<1> DEFINE at(i) == IF i < k THEN i ELSE i + 1
<1>1. /\ Len(l) \in Nat /\ Len(m) = Len(l) - 1 /\ k \in 1 .. Len(l)
      /\ \A i \in 1 .. k - 1 : m[i] = l[i]
      /\ \A i \in k .. Len(m) : m[i] = l[i + 1]
  BY DEF Dropped
<1>2. \A i \in 1 .. Len(m) : at(i) \in 1 .. Len(l) /\ at(i) # k /\ l[at(i)] = m[i]
  <2> SUFFICES ASSUME NEW i \in 1 .. Len(m)
               PROVE  at(i) \in 1 .. Len(l) /\ at(i) # k /\ l[at(i)] = m[i]
    OBVIOUS
  <2>1. CASE i < k
    <3>1. at(i) = i /\ i \in 1 .. k - 1 /\ i \in 1 .. Len(l) /\ i # k
      BY <2>1, <1>1
    <3>2. m[i] = l[i]
      BY <3>1, <1>1
    <3> HIDE DEF at
    <3> QED BY <3>1, <3>2
  <2>2. CASE ~(i < k)
    <3>1. at(i) = i + 1 /\ i \in k .. Len(m) /\ i + 1 \in 1 .. Len(l) /\ i + 1 # k
      BY <2>2, <1>1
    <3>2. m[i] = l[i + 1]
      BY <3>1, <1>1
    <3> HIDE DEF at
    <3> QED BY <3>1, <3>2
  <2> QED BY <2>1, <2>2
<1>3. \A j \in 1 .. Len(l) : j = k \/ \E i \in 1 .. Len(m) : j = at(i)
  <2> SUFFICES ASSUME NEW j \in 1 .. Len(l), j # k PROVE \E i \in 1 .. Len(m) : j = at(i)
    OBVIOUS
  <2>1. CASE j < k
    BY <2>1, <1>1
  <2>2. CASE j > k
    <3>1. j - 1 \in 1 .. Len(m) /\ at(j - 1) = j
      BY <2>2, <1>1
    <3> QED BY <3>1
  <2> QED BY <2>1, <2>2, <1>1
<1>4. \A i, j \in 1 .. Len(m) : (i < j <=> at(i) < at(j)) /\ (at(i) = at(j) => i = j)
  BY <1>1
<1>5. \A i, j \in 1 .. Len(l) : l[i] = l[j] => i = j
  BY Elements
<1> HIDE DEF at
<1>6. \A i \in 1 .. Len(m) : m[i] # l[k]
  BY <1>1, <1>2, <1>5
<1>7. \A i, j \in 1 .. Len(m) : m[i] = m[j] => i = j
  BY <1>2, <1>4, <1>5
<1>8. IsInjective(m)
  BY <1>7, Elements
<1>9. ToSet(m) = ToSet(l) \ {l[k]} /\ l[k] \in ToSet(l)
  <2>1. \A x : (\E j \in 1 .. Len(m) : m[j] = x) <=> (x # l[k] /\ \E i \in 1 .. Len(l) : l[i] = x)
    <3> SUFFICES ASSUME NEW x
                 PROVE  (\E j \in 1 .. Len(m) : m[j] = x)
                          <=> (x # l[k] /\ \E i \in 1 .. Len(l) : l[i] = x)
      OBVIOUS
    <3>1. ASSUME NEW j \in 1 .. Len(m), m[j] = x
          PROVE  x # l[k] /\ \E i \in 1 .. Len(l) : l[i] = x
      BY <3>1, <1>2, <1>6
    <3>2. ASSUME NEW i \in 1 .. Len(l), l[i] = x, x # l[k] PROVE \E j \in 1 .. Len(m) : m[j] = x
      <4>1. PICK j \in 1 .. Len(m) : i = at(j)
        BY <3>2, <1>3
      <4> QED BY <4>1, <3>2, <1>2
    <3> QED BY <3>1, <3>2
  <2>2. \A x : x \in ToSet(m) <=> \E j \in 1 .. Len(m) : m[j] = x
    BY Elements
  <2>3. \A x : x \in ToSet(l) <=> \E j \in 1 .. Len(l) : l[j] = x
    BY Elements
  <2> QED BY <2>1, <2>2, <2>3, <1>1
<1>10. ASSUME NEW a, NEW b
       PROVE  InFront(m, a, b) <=> a # l[k] /\ b # l[k] /\ InFront(l, a, b)
  <2>1. ASSUME InFront(m, a, b) PROVE a # l[k] /\ b # l[k] /\ InFront(l, a, b)
    <3>1. PICK i \in 1 .. Len(m), j \in 1 .. Len(m) : i < j /\ m[i] = a /\ m[j] = b
      BY <2>1 DEF InFront
    <3>2. at(i) \in 1 .. Len(l) /\ at(j) \in 1 .. Len(l) /\ at(i) < at(j)
          /\ l[at(i)] = a /\ l[at(j)] = b
      BY <3>1, <1>2, <1>4
    <3> QED BY <3>1, <3>2, <1>6 DEF InFront
  <2>2. ASSUME a # l[k], b # l[k], InFront(l, a, b) PROVE InFront(m, a, b)
    <3>1. PICK x \in 1 .. Len(l), y \in 1 .. Len(l) : x < y /\ l[x] = a /\ l[y] = b
      BY <2>2 DEF InFront
    <3>2. PICK i \in 1 .. Len(m) : x = at(i)
      BY <3>1, <2>2, <1>3
    <3>3. PICK j \in 1 .. Len(m) : y = at(j)
      BY <3>1, <2>2, <1>3
    <3>4. i < j /\ m[i] = a /\ m[j] = b
      BY <3>1, <3>2, <3>3, <1>2, <1>4
    <3> QED BY <3>4 DEF InFront
  <2> QED BY <2>1, <2>2
<1> QED BY <1>8, <1>9, <1>10

(* Of two elements of a list one is in front of the other, the first one of   *)
(* all others, and not the other way round.                                  *)
LEMMA FrontTotal ==
  ASSUME NEW S, NEW l \in Seq(S), IsInjective(l)
  PROVE  /\ \A a, b \in ToSet(l) : a = b \/ InFront(l, a, b) \/ InFront(l, b, a)
         /\ \A a, b : InFront(l, a, b) => a # b /\ a \in ToSet(l) /\ b \in ToSet(l) /\ ~InFront(l, b, a)
         /\ \A a \in ToSet(l) : a = l[1] \/ InFront(l, l[1], a)
<1>1. \A x : x \in ToSet(l) <=> \E i \in 1 .. Len(l) : l[i] = x
  BY Elements
<1>2. Len(l) \in Nat /\ \A i, j \in 1 .. Len(l) : l[i] = l[j] => i = j
  BY Elements
<1>3. ASSUME NEW a \in ToSet(l), NEW b \in ToSet(l)
      PROVE  a = b \/ InFront(l, a, b) \/ InFront(l, b, a)
  <2>1. PICK i \in 1 .. Len(l) : l[i] = a
    BY <1>1
  <2>2. PICK j \in 1 .. Len(l) : l[j] = b
    BY <1>1
  <2> QED BY <2>1, <2>2, <1>2 DEF InFront
<1>4. ASSUME NEW a, NEW b, InFront(l, a, b)
      PROVE  a # b /\ a \in ToSet(l) /\ b \in ToSet(l) /\ ~InFront(l, b, a)
  BY <1>1, <1>2, <1>4 DEF InFront
<1>5. ASSUME NEW a \in ToSet(l) PROVE a = l[1] \/ InFront(l, l[1], a)
  <2>1. PICK i \in 1 .. Len(l) : l[i] = a
    BY <1>1
  <2> QED BY <2>1, <1>2 DEF InFront
<1> QED BY <1>3, <1>4, <1>5

(* The position of a timer in a list.                                        *)
LEMMA PositionFound ==
  ASSUME NEW S, NEW l \in Seq(S), NEW s
  PROVE  IF s \in ToSet(l) THEN Position(l, s) \in 1 .. Len(l) /\ l[Position(l, s)] = s
                           ELSE Position(l, s) = 0
<1> DEFINE I == {i \in 1 .. Len(l) : l[i] = s}
<1>1. Position(l, s) = IF I # {} THEN Min(I) ELSE 0
  BY DEF Position, SelectInSeq
<1>2. I \subseteq Nat
  OBVIOUS
<1>3. s \in ToSet(l) <=> I # {}
  BY Elements
<1>4. I # {} => Min(I) \in I
  BY <1>2, MinNatural
<1> QED BY <1>1, <1>3, <1>4

(* dequeue_timer() takes a timer off its list.                               *)
LEMMA Dequeued ==
  ASSUME NEW S, NEW l \in Seq(S), IsInjective(l), NEW s
  PROVE  /\ dequeue_timer(l, s) \in Seq(S) /\ IsInjective(dequeue_timer(l, s))
         /\ ToSet(dequeue_timer(l, s)) = ToSet(l) \ {s}
         /\ \A a, b : InFront(dequeue_timer(l, s), a, b) <=> a # s /\ b # s /\ InFront(l, a, b)
<1>1. CASE s \in ToSet(l)
  <2>1. Position(l, s) \in 1 .. Len(l) /\ l[Position(l, s)] = s
    BY <1>1, PositionFound
  <2>2. dequeue_timer(l, s) = RemoveAt(l, Position(l, s))
    BY <2>1 DEF dequeue_timer
  <2>3. PICK k \in 1 .. Len(l) : k = Position(l, s)
    BY <2>1
  <2>4. dequeue_timer(l, s) \in Seq(S) /\ Dropped(dequeue_timer(l, s), l, k)
    BY <2>2, <2>3, RemoveAtDrops
  <2> QED BY <2>1, <2>3, <2>4, DroppedList
<1>2. CASE s \notin ToSet(l)
  <2>1. dequeue_timer(l, s) = l
    BY <1>2, PositionFound DEF dequeue_timer
  <2>2. \A a, b : InFront(l, a, b) => a \in ToSet(l) /\ b \in ToSet(l)
    BY FrontTotal
  <2> QED BY <1>2, <2>1, <2>2
<1> QED BY <1>1, <1>2
-----------------------------------------------------------------------------
(* The list of active timers.                                                *)
Slot == [mark : Nat, overflow : BOOLEAN, kind : Kinds, period : Nat]

(* A timer's distance is exact within the range of the comparison.            *)
LEMMA AwayExact ==
  ASSUME NEW sl \in [All -> Slot], NEW a \in All,
         sl[OVF].mark - TIMER_MAX <= sl[a].mark, sl[a].mark <= sl[OVF].mark
  PROVE  Away(sl, a) = sl[a].mark - sl[OVF].mark
<1>1. sl[a].mark \in Int /\ sl[OVF].mark \in Int
  BY DEF Slot, All
<1>2. -Half <= sl[a].mark - sl[OVF].mark /\ sl[a].mark - sl[OVF].mark < Half
  BY <1>1, HalfAssumption DEF TIMER_MAX
<1> QED BY <1>1, <1>2, SignedDifference DEF Away

LEMMA AwayRange ==
  ASSUME NEW sl \in [All -> Slot], NEW a \in All
  PROVE  Away(sl, a) \in -Half .. Half - 1
<1>1. sl[a].mark \in Int /\ sl[OVF].mark \in Int
  BY DEF Slot, All
<1> QED BY <1>1, SignedRange DEF Away

(* Part of a list is as sound as the list.                                   *)
LEMMA SubQueue ==
  ASSUME NEW l \in Seq(All), NEW m \in Seq(All), NEW sl \in [All -> Slot], NEW sm \in [All -> Slot],
         QueueOK(l, sl), IsInjective(m), ToSet(m) \subseteq ToSet(l), OVF \in ToSet(m),
         \A a, b \in ToSet(m) : InFront(m, a, b) <=> InFront(l, a, b),
         \A a \in ToSet(m) : sm[a].mark = sl[a].mark /\ sm[a].overflow = sl[a].overflow
  PROVE  QueueOK(m, sm) /\ (Settled(l, sl) => Settled(m, sm))
<1>1. Listed(m, sm)
  BY DEF QueueOK, Listed
<1>2. InReach(m, sm)
  BY DEF QueueOK, InReach
<1>3. \A a \in ToSet(m) : Away(sm, a) = Away(sl, a)
  BY DEF Away
<1>4. Ordered(m, sm)
  BY <1>3 DEF QueueOK, Ordered
<1>5. NoneBehind(m, sm)
  BY DEF QueueOK, NoneBehind
<1>6. Settled(l, sl) => Settled(m, sm)
  BY DEF Settled
<1> QED BY <1>1, <1>2, <1>4, <1>5, <1>6 DEF QueueOK

(* Of two timers of which none waits the one in front is the earlier.        *)
LEMMA SortedMarks ==
  ASSUME NEW l \in Seq(All), NEW sl \in [All -> Slot], QueueOK(l, sl),
         NEW a \in ToSet(l), NEW b \in ToSet(l), InFront(l, a, b), ~sl[a].overflow, ~sl[b].overflow
  PROVE  sl[a].mark <= sl[b].mark
<1>1. a \in All /\ b \in All /\ OVF \in All
  BY Elements DEF All
<1>2. Away(sl, a) = sl[a].mark - sl[OVF].mark
  BY <1>1, AwayExact DEF QueueOK, InReach
<1>3. Away(sl, b) = sl[b].mark - sl[OVF].mark
  BY <1>1, AwayExact DEF QueueOK, InReach
<1>4. Away(sl, a) <= Away(sl, b)
  BY DEF QueueOK, Ordered
<1>5. sl[a].mark \in Int /\ sl[b].mark \in Int /\ sl[OVF].mark \in Int
  BY <1>1 DEF Slot
<1> QED BY <1>2, <1>3, <1>4, <1>5

(* The first timer does not wait and is the earliest of all.                 *)
LEMMA FirstEarliest ==
  ASSUME NEW l \in Seq(All), NEW sl \in [All -> Slot], QueueOK(l, sl), Settled(l, sl)
  PROVE  /\ l[1] \in ToSet(l) /\ ~sl[l[1]].overflow
         /\ \A a \in ToSet(l) : sl[l[1]].mark <= sl[a].mark
<1>1. IsInjective(l) /\ OVF \in ToSet(l) /\ ~sl[OVF].overflow
  BY DEF QueueOK, Listed
<1>2. l[1] \in ToSet(l)
  <2>1. PICK i \in 1 .. Len(l) : l[i] = OVF
    BY <1>1, Elements
  <2>2. 1 \in 1 .. Len(l)
    BY <2>1
  <2> QED BY <2>2, Elements
<1>3. ~sl[l[1]].overflow
  <2>1. OVF = l[1] \/ InFront(l, l[1], OVF)
    BY <1>1, FrontTotal
  <2>2. ~InFront(l, OVF, l[1])
    BY <1>1, <2>1, FrontTotal
  <2> QED BY <2>2, <1>2 DEF Settled
<1>4. ASSUME NEW a \in ToSet(l) PROVE sl[l[1]].mark <= sl[a].mark
  <2>0. a \in All /\ l[1] \in All /\ OVF \in All
    BY <1>2, Elements DEF All
  <2>1. sl[a].mark \in Int /\ sl[l[1]].mark \in Int /\ sl[OVF].mark \in Int
    BY <2>0 DEF Slot
  <2>2. CASE sl[a].overflow
    <3>1. sl[a].mark > sl[OVF].mark
      BY <2>2 DEF Settled
    <3>2. sl[l[1]].mark <= sl[OVF].mark
      BY <1>2, <1>3 DEF QueueOK, InReach
    <3> QED BY <2>1, <3>1, <3>2
  <2>3. CASE ~sl[a].overflow
    <3>1. a = l[1] \/ InFront(l, l[1], a)
      BY <1>1, FrontTotal
    <3>2. CASE InFront(l, l[1], a)
      BY <3>2, <1>2, <1>3, <2>3, SortedMarks
    <3> QED BY <2>1, <3>1, <3>2
  <2> QED BY <2>2, <2>3
<1> QED BY <1>2, <1>3, <1>4
-----------------------------------------------------------------------------
(* insert_timer().                                                           *)

(* SortIn puts s in front of the first timer that is not earlier, and behind  *)
(* all timers if there is none.                                              *)
LEMMA SortedInPlace ==
  ASSUME NEW l \in Seq(All), NEW sl \in [All -> Slot], NEW st, NEW s \in All,
         NEW q, q = [list |-> l, tm |-> sl, stamp |-> st]
  PROVE  \E k \in 1 .. Len(l) + 1 :
            /\ SortIn(q, s) \in Seq(All) /\ Placed(SortIn(q, s), l, k, s)
            /\ \A i \in 1 .. k - 1 : Signed(Low(sl[l[i]].mark) - Low(sl[s].mark)) < 0
            /\ k <= Len(l) => Signed(Low(sl[l[k]].mark) - Low(sl[s].mark)) >= 0
<1> DEFINE far(i) == Signed(Low(sl[l[i]].mark) - Low(sl[s].mark))
<1> DEFINE I == {i \in 1 .. Len(l) : far(i) >= 0}
<1>0. Len(l) \in Nat
  OBVIOUS
<1>1. \A i \in 1 .. Len(l) : far(i) \in Int
  <2> SUFFICES ASSUME NEW i \in 1 .. Len(l) PROVE far(i) \in Int
    OBVIOUS
  <2>1. l[i] \in All
    BY Elements
  <2>2. sl[l[i]].mark \in Int /\ sl[s].mark \in Int
    BY <2>1 DEF Slot
  <2>3. far(i) \in -Half .. Half - 1
    BY <2>2, SignedRange
  <2> QED BY <2>3, HalfAssumption
<1>2. SelectInSeq(l, LAMBDA x : Signed(Low(sl[x].mark) - Low(sl[s].mark)) >= 0)
        = IF I # {} THEN Min(I) ELSE 0
  BY DEF SelectInSeq
<1>3. SortIn(q, s) = LET i == IF I # {} THEN Min(I) ELSE 0
                     IN IF i = 0 THEN Append(l, s) ELSE InsertAt(l, i, s)
  BY <1>2 DEF SortIn
<1> HIDE DEF far
<1>4. CASE I = {}
  <2>1. SortIn(q, s) = Append(l, s)
    BY <1>3, <1>4
  <2>2. PICK k \in 1 .. Len(l) + 1 : k = Len(l) + 1
    BY <1>0
  <2>3. Append(l, s) \in Seq(All) /\ Placed(Append(l, s), l, k, s)
    BY <2>2, AppendPlaces
  <2>4. ~(k <= Len(l)) /\ k - 1 = Len(l)
    BY <1>0, <2>2
  <2>5. \A i \in 1 .. k - 1 : far(i) < 0
    BY <1>0, <1>1, <1>4, <2>4
  <2> QED BY <2>1, <2>3, <2>4, <2>5 DEF far
<1>5. CASE I # {}
  <2>1. I \subseteq Nat
    OBVIOUS
  <2>2. PICK k \in I : k = Min(I) /\ \A i \in I : k <= i
    BY <2>1, <1>5, MinNatural
  <2>3. k \in 1 .. Len(l) /\ far(k) >= 0 /\ k \in 1 .. Len(l) + 1 /\ k # 0
    OBVIOUS
  <2>4. SortIn(q, s) = InsertAt(l, k, s)
    BY <1>3, <1>5, <2>2, <2>3
  <2>5. InsertAt(l, k, s) \in Seq(All) /\ Placed(InsertAt(l, k, s), l, k, s)
    BY <2>3, InsertAtPlaces
  <2>6. \A i \in 1 .. k - 1 : far(i) < 0
    <3> SUFFICES ASSUME NEW i \in 1 .. k - 1, ~(far(i) < 0) PROVE FALSE
      OBVIOUS
    <3>1. i \in 1 .. Len(l) /\ i < k
      BY <2>3
    <3>2. i \in I
      BY <3>1, <1>1
    <3> QED BY <3>1, <3>2, <2>2
  <2> QED BY <2>3, <2>4, <2>5, <2>6 DEF far
<1> QED BY <1>4, <1>5

(* What insert_timer() makes of a list, the slots and the stamp.             *)
Inserted(r, l, sl, st, s) ==
    /\ r = [list |-> r.list, tm |-> r.tm, stamp |-> r.stamp]
    /\ r.list \in Seq(All) /\ r.tm \in [All -> Slot]
    /\ ToSet(r.list) = ToSet(l) \cup {s}
    /\ QueueOK(r.list, r.tm)
    /\ \A a \in All : a # s => r.tm[a] = sl[a]
    /\ r.tm[s].mark = sl[s].mark /\ r.tm[s].kind = sl[s].kind /\ r.tm[s].period = sl[s].period
    /\ Settled(l, sl) /\ (sl[s].overflow => sl[s].mark > sl[OVF].mark) => Settled(r.list, r.tm)
    /\ \/ r.list[1] \in ToSet(l) /\ r.stamp = st
       \/ r.list[1] = s /\ r.stamp = Low(sl[s].mark) /\ sl[s].mark <= sl[OVF].mark

(* A timer that is out of the range goes right behind the overflow timer.    *)
LEMMA InsertBehind ==
  ASSUME NEW l \in Seq(All), NEW sl \in [All -> Slot], NEW st, NEW s \in All,
         NEW q, q = [list |-> l, tm |-> sl, stamp |-> st],
         QueueOK(l, sl), s # OVF, s \notin ToSet(l), sl[s].mark > sl[OVF].mark
  PROVE  Inserted(insert_timer(q, s), l, sl, st, s)
<1> DEFINE k == Position(l, OVF) + 1
<1> DEFINE m == InsertAt(l, k, s)
<1> DEFINE sm == [sl EXCEPT ![s].overflow = TRUE]
<1> DEFINE r == insert_timer(q, s)
<1>1. r = [list |-> m, tm |-> sm, stamp |-> st]
  BY DEF insert_timer
<1>2. IsInjective(l) /\ OVF \in ToSet(l) /\ ~sl[OVF].overflow /\ Len(l) \in Nat
  BY DEF QueueOK, Listed
<1>3. Position(l, OVF) \in 1 .. Len(l) /\ l[Position(l, OVF)] = OVF
  BY <1>2, PositionFound
<1>4. PICK p \in 1 .. Len(l) : p = Position(l, OVF) /\ l[p] = OVF
  BY <1>3
<1>5. k = p + 1 /\ k \in 1 .. Len(l) + 1 /\ k - 1 = p
  BY <1>2, <1>4
<1>6. m \in Seq(All) /\ Placed(m, l, k, s)
  BY <1>5, InsertAtPlaces
<1> HIDE DEF k, m, r
<1>7. /\ IsInjective(m) /\ ToSet(m) = ToSet(l) \cup {s}
      /\ \A a, b : a # s /\ b # s => (InFront(m, a, b) <=> InFront(l, a, b))
      /\ \A b : InFront(m, s, b) <=> \E i \in k .. Len(l) : l[i] = b
      /\ \A a : InFront(m, a, s) <=> \E i \in 1 .. k - 1 : l[i] = a
      /\ m[1] = IF k = 1 THEN s ELSE l[1]
  BY <1>2, <1>6, PlacedList
<1>8. sm \in [All -> Slot] /\ (\A a \in All : a # s => sm[a] = sl[a])
      /\ sm[s].mark = sl[s].mark /\ sm[s].kind = sl[s].kind /\ sm[s].period = sl[s].period
      /\ sm[s].overflow
  BY DEF Slot
<1> HIDE DEF sm
<1>9. OVF \in All /\ ToSet(l) \subseteq All /\ sl[OVF].mark \in Nat /\ sl[s].mark \in Nat
  BY <1>2, Elements DEF Slot
<1>10. InFront(m, OVF, s)
  <2>1. p \in 1 .. k - 1
    BY <1>4, <1>5
  <2> QED BY <2>1, <1>4, <1>7
<1>11. \A b : InFront(m, s, b) => InFront(l, OVF, b)
  <2> SUFFICES ASSUME NEW b, InFront(m, s, b) PROVE InFront(l, OVF, b)
    OBVIOUS
  <2>1. PICK i \in k .. Len(l) : l[i] = b
    BY <1>7
  <2>2. i \in 1 .. Len(l) /\ p < i
    BY <1>5
  <2> QED BY <2>1, <2>2, <1>4 DEF InFront
<1>12. \A a \in ToSet(l) : a # s /\ sm[a] = sl[a] /\ a \in All
  BY <1>8, <1>9
<1>13. Listed(m, sm)
  BY <1>2, <1>7, <1>12 DEF Listed
<1>14. InReach(m, sm)
  <2> SUFFICES ASSUME NEW a \in ToSet(m)
               PROVE  /\ sm[OVF].mark - TIMER_MAX <= sm[a].mark
                      /\ ~sm[a].overflow => sm[a].mark <= sm[OVF].mark
    BY DEF InReach
  <2>1. CASE a = s
    BY <2>1, <1>8, <1>9, <1>12, <1>2, HalfAssumption DEF TIMER_MAX
  <2>2. CASE a \in ToSet(l)
    BY <2>2, <1>2, <1>12 DEF QueueOK, InReach
  <2> QED BY <2>1, <2>2, <1>7
<1>15. Ordered(m, sm)
  <2> SUFFICES ASSUME NEW a \in ToSet(m), NEW b \in ToSet(m), InFront(m, a, b), ~sm[b].overflow
               PROVE  Away(sm, a) <= Away(sm, b)
    BY DEF Ordered
  <2>1. b # s /\ b \in ToSet(l)
    BY <1>7, <1>8
  <2>2. a # s
    <3>1. ASSUME a = s PROVE FALSE
      <4>1. InFront(l, OVF, b)
        BY <3>1, <1>11
      <4>2. sl[b].overflow
        BY <4>1, <2>1 DEF QueueOK, NoneBehind
      <4> QED BY <4>2, <2>1, <1>12
    <3> QED BY <3>1
  <2>3. a \in ToSet(l) /\ InFront(l, a, b)
    BY <2>1, <2>2, <1>7
  <2>4. Away(sl, a) <= Away(sl, b)
    BY <2>1, <2>3, <1>12 DEF QueueOK, Ordered
  <2> QED BY <2>1, <2>3, <2>4, <1>2, <1>12 DEF Away
<1>16. NoneBehind(m, sm)
  <2> SUFFICES ASSUME NEW a \in ToSet(m), InFront(m, OVF, a) PROVE sm[a].overflow
    BY DEF NoneBehind
  <2>1. CASE a = s
    BY <2>1, <1>8
  <2>2. CASE a # s
    BY <2>2, <1>7, <1>12 DEF QueueOK, NoneBehind
  <2> QED BY <2>1, <2>2
<1>17. Settled(l, sl) => Settled(m, sm)
  <2> SUFFICES ASSUME Settled(l, sl), NEW a \in ToSet(m), sm[a].overflow
               PROVE  InFront(m, OVF, a) /\ sm[a].mark > sm[OVF].mark
    BY DEF Settled
  <2>1. CASE a = s
    BY <2>1, <1>2, <1>8, <1>10, <1>12
  <2>2. CASE a # s
    BY <2>2, <1>2, <1>7, <1>12 DEF Settled
  <2> QED BY <2>1, <2>2
<1>18. m[1] \in ToSet(l)
  <2>1. k # 1 /\ 1 \in 1 .. Len(l)
    BY <1>4, <1>5
  <2> QED BY <2>1, <1>7, Elements
<1>19. QueueOK(m, sm)
  BY <1>13, <1>14, <1>15, <1>16 DEF QueueOK
<1>20. r.list = m /\ r.tm = sm /\ r.stamp = st /\ r = [list |-> m, tm |-> sm, stamp |-> st]
  BY <1>1
<1>21. Inserted(r, l, sl, st, s)
  BY <1>6, <1>7, <1>8, <1>17, <1>18, <1>19, <1>20 DEF Inserted
<1> QED BY <1>21 DEF r

(* Any other timer is sorted in, in front of the overflow timer: up to there  *)
(* the distances of the timers add up without a wrap.                        *)
LEMMA InsertSorted ==
  ASSUME NEW l \in Seq(All), NEW sl \in [All -> Slot], NEW st, NEW s \in All,
         NEW q, q = [list |-> l, tm |-> sl, stamp |-> st],
         QueueOK(l, sl), s # OVF, s \notin ToSet(l),
         sl[s].mark <= sl[OVF].mark, sl[OVF].mark - TIMER_MAX <= sl[s].mark
  PROVE  Inserted(insert_timer(q, s), l, sl, st, s)
<1> DEFINE m == SortIn(q, s)
<1> DEFINE r == insert_timer(q, s)
<1> DEFINE far(x) == Signed(Low(sl[x].mark) - Low(sl[s].mark))
<1>0. OVF \in All /\ ToSet(l) \subseteq All
  BY Elements DEF All
<1>1. sl[s].mark \in Int /\ sl[OVF].mark \in Int /\ TIMER_MAX = Half - 1 /\ Half \in Nat
  BY <1>0, HalfAssumption DEF Slot, TIMER_MAX
<1>2. r = [list |-> m, tm |-> sl, stamp |-> IF m[1] = s THEN Low(sl[s].mark) ELSE st]
  <2>1. ~(q.tm[s].mark > q.tm[OVF].mark)
    BY <1>1
  <2> QED BY <2>1 DEF insert_timer
<1>3. IsInjective(l) /\ OVF \in ToSet(l) /\ ~sl[OVF].overflow /\ Len(l) \in Nat
  BY DEF QueueOK, Listed
<1>4. PICK k \in 1 .. Len(l) + 1 :
        /\ m \in Seq(All) /\ Placed(m, l, k, s)
        /\ \A i \in 1 .. k - 1 : far(l[i]) < 0
        /\ k <= Len(l) => far(l[k]) >= 0
  BY SortedInPlace
<1> HIDE DEF m, r
<1>5. /\ IsInjective(m) /\ ToSet(m) = ToSet(l) \cup {s}
      /\ \A a, b : a # s /\ b # s => (InFront(m, a, b) <=> InFront(l, a, b))
      /\ \A b : InFront(m, s, b) <=> \E i \in k .. Len(l) : l[i] = b
      /\ \A a : InFront(m, a, s) <=> \E i \in 1 .. k - 1 : l[i] = a
      /\ m[1] = IF k = 1 THEN s ELSE l[1]
  BY <1>3, <1>4, PlacedList
<1> DEFINE e == sl[s].mark - sl[OVF].mark
<1>6. e \in Int /\ -TIMER_MAX <= e /\ e <= 0
  BY <1>1
<1>7. Away(sl, s) = e
  BY AwayExact
<1>8. Away(sl, OVF) = 0
  <2>1. -Half <= sl[OVF].mark - sl[OVF].mark /\ sl[OVF].mark - sl[OVF].mark < Half
    BY <1>1, HalfAssumption
  <2>2. Away(sl, OVF) = sl[OVF].mark - sl[OVF].mark
    BY <1>1, <2>1, SignedDifference DEF Away
  <2> QED BY <1>1, <2>2
(* Up to the overflow timer the scan compares distances. *)
<1>9. ASSUME NEW x \in ToSet(l), x = OVF \/ InFront(l, x, OVF)
      PROVE  Away(sl, x) \in Int /\ Away(sl, x) <= 0 /\ far(x) = Away(sl, x) - e
  <2>1. x \in All /\ sl[x].mark \in Int
    BY <1>0 DEF Slot
  <2>2. Away(sl, x) \in -Half .. Half - 1
    BY <2>1, AwayRange
  <2>3. Away(sl, x) <= 0
    <3>1. CASE x = OVF
      BY <3>1, <1>8
    <3>2. CASE InFront(l, x, OVF)
      <4>1. Away(sl, x) <= Away(sl, OVF)
        BY <3>2, <1>3 DEF QueueOK, Ordered
      <4> QED BY <4>1, <1>8
    <3> QED BY <1>9, <3>1, <3>2
  <2> DEFINE d == Away(sl, x)
  <2>4. d = Signed(Low(sl[x].mark) - Low(sl[OVF].mark))
    BY DEF Away
  <2>5. d \in Int /\ -Half <= d - e /\ d - e < Half
    BY <2>2, <2>3, <1>1, <1>6
  <2>6. e = sl[s].mark - sl[OVF].mark
    OBVIOUS
  <2> DEFINE u == sl[x].mark
  <2> DEFINE v == sl[s].mark
  <2> DEFINE w == sl[OVF].mark
  <2>7. u \in Int /\ v \in Int /\ w \in Int /\ e \in Int /\ d = Signed(Low(u) - Low(w)) /\ e = v - w
    BY <1>1, <1>6, <2>1, <2>4, <2>6
  <2> HIDE DEF d, e, u, v, w
  <2>8. Signed(Low(u) - Low(v)) = d - e
    BY <2>5, <2>7, SignedChain
  <2> QED BY <2>3, <2>5, <2>8 DEF d, u, v
<1> HIDE DEF e, far
(* The overflow timer stops the scan at the latest. *)
<1>10. PICK p \in 1 .. Len(l) : l[p] = OVF
  BY <1>3, Elements
<1>11. k <= p
  <2> SUFFICES ASSUME k > p PROVE FALSE
    BY <1>4, <1>10
  <2>1. p \in 1 .. k - 1
    BY <1>4, <1>10
  <2>2. far(OVF) < 0
    BY <2>1, <1>4, <1>10
  <2>3. far(OVF) = 0 - e
    BY <1>3, <1>8, <1>9
  <2> QED BY <2>2, <2>3, <1>6
<1>12. ASSUME NEW i \in 1 .. p
       PROVE  i \in 1 .. Len(l) /\ l[i] \in ToSet(l) /\ (l[i] = OVF \/ InFront(l, l[i], OVF))
  <2>1. i \in 1 .. Len(l) /\ (i = p \/ i < p)
    BY <1>10
  <2> QED BY <2>1, <1>10, Elements DEF InFront
(* In front of s are earlier timers, by their distance. *)
<1>13. ASSUME NEW a, InFront(m, a, s) PROVE Away(sl, a) <= Away(sl, s)
  <2>1. PICK i \in 1 .. k - 1 : l[i] = a
    BY <1>5, <1>13
  <2>2. i \in 1 .. p /\ far(a) < 0
    BY <2>1, <1>4, <1>11
  <2>3. far(a) = Away(sl, a) - e /\ Away(sl, a) \in Int
    BY <2>1, <2>2, <1>9, <1>12
  <2> QED BY <2>2, <2>3, <1>6, <1>7
(* Behind s are later ones, or some that wait. *)
<1>14. k \in 1 .. p /\ k \in 1 .. Len(l) /\ l[k] \in ToSet(l) /\ far(l[k]) >= 0
  BY <1>4, <1>10, <1>11, <1>12
<1>15. Away(sl, l[k]) \in Int /\ Away(sl, s) <= Away(sl, l[k])
  <2>1. far(l[k]) = Away(sl, l[k]) - e /\ Away(sl, l[k]) \in Int
    BY <1>9, <1>12, <1>14
  <2> QED BY <2>1, <1>6, <1>7, <1>14
<1>16. ASSUME NEW b \in ToSet(l), InFront(m, s, b), ~sl[b].overflow
       PROVE  Away(sl, s) <= Away(sl, b)
  <2>1. PICK i \in k .. Len(l) : l[i] = b
    BY <1>5, <1>16
  <2>2. CASE i = k
    BY <2>1, <2>2, <1>15
  <2>3. CASE i # k
    <3>1. k < i /\ i \in 1 .. Len(l)
      BY <2>3, <1>14
    <3>2. InFront(l, l[k], b)
      BY <3>1, <2>1, <1>14 DEF InFront
    <3>3. Away(sl, l[k]) <= Away(sl, b)
      BY <3>2, <1>14, <1>16 DEF QueueOK, Ordered
    <3>4. Away(sl, b) \in Int
      <4>1. b \in All
        BY <1>0
      <4>2. Away(sl, b) \in -Half .. Half - 1
        BY <4>1, AwayRange
      <4> QED BY <4>2, <1>1
    <3> QED BY <3>3, <3>4, <1>6, <1>7, <1>15
  <2> QED BY <2>2, <2>3
<1>17. InFront(m, s, OVF)
  <2>1. p \in k .. Len(l)
    BY <1>10, <1>11, <1>14
  <2> QED BY <2>1, <1>5, <1>10
<1>18. Listed(m, sl)
  BY <1>3, <1>5 DEF Listed
<1>19. InReach(m, sl)
  <2> SUFFICES ASSUME NEW a \in ToSet(m)
               PROVE  /\ sl[OVF].mark - TIMER_MAX <= sl[a].mark
                      /\ ~sl[a].overflow => sl[a].mark <= sl[OVF].mark
    BY DEF InReach
  <2>1. CASE a = s
    BY <2>1
  <2>2. CASE a \in ToSet(l)
    BY <2>2 DEF QueueOK, InReach
  <2> QED BY <2>1, <2>2, <1>5
<1>20. Ordered(m, sl)
  <2> SUFFICES ASSUME NEW a \in ToSet(m), NEW b \in ToSet(m), InFront(m, a, b), ~sl[b].overflow
               PROVE  Away(sl, a) <= Away(sl, b)
    BY DEF Ordered
  <2>0. a # b
    BY <1>4, <1>5, FrontTotal
  <2>1. CASE b = s
    BY <2>1, <1>13
  <2>2. CASE b # s /\ a = s
    BY <2>2, <1>5, <1>16
  <2>3. CASE b # s /\ a # s
    <3>1. a \in ToSet(l) /\ b \in ToSet(l) /\ InFront(l, a, b)
      BY <2>3, <1>5
    <3> QED BY <3>1 DEF QueueOK, Ordered
  <2> QED BY <2>1, <2>2, <2>3
<1>21. NoneBehind(m, sl)
  <2> SUFFICES ASSUME NEW a \in ToSet(m), InFront(m, OVF, a) PROVE sl[a].overflow
    BY DEF NoneBehind
  <2>1. a # s
    BY <1>4, <1>5, <1>17, FrontTotal
  <2>2. a \in ToSet(l) /\ InFront(l, OVF, a)
    BY <2>1, <1>5
  <2> QED BY <2>2 DEF QueueOK, NoneBehind
<1>22. Settled(l, sl) /\ (sl[s].overflow => sl[s].mark > sl[OVF].mark) => Settled(m, sl)
  <2> SUFFICES ASSUME Settled(l, sl), sl[s].overflow => sl[s].mark > sl[OVF].mark,
                      NEW a \in ToSet(m), sl[a].overflow
               PROVE  InFront(m, OVF, a) /\ sl[a].mark > sl[OVF].mark
    BY DEF Settled
  <2>1. a # s
    BY <1>1
  <2>2. a \in ToSet(l)
    BY <2>1, <1>5
  <2> QED BY <2>1, <2>2, <1>5 DEF Settled
<1>23. m[1] = s \/ m[1] \in ToSet(l)
  <2>1. 1 \in 1 .. Len(l)
    BY <1>10
  <2> QED BY <2>1, <1>5, Elements
<1>24. QueueOK(m, sl)
  BY <1>18, <1>19, <1>20, <1>21 DEF QueueOK
<1>25. r.list = m /\ r.tm = sl /\ r = [list |-> r.list, tm |-> r.tm, stamp |-> r.stamp]
       /\ r.stamp = IF m[1] = s THEN Low(sl[s].mark) ELSE st
  BY <1>2
<1>26. Inserted(r, l, sl, st, s)
  BY <1>4, <1>5, <1>22, <1>23, <1>24, <1>25 DEF Inserted
<1> QED BY <1>26 DEF r

(* insert_timer() keeps the list sound, for every timer but the overflow      *)
(* timer that is not too early for the comparison.                           *)
LEMMA InsertTimer ==
  ASSUME NEW l \in Seq(All), NEW sl \in [All -> Slot], NEW st, NEW s \in All,
         NEW q, q = [list |-> l, tm |-> sl, stamp |-> st],
         QueueOK(l, sl), s # OVF, s \notin ToSet(l), sl[OVF].mark - TIMER_MAX <= sl[s].mark
  PROVE  Inserted(insert_timer(q, s), l, sl, st, s)
<1>1. sl[s].mark \in Int /\ sl[OVF].mark \in Int
  BY DEF Slot, All
<1>2. CASE sl[s].mark > sl[OVF].mark
  BY <1>2, InsertBehind
<1>3. CASE sl[s].mark <= sl[OVF].mark
  BY <1>3, InsertSorted
<1> QED BY <1>1, <1>2, <1>3

(* The overflow timer itself, when all others wait: they are in the range of  *)
(* its new mark, and where they are is of no matter.                         *)
LEMMA InsertOverflow ==
  ASSUME NEW l \in Seq(All), NEW sl \in [All -> Slot], NEW st,
         NEW q, q = [list |-> l, tm |-> sl, stamp |-> st],
         IsInjective(l), OVF \notin ToSet(l), ~sl[OVF].overflow,
         \A a \in ToSet(l) : sl[a].overflow /\ sl[OVF].mark - TIMER_MAX <= sl[a].mark
  PROVE  LET r == insert_timer(q, OVF)
         IN /\ r.list \in Seq(All) /\ r.tm = sl
            /\ ToSet(r.list) = ToSet(l) \cup {OVF} /\ QueueOK(r.list, sl)
            /\ r.stamp = st \/ r.stamp = Low(sl[OVF].mark)
<1> DEFINE m == SortIn(q, OVF)
<1> DEFINE r == insert_timer(q, OVF)
<1>0. OVF \in All /\ ToSet(l) \subseteq All
  BY Elements DEF All
<1>1. sl[OVF].mark \in Nat /\ TIMER_MAX \in Nat
  BY <1>0, HalfAssumption DEF Slot, TIMER_MAX
<1>2. r = [list |-> m, tm |-> sl, stamp |-> IF m[1] = OVF THEN Low(sl[OVF].mark) ELSE st]
  <2>1. ~(q.tm[OVF].mark > q.tm[OVF].mark)
    BY <1>1
  <2> QED BY <2>1 DEF insert_timer
<1>3. PICK k \in 1 .. Len(l) + 1 :
        /\ m \in Seq(All) /\ Placed(m, l, k, OVF)
        /\ \A i \in 1 .. k - 1 : Signed(Low(sl[l[i]].mark) - Low(sl[OVF].mark)) < 0
  BY <1>0, SortedInPlace
<1> HIDE DEF m, r
<1>4. /\ IsInjective(m) /\ ToSet(m) = ToSet(l) \cup {OVF}
      /\ \A a : InFront(m, a, OVF) <=> \E i \in 1 .. k - 1 : l[i] = a
  BY <1>0, <1>3, PlacedList
<1>5. Listed(m, sl)
  BY <1>4 DEF Listed
<1>6. InReach(m, sl)
  <2>1. sl[OVF].mark - TIMER_MAX <= sl[OVF].mark /\ sl[OVF].mark <= sl[OVF].mark
    BY <1>1
  <2> QED BY <2>1, <1>4 DEF InReach
<1>7. Ordered(m, sl)
  <2> SUFFICES ASSUME NEW a \in ToSet(m), NEW b \in ToSet(m), InFront(m, a, b), ~sl[b].overflow
               PROVE  Away(sl, a) <= Away(sl, b)
    BY DEF Ordered
  <2>1. b = OVF
    BY <1>4
  <2>2. PICK i \in 1 .. k - 1 : l[i] = a
    BY <2>1, <1>4
  <2>3. Away(sl, a) < 0
    BY <2>2, <1>3 DEF Away
  <2>4. Away(sl, OVF) = 0
    <3>1. sl[OVF].mark - TIMER_MAX <= sl[OVF].mark /\ sl[OVF].mark <= sl[OVF].mark
      BY <1>1
    <3>2. Away(sl, OVF) = sl[OVF].mark - sl[OVF].mark
      BY <3>1, <1>0, AwayExact
    <3> QED BY <3>2, <1>1
  <2>5. a \in All
    BY <1>0, <1>4
  <2>6. Away(sl, a) \in Int
    <3>1. Away(sl, a) \in -Half .. Half - 1
      BY <2>5, AwayRange
    <3> QED BY <3>1, HalfAssumption
  <2> QED BY <2>1, <2>3, <2>4, <2>6
<1>8. NoneBehind(m, sl)
  <2> SUFFICES ASSUME NEW a \in ToSet(m), InFront(m, OVF, a) PROVE sl[a].overflow
    BY DEF NoneBehind
  <2>1. a # OVF
    BY <1>3, <1>4, FrontTotal
  <2> QED BY <2>1, <1>4
<1>9. QueueOK(m, sl)
  BY <1>5, <1>6, <1>7, <1>8 DEF QueueOK
<1>10. r.list = m /\ r.tm = sl /\ (r.stamp = st \/ r.stamp = Low(sl[OVF].mark))
  BY <1>2
<1>11. /\ r.list \in Seq(All) /\ r.tm = sl
       /\ ToSet(r.list) = ToSet(l) \cup {OVF} /\ QueueOK(r.list, sl)
       /\ r.stamp = st \/ r.stamp = Low(sl[OVF].mark)
  BY <1>3, <1>4, <1>9, <1>10
<1> QED BY <1>11 DEF r

(* The list stays sound when all its timers are moved by the same time.       *)
LEMMA SignedMoved ==
  ASSUME NEW a \in Int, NEW b \in Int, NEW d \in Int
  PROVE  Signed(Low(a + d) - Low(b + d)) = Signed(Low(a) - Low(b))
<1> USE HalfAssumption
<1>1. M \in Int /\ M = 2 * Half
  BY DEF M
<1> DEFINE f == Signed(Low(a) - Low(b))
<1> DEFINE g == Signed(Low(a + d) - Low(b + d))
<1>2. f \in -Half .. Half - 1
  BY SignedRange
<1>3. PICK k \in Int : a - b = k * M + f
  BY SignedRange
<1>4. a + d \in Int /\ b + d \in Int
  OBVIOUS
<1>5. g \in -Half .. Half - 1
  BY <1>4, SignedRange
<1>6. PICK n \in Int : (a + d) - (b + d) = n * M + g
  BY <1>4, SignedRange
<1> HIDE DEF f, g
<1>7. k * M \in Int /\ n * M \in Int /\ (k - n) * M = k * M - n * M
  BY <1>1
<1>8. (k - n) * M = g - f
  BY <1>2, <1>3, <1>5, <1>6, <1>7
<1>9. g - f \in 1 - M .. M - 1
  BY <1>1, <1>2, <1>5
<1>10. k - n = 0
  BY <1>1, <1>8, <1>9
<1>11. g = f
  BY <1>1, <1>2, <1>5, <1>8, <1>10
<1> QED BY <1>11 DEF f, g

LEMMA MovedQueue ==
  ASSUME NEW l \in Seq(All), NEW sl \in [All -> Slot], NEW sm \in [All -> Slot], NEW d \in Nat,
         \A a \in ToSet(l) : sm[a].mark = sl[a].mark + d /\ sm[a].overflow = sl[a].overflow,
         QueueOK(l, sl)
  PROVE  QueueOK(l, sm) /\ (Settled(l, sl) => Settled(l, sm))
<1>0. ToSet(l) \subseteq All /\ OVF \in ToSet(l) /\ TIMER_MAX \in Int
  BY Elements, HalfAssumption DEF QueueOK, Listed, TIMER_MAX
<1>1. \A a \in ToSet(l) : sl[a].mark \in Nat /\ sm[a].mark \in Nat
  BY <1>0 DEF Slot
<1>2. \A a \in ToSet(l) : Away(sm, a) = Away(sl, a)
  <2> SUFFICES ASSUME NEW a \in ToSet(l) PROVE Away(sm, a) = Away(sl, a)
    OBVIOUS
  <2> DEFINE u == sl[a].mark
  <2> DEFINE w == sl[OVF].mark
  <2>1. u \in Int /\ w \in Int /\ d \in Int /\ sm[a].mark = u + d /\ sm[OVF].mark = w + d
    BY <1>0, <1>1
  <2> HIDE DEF u, w
  <2>2. Signed(Low(u + d) - Low(w + d)) = Signed(Low(u) - Low(w))
    BY <2>1, SignedMoved
  <2> QED BY <2>1, <2>2 DEF Away, u, w
<1>3. Listed(l, sm)
  BY <1>0 DEF QueueOK, Listed
<1>4. InReach(l, sm)
  <2> SUFFICES ASSUME NEW a \in ToSet(l)
               PROVE  /\ sm[OVF].mark - TIMER_MAX <= sm[a].mark
                      /\ ~sm[a].overflow => sm[a].mark <= sm[OVF].mark
    BY DEF InReach
  <2>1. /\ sl[OVF].mark - TIMER_MAX <= sl[a].mark
        /\ ~sl[a].overflow => sl[a].mark <= sl[OVF].mark
    BY DEF QueueOK, InReach
  <2>2. /\ sm[a].mark = sl[a].mark + d /\ sm[OVF].mark = sl[OVF].mark + d
        /\ sm[a].overflow = sl[a].overflow
    BY <1>0
  <2>3. sl[a].mark \in Int /\ sl[OVF].mark \in Int /\ d \in Int
    BY <1>0, <1>1
  <2>4. sm[OVF].mark - TIMER_MAX <= sm[a].mark
    BY <2>1, <2>2, <2>3, <1>0
  <2> QED BY <2>1, <2>2, <2>3, <2>4
<1>5. Ordered(l, sm)
  BY <1>2 DEF QueueOK, Ordered
<1>6. NoneBehind(l, sm)
  BY DEF QueueOK, NoneBehind
<1>7. Settled(l, sl) => Settled(l, sm)
  <2> SUFFICES ASSUME Settled(l, sl), NEW a \in ToSet(l), sm[a].overflow
               PROVE  InFront(l, OVF, a) /\ sm[a].mark > sm[OVF].mark
    BY DEF Settled
  <2>1. InFront(l, OVF, a) /\ sl[a].mark > sl[OVF].mark
    BY DEF Settled
  <2> QED BY <2>1, <1>0, <1>1
<1> QED BY <1>3, <1>4, <1>5, <1>6, <1>7 DEF QueueOK
-----------------------------------------------------------------------------
(* The two loops of overflow_handler().                                      *)
Start0 == [rest |-> <<>>, chain |-> <<>>]

(* After k turns of the first: of the first k timers those that wait are in   *)
(* the chain, and the others in the list, in their old order.                *)
Walked(w, l, sl, k) ==
    /\ w = [rest |-> w.rest, chain |-> w.chain]
    /\ w.rest \in Seq(All) /\ IsInjective(w.rest)
    /\ w.chain \in Seq(All) /\ IsInjective(w.chain)
    /\ \A x : x \in ToSet(w.rest) <=> \E i \in 1 .. k : l[i] = x /\ ~sl[x].overflow
    /\ \A x : x \in ToSet(w.chain) <=> \E i \in 1 .. k : l[i] = x /\ sl[x].overflow
    /\ \A a, b \in ToSet(w.rest) : InFront(w.rest, a, b) <=> InFront(l, a, b)

LEMMA WalkKeeps ==
  ASSUME NEW l \in Seq(All), IsInjective(l), NEW sl \in [All -> Slot],
         NEW w, NEW k \in 1 .. Len(l), Walked(w, l, sl, k - 1)
  PROVE  Walked(Unhook(w, sl, l[k]), l, sl, k)
<1> DEFINE s == l[k]
<1> DEFINE v == Unhook(w, sl, s)
<1>1. s \in All /\ Len(l) \in Nat /\ \A i, j \in 1 .. Len(l) : l[i] = l[j] => i = j
  BY Elements
<1>2. \A i \in 1 .. k - 1 : i \in 1 .. Len(l) /\ i # k /\ l[i] # s
  BY <1>1
<1>3. \A x : (\E i \in 1 .. k : l[i] = x) <=> (x = s \/ \E i \in 1 .. k - 1 : l[i] = x)
  <2> SUFFICES ASSUME NEW x
               PROVE  (\E i \in 1 .. k : l[i] = x) <=> (x = s \/ \E i \in 1 .. k - 1 : l[i] = x)
    OBVIOUS
  <2>1. k \in 1 .. k /\ \A i \in 1 .. k - 1 : i \in 1 .. k
    OBVIOUS
  <2>2. \A i \in 1 .. k : i = k \/ i \in 1 .. k - 1
    OBVIOUS
  <2> QED BY <2>1, <2>2
<1>4. /\ w = [rest |-> w.rest, chain |-> w.chain]
      /\ w.rest \in Seq(All) /\ IsInjective(w.rest)
      /\ w.chain \in Seq(All) /\ IsInjective(w.chain)
      /\ \A x : x \in ToSet(w.rest) <=> \E i \in 1 .. k - 1 : l[i] = x /\ ~sl[x].overflow
      /\ \A x : x \in ToSet(w.chain) <=> \E i \in 1 .. k - 1 : l[i] = x /\ sl[x].overflow
      /\ \A a, b \in ToSet(w.rest) : InFront(w.rest, a, b) <=> InFront(l, a, b)
  BY DEF Walked
<1>5. s \notin ToSet(w.rest) /\ s \notin ToSet(w.chain)
  BY <1>2, <1>4
<1>6. CASE sl[s].overflow
  <2> DEFINE c == <<s>> \o w.chain
  <2>1. v = [w EXCEPT !.chain = c]
    BY <1>6 DEF Unhook
  <2>2. v.rest = w.rest /\ v.chain = c /\ v = [rest |-> v.rest, chain |-> v.chain]
    BY <2>1, <1>4
  <2>3. c \in Seq(All) /\ Placed(c, w.chain, 1, s)
    BY <1>1, <1>4, AppendPlaces
  <2> HIDE DEF c, v
  <2>4. IsInjective(c) /\ ToSet(c) = ToSet(w.chain) \cup {s}
    BY <1>1, <1>4, <1>5, <2>3, PlacedList
  <2>5. \A x : x \in ToSet(c) <=> \E i \in 1 .. k : l[i] = x /\ sl[x].overflow
    BY <1>3, <1>4, <1>6, <2>4
  <2>6. \A x : x \in ToSet(w.rest) <=> \E i \in 1 .. k : l[i] = x /\ ~sl[x].overflow
    BY <1>3, <1>4, <1>6
  <2>7. Walked(v, l, sl, k)
    BY <1>4, <2>2, <2>3, <2>4, <2>5, <2>6 DEF Walked
  <2> QED BY <2>7 DEF v
<1>7. CASE ~sl[s].overflow
  <2> DEFINE c == Append(w.rest, s)
  <2>1. v = [w EXCEPT !.rest = c]
    BY <1>7 DEF Unhook
  <2>2. v.chain = w.chain /\ v.rest = c /\ v = [rest |-> v.rest, chain |-> v.chain]
    BY <2>1, <1>4
  <2>3. c \in Seq(All) /\ Placed(c, w.rest, Len(w.rest) + 1, s)
    BY <1>1, <1>4, AppendPlaces
  <2> HIDE DEF c, v
  <2>4. /\ IsInjective(c) /\ ToSet(c) = ToSet(w.rest) \cup {s}
        /\ \A a, b : a # s /\ b # s => (InFront(c, a, b) <=> InFront(w.rest, a, b))
        /\ \A b : InFront(c, s, b) <=> \E i \in Len(w.rest) + 1 .. Len(w.rest) : w.rest[i] = b
        /\ \A a : InFront(c, a, s) <=> \E i \in 1 .. Len(w.rest) + 1 - 1 : w.rest[i] = a
    BY <1>1, <1>4, <1>5, <2>3, PlacedList
  <2>5. \A x : x \in ToSet(c) <=> \E i \in 1 .. k : l[i] = x /\ ~sl[x].overflow
    BY <1>3, <1>4, <1>7, <2>4
  <2>6. \A x : x \in ToSet(w.chain) <=> \E i \in 1 .. k : l[i] = x /\ sl[x].overflow
    BY <1>3, <1>4, <1>7
  <2>7. \A a \in ToSet(w.rest) : InFront(l, a, s) /\ ~InFront(l, s, a)
    <3> SUFFICES ASSUME NEW a \in ToSet(w.rest) PROVE InFront(l, a, s) /\ ~InFront(l, s, a)
      OBVIOUS
    <3>1. PICK i \in 1 .. k - 1 : l[i] = a
      BY <1>4
    <3>2. i \in 1 .. Len(l) /\ k \in 1 .. Len(l) /\ i < k
      BY <1>2
    <3>3. InFront(l, a, s)
      BY <3>1, <3>2 DEF InFront
    <3> QED BY <3>3, FrontTotal
  <2>8. \A b : ~InFront(c, s, b)
    <3>1. Len(w.rest) \in Nat
      BY <1>4
    <3> QED BY <3>1, <2>4
  <2>9. \A a \in ToSet(w.rest) : InFront(c, a, s)
    <3> SUFFICES ASSUME NEW a \in ToSet(w.rest) PROVE InFront(c, a, s)
      OBVIOUS
    <3>1. PICK i \in 1 .. Len(w.rest) : w.rest[i] = a
      BY <1>4, Elements
    <3>2. Len(w.rest) + 1 - 1 = Len(w.rest)
      BY <1>4
    <3> QED BY <3>1, <3>2, <2>4
  <2>10. \A a, b \in ToSet(c) : InFront(c, a, b) <=> InFront(l, a, b)
    <3> SUFFICES ASSUME NEW a \in ToSet(c), NEW b \in ToSet(c)
                 PROVE  InFront(c, a, b) <=> InFront(l, a, b)
      OBVIOUS
    <3>1. CASE a # s /\ b # s
      BY <3>1, <1>4, <2>4
    <3>2. CASE a = s /\ b # s
      BY <3>2, <2>4, <2>7, <2>8
    <3>3. CASE a # s /\ b = s
      BY <3>3, <2>4, <2>7, <2>9
    <3>4. CASE a = s /\ b = s
      <4>1. ~InFront(l, s, s)
        BY FrontTotal
      <4> QED BY <3>4, <4>1, <2>8
    <3> QED BY <3>1, <3>2, <3>3, <3>4
  <2>11. Walked(v, l, sl, k)
    BY <1>4, <2>2, <2>3, <2>4, <2>5, <2>6, <2>10 DEF Walked
  <2> QED BY <2>11 DEF v
<1> QED BY <1>6, <1>7

(* The first loop has a turn for every timer of the list.                    *)
WalkOf(g, l, sl) ==
    g = [k \in 0 .. Len(l) |-> IF k = 0 THEN Start0 ELSE Unhook(g[k - 1], sl, l[k])]

LEMMA WalkRuns ==
  ASSUME NEW l \in Seq(All), NEW sl
  PROVE  \E g : WalkOf(g, l, sl)
<1> DEFINE Runs(m) ==
      \E g : g = [k \in 0 .. m |-> IF k = 0 THEN Start0 ELSE Unhook(g[k - 1], sl, l[k])]
<1> DEFINE T == {m \in 0 .. Len(l) : ~Runs(m)}
<1> SUFFICES ASSUME T # {} PROVE FALSE
  <2>1. Len(l) \in 0 .. Len(l)
    OBVIOUS
  <2>2. Runs(Len(l))
    <3> HIDE DEF Runs
    <3> QED BY <2>1
  <2> QED BY <2>2 DEF WalkOf
<1>1. T \subseteq Nat
  OBVIOUS
<1>2. PICK m \in T : \A y \in T : m <= y
  BY <1>1, LeastNatural
<1>3. Runs(0)
  <2> DEFINE g == [k \in 0 .. 0 |-> Start0]
  <2>1. \A k \in 0 .. 0 : g[k] = IF k = 0 THEN Start0 ELSE Unhook(g[k - 1], sl, l[k])
    OBVIOUS
  <2>2. g = [k \in 0 .. 0 |-> IF k = 0 THEN Start0 ELSE Unhook(g[k - 1], sl, l[k])]
    BY <2>1
  <2> HIDE DEF g
  <2> QED BY <2>2
<1>4. m # 0 /\ m - 1 \in 0 .. Len(l) /\ Runs(m - 1)
  <2>1. m \in 0 .. Len(l) /\ ~Runs(m)
    OBVIOUS
  <2> HIDE DEF Runs
  <2>2. m # 0
    BY <1>3, <2>1
  <2>3. m - 1 \in 0 .. Len(l) /\ ~(m <= m - 1)
    BY <2>1, <2>2
  <2> QED BY <1>2, <2>2, <2>3
<1>5. PICK g : g = [k \in 0 .. m - 1 |-> IF k = 0 THEN Start0 ELSE Unhook(g[k - 1], sl, l[k])]
  BY <1>4
<1> DEFINE h == [k \in 0 .. m |-> IF k = m THEN Unhook(g[m - 1], sl, l[m]) ELSE g[k]]
<1>6. ASSUME NEW k \in 0 .. m PROVE h[k] = IF k = 0 THEN Start0 ELSE Unhook(h[k - 1], sl, l[k])
  <2>0. m \in Nat /\ m # 0
    BY <1>4
  <2>1. CASE k = m
    <3>1. h[k - 1] = g[m - 1] /\ h[k] = Unhook(g[m - 1], sl, l[m])
      BY <2>0, <2>1
    <3> QED BY <3>1, <2>0, <2>1
  <2>2. CASE k # m
    <3>1. k \in 0 .. m - 1 /\ h[k] = g[k]
      BY <2>0, <2>2
    <3>2. k # 0 => k - 1 \in 0 .. m - 1 /\ h[k - 1] = g[k - 1]
      BY <2>0, <3>1
    <3>3. g[k] = IF k = 0 THEN Start0 ELSE Unhook(g[k - 1], sl, l[k])
      BY <1>5, <3>1
    <3> HIDE DEF h
    <3> QED BY <3>1, <3>2, <3>3
  <2> QED BY <2>1, <2>2
<1>7. h = [k \in 0 .. m |-> IF k = 0 THEN Start0 ELSE Unhook(h[k - 1], sl, l[k])]
  BY <1>6
<1>8. Runs(m)
  <2> HIDE DEF h
  <2> QED BY <1>7
<1> QED BY <1>2, <1>8

LEMMA WalkedList ==
  ASSUME NEW l \in Seq(All), IsInjective(l), NEW sl \in [All -> Slot]
  PROVE  Walked(Unhooked(l, sl), l, sl, Len(l))
<1>0. \E g : WalkOf(g, l, sl)
  BY WalkRuns
<1> DEFINE h == CHOOSE g : g = [k \in 0 .. Len(l) |-> IF k = 0 THEN Start0
                                                     ELSE Unhook(g[k - 1], sl, l[k])]
<1>1. Unhooked(l, sl) = h[Len(l)]
  BY DEF Unhooked, Start0
<1>2. h = [k \in 0 .. Len(l) |-> IF k = 0 THEN Start0 ELSE Unhook(h[k - 1], sl, l[k])]
  BY <1>0, Zenon DEF WalkOf
<1> HIDE DEF h
<1> DEFINE T == {k \in 0 .. Len(l) : ~Walked(h[k], l, sl, k)}
<1> SUFFICES ASSUME T # {} PROVE FALSE
  BY <1>1
<1>3. T \subseteq Nat
  OBVIOUS
<1>4. PICK m \in T : \A y \in T : m <= y
  BY <1>3, LeastNatural
<1>5. Walked(h[0], l, sl, 0)
  <2>1. h[0] = Start0
    BY <1>2
  <2>2. <<>> \in Seq(All) /\ IsInjective(<<>>) /\ \A x : x \notin ToSet(<<>>)
    <3>1. <<>> \in Seq(All) /\ Len(<<>>) = 0
      OBVIOUS
    <3>2. \A i : i \notin 1 .. Len(<<>>)
      BY <3>1
    <3>3. IsInjective(<<>>) <=> \A i, j \in 1 .. Len(<<>>) : <<>>[i] = <<>>[j] => i = j
      BY <3>1, Elements
    <3>4. \A x : x \in ToSet(<<>>) <=> \E i \in 1 .. Len(<<>>) : <<>>[i] = x
      BY <3>1, Elements
    <3> QED BY <3>1, <3>2, <3>3, <3>4
  <2>3. Start0.rest = <<>> /\ Start0.chain = <<>> /\ Start0 = [rest |-> <<>>, chain |-> <<>>]
    BY DEF Start0
  <2>4. \A i : i \notin 1 .. 0
    OBVIOUS
  <2> QED BY <2>1, <2>2, <2>3, <2>4 DEF Walked
<1>6. m \in 1 .. Len(l) /\ Walked(h[m - 1], l, sl, m - 1)
  BY <1>4, <1>5
<1>7. h[m] = Unhook(h[m - 1], sl, l[m])
  BY <1>2, <1>6
<1> QED BY <1>4, <1>6, <1>7, WalkKeeps

(* After k turns of the second loop: the list is sound again, it has the      *)
(* first k timers of the chain, and only flags have changed.                 *)
Returned(r, l, sl, c, k) ==
    /\ r = [list |-> r.list, tm |-> r.tm, stamp |-> r.stamp]
    /\ r.list \in Seq(All) /\ r.tm \in [All -> Slot] /\ r.stamp \in 0 .. M - 1
    /\ QueueOK(r.list, r.tm) /\ Settled(r.list, r.tm)
    /\ \A x : x \in ToSet(r.list) <=> x \in ToSet(l) \/ \E i \in 1 .. k : c[i] = x
    /\ \A a \in All : /\ r.tm[a].mark = sl[a].mark /\ r.tm[a].kind = sl[a].kind
                      /\ r.tm[a].period = sl[a].period
                      /\ a \notin ToSet(c) => r.tm[a] = sl[a]

LEMMA ClearedFlag ==
  ASSUME NEW sl \in [All -> Slot], NEW s \in All, NEW sm, sm = [sl EXCEPT ![s].overflow = FALSE]
  PROVE  /\ sm \in [All -> Slot] /\ (\A a \in All : a # s => sm[a] = sl[a])
         /\ sm[s].mark = sl[s].mark /\ sm[s].kind = sl[s].kind /\ sm[s].period = sl[s].period
         /\ ~sm[s].overflow
BY DEF Slot

LEMMA NewSlots ==
  ASSUME NEW a, NEW b, NEW c, NEW r, r = [list |-> a, tm |-> b, stamp |-> c], NEW sm
  PROVE  [r EXCEPT !.tm = sm] = [list |-> a, tm |-> sm, stamp |-> c]
OBVIOUS

LEMMA ReturnKeeps ==
  ASSUME NEW l \in Seq(All), NEW sl \in [All -> Slot], NEW c \in Seq(All), IsInjective(c),
         ToSet(c) \cap ToSet(l) = {}, OVF \in ToSet(l),
         \A a \in ToSet(c) : sl[OVF].mark - TIMER_MAX <= sl[a].mark,
         NEW r, NEW k \in 1 .. Len(c), Returned(r, l, sl, c, k - 1)
  PROVE  Returned(SortBack(r, c[k]), l, sl, c, k)
<1> DEFINE s == c[k]
<1> DEFINE sm == [r.tm EXCEPT ![s].overflow = FALSE]
<1> DEFINE q == [list |-> r.list, tm |-> sm, stamp |-> r.stamp]
<1> DEFINE v == SortBack(r, s)
<1>1. /\ r = [list |-> r.list, tm |-> r.tm, stamp |-> r.stamp]
      /\ r.list \in Seq(All) /\ r.tm \in [All -> Slot] /\ r.stamp \in 0 .. M - 1
      /\ QueueOK(r.list, r.tm) /\ Settled(r.list, r.tm)
      /\ \A x : x \in ToSet(r.list) <=> x \in ToSet(l) \/ \E i \in 1 .. k - 1 : c[i] = x
      /\ \A a \in All : /\ r.tm[a].mark = sl[a].mark /\ r.tm[a].kind = sl[a].kind
                        /\ r.tm[a].period = sl[a].period
                        /\ a \notin ToSet(c) => r.tm[a] = sl[a]
  BY DEF Returned
<1>2. s \in All /\ s \in ToSet(c) /\ OVF \in All /\ s # OVF /\ ToSet(r.list) \subseteq All
  BY <1>1, Elements DEF All
<1>3. s \notin ToSet(r.list)
  <2>1. \A i, j \in 1 .. Len(c) : c[i] = c[j] => i = j
    BY Elements
  <2>2. \A i \in 1 .. k - 1 : i \in 1 .. Len(c) /\ i # k
    OBVIOUS
  <2> QED BY <1>1, <1>2, <2>1, <2>2
<1>4. /\ sm \in [All -> Slot] /\ (\A a \in All : a # s => sm[a] = r.tm[a])
      /\ sm[s].mark = r.tm[s].mark /\ sm[s].kind = r.tm[s].kind /\ sm[s].period = r.tm[s].period
      /\ ~sm[s].overflow
  <2>1. r.tm \in [All -> Slot] /\ s \in All
    BY <1>1, <1>2
  <2> QED BY <2>1, ClearedFlag
<1>5. v = insert_timer(q, s)
  <2>1. [r EXCEPT !.tm = sm] = q
    <3> HIDE DEF sm
    <3>1. r = [list |-> r.list, tm |-> r.tm, stamp |-> r.stamp]
      BY <1>1
    <3> QED BY <3>1, NewSlots
  <2> QED BY <2>1 DEF SortBack
<1> HIDE DEF sm, v
<1>6. QueueOK(r.list, sm) /\ Settled(r.list, sm)
  <2>1. \A a \in ToSet(r.list) : sm[a] = r.tm[a]
    BY <1>2, <1>3, <1>4
  <2>2. IsInjective(r.list) /\ OVF \in ToSet(r.list)
    BY <1>1 DEF QueueOK, Listed
  <2> QED BY <1>1, <1>4, <2>1, <2>2, SubQueue
<1>7. sm[OVF].mark - TIMER_MAX <= sm[s].mark
  BY <1>1, <1>2, <1>4
<1>8. Inserted(v, r.list, sm, r.stamp, s)
  BY <1>1, <1>2, <1>3, <1>4, <1>5, <1>6, <1>7, InsertTimer
<1>9. /\ v = [list |-> v.list, tm |-> v.tm, stamp |-> v.stamp]
      /\ v.list \in Seq(All) /\ v.tm \in [All -> Slot]
      /\ ToSet(v.list) = ToSet(r.list) \cup {s}
      /\ QueueOK(v.list, v.tm) /\ Settled(v.list, v.tm)
      /\ \A a \in All : a # s => v.tm[a] = sm[a]
      /\ v.tm[s].mark = sm[s].mark /\ v.tm[s].kind = sm[s].kind /\ v.tm[s].period = sm[s].period
      /\ v.stamp = r.stamp \/ v.stamp = Low(sm[s].mark)
  BY <1>4, <1>6, <1>8 DEF Inserted
<1>10. v.stamp \in 0 .. M - 1
  <2>1. sm[s].mark \in Int
    <3>1. sm[s] \in Slot
      BY <1>2, <1>4
    <3> QED BY <3>1 DEF Slot
  <2>2. Low(sm[s].mark) \in 0 .. M - 1
    BY <2>1, Quotient DEF Low
  <2> QED BY <1>1, <1>9, <2>2
<1>11. \A x : x \in ToSet(v.list) <=> x \in ToSet(l) \/ \E i \in 1 .. k : c[i] = x
  <2> SUFFICES ASSUME NEW x
               PROVE  x \in ToSet(v.list) <=> x \in ToSet(l) \/ \E i \in 1 .. k : c[i] = x
    OBVIOUS
  <2>1. k \in 1 .. k /\ \A i \in 1 .. k - 1 : i \in 1 .. k
    OBVIOUS
  <2>2. \A i \in 1 .. k : i = k \/ i \in 1 .. k - 1
    OBVIOUS
  <2>3. x \in ToSet(v.list) <=> x = s \/ x \in ToSet(l) \/ \E i \in 1 .. k - 1 : c[i] = x
    BY <1>1, <1>9
  <2> QED BY <2>1, <2>2, <2>3
<1>12. \A a \in All : /\ v.tm[a].mark = sl[a].mark /\ v.tm[a].kind = sl[a].kind
                      /\ v.tm[a].period = sl[a].period
                      /\ a \notin ToSet(c) => v.tm[a] = sl[a]
  <2> SUFFICES ASSUME NEW a \in All
               PROVE  /\ v.tm[a].mark = sl[a].mark /\ v.tm[a].kind = sl[a].kind
                      /\ v.tm[a].period = sl[a].period
                      /\ a \notin ToSet(c) => v.tm[a] = sl[a]
    OBVIOUS
  <2>1. CASE a = s
    BY <2>1, <1>1, <1>2, <1>4, <1>9
  <2>2. CASE a # s
    BY <2>2, <1>1, <1>2, <1>4, <1>9
  <2> QED BY <2>1, <2>2
<1>13. Returned(v, l, sl, c, k)
  BY <1>9, <1>10, <1>11, <1>12 DEF Returned
<1> QED BY <1>13 DEF v

(* The second loop has a turn for every timer of the chain, and keeps that.  *)
SortOf(g, q, c) ==
    g = [k \in 0 .. Len(c) |-> IF k = 0 THEN q ELSE SortBack(g[k - 1], c[k])]

LEMMA SortRuns ==
  ASSUME NEW q, NEW c \in Seq(All)
  PROVE  \E g : SortOf(g, q, c)
<1> DEFINE Runs(m) == \E g : g = [k \in 0 .. m |-> IF k = 0 THEN q ELSE SortBack(g[k - 1], c[k])]
<1> DEFINE T == {m \in 0 .. Len(c) : ~Runs(m)}
<1> SUFFICES ASSUME ~Runs(Len(c)) PROVE FALSE
  BY DEF SortOf
<1>0. Len(c) \in 0 .. Len(c)
  OBVIOUS
<1>9. T # {}
  <2> HIDE DEF Runs
  <2> QED BY <1>0
<1>1. T \subseteq Nat
  OBVIOUS
<1>2. PICK m \in T : \A y \in T : m <= y
  BY <1>1, <1>9, LeastNatural
<1>3. Runs(0)
  <2> DEFINE g == [k \in 0 .. 0 |-> q]
  <2>1. \A k \in 0 .. 0 : g[k] = IF k = 0 THEN q ELSE SortBack(g[k - 1], c[k])
    OBVIOUS
  <2>2. g = [k \in 0 .. 0 |-> IF k = 0 THEN q ELSE SortBack(g[k - 1], c[k])]
    BY <2>1
  <2> HIDE DEF g
  <2> QED BY <2>2
<1>4. m # 0 /\ m - 1 \in 0 .. Len(c) /\ Runs(m - 1)
  <2>1. m \in 0 .. Len(c) /\ ~Runs(m)
    OBVIOUS
  <2> HIDE DEF Runs
  <2>2. m # 0
    BY <1>3, <2>1
  <2>3. m - 1 \in 0 .. Len(c) /\ ~(m <= m - 1)
    BY <2>1, <2>2
  <2> QED BY <1>2, <2>2, <2>3
<1>5. PICK g : g = [k \in 0 .. m - 1 |-> IF k = 0 THEN q ELSE SortBack(g[k - 1], c[k])]
  BY <1>4
<1> DEFINE h == [k \in 0 .. m |-> IF k = m THEN SortBack(g[m - 1], c[m]) ELSE g[k]]
<1>6. ASSUME NEW k \in 0 .. m PROVE h[k] = IF k = 0 THEN q ELSE SortBack(h[k - 1], c[k])
  <2>0. m \in Nat /\ m # 0
    BY <1>4
  <2>1. CASE k = m
    <3>1. h[k - 1] = g[m - 1] /\ h[k] = SortBack(g[m - 1], c[m])
      BY <2>0, <2>1
    <3> QED BY <3>1, <2>0, <2>1
  <2>2. CASE k # m
    <3>1. k \in 0 .. m - 1 /\ h[k] = g[k]
      BY <2>0, <2>2
    <3>2. k # 0 => k - 1 \in 0 .. m - 1 /\ h[k - 1] = g[k - 1]
      BY <2>0, <3>1
    <3>3. g[k] = IF k = 0 THEN q ELSE SortBack(g[k - 1], c[k])
      BY <1>5, <3>1
    <3> HIDE DEF h
    <3> QED BY <3>1, <3>2, <3>3
  <2> QED BY <2>1, <2>2
<1>7. h = [k \in 0 .. m |-> IF k = 0 THEN q ELSE SortBack(h[k - 1], c[k])]
  BY <1>6
<1>8. Runs(m)
  <2> HIDE DEF h
  <2> QED BY <1>7
<1> QED BY <1>2, <1>8

LEMMA ReturnedList ==
  ASSUME NEW l \in Seq(All), NEW sl \in [All -> Slot], NEW st \in 0 .. M - 1,
         NEW c \in Seq(All), IsInjective(c), ToSet(c) \cap ToSet(l) = {},
         QueueOK(l, sl), Settled(l, sl),
         \A a \in ToSet(c) : sl[OVF].mark - TIMER_MAX <= sl[a].mark,
         NEW q, q = [list |-> l, tm |-> sl, stamp |-> st]
  PROVE  Returned(SortedIn(q, c), l, sl, c, Len(c))
<1>9. \E g : SortOf(g, q, c)
  BY SortRuns
<1> DEFINE h == CHOOSE g : g = [k \in 0 .. Len(c) |-> IF k = 0 THEN q ELSE SortBack(g[k - 1], c[k])]
<1>0. OVF \in ToSet(l)
  BY DEF QueueOK, Listed
<1>1. SortedIn(q, c) = h[Len(c)]
  BY DEF SortedIn
<1>2. h = [k \in 0 .. Len(c) |-> IF k = 0 THEN q ELSE SortBack(h[k - 1], c[k])]
  BY <1>9, Zenon DEF SortOf
<1> HIDE DEF h
<1> DEFINE T == {k \in 0 .. Len(c) : ~Returned(h[k], l, sl, c, k)}
<1> SUFFICES ASSUME T # {} PROVE FALSE
  BY <1>1
<1>3. T \subseteq Nat
  OBVIOUS
<1>4. PICK m \in T : \A y \in T : m <= y
  BY <1>3, LeastNatural
<1>5. Returned(h[0], l, sl, c, 0)
  <2>1. h[0] = q
    BY <1>2
  <2>2. q.list = l /\ q.tm = sl /\ q.stamp = st
    OBVIOUS
  <2>3. \A i : i \notin 1 .. 0
    OBVIOUS
  <2>4. Returned(q, l, sl, c, 0)
    BY <2>2, <2>3 DEF Returned
  <2> QED BY <2>1, <2>4
<1>6. m \in 1 .. Len(c) /\ Returned(h[m - 1], l, sl, c, m - 1)
  <2>1. m # 0
    BY <1>4, <1>5
  <2>2. m \in 1 .. Len(c) /\ m - 1 \in 0 .. Len(c) /\ m - 1 < m
    BY <2>1, <1>4
  <2> QED BY <2>2, <1>4
<1>7. h[m] = SortBack(h[m - 1], c[m])
  <2>1. m \in 0 .. Len(c) /\ m # 0
    BY <1>6
  <2> HIDE DEF T
  <2> QED BY <2>1, <1>2
<1>8. Returned(h[m], l, sl, c, m)
  BY <1>0, <1>6, <1>7, ReturnKeeps
<1> QED BY <1>4, <1>8
-----------------------------------------------------------------------------
(* The lists of slots.                                                       *)
LEMMA Pushed ==
  ASSUME NEW S, NEW l \in Seq(S), IsInjective(l), NEW s \in S, s \notin ToSet(l)
  PROVE  <<s>> \o l \in Seq(S) /\ IsInjective(<<s>> \o l) /\ ToSet(<<s>> \o l) = ToSet(l) \cup {s}
<1>1. <<s>> \o l \in Seq(S) /\ Placed(<<s>> \o l, l, 1, s)
  BY AppendPlaces
<1> DEFINE m == <<s>> \o l
<1> HIDE DEF m
<1>2. m \in Seq(S) /\ Placed(m, l, 1, s)
  BY <1>1 DEF m
<1>3. IsInjective(m) /\ ToSet(m) = ToSet(l) \cup {s}
  BY <1>2, PlacedList
<1> QED BY <1>2, <1>3 DEF m

LEMMA Popped ==
  ASSUME NEW S, NEW l \in Seq(S), IsInjective(l), l # <<>>
  PROVE  /\ Head(l) = l[1] /\ l[1] \in ToSet(l) /\ l[1] \in S
         /\ Tail(l) \in Seq(S) /\ IsInjective(Tail(l)) /\ ToSet(Tail(l)) = ToSet(l) \ {l[1]}
         /\ \A a, b : InFront(Tail(l), a, b) <=> a # l[1] /\ b # l[1] /\ InFront(l, a, b)
<1>1. Tail(l) \in Seq(S) /\ Dropped(Tail(l), l, 1)
  BY TailDrops
<1>2. Head(l) = l[1] /\ 1 \in 1 .. Len(l)
  OBVIOUS
<1>3. l[1] \in ToSet(l) /\ l[1] \in S
  BY <1>2, Elements
<1>4. /\ IsInjective(Tail(l)) /\ ToSet(Tail(l)) = ToSet(l) \ {l[1]}
      /\ \A a, b : InFront(Tail(l), a, b) <=> a # l[1] /\ b # l[1] /\ InFront(l, a, b)
  BY <1>1, DroppedList
<1> QED BY <1>1, <1>2, <1>3, <1>4

LEMMA ContainsElement ==
  ASSUME NEW S, NEW l \in Seq(S), NEW s
  PROVE  Contains(l, s) <=> s \in ToSet(l)
<1>1. s \in ToSet(l) <=> \E i \in 1 .. Len(l) : l[i] = s
  BY Elements
<1> QED BY <1>1 DEF Contains

(* The facts about a state the steps below start from.                       *)
LEMMA StateFacts ==
  ASSUME TimerInv
  PROVE  /\ now \in Nat /\ now <= MaxTime /\ frozen \in Nat /\ frozen <= MaxTime /\ Ref \in Nat
         /\ stamp \in 0 .. M - 1 /\ pc \in Points /\ running \in All
         /\ tm \in [All -> Slot] /\ OVF \in All /\ Slots \subseteq All /\ OVF \notin Slots
         /\ head \in Seq(All) /\ IsInjective(head) /\ OVF \in ToSet(head)
         /\ inactive \in Seq(Slots) /\ IsInjective(inactive)
         /\ free \in Seq(Slots) /\ IsInjective(free)
         /\ ToSet(head) \subseteq All /\ ToSet(inactive) \subseteq Slots /\ ToSet(free) \subseteq Slots
         /\ ToSet(head) \cap ToSet(inactive) = {} /\ ToSet(head) \cap ToSet(free) = {}
         /\ ToSet(inactive) \cap ToSet(free) = {}
         /\ ToSet(head) \cup ToSet(inactive) \cup ToSet(free) = All
         /\ \A a \in All : tm[a].mark \in Nat /\ tm[a].overflow \in BOOLEAN
                           /\ tm[a].kind \in Kinds /\ tm[a].period \in Nat
<1>1. TypeOK /\ SlotsAccounted /\ QueueOK(head, tm)
  BY DEF TimerInv
<1>2. tm \in [All -> Slot] /\ OVF \in All /\ Slots \subseteq All /\ OVF \notin Slots
  BY <1>1, SlotsAssumption DEF TypeOK, Slot, All
<1>3. \A a \in All : tm[a].mark \in Nat /\ tm[a].overflow \in BOOLEAN
                     /\ tm[a].kind \in Kinds /\ tm[a].period \in Nat
  BY <1>2 DEF Slot
<1>4. head \in Seq(All) /\ inactive \in Seq(Slots) /\ free \in Seq(Slots)
  BY <1>1 DEF TypeOK
<1>5. now \in Nat /\ now <= MaxTime /\ frozen \in Nat /\ frozen <= MaxTime
      /\ stamp \in 0 .. M - 1 /\ pc \in Points /\ running \in All
  BY <1>1, BoundsAssumption DEF TypeOK
<1>6. ToSet(head) \subseteq All /\ ToSet(inactive) \subseteq Slots /\ ToSet(free) \subseteq Slots
  BY <1>4, Elements
<1>7. OVF \in ToSet(head)
  BY <1>1 DEF QueueOK, Listed
<1>8. Ref \in Nat
  BY <1>5 DEF Ref
<1> QED BY <1>1, <1>2, <1>3, <1>4, <1>5, <1>6, <1>7, <1>8 DEF SlotsAccounted

(* A time that the stamp stands for: the parts of StampAt.                   *)
StampFor(st, list, slots, t) ==
    /\ st = Low(t) /\ t <= Ref + TIMER_MAX
    /\ \A s \in ToSet(list) : t <= slots[s].mark
    /\ Ref - (IF pc = "guest" THEN MaxLate + MaxFreeze ELSE MaxLate) <= t

(* What a call does that sorts a slot in, whose mark is not in the past.     *)
LEMMA EnqueueKeeps ==
  ASSUME TimerInv, NEW s \in Slots, NEW l \in Seq(All), IsInjective(l),
         ToSet(l) = ToSet(head) \ {s},
         \A a, b \in ToSet(l) : InFront(l, a, b) <=> InFront(head, a, b),
         NEW sl \in [All -> Slot], \A a \in All : a # s => sl[a] = tm[a],
         sl[s].mark >= now,
         Settled(head, tm) => (sl[s].overflow => sl[s].mark > sl[OVF].mark),
         Enqueue(l, sl, s)
  PROVE  /\ head' \in Seq(All) /\ tm' \in [All -> Slot] /\ stamp' \in 0 .. M - 1
         /\ IsInjective(head') /\ ToSet(head') = ToSet(head) \cup {s}
         /\ QueueOK(head', tm') /\ (Settled(head, tm) => Settled(head', tm'))
         /\ \A a \in All : a # s => tm'[a] = tm[a]
         /\ tm'[s].mark = sl[s].mark /\ tm'[s].kind = sl[s].kind /\ tm'[s].period = sl[s].period
         /\ \A a \in ToSet(head') : Ref <= tm'[a].mark + MaxLate
         /\ Settled(head, tm) /\ (\E t \in Int : StampFor(stamp, head, tm, t))
               => \E t \in Int : StampFor(stamp', head', tm', t)
<1> DEFINE q == [list |-> l, tm |-> sl, stamp |-> stamp]
<1> DEFINE r == insert_timer(q, s)
<1>1. head' = r.list /\ tm' = r.tm /\ stamp' = r.stamp
  BY DEF Enqueue, Install
<1>2. /\ now \in Nat /\ Ref \in Nat /\ stamp \in 0 .. M - 1 /\ tm \in [All -> Slot]
      /\ OVF \in All /\ s \in All /\ s # OVF
      /\ head \in Seq(All) /\ OVF \in ToSet(head)
      /\ \A a \in All : tm[a].mark \in Nat
  BY StateFacts
<1>3. QueueOK(head, tm) /\ OnTime
  BY DEF TimerInv
<1>4. /\ MaxLate \in Nat /\ MaxFreeze \in Nat /\ TIMER_MAX \in Nat
  BY BoundsAssumption, HalfAssumption DEF TIMER_MAX
<1>5. OVF \in ToSet(l) /\ s \notin ToSet(l) /\ ToSet(l) \subseteq ToSet(head) /\ ToSet(l) \subseteq All
  BY <1>2, Elements
<1>6. \A a \in ToSet(l) : sl[a] = tm[a]
  BY <1>5
<1>7. QueueOK(l, sl) /\ (Settled(head, tm) => Settled(l, sl))
  BY <1>2, <1>3, <1>5, <1>6, SubQueue
<1>8. sl[OVF] = tm[OVF] /\ sl[s].mark \in Nat /\ tm[OVF].mark <= Ref + TIMER_MAX /\ Ref <= now
  BY <1>2, <1>3, <1>5, <1>6 DEF OnTime, Slot
<1>9. sl[OVF].mark - TIMER_MAX <= sl[s].mark
  BY <1>2, <1>4, <1>8
<1>10. Inserted(r, l, sl, stamp, s)
  BY <1>2, <1>5, <1>7, <1>9, InsertTimer
<1> HIDE DEF r, q
<1>11. /\ head' \in Seq(All) /\ tm' \in [All -> Slot]
       /\ ToSet(head') = ToSet(l) \cup {s}
       /\ QueueOK(head', tm')
       /\ \A a \in All : a # s => tm'[a] = sl[a]
       /\ tm'[s].mark = sl[s].mark /\ tm'[s].kind = sl[s].kind /\ tm'[s].period = sl[s].period
       /\ Settled(l, sl) /\ (sl[s].overflow => sl[s].mark > sl[OVF].mark) => Settled(head', tm')
       /\ \/ head'[1] \in ToSet(l) /\ stamp' = stamp
          \/ head'[1] = s /\ stamp' = Low(sl[s].mark) /\ sl[s].mark <= sl[OVF].mark
  BY <1>1, <1>10 DEF Inserted
<1>12. stamp' \in 0 .. M - 1
  <2>0. sl[s].mark \in Int
    BY <1>8
  <2>1. Low(sl[s].mark) \in 0 .. M - 1
    BY <2>0, LowRange
  <2> QED BY <2>1, <1>2, <1>11
<1>13. ToSet(head') = ToSet(head) \cup {s} /\ IsInjective(head')
  BY <1>11 DEF QueueOK, Listed
<1>14. Settled(head, tm) => Settled(head', tm')
  BY <1>7, <1>11
<1>15. \A a \in All : a # s => tm'[a] = tm[a]
  BY <1>11
<1>16. ASSUME NEW a \in ToSet(head') PROVE Ref <= tm'[a].mark + MaxLate
  <2>1. CASE a = s
    BY <2>1, <1>2, <1>4, <1>8, <1>11
  <2>2. CASE a # s
    <3>1. a \in ToSet(head) /\ a \in All /\ tm'[a] = tm[a]
      BY <2>2, <1>2, <1>13, <1>15, StateFacts
    <3> QED BY <3>1, <1>3 DEF OnTime
  <2> QED BY <2>1, <2>2
<1>17. ASSUME Settled(head, tm), NEW t \in Int, StampFor(stamp, head, tm, t)
       PROVE  \E u \in Int : StampFor(stamp', head', tm', u)
  <2>1. Settled(head', tm')
    BY <1>14, <1>17
  <2>2. \A a \in ToSet(head') : tm'[head'[1]].mark <= tm'[a].mark
    BY <2>1, <1>11, FirstEarliest
  <2>3. /\ stamp = Low(t) /\ t <= Ref + TIMER_MAX
        /\ \A a \in ToSet(head) : t <= tm[a].mark
        /\ Ref - (IF pc = "guest" THEN MaxLate + MaxFreeze ELSE MaxLate) <= t
    BY <1>17 DEF StampFor
  <2>4. \A a \in ToSet(head') : tm'[a].mark \in Int
    <3>1. ToSet(head') \subseteq All
      BY <1>11, Elements
    <3> QED BY <3>1, <1>11 DEF Slot
  <2>5. CASE head'[1] \in ToSet(l) /\ stamp' = stamp
    <3>1. head'[1] \in ToSet(head') /\ tm'[head'[1]] = tm[head'[1]] /\ t <= tm'[head'[1]].mark
      BY <2>3, <2>5, <1>5, <1>11, <1>15
    <3>2. \A a \in ToSet(head') : t <= tm'[a].mark
      BY <2>2, <2>4, <3>1
    <3> QED BY <2>3, <2>5, <3>2 DEF StampFor
  <2>6. CASE head'[1] = s /\ stamp' = Low(sl[s].mark) /\ sl[s].mark <= sl[OVF].mark
    <3> DEFINE u == sl[s].mark
    <3>1. u \in Int /\ u <= Ref + TIMER_MAX /\ Ref <= u
      BY <2>6, <1>2, <1>4, <1>8
    <3>2. \A a \in ToSet(head') : u <= tm'[a].mark
      BY <2>2, <2>6, <1>11
    <3>3. stamp' = Low(u)
      BY <2>6
    <3> HIDE DEF u
    <3>4. Ref - (IF pc = "guest" THEN MaxLate + MaxFreeze ELSE MaxLate) <= u
      BY <3>1, <1>2, <1>4
    <3>5. StampFor(stamp', head', tm', u)
      BY <3>1, <3>2, <3>3, <3>4 DEF StampFor
    <3> QED BY <3>1, <3>5
  <2> QED BY <2>5, <2>6, <1>11
<1> QED BY <1>11, <1>12, <1>13, <1>14, <1>15, <1>16, <1>17

(* What a call does that takes a slot off the list, or leaves it alone.       *)
LEMMA RemoveKeeps ==
  ASSUME TimerInv, NEW s \in Slots, head' = dequeue_timer(head, s), tm' \in [All -> Slot],
         \A a \in All : a # s => tm'[a] = tm[a], stamp' = stamp
  PROVE  /\ head' \in Seq(All) /\ IsInjective(head') /\ ToSet(head') = ToSet(head) \ {s}
         /\ QueueOK(head', tm') /\ (Settled(head, tm) => Settled(head', tm'))
         /\ \A a \in ToSet(head') : Ref <= tm'[a].mark + MaxLate
         /\ Settled(head, tm) /\ (\E t \in Int : StampFor(stamp, head, tm, t))
               => \E t \in Int : StampFor(stamp', head', tm', t)
<1>1. /\ tm \in [All -> Slot] /\ OVF \in All /\ s # OVF
      /\ head \in Seq(All) /\ IsInjective(head) /\ OVF \in ToSet(head) /\ ToSet(head) \subseteq All
  BY StateFacts
<1>2. QueueOK(head, tm) /\ OnTime
  BY DEF TimerInv
<1>3. /\ head' \in Seq(All) /\ IsInjective(head') /\ ToSet(head') = ToSet(head) \ {s}
      /\ \A a, b : InFront(head', a, b) <=> a # s /\ b # s /\ InFront(head, a, b)
  BY <1>1, Dequeued
<1>4. \A a \in ToSet(head') : tm'[a] = tm[a] /\ a \in ToSet(head) /\ a # s
  BY <1>1, <1>3
<1>5. QueueOK(head', tm') /\ (Settled(head, tm) => Settled(head', tm'))
  BY <1>1, <1>2, <1>3, <1>4, SubQueue
<1>6. \A a \in ToSet(head') : Ref <= tm'[a].mark + MaxLate
  BY <1>2, <1>4 DEF OnTime
<1>7. ASSUME NEW t \in Int, StampFor(stamp, head, tm, t)
      PROVE  StampFor(stamp', head', tm', t)
  BY <1>4, <1>7 DEF StampFor
<1> QED BY <1>3, <1>5, <1>6, <1>7

(* The invariant after a call, from what the call does to the lists.         *)
LEMMA CallInv ==
  ASSUME TimerInv, UNCHANGED main,
         head' \in Seq(All), inactive' \in Seq(Slots), free' \in Seq(Slots),
         tm' \in [All -> Slot], stamp' \in 0 .. M - 1,
         IsInjective(head'), IsInjective(inactive'), IsInjective(free'),
         ToSet(head') \cap ToSet(inactive') = {},
         (ToSet(head') \cup ToSet(inactive')) \cap ToSet(free') = {},
         ToSet(head') \cup ToSet(inactive') \cup ToSet(free') = All,
         QueueOK(head', tm'), Settled(head, tm) => Settled(head', tm'),
         \A a \in ToSet(inactive') : ~tm'[a].overflow /\ tm'[a].kind # "shot",
         \A a \in ToSet(head') : tm'[a].kind # "shot" => tm'[a].period > 0,
         tm'[OVF] = tm[OVF],
         \A a \in ToSet(head') : Ref <= tm'[a].mark + MaxLate,
         Settled(head, tm) /\ (\E t \in Int : StampFor(stamp, head, tm, t))
               => \E t \in Int : StampFor(stamp', head', tm', t)
  PROVE  TimerInv'
<1>1. now' = now /\ pc' = pc /\ running' = running /\ frozen' = frozen
  BY DEF main
<1>2. Ref' = Ref
  BY <1>1 DEF Ref
<1>3. TypeOK'
  BY <1>1 DEF TimerInv, TypeOK, Slot
<1>4. SlotsAccounted'
  <2>1. OVF \in ToSet(head')
    BY DEF QueueOK, Listed
  <2>2. Active(OVF)'
    BY <2>1, ContainsElement DEF Active
  <2> QED BY <2>2 DEF SlotsAccounted
<1>5. (pc' # "handler" \/ running' # OVF) => Settled(head', tm')
  BY <1>1 DEF TimerInv
<1>6. Kept'
  BY DEF TimerInv, Kept
<1>7. OnTime'
  BY <1>1, <1>2 DEF TimerInv, OnTime
<1>8. StampKept'
  <2> SUFFICES ASSUME pc \in {"guest", "frozen"} PROVE \E t \in Int : StampAt(t)'
    BY <1>1 DEF StampKept
  <2>1. Settled(head, tm) /\ \E t \in Int : StampAt(t)
    BY DEF TimerInv, StampKept
  <2>2. PICK t \in Int : StampFor(stamp, head, tm, t)
    BY <2>1 DEF StampAt, StampFor
  <2>3. PICK u \in Int : StampFor(stamp', head', tm', u)
    BY <2>1, <2>2
  <2>4. StampAt(u)'
    BY <2>3, <1>1, <1>2 DEF StampAt, StampFor
  <2> QED BY <2>4
<1> QED BY <1>3, <1>4, <1>5, <1>6, <1>7, <1>8 DEF TimerInv

(* The calls, one by one.                                                    *)
LEMMA AbsTimerKeeps ==
  ASSUME TimerInv, NEW d \in Delays, abs_timer(d)
  PROVE  TimerInv'
<1> DEFINE s == Head(free)
<1> DEFINE sl == [tm EXCEPT ![s] = [Unused EXCEPT !.mark = now + d]]
<1>1. /\ free # <<>> /\ Enqueue(head, sl, s) /\ free' = Tail(free)
      /\ inactive' = inactive /\ UNCHANGED main
  BY DEF abs_timer
<1>2. /\ s \in ToSet(free) /\ s \in Slots /\ Tail(free) \in Seq(Slots) /\ IsInjective(Tail(free))
      /\ ToSet(Tail(free)) = ToSet(free) \ {s}
  BY <1>1, StateFacts, Popped
<1>3. now + d \in Nat /\ now + d >= now
  BY StateFacts, DelaysAssumption
<1>4. /\ sl \in [All -> Slot] /\ (\A a \in All : a # s => sl[a] = tm[a]) /\ sl[s].mark = now + d
      /\ ~sl[s].overflow /\ sl[s].kind = "shot"
  <2>1. s \in All /\ tm \in [All -> Slot]
    BY <1>2, StateFacts
  <2> QED BY <1>3, <2>1 DEF Slot, Unused, Kinds
<1> HIDE DEF s, sl
<1>5. s \notin ToSet(head) /\ s \notin ToSet(inactive)
  BY <1>2, StateFacts
<1>6. head \in Seq(All) /\ IsInjective(head) /\ ToSet(head) = ToSet(head) \ {s}
  BY <1>5, StateFacts
<1>7. /\ head' \in Seq(All) /\ tm' \in [All -> Slot] /\ stamp' \in 0 .. M - 1
      /\ IsInjective(head') /\ ToSet(head') = ToSet(head) \cup {s}
      /\ QueueOK(head', tm') /\ (Settled(head, tm) => Settled(head', tm'))
      /\ \A a \in All : a # s => tm'[a] = tm[a]
      /\ tm'[s].mark = sl[s].mark /\ tm'[s].kind = sl[s].kind /\ tm'[s].period = sl[s].period
      /\ \A a \in ToSet(head') : Ref <= tm'[a].mark + MaxLate
      /\ Settled(head, tm) /\ (\E t \in Int : StampFor(stamp, head, tm, t))
            => \E t \in Int : StampFor(stamp', head', tm', t)
  BY <1>1, <1>2, <1>3, <1>4, <1>6, EnqueueKeeps
<1>8. /\ ToSet(head') \cap ToSet(inactive') = {}
      /\ (ToSet(head') \cup ToSet(inactive')) \cap ToSet(free') = {}
      /\ ToSet(head') \cup ToSet(inactive') \cup ToSet(free') = All
  BY <1>1, <1>2, <1>5, <1>7, StateFacts
<1>9. \A a \in ToSet(inactive') : ~tm'[a].overflow /\ tm'[a].kind # "shot"
  <2>1. \A a \in ToSet(inactive') : a \in ToSet(inactive) /\ a \in All /\ a # s
    BY <1>1, <1>5, StateFacts
  <2> QED BY <2>1, <1>7 DEF TimerInv, Kept
<1>10. \A a \in ToSet(head') : tm'[a].kind # "shot" => tm'[a].period > 0
  <2>1. \A a \in ToSet(head') : a = s \/ (a # s /\ a \in ToSet(head) /\ a \in All)
    BY <1>7, StateFacts
  <2> QED BY <2>1, <1>4, <1>7 DEF TimerInv, Kept
<1>11. tm'[OVF] = tm[OVF]
  BY <1>2, <1>7, StateFacts
<1>12. inactive' \in Seq(Slots) /\ free' \in Seq(Slots) /\ IsInjective(inactive') /\ IsInjective(free')
  BY <1>1, <1>2, StateFacts
<1> QED BY <1>1, <1>7, <1>8, <1>9, <1>10, <1>11, <1>12, CallInv

LEMMA CancelTimerKeeps ==
  ASSUME TimerInv, NEW s \in Slots, cancel_timer(s)
  PROVE  TimerInv'
<1>1. /\ head' = dequeue_timer(head, s) /\ free' = <<s>> \o free /\ inactive' = inactive
      /\ tm' = [tm EXCEPT ![s] = Unused] /\ stamp' = stamp /\ UNCHANGED main
      /\ Contains(head, s)
  BY DEF cancel_timer
<1>2. s \in ToSet(head) /\ s \in All /\ s # OVF
  BY <1>1, StateFacts, ContainsElement
<1>3. tm' \in [All -> Slot] /\ (\A a \in All : a # s => tm'[a] = tm[a])
  <2>1. tm \in [All -> Slot]
    BY StateFacts
  <2> QED BY <1>1, <1>2, <2>1 DEF Slot, Unused, Kinds
<1>4. s \notin ToSet(free) /\ s \notin ToSet(inactive)
  BY <1>2, StateFacts
<1>5. free' \in Seq(Slots) /\ IsInjective(free') /\ ToSet(free') = ToSet(free) \cup {s}
  BY <1>1, <1>4, StateFacts, Pushed
<1>6. /\ head' \in Seq(All) /\ IsInjective(head') /\ ToSet(head') = ToSet(head) \ {s}
      /\ QueueOK(head', tm') /\ (Settled(head, tm) => Settled(head', tm'))
      /\ \A a \in ToSet(head') : Ref <= tm'[a].mark + MaxLate
      /\ Settled(head, tm) /\ (\E t \in Int : StampFor(stamp, head, tm, t))
            => \E t \in Int : StampFor(stamp', head', tm', t)
  BY <1>1, <1>3, RemoveKeeps
<1>7. /\ ToSet(head') \cap ToSet(inactive') = {}
      /\ (ToSet(head') \cup ToSet(inactive')) \cap ToSet(free') = {}
      /\ ToSet(head') \cup ToSet(inactive') \cup ToSet(free') = All
  <2>1. inactive' = inactive /\ ToSet(free') = ToSet(free) \cup {s} /\ ToSet(head') = ToSet(head) \ {s}
    BY <1>1, <1>5, <1>6
  <2>2. /\ ToSet(head) \cap ToSet(inactive) = {}
        /\ (ToSet(head) \cup ToSet(inactive)) \cap ToSet(free) = {}
        /\ ToSet(head) \cup ToSet(inactive) \cup ToSet(free) = All
    BY StateFacts
  <2> QED BY <1>2, <1>4, <2>1, <2>2
<1>8. \A a \in ToSet(inactive') : ~tm'[a].overflow /\ tm'[a].kind # "shot"
  <2>1. \A a \in ToSet(inactive') : a \in ToSet(inactive) /\ a \in All /\ a # s
    BY <1>1, <1>4, StateFacts
  <2> QED BY <2>1, <1>3 DEF TimerInv, Kept
<1>9. \A a \in ToSet(head') : tm'[a].kind # "shot" => tm'[a].period > 0
  <2>1. \A a \in ToSet(head') : a # s /\ a \in ToSet(head) /\ a \in All
    BY <1>6, StateFacts
  <2> QED BY <2>1, <1>3 DEF TimerInv, Kept
<1>10. tm'[OVF] = tm[OVF] /\ stamp' \in 0 .. M - 1
  BY <1>1, <1>2, <1>3, StateFacts
<1>11. inactive' \in Seq(Slots) /\ IsInjective(inactive')
  BY <1>1, StateFacts
<1> QED BY <1>1, <1>3, <1>5, <1>6, <1>7, <1>8, <1>9, <1>10, <1>11, CallInv

LEMMA NewTimerKeeps ==
  ASSUME TimerInv, NEW k \in {"auto", "manual"}, new_ptimer(k)
  PROVE  TimerInv'
<1> DEFINE s == Head(free)
<1>1. /\ free # <<>> /\ tm' = [tm EXCEPT ![s] = [Unused EXCEPT !.kind = k]]
      /\ inactive' = <<s>> \o inactive /\ free' = Tail(free)
      /\ head' = head /\ stamp' = stamp /\ UNCHANGED main
  BY DEF new_ptimer
<1>2. /\ s \in ToSet(free) /\ s \in Slots /\ Tail(free) \in Seq(Slots) /\ IsInjective(Tail(free))
      /\ ToSet(Tail(free)) = ToSet(free) \ {s}
  BY <1>1, StateFacts, Popped
<1> HIDE DEF s
<1>3. s \in All /\ s # OVF /\ s \notin ToSet(head) /\ s \notin ToSet(inactive)
  BY <1>2, StateFacts
<1>4. /\ tm' \in [All -> Slot] /\ (\A a \in All : a # s => tm'[a] = tm[a])
      /\ ~tm'[s].overflow /\ tm'[s].kind # "shot"
  <2>1. tm \in [All -> Slot]
    BY StateFacts
  <2> QED BY <1>1, <1>3, <2>1 DEF Slot, Unused, Kinds
<1>5. /\ inactive' \in Seq(Slots) /\ IsInjective(inactive')
      /\ ToSet(inactive') = ToSet(inactive) \cup {s}
  BY <1>1, <1>2, <1>3, StateFacts, Pushed
<1>6. dequeue_timer(head, s) = head
  BY <1>3, StateFacts, PositionFound DEF dequeue_timer
<1>7. /\ head' \in Seq(All) /\ IsInjective(head') /\ ToSet(head') = ToSet(head) \ {s}
      /\ QueueOK(head', tm') /\ (Settled(head, tm) => Settled(head', tm'))
      /\ \A a \in ToSet(head') : Ref <= tm'[a].mark + MaxLate
      /\ Settled(head, tm) /\ (\E t \in Int : StampFor(stamp, head, tm, t))
            => \E t \in Int : StampFor(stamp', head', tm', t)
  BY <1>1, <1>2, <1>4, <1>6, RemoveKeeps
<1>8. /\ ToSet(head') \cap ToSet(inactive') = {}
      /\ (ToSet(head') \cup ToSet(inactive')) \cap ToSet(free') = {}
      /\ ToSet(head') \cup ToSet(inactive') \cup ToSet(free') = All
  <2>1. /\ head' = head /\ ToSet(free') = ToSet(free) \ {s} /\ s \in ToSet(free)
        /\ ToSet(inactive') = ToSet(inactive) \cup {s}
    BY <1>1, <1>2, <1>5
  <2>2. /\ ToSet(head) \cap ToSet(inactive) = {}
        /\ (ToSet(head) \cup ToSet(inactive)) \cap ToSet(free) = {}
        /\ ToSet(head) \cup ToSet(inactive) \cup ToSet(free) = All
    BY StateFacts
  <2> QED BY <1>3, <2>1, <2>2
<1>9. \A a \in ToSet(inactive') : ~tm'[a].overflow /\ tm'[a].kind # "shot"
  <2>1. \A a \in ToSet(inactive') : a = s \/ (a # s /\ a \in ToSet(inactive) /\ a \in All)
    BY <1>5, StateFacts
  <2> QED BY <2>1, <1>4 DEF TimerInv, Kept
<1>10. \A a \in ToSet(head') : tm'[a].kind # "shot" => tm'[a].period > 0
  <2>1. \A a \in ToSet(head') : a # s /\ a \in ToSet(head) /\ a \in All
    BY <1>7, StateFacts
  <2> QED BY <2>1, <1>4 DEF TimerInv, Kept
<1>11. tm'[OVF] = tm[OVF] /\ stamp' \in 0 .. M - 1 /\ free' \in Seq(Slots) /\ IsInjective(free')
  BY <1>1, <1>2, <1>3, <1>4, StateFacts
<1> QED BY <1>1, <1>4, <1>5, <1>7, <1>8, <1>9, <1>10, <1>11, CallInv

(* set_ptimer() and resume_ptimer() take the timer off its list and sort it   *)
(* in with a new mark.                                                       *)
LEMMA RestartKeeps ==
  ASSUME TimerInv, NEW s \in Slots, s \in ToSet(head) \cup ToSet(inactive),
         NEW sl \in [All -> Slot], \A a \in All : a # s => sl[a] = tm[a],
         sl[s].mark >= now, sl[s].period > 0,
         Settled(head, tm) => (sl[s].overflow => sl[s].mark > sl[OVF].mark),
         inactive' = dequeue_timer(inactive, s), free' = free, UNCHANGED main,
         Enqueue(dequeue_timer(head, s), sl, s)
  PROVE  TimerInv'
<1>1. s \in All /\ s # OVF
  BY StateFacts
<1> DEFINE l == dequeue_timer(head, s)
<1>2. /\ l \in Seq(All) /\ IsInjective(l) /\ ToSet(l) = ToSet(head) \ {s}
      /\ \A a, b : InFront(l, a, b) <=> a # s /\ b # s /\ InFront(head, a, b)
  BY StateFacts, Dequeued
<1>3. Enqueue(l, sl, s)
  OBVIOUS
<1> HIDE DEF l
<1>4. \A a, b \in ToSet(l) : InFront(l, a, b) <=> InFront(head, a, b)
  BY <1>2
<1>5. /\ head' \in Seq(All) /\ tm' \in [All -> Slot] /\ stamp' \in 0 .. M - 1
      /\ IsInjective(head') /\ ToSet(head') = ToSet(head) \cup {s}
      /\ QueueOK(head', tm') /\ (Settled(head, tm) => Settled(head', tm'))
      /\ \A a \in All : a # s => tm'[a] = tm[a]
      /\ tm'[s].mark = sl[s].mark /\ tm'[s].kind = sl[s].kind /\ tm'[s].period = sl[s].period
      /\ \A a \in ToSet(head') : Ref <= tm'[a].mark + MaxLate
      /\ Settled(head, tm) /\ (\E t \in Int : StampFor(stamp, head, tm, t))
            => \E t \in Int : StampFor(stamp', head', tm', t)
  BY <1>2, <1>3, <1>4, EnqueueKeeps
<1>6. /\ inactive' \in Seq(Slots) /\ IsInjective(inactive')
      /\ ToSet(inactive') = ToSet(inactive) \ {s}
  BY StateFacts, Dequeued
<1>7. /\ ToSet(head') \cap ToSet(inactive') = {}
      /\ (ToSet(head') \cup ToSet(inactive')) \cap ToSet(free') = {}
      /\ ToSet(head') \cup ToSet(inactive') \cup ToSet(free') = All
  BY <1>1, <1>5, <1>6, StateFacts
<1>8. \A a \in ToSet(inactive') : ~tm'[a].overflow /\ tm'[a].kind # "shot"
  <2>1. \A a \in ToSet(inactive') : a \in ToSet(inactive) /\ a \in All /\ a # s
    BY <1>6, StateFacts
  <2> QED BY <2>1, <1>5 DEF TimerInv, Kept
<1>9. \A a \in ToSet(head') : tm'[a].kind # "shot" => tm'[a].period > 0
  <2>1. \A a \in ToSet(head') : a = s \/ (a # s /\ a \in ToSet(head) /\ a \in All)
    BY <1>5, StateFacts
  <2> QED BY <2>1, <1>5 DEF TimerInv, Kept
<1>10. tm'[OVF] = tm[OVF] /\ free' \in Seq(Slots) /\ IsInjective(free')
  BY <1>1, <1>5, StateFacts
<1> QED BY <1>5, <1>6, <1>7, <1>8, <1>9, <1>10, CallInv

LEMMA SetTimerKeeps ==
  ASSUME TimerInv, Reprogram = FALSE, NEW s \in Slots, NEW u \in Delays, set_ptimer(s, u)
  PROVE  TimerInv'
<1> DEFINE p == IF u = 0 THEN DefaultPeriod ELSE u
<1> DEFINE sl == [tm EXCEPT ![s].mark = now + p, ![s].period = p]
<1>1. /\ Active(s) \/ Contains(inactive, s)
      /\ Periodic(s) /\ Reachable(s)
      /\ inactive' = dequeue_timer(inactive, s)
      /\ Enqueue(dequeue_timer(head, s), sl, s)
      /\ free' = free /\ UNCHANGED main
  BY DEF set_ptimer
<1>2. s \in ToSet(head) \cup ToSet(inactive) /\ s \in All /\ s # OVF
  BY <1>1, StateFacts, ContainsElement DEF Active
<1>3. ~tm[s].overflow
  <2>1. CASE s \in ToSet(head)
    <3>1. Active(s)
      BY <2>1, StateFacts, ContainsElement DEF Active
    <3> QED BY <3>1, <1>1 DEF Reachable
  <2>2. CASE s \in ToSet(inactive)
    BY <2>2 DEF TimerInv, Kept
  <2> QED BY <1>2, <2>1, <2>2
<1>4. p \in Nat /\ p > 0 /\ now \in Nat /\ now + p \in Nat /\ now + p >= now
  BY StateFacts, DelaysAssumption DEF DefaultPeriod
<1>5. tm \in [All -> Slot]
  BY StateFacts
<1> HIDE DEF p
<1>6. /\ sl \in [All -> Slot] /\ (\A a \in All : a # s => sl[a] = tm[a])
      /\ sl[s].mark = now + p /\ sl[s].period = p /\ sl[s].overflow = tm[s].overflow
  BY <1>2, <1>4, <1>5 DEF Slot
<1> HIDE DEF sl
<1> QED BY <1>1, <1>2, <1>3, <1>4, <1>6, RestartKeeps

LEMMA ResumeTimerKeeps ==
  ASSUME TimerInv, NEW s \in Slots, resume_ptimer(s)
  PROVE  TimerInv'
<1> DEFINE t == Recalc(tm[s])
<1> DEFINE sl == [tm EXCEPT ![s] = t]
<1>1. /\ Contains(inactive, s) \/ BehindOverflow(s)
      /\ tm[s].period > 0
      /\ inactive' = dequeue_timer(inactive, s)
      /\ Enqueue(dequeue_timer(head, s), sl, s)
      /\ free' = free /\ UNCHANGED main
  BY DEF resume_ptimer
<1>2. s \in ToSet(head) \cup ToSet(inactive) /\ s \in All /\ s # OVF
  BY <1>1, StateFacts, ContainsElement DEF BehindOverflow, Active
<1>3. tm \in [All -> Slot] /\ tm[s] \in Slot /\ now \in Nat
  BY <1>2, StateFacts
<1>4. /\ t \in Slot /\ t.overflow = tm[s].overflow /\ t.period = tm[s].period
      /\ t.mark > now /\ t.mark >= tm[s].mark
  BY <1>1, <1>3, NextMark DEF Slot
<1> HIDE DEF t
<1>5. sl \in [All -> Slot] /\ (\A a \in All : a # s => sl[a] = tm[a]) /\ sl[s] = t
  BY <1>2, <1>3, <1>4
<1>6. t.mark \in Nat /\ tm[s].mark \in Nat /\ tm[OVF].mark \in Nat
  BY <1>2, <1>4, StateFacts DEF Slot
<1>7. sl[s].mark >= now /\ sl[s].period > 0
  BY <1>1, <1>3, <1>4, <1>5, <1>6
<1>8. Settled(head, tm) => (sl[s].overflow => sl[s].mark > sl[OVF].mark)
  <2> SUFFICES ASSUME Settled(head, tm), tm[s].overflow PROVE t.mark > tm[OVF].mark
    BY <1>2, <1>4, <1>5, StateFacts
  <2>1. s \in ToSet(head)
    BY <1>2 DEF TimerInv, Kept
  <2>2. tm[s].mark > tm[OVF].mark
    BY <2>1 DEF Settled
  <2> QED BY <2>2, <1>4, <1>6
<1> HIDE DEF sl
<1> QED BY <1>1, <1>2, <1>5, <1>7, <1>8, RestartKeeps

LEMMA PauseTimerKeeps ==
  ASSUME TimerInv, Reprogram = FALSE, NEW s \in Slots, pause_ptimer(s)
  PROVE  TimerInv'
<1>1. /\ Active(s) /\ Periodic(s) /\ Reachable(s)
      /\ head' = dequeue_timer(head, s) /\ inactive' = <<s>> \o inactive
      /\ tm' = tm /\ free' = free /\ stamp' = stamp /\ UNCHANGED main
  BY DEF pause_ptimer
<1>2. s \in ToSet(head) /\ s \in All /\ s # OVF /\ s \notin ToSet(inactive)
  BY <1>1, StateFacts, ContainsElement DEF Active
<1>3. ~tm[s].overflow /\ tm[s].kind # "shot"
  BY <1>1 DEF Reachable, Periodic
<1>4. tm' \in [All -> Slot] /\ (\A a \in All : a # s => tm'[a] = tm[a])
  BY <1>1, StateFacts
<1>5. /\ inactive' \in Seq(Slots) /\ IsInjective(inactive')
      /\ ToSet(inactive') = ToSet(inactive) \cup {s}
  BY <1>1, <1>2, StateFacts, Pushed
<1>6. /\ head' \in Seq(All) /\ IsInjective(head') /\ ToSet(head') = ToSet(head) \ {s}
      /\ QueueOK(head', tm') /\ (Settled(head, tm) => Settled(head', tm'))
      /\ \A a \in ToSet(head') : Ref <= tm'[a].mark + MaxLate
      /\ Settled(head, tm) /\ (\E t \in Int : StampFor(stamp, head, tm, t))
            => \E t \in Int : StampFor(stamp', head', tm', t)
  BY <1>1, <1>4, RemoveKeeps
<1>7. /\ ToSet(head') \cap ToSet(inactive') = {}
      /\ (ToSet(head') \cup ToSet(inactive')) \cap ToSet(free') = {}
      /\ ToSet(head') \cup ToSet(inactive') \cup ToSet(free') = All
  <2>1. free' = free
    BY <1>1
  <2> QED BY <1>2, <1>5, <1>6, <2>1, StateFacts
<1>8. \A a \in ToSet(inactive') : ~tm'[a].overflow /\ tm'[a].kind # "shot"
  BY <1>1, <1>3, <1>5 DEF TimerInv, Kept
<1>9. \A a \in ToSet(head') : tm'[a].kind # "shot" => tm'[a].period > 0
  BY <1>1, <1>6 DEF TimerInv, Kept
<1>10. tm'[OVF] = tm[OVF] /\ stamp' \in 0 .. M - 1 /\ free' \in Seq(Slots) /\ IsInjective(free')
  BY <1>1, StateFacts
<1> QED BY <1>1, <1>4, <1>5, <1>6, <1>7, <1>8, <1>9, <1>10, CallInv

LEMMA FreeTimerKeeps ==
  ASSUME TimerInv, NEW s \in Slots, free_ptimer(s)
  PROVE  TimerInv'
<1>1. /\ Active(s) \/ Contains(inactive, s)
      /\ head' = dequeue_timer(head, s) /\ inactive' = dequeue_timer(inactive, s)
      /\ free' = <<s>> \o free /\ tm' = [tm EXCEPT ![s] = Unused]
      /\ stamp' = stamp /\ UNCHANGED main
  BY DEF free_ptimer
<1>2. s \in ToSet(head) \cup ToSet(inactive) /\ s \in All /\ s # OVF
  BY <1>1, StateFacts, ContainsElement DEF Active
<1>3. tm' \in [All -> Slot] /\ (\A a \in All : a # s => tm'[a] = tm[a])
  <2>1. tm \in [All -> Slot]
    BY StateFacts
  <2> QED BY <1>1, <1>2, <2>1 DEF Slot, Unused, Kinds
<1>4. s \notin ToSet(free)
  BY <1>2, StateFacts
<1>5. free' \in Seq(Slots) /\ IsInjective(free') /\ ToSet(free') = ToSet(free) \cup {s}
  BY <1>1, <1>4, StateFacts, Pushed
<1>6. /\ head' \in Seq(All) /\ IsInjective(head') /\ ToSet(head') = ToSet(head) \ {s}
      /\ QueueOK(head', tm') /\ (Settled(head, tm) => Settled(head', tm'))
      /\ \A a \in ToSet(head') : Ref <= tm'[a].mark + MaxLate
      /\ Settled(head, tm) /\ (\E t \in Int : StampFor(stamp, head, tm, t))
            => \E t \in Int : StampFor(stamp', head', tm', t)
  BY <1>1, <1>3, RemoveKeeps
<1>7. /\ inactive' \in Seq(Slots) /\ IsInjective(inactive')
      /\ ToSet(inactive') = ToSet(inactive) \ {s}
  BY <1>1, StateFacts, Dequeued
<1>8. /\ ToSet(head') \cap ToSet(inactive') = {}
      /\ (ToSet(head') \cup ToSet(inactive')) \cap ToSet(free') = {}
      /\ ToSet(head') \cup ToSet(inactive') \cup ToSet(free') = All
  BY <1>2, <1>5, <1>6, <1>7, StateFacts
<1>9. \A a \in ToSet(inactive') : ~tm'[a].overflow /\ tm'[a].kind # "shot"
  <2>1. \A a \in ToSet(inactive') : a \in ToSet(inactive) /\ a \in All /\ a # s
    BY <1>7, StateFacts
  <2> QED BY <2>1, <1>3 DEF TimerInv, Kept
<1>10. \A a \in ToSet(head') : tm'[a].kind # "shot" => tm'[a].period > 0
  <2>1. \A a \in ToSet(head') : a # s /\ a \in ToSet(head) /\ a \in All
    BY <1>6, StateFacts
  <2> QED BY <2>1, <1>3 DEF TimerInv, Kept
<1>11. tm'[OVF] = tm[OVF] /\ stamp' \in 0 .. M - 1
  BY <1>1, <1>2, <1>3, StateFacts
<1> QED BY <1>1, <1>3, <1>5, <1>6, <1>7, <1>8, <1>9, <1>10, <1>11, CallInv
-----------------------------------------------------------------------------
(* rvec_timer().                                                             *)

(* In the loop the comparison of low words says whether the first timer has   *)
(* expired.                                                                  *)
LEMMA FirstExpired ==
  ASSUME TimerInv, pc = "loop"
  PROVE  /\ head[1] \in ToSet(head) /\ ~tm[head[1]].overflow /\ head[1] \in All
         /\ Expired(head[1]) <=> now >= tm[head[1]].mark
         /\ \A a \in ToSet(head) : tm[head[1]].mark <= tm[a].mark
         /\ tm[head[1]].mark <= tm[OVF].mark /\ now <= tm[head[1]].mark + MaxLate
         /\ Settled(head, tm) /\ Ref = now /\ head # <<>>
<1> DEFINE s == head[1]
<1>1. QueueOK(head, tm) /\ Settled(head, tm) /\ OnTime
  BY DEF TimerInv
<1>2. /\ s \in ToSet(head) /\ ~tm[s].overflow
      /\ \A a \in ToSet(head) : tm[s].mark <= tm[a].mark
  BY <1>1, StateFacts, FirstEarliest
<1>3. Ref = now
  BY DEF Ref
<1>4. s \in All /\ OVF \in ToSet(head) /\ now \in Nat /\ tm[s].mark \in Nat /\ tm[OVF].mark \in Nat
  BY <1>2, StateFacts
<1>5. tm[s].mark <= tm[OVF].mark /\ now <= tm[s].mark + MaxLate /\ tm[OVF].mark <= now + TIMER_MAX
  BY <1>1, <1>2, <1>3, <1>4 DEF OnTime
<1>6. MaxLate \in Nat /\ MaxLate < TIMER_MAX /\ TIMER_MAX = Half - 1 /\ Half \in Nat
  BY BoundsAssumption, HalfAssumption DEF TIMER_MAX
<1> DEFINE x == tm[s].mark
<1>7. now \in Int /\ x \in Int /\ -Half <= now - x /\ now - x < Half
  BY <1>4, <1>5, <1>6
<1>8. Signed(Low(now) - Low(x)) = now - x
  <2> HIDE DEF x
  <2> QED BY <1>7, SignedDifference
<1>9. Expired(s) <=> now >= x
  BY <1>7, <1>8 DEF Expired
<1>10. head # <<>>
  <2>1. PICK i \in 1 .. Len(head) : head[i] = OVF
    BY <1>4, StateFacts, Elements
  <2> QED BY <2>1
<1> QED BY <1>1, <1>2, <1>3, <1>4, <1>5, <1>9, <1>10

(* The invariant after a turn of the loop.                                   *)
LEMMA FireInv ==
  ASSUME TimerInv, pc = "loop", pc' = "handler", now' = now, frozen' = frozen, running' \in All,
         head' \in Seq(All), inactive' \in Seq(Slots), free' \in Seq(Slots),
         tm' \in [All -> Slot], stamp' \in 0 .. M - 1,
         IsInjective(head'), IsInjective(inactive'), IsInjective(free'),
         ToSet(head') \cap ToSet(inactive') = {},
         (ToSet(head') \cup ToSet(inactive')) \cap ToSet(free') = {},
         ToSet(head') \cup ToSet(inactive') \cup ToSet(free') = All,
         QueueOK(head', tm'), running' # OVF => Settled(head', tm'),
         \A a \in ToSet(inactive') : ~tm'[a].overflow /\ tm'[a].kind # "shot",
         \A a \in ToSet(head') : tm'[a].kind # "shot" => tm'[a].period > 0,
         tm'[OVF].kind = tm[OVF].kind, tm'[OVF].period = tm[OVF].period,
         tm'[OVF].mark <= now + TIMER_MAX,
         \A a \in ToSet(head') : now <= tm'[a].mark + MaxLate
  PROVE  TimerInv'
<1>2. Ref' = now /\ now \in Nat /\ MaxFreeze \in Nat
  BY StateFacts, BoundsAssumption DEF Ref
<1>3. TypeOK'
  BY DEF TimerInv, TypeOK, Slot, Points
<1>4. SlotsAccounted'
  <2>1. OVF \in ToSet(head')
    BY DEF QueueOK, Listed
  <2>2. Active(OVF)'
    BY <2>1, ContainsElement DEF Active
  <2> QED BY <2>2 DEF SlotsAccounted
<1>6. Kept'
  BY DEF TimerInv, Kept
<1>7. OnTime'
  BY <1>2 DEF OnTime
<1>8. StampKept'
  BY DEF StampKept
<1> QED BY <1>3, <1>4, <1>6, <1>7, <1>8 DEF TimerInv

LEMMA RvecTimerKeeps ==
  ASSUME TimerInv, rvec_timer
  PROVE  TimerInv'
<1>1. pc = "guest" /\ pc' = "loop" /\ UNCHANGED <<now, tm, lists, stamp, running, frozen>>
  BY DEF rvec_timer
<1>2. Ref' = Ref
  BY <1>1 DEF Ref
<1>3. TypeOK' /\ SlotsAccounted'
  BY <1>1 DEF TimerInv, TypeOK, SlotsAccounted, lists, Points, Active
<1>4. QueueOK(head', tm') /\ Settled(head', tm')
  BY <1>1 DEF TimerInv, lists
<1>5. Kept' /\ OnTime'
  BY <1>1, <1>2 DEF TimerInv, lists, Kept, OnTime
<1>6. StampKept'
  BY <1>1 DEF StampKept
<1> QED BY <1>3, <1>4, <1>5, <1>6 DEF TimerInv

LEMMA LoopDoneKeeps ==
  ASSUME TimerInv, LoopDone
  PROVE  TimerInv' /\ tm[head[1]].mark > now
<1> DEFINE s == head[1]
<1>1. /\ pc = "loop" /\ (~Expired(s) \/ tm[s].overflow) /\ stamp' = Low(tm[s].mark)
      /\ pc' = "guest" /\ UNCHANGED <<now, tm, lists, running, frozen>>
  BY DEF LoopDone
<1>2. /\ s \in ToSet(head) /\ ~tm[s].overflow /\ s \in All
      /\ Expired(s) <=> now >= tm[s].mark
      /\ \A a \in ToSet(head) : tm[s].mark <= tm[a].mark
      /\ tm[s].mark <= tm[OVF].mark /\ now <= tm[s].mark + MaxLate
      /\ Settled(head, tm) /\ Ref = now
  BY <1>1, FirstExpired
<1>3. now \in Nat /\ tm[s].mark \in Nat /\ tm[OVF].mark \in Nat
  BY <1>2, StateFacts
<1>4. tm[s].mark > now
  BY <1>1, <1>2, <1>3
<1>5. Ref' = Ref
  BY <1>1 DEF Ref
<1>6. TypeOK'
  <2>0. tm[s].mark \in Int
    BY <1>3
  <2>1. Low(tm[s].mark) \in 0 .. M - 1
    BY <2>0, LowRange
  <2> QED BY <1>1, <2>1 DEF TimerInv, TypeOK, lists, Points
<1>7. SlotsAccounted'
  BY <1>1 DEF TimerInv, SlotsAccounted, lists, Active
<1>8. QueueOK(head', tm') /\ Settled(head', tm')
  BY <1>1, <1>2 DEF TimerInv, lists
<1>9. Kept' /\ OnTime'
  BY <1>1, <1>5 DEF TimerInv, lists, Kept, OnTime
<1>10. StampKept'
  <2>0. PICK t \in Int : t = tm[s].mark
    BY <1>3
  <2>1. stamp' = Low(t)
    BY <1>1, <2>0
  <2>2. t <= Ref + TIMER_MAX
    <3>1. tm[OVF].mark <= Ref + TIMER_MAX
      BY DEF TimerInv, OnTime
    <3>2. TIMER_MAX \in Int
      BY HalfAssumption DEF TIMER_MAX
    <3> QED BY <3>1, <3>2, <1>2, <1>3, <2>0
  <2>3. Ref - (MaxLate + MaxFreeze) <= t
    BY <1>2, <1>3, <2>0, BoundsAssumption
  <2>4. head' = head /\ tm' = tm
    BY <1>1 DEF lists
  <2>5. \A a \in ToSet(head) : t <= tm[a].mark
    BY <1>2, <2>0
  <2>6. StampAt(t)'
    BY <2>1, <2>2, <2>3, <2>4, <2>5, <1>1, <1>5 DEF StampAt
  <2>7. \E u \in Int : StampAt(u)'
    BY <2>6
  <2> QED BY <2>7 DEF StampKept
<1> QED BY <1>4, <1>6, <1>7, <1>8, <1>9, <1>10 DEF TimerInv

LEMMA HandlerReturnsKeeps ==
  ASSUME TimerInv, HandlerReturns
  PROVE  TimerInv'
<1>1. /\ pc = "handler" /\ running # OVF /\ pc' = "loop" /\ running' = OVF
      /\ UNCHANGED <<now, tm, lists, stamp, frozen>>
  BY DEF HandlerReturns
<1>2. Ref' = Ref
  BY <1>1 DEF Ref
<1>3. TypeOK' /\ SlotsAccounted'
  BY <1>1 DEF TimerInv, TypeOK, SlotsAccounted, lists, Points, Active, All
<1>4. QueueOK(head', tm') /\ Settled(head', tm')
  BY <1>1 DEF TimerInv, lists
<1>5. Kept' /\ OnTime'
  BY <1>1, <1>2 DEF TimerInv, lists, Kept, OnTime
<1>6. StampKept'
  BY <1>1 DEF StampKept
<1> QED BY <1>3, <1>4, <1>5, <1>6 DEF TimerInv

(* Fire: the overflow timer is put back behind half the range; all others      *)
(* that are active wait, and are in the range of its new mark.               *)
LEMMA OverflowFires ==
  ASSUME TimerInv, Fire, head[1] = OVF
  PROVE  TimerInv'
<1> DEFINE t == Recalc(tm[OVF])
<1> DEFINE sl == [tm EXCEPT ![OVF] = t]
<1> DEFINE l == Tail(head)
<1>0. /\ now \in Nat /\ tm \in [All -> Slot] /\ OVF \in All /\ head \in Seq(All) /\ IsInjective(head)
      /\ stamp \in 0 .. M - 1 /\ tm[OVF] \in Slot /\ TIMER_MAX \in Nat
      /\ tm[OVF].kind = "auto" /\ tm[OVF].period = TIMER_MAX /\ TIMER_MAX > 0
      /\ MaxLate \in Nat /\ MaxLate < TIMER_MAX
  BY StateFacts, BoundsAssumption, HalfAssumption DEF TimerInv, Kept, TIMER_MAX
<1>1. /\ pc = "loop" /\ Expired(OVF) /\ Enqueue(l, sl, OVF)
      /\ inactive' = inactive /\ free' = free /\ running' = OVF /\ pc' = "handler"
      /\ now' = now /\ frozen' = frozen
  BY <1>0 DEF Fire
<1>2. /\ ~tm[OVF].overflow /\ now >= tm[OVF].mark /\ now <= tm[OVF].mark + MaxLate
      /\ Settled(head, tm) /\ head # <<>> /\ Ref = now
  BY <1>1, FirstExpired
<1>3. /\ l \in Seq(All) /\ IsInjective(l) /\ ToSet(l) = ToSet(head) \ {OVF}
  BY <1>0, <1>2, Popped
<1>4. /\ t \in Slot /\ t.overflow = tm[OVF].overflow /\ t.kind = tm[OVF].kind
      /\ t.period = tm[OVF].period /\ t.mark > now /\ t.mark <= now + TIMER_MAX
  <2>1. /\ t \in Slot /\ t.overflow = tm[OVF].overflow /\ t.kind = tm[OVF].kind
        /\ t.period = tm[OVF].period /\ t.mark > now
        /\ now < tm[OVF].mark \/ t.mark <= now + tm[OVF].period
    BY <1>0, NextMark DEF Slot
  <2>2. tm[OVF].mark \in Nat
    BY <1>0 DEF Slot
  <2> QED BY <2>1, <2>2, <1>0, <1>2
<1>5. t.mark - TIMER_MAX <= tm[OVF].mark
  <2> DEFINE n == now - tm[OVF].mark
  <2> DEFINE p == TIMER_MAX
  <2>1. n \in Nat /\ p \in Nat \ {0} /\ n < p /\ tm[OVF].mark \in Nat
    BY <1>0, <1>2 DEF Slot
  <2>2. ~(now < tm[OVF].mark)
    BY <1>0, <1>2, <2>1
  <2>3. t = [tm[OVF] EXCEPT !.mark = tm[OVF].mark + p * (n \div p + 1)]
    BY <1>0, <2>2 DEF Recalc
  <2> HIDE DEF n, p
  <2>4. n \div p = 0
    BY <2>1
  <2>5. p * (0 + 1) = p
    BY <2>1
  <2>6. t.mark = tm[OVF].mark + p
    BY <2>3, <2>4, <2>5, <1>0 DEF Slot
  <2> QED BY <2>1, <2>6 DEF p
<1> HIDE DEF t
<1>6. sl \in [All -> Slot] /\ sl[OVF] = t /\ \A a \in All : a # OVF => sl[a] = tm[a]
  BY <1>0, <1>4
<1>7. /\ t.mark \in Nat /\ tm[OVF].mark \in Nat
  BY <1>0, <1>4 DEF Slot
(* All others are behind it, and so wait. *)
<1>8. \A a \in ToSet(l) : a \in All /\ a # OVF /\ a \in ToSet(head) /\ tm[a].overflow
                          /\ tm[a].mark > tm[OVF].mark /\ tm[a].mark \in Nat
  <2> SUFFICES ASSUME NEW a \in ToSet(l)
               PROVE  a \in All /\ a # OVF /\ a \in ToSet(head) /\ tm[a].overflow
                      /\ tm[a].mark > tm[OVF].mark /\ tm[a].mark \in Nat
    OBVIOUS
  <2>1. a \in ToSet(head) /\ a # OVF /\ a \in All /\ tm[a].mark \in Nat
    BY <1>3, StateFacts
  <2>2. InFront(head, OVF, a)
    BY <2>1, <1>0, FrontTotal
  <2>3. tm[a].overflow
    BY <2>1, <2>2 DEF TimerInv, QueueOK, NoneBehind
  <2> QED BY <2>1, <2>3, <1>2 DEF Settled
<1>9. \A a \in ToSet(l) : sl[a].overflow /\ sl[OVF].mark - TIMER_MAX <= sl[a].mark
  BY <1>0, <1>5, <1>6, <1>7, <1>8
<1> DEFINE q == [list |-> l, tm |-> sl, stamp |-> stamp]
<1> DEFINE r == insert_timer(q, OVF)
<1>10. head' = r.list /\ tm' = r.tm /\ stamp' = r.stamp
  BY <1>1 DEF Enqueue, Install
<1> HIDE DEF l, sl
<1>11. /\ r.list \in Seq(All) /\ r.tm = sl
       /\ ToSet(r.list) = ToSet(l) \cup {OVF} /\ QueueOK(r.list, sl)
       /\ r.stamp = stamp \/ r.stamp = Low(sl[OVF].mark)
  BY <1>2, <1>3, <1>4, <1>6, <1>8, <1>9, InsertOverflow
<1> HIDE DEF r, q
<1>12. /\ head' \in Seq(All) /\ tm' = sl /\ ToSet(head') = ToSet(head) /\ QueueOK(head', tm')
       /\ IsInjective(head')
  BY <1>3, <1>10, <1>11, StateFacts DEF QueueOK, Listed
<1>13. stamp' \in 0 .. M - 1
  <2>0. t.mark \in Int
    BY <1>7
  <2>1. Low(t.mark) \in 0 .. M - 1
    BY <2>0, LowRange
  <2> QED BY <1>0, <1>6, <1>10, <1>11, <2>1
<1>14. \A a \in ToSet(inactive') : ~tm'[a].overflow /\ tm'[a].kind # "shot"
  <2>1. \A a \in ToSet(inactive') : a \in ToSet(inactive) /\ a \in All /\ a # OVF
    BY <1>1, StateFacts
  <2> QED BY <2>1, <1>6, <1>12 DEF TimerInv, Kept
<1>15. \A a \in ToSet(head') : tm'[a].kind # "shot" => tm'[a].period > 0
  <2>1. \A a \in ToSet(head') : a = OVF \/ (a # OVF /\ a \in ToSet(head) /\ a \in All)
    BY <1>12, StateFacts
  <2> QED BY <2>1, <1>0, <1>4, <1>6, <1>12 DEF TimerInv, Kept
<1>16. \A a \in ToSet(head') : now <= tm'[a].mark + MaxLate
  <2>1. \A a \in ToSet(head') : a = OVF \/ (a # OVF /\ a \in ToSet(head) /\ a \in All)
    BY <1>12, StateFacts
  <2>2. now <= t.mark + MaxLate
    BY <1>0, <1>4, <1>7
  <2> QED BY <2>1, <2>2, <1>2, <1>6, <1>12 DEF TimerInv, OnTime
<1>17. /\ inactive' \in Seq(Slots) /\ IsInjective(inactive') /\ free' \in Seq(Slots) /\ IsInjective(free')
       /\ ToSet(head') \cap ToSet(inactive') = {}
       /\ (ToSet(head') \cup ToSet(inactive')) \cap ToSet(free') = {}
       /\ ToSet(head') \cup ToSet(inactive') \cup ToSet(free') = All
  BY <1>1, <1>12, StateFacts
<1>18. /\ tm' \in [All -> Slot] /\ tm'[OVF].kind = tm[OVF].kind /\ tm'[OVF].period = tm[OVF].period
       /\ tm'[OVF].mark <= now + TIMER_MAX
  BY <1>4, <1>6, <1>12
<1> QED BY <1>0, <1>1, <1>12, <1>13, <1>14, <1>15, <1>16, <1>17, <1>18, FireInv

(* Any other timer goes back on the list, to the inactive ones or is freed.   *)
LEMMA OtherFires ==
  ASSUME TimerInv, Fire, head[1] # OVF
  PROVE  TimerInv'
<1> DEFINE s == head[1]
<1> DEFINE l == Tail(head)
<1>1. /\ pc = "loop" /\ Expired(s) /\ ~tm[s].overflow /\ running' = s /\ pc' = "handler"
      /\ now' = now /\ frozen' = frozen
  BY DEF Fire
<1>2. /\ s \in ToSet(head) /\ s \in All /\ Settled(head, tm) /\ head # <<>> /\ Ref = now
  BY <1>1, FirstExpired
<1>3. /\ now \in Nat /\ tm \in [All -> Slot] /\ OVF \in All /\ head \in Seq(All) /\ IsInjective(head)
      /\ stamp \in 0 .. M - 1 /\ s \in Slots /\ tm[s] \in Slot
      /\ s \notin ToSet(inactive) /\ s \notin ToSet(free)
  BY <1>2, StateFacts DEF All
<1>4. /\ l \in Seq(All) /\ IsInjective(l) /\ ToSet(l) = ToSet(head) \ {s}
      /\ \A a, b : InFront(l, a, b) <=> a # s /\ b # s /\ InFront(head, a, b)
  BY <1>2, <1>3, Popped
<1>5. running' \in All /\ running' # OVF
  BY <1>1, <1>2
<1>6. QueueOK(head, tm) /\ OnTime /\ Kept
  BY DEF TimerInv
(* What holds if the timer leaves the list. *)
<1>7. ASSUME head' = l, tm' \in [All -> Slot], \A a \in All : a # s => tm'[a] = tm[a]
      PROVE  /\ head' \in Seq(All) /\ IsInjective(head') /\ ToSet(head') = ToSet(head) \ {s}
             /\ QueueOK(head', tm') /\ Settled(head', tm')
             /\ \A a \in ToSet(head') : tm'[a].kind # "shot" => tm'[a].period > 0
             /\ tm'[OVF] = tm[OVF] /\ tm'[OVF].mark <= now + TIMER_MAX
             /\ \A a \in ToSet(head') : now <= tm'[a].mark + MaxLate
  <2>1. \A a \in ToSet(l) : a \in ToSet(head) /\ a \in All /\ a # s /\ tm'[a] = tm[a]
    BY <1>4, <1>7, StateFacts
  <2>2. OVF \in ToSet(l) /\ ToSet(l) \subseteq ToSet(head)
    BY <1>4, StateFacts
  <2>3. QueueOK(l, tm') /\ Settled(l, tm')
    BY <2>1, <2>2, <1>2, <1>3, <1>4, <1>6, <1>7, SubQueue
  <2>4. \A a \in ToSet(l) : tm'[a].kind # "shot" => tm'[a].period > 0
    BY <2>1, <1>6 DEF Kept
  <2>5. \A a \in ToSet(l) : now <= tm'[a].mark + MaxLate
    BY <2>1, <1>2, <1>6 DEF OnTime
  <2>6. tm'[OVF] = tm[OVF] /\ tm'[OVF].mark <= now + TIMER_MAX
    BY <1>2, <1>3, <1>6, <1>7 DEF OnTime
  <2> QED BY <1>4, <1>7, <2>3, <2>4, <2>5, <2>6
<1> DEFINE t == Recalc(tm[s])
<1> DEFINE sl == [tm EXCEPT ![s] = t]
<1>8. CASE tm[s].kind = "auto" /\ Enqueue(l, sl, s) /\ inactive' = inactive /\ free' = free
  <2>1. tm[s].period > 0
    BY <1>2, <1>6, <1>8 DEF Kept
  <2>2. t \in Slot /\ t.overflow = tm[s].overflow /\ t.kind = tm[s].kind
        /\ t.period = tm[s].period /\ t.mark > now /\ t.mark \in Nat
    BY <1>3, <2>1, NextMark DEF Slot
  <2> HIDE DEF t, l, s
  <2>3. sl \in [All -> Slot] /\ sl[s] = t /\ \A a \in All : a # s => sl[a] = tm[a]
    BY <1>2, <1>3, <2>2
  <2>4. sl[s].mark >= now /\ ~sl[s].overflow
    BY <1>1, <1>3, <2>2, <2>3
  <2>5. Enqueue(l, sl, s)
    BY <1>8
  <2> HIDE DEF sl
  <2>6. /\ head' \in Seq(All) /\ tm' \in [All -> Slot] /\ stamp' \in 0 .. M - 1
        /\ IsInjective(head') /\ ToSet(head') = ToSet(head) \cup {s}
        /\ QueueOK(head', tm') /\ (Settled(head, tm) => Settled(head', tm'))
        /\ \A a \in All : a # s => tm'[a] = tm[a]
        /\ tm'[s].mark = sl[s].mark /\ tm'[s].kind = sl[s].kind /\ tm'[s].period = sl[s].period
        /\ \A a \in ToSet(head') : Ref <= tm'[a].mark + MaxLate
    BY <1>3, <1>4, <2>3, <2>4, <2>5, EnqueueKeeps
  <2>7. \A a \in ToSet(inactive') : ~tm'[a].overflow /\ tm'[a].kind # "shot"
    <3>1. \A a \in ToSet(inactive') : a \in ToSet(inactive) /\ a \in All /\ a # s
      BY <1>3, <1>8, StateFacts
    <3> QED BY <3>1, <2>6, <1>6 DEF Kept
  <2>8. \A a \in ToSet(head') : tm'[a].kind # "shot" => tm'[a].period > 0
    <3>1. \A a \in ToSet(head') : a = s \/ (a # s /\ a \in ToSet(head) /\ a \in All)
      BY <2>6, StateFacts
    <3>2. tm'[s].period > 0
      BY <2>1, <2>2, <2>3, <2>6
    <3> QED BY <3>1, <3>2, <2>6, <1>6 DEF Kept
  <2>9. tm'[OVF] = tm[OVF] /\ tm'[OVF].mark <= now + TIMER_MAX
    <3>1. s # OVF
      BY DEF s
    <3> QED BY <3>1, <1>2, <1>3, <1>6, <2>6 DEF OnTime
  <2>10. /\ inactive' \in Seq(Slots) /\ IsInjective(inactive')
         /\ free' \in Seq(Slots) /\ IsInjective(free')
         /\ ToSet(head') \cap ToSet(inactive') = {}
         /\ (ToSet(head') \cup ToSet(inactive')) \cap ToSet(free') = {}
         /\ ToSet(head') \cup ToSet(inactive') \cup ToSet(free') = All
    <3>1. ToSet(head') = ToSet(head)
      BY <2>6, <1>2
    <3> QED BY <3>1, <1>8, StateFacts
  <2> QED BY <1>1, <1>2, <1>5, <2>6, <2>7, <2>8, <2>9, <2>10, FireInv
<1>9. CASE /\ tm[s].kind = "manual" /\ head' = l /\ inactive' = <<s>> \o inactive
           /\ tm' = tm /\ free' = free /\ stamp' = stamp
  <2>0. tm' \in [All -> Slot] /\ (\A a \in All : a # s => tm'[a] = tm[a]) /\ head' = l
    BY <1>3, <1>9
  <2>1. /\ head' \in Seq(All) /\ IsInjective(head') /\ ToSet(head') = ToSet(head) \ {s}
        /\ QueueOK(head', tm') /\ Settled(head', tm')
        /\ \A a \in ToSet(head') : tm'[a].kind # "shot" => tm'[a].period > 0
        /\ tm'[OVF] = tm[OVF] /\ tm'[OVF].mark <= now + TIMER_MAX
        /\ \A a \in ToSet(head') : now <= tm'[a].mark + MaxLate
    BY <1>7, <2>0
  <2>2. /\ inactive' \in Seq(Slots) /\ IsInjective(inactive')
        /\ ToSet(inactive') = ToSet(inactive) \cup {s}
    BY <1>3, <1>9, StateFacts, Pushed
  <2>3. \A a \in ToSet(inactive') : ~tm'[a].overflow /\ tm'[a].kind # "shot"
    BY <2>2, <1>1, <1>6, <1>9 DEF Kept
  <2>4. /\ free' \in Seq(Slots) /\ IsInjective(free')
        /\ ToSet(head') \cap ToSet(inactive') = {}
        /\ (ToSet(head') \cup ToSet(inactive')) \cap ToSet(free') = {}
        /\ ToSet(head') \cup ToSet(inactive') \cup ToSet(free') = All
    <3>1. free' = free
      BY <1>9
    <3> QED BY <3>1, <2>1, <2>2, <1>2, <1>3, StateFacts
  <2>5. stamp' \in 0 .. M - 1
    BY <1>3, <1>9
  <2> QED BY <1>1, <1>5, <2>0, <2>1, <2>2, <2>3, <2>4, <2>5, FireInv
<1>10. CASE /\ tm[s].kind = "shot" /\ head' = l /\ free' = <<s>> \o free
            /\ tm' = [tm EXCEPT ![s] = Unused] /\ inactive' = inactive /\ stamp' = stamp
  <2>0. tm' \in [All -> Slot] /\ (\A a \in All : a # s => tm'[a] = tm[a]) /\ head' = l
    BY <1>2, <1>3, <1>10 DEF Slot, Unused, Kinds
  <2>1. /\ head' \in Seq(All) /\ IsInjective(head') /\ ToSet(head') = ToSet(head) \ {s}
        /\ QueueOK(head', tm') /\ Settled(head', tm')
        /\ \A a \in ToSet(head') : tm'[a].kind # "shot" => tm'[a].period > 0
        /\ tm'[OVF] = tm[OVF] /\ tm'[OVF].mark <= now + TIMER_MAX
        /\ \A a \in ToSet(head') : now <= tm'[a].mark + MaxLate
    BY <1>7, <2>0
  <2>2. free' \in Seq(Slots) /\ IsInjective(free') /\ ToSet(free') = ToSet(free) \cup {s}
    BY <1>3, <1>10, StateFacts, Pushed
  <2>3. \A a \in ToSet(inactive') : ~tm'[a].overflow /\ tm'[a].kind # "shot"
    <3>1. \A a \in ToSet(inactive') : a \in ToSet(inactive) /\ a \in All /\ a # s
      BY <1>3, <1>10, StateFacts
    <3> QED BY <3>1, <2>0, <1>6 DEF Kept
  <2>4. /\ inactive' \in Seq(Slots) /\ IsInjective(inactive')
        /\ ToSet(head') \cap ToSet(inactive') = {}
        /\ (ToSet(head') \cup ToSet(inactive')) \cap ToSet(free') = {}
        /\ ToSet(head') \cup ToSet(inactive') \cup ToSet(free') = All
    <3>1. inactive' = inactive
      BY <1>10
    <3> QED BY <3>1, <2>1, <2>2, <1>2, <1>3, StateFacts
  <2>5. stamp' \in 0 .. M - 1
    BY <1>3, <1>10
  <2> QED BY <1>1, <1>5, <2>0, <2>1, <2>2, <2>3, <2>4, <2>5, FireInv
<1> QED BY <1>8, <1>9, <1>10 DEF Fire

(* overflow_handler() brings the timers that wait back to where they belong.  *)
LEMMA OverflowHandlerKeeps ==
  ASSUME TimerInv, overflow_handler
  PROVE  TimerInv'
<1> DEFINE w == Unhooked(head, tm)
<1> DEFINE q == [list |-> w.rest, tm |-> tm, stamp |-> stamp]
<1> DEFINE r == SortedIn(q, w.chain)
<1>1. /\ pc = "handler" /\ running = OVF /\ pc' = "loop" /\ running' = running
      /\ head' = r.list /\ tm' = r.tm /\ stamp' = r.stamp
      /\ now' = now /\ inactive' = inactive /\ free' = free /\ frozen' = frozen
  BY DEF overflow_handler, Install
<1>2. /\ tm \in [All -> Slot] /\ OVF \in All /\ head \in Seq(All) /\ IsInjective(head)
      /\ OVF \in ToSet(head) /\ ToSet(head) \subseteq All /\ stamp \in 0 .. M - 1
  BY StateFacts
<1>3. QueueOK(head, tm) /\ OnTime /\ Kept /\ ~tm[OVF].overflow
  BY DEF TimerInv, QueueOK, Listed
<1>4. Walked(w, head, tm, Len(head))
  BY <1>2, WalkedList
<1> DEFINE l == w.rest
<1> DEFINE c == w.chain
<1> HIDE DEF w
<1>5. /\ l \in Seq(All) /\ IsInjective(l) /\ c \in Seq(All) /\ IsInjective(c)
      /\ \A x : x \in ToSet(l) <=> \E i \in 1 .. Len(head) : head[i] = x /\ ~tm[x].overflow
      /\ \A x : x \in ToSet(c) <=> \E i \in 1 .. Len(head) : head[i] = x /\ tm[x].overflow
      /\ \A a, b \in ToSet(l) : InFront(l, a, b) <=> InFront(head, a, b)
  BY <1>4 DEF Walked
<1>6. r = SortedIn([list |-> l, tm |-> tm, stamp |-> stamp], c)
  OBVIOUS
<1> HIDE DEF l, c, r
<1>7. \A x : (x \in ToSet(l) <=> x \in ToSet(head) /\ ~tm[x].overflow)
             /\ (x \in ToSet(c) <=> x \in ToSet(head) /\ tm[x].overflow)
  <2>1. \A x : x \in ToSet(head) <=> \E i \in 1 .. Len(head) : head[i] = x
    BY <1>2, Elements
  <2> QED BY <1>5, <2>1
<1>8. QueueOK(l, tm)
  <2>1. ToSet(l) \subseteq ToSet(head) /\ OVF \in ToSet(l)
    BY <1>2, <1>3, <1>7
  <2> QED BY <2>1, <1>2, <1>3, <1>5, SubQueue
<1>9. Settled(l, tm)
  BY <1>7 DEF Settled
<1>10. ToSet(c) \cap ToSet(l) = {}
  BY <1>7
<1>11. \A a \in ToSet(c) : tm[OVF].mark - TIMER_MAX <= tm[a].mark
  BY <1>3, <1>7 DEF QueueOK, InReach
<1>12. Returned(r, l, tm, c, Len(c))
  BY <1>2, <1>5, <1>6, <1>8, <1>9, <1>10, <1>11, ReturnedList
<1>13. /\ head' \in Seq(All) /\ tm' \in [All -> Slot] /\ stamp' \in 0 .. M - 1
       /\ QueueOK(head', tm') /\ Settled(head', tm')
       /\ \A x : x \in ToSet(head') <=> x \in ToSet(l) \/ \E i \in 1 .. Len(c) : c[i] = x
       /\ \A a \in All : /\ tm'[a].mark = tm[a].mark /\ tm'[a].kind = tm[a].kind
                         /\ tm'[a].period = tm[a].period
                         /\ a \notin ToSet(c) => tm'[a] = tm[a]
  BY <1>1, <1>12 DEF Returned
<1>14. ToSet(head') = ToSet(head)
  <2>1. \A x : x \in ToSet(c) <=> \E i \in 1 .. Len(c) : c[i] = x
    BY <1>5, Elements
  <2>2. \A x : x \in ToSet(head') <=> x \in ToSet(l) \/ \E i \in 1 .. Len(c) : c[i] = x
    BY <1>13
  <2>3. \A x : x \in ToSet(head') <=> x \in ToSet(l) \/ x \in ToSet(c)
    BY <2>1, <2>2
  <2>4. \A x : x \in ToSet(head') <=> x \in ToSet(head)
    BY <1>7, <2>3
  <2> QED BY <2>4
<1>15. TypeOK'
  BY <1>1, <1>13 DEF TimerInv, TypeOK, Slot, Points
<1>16. SlotsAccounted'
  <2>1. IsInjective(head') /\ OVF \in ToSet(head')
    BY <1>13 DEF QueueOK, Listed
  <2>2. Active(OVF)'
    BY <2>1, <1>13, ContainsElement DEF Active
  <2> QED BY <1>1, <1>14, <2>1, <2>2 DEF TimerInv, SlotsAccounted
<1>17. Kept'
  <2>1. \A a \in ToSet(inactive) : a \in All /\ a \notin ToSet(c)
    BY <1>7, StateFacts
  <2>2. \A a \in ToSet(inactive') : ~tm'[a].overflow /\ tm'[a].kind # "shot"
    BY <1>1, <1>3, <1>13, <2>1 DEF Kept
  <2>3. \A a \in ToSet(head') : tm'[a].kind # "shot" => tm'[a].period > 0
    BY <1>2, <1>3, <1>13, <1>14 DEF Kept
  <2> QED BY <1>2, <1>3, <1>13, <2>2, <2>3 DEF Kept
<1>18. OnTime'
  <2>1. Ref' = Ref
    BY <1>1 DEF Ref
  <2> QED BY <2>1, <1>1, <1>2, <1>3, <1>13, <1>14 DEF OnTime
<1>19. StampKept'
  BY <1>1 DEF StampKept
<1> QED BY <1>13, <1>15, <1>16, <1>17, <1>18, <1>19 DEF TimerInv
-----------------------------------------------------------------------------
(* Time.                                                                     *)

(* While the guest runs, and in the debugger, the kernel's comparison with    *)
(* the stamp does not wrap.                                                  *)
LEMMA StampExact ==
  ASSUME TimerInv, MaxLate + MaxFreeze <= TIMER_MAX, NEW t \in Int, StampAt(t), pc = "guest"
  PROVE  /\ Signed(Low(now) - stamp) = now - t /\ Signed(stamp - Low(now)) = t - now
         /\ now \in Int /\ Ref = now
<1>1. stamp = Low(t) /\ t <= now + TIMER_MAX /\ now - (MaxLate + MaxFreeze) <= t /\ Ref = now
  BY DEF StampAt, Ref
<1>2. now \in Int /\ MaxLate \in Nat /\ MaxFreeze \in Nat /\ TIMER_MAX = Half - 1 /\ Half \in Nat
  BY StateFacts, BoundsAssumption, HalfAssumption DEF TIMER_MAX
<1>3. -Half <= now - t /\ now - t < Half /\ -Half <= t - now /\ t - now < Half
  BY <1>1, <1>2
<1>4. Signed(Low(now) - Low(t)) = now - t
  BY <1>2, <1>3, SignedDifference
<1>5. Signed(Low(t) - Low(now)) = t - now
  BY <1>2, <1>3, SignedDifference
<1> QED BY <1>1, <1>2, <1>4, <1>5

LEMMA FreezeKeeps ==
  ASSUME TimerInv, MaxLate + MaxFreeze <= TIMER_MAX, Freeze
  PROVE  TimerInv'
<1>1. /\ pc = "guest" /\ Signed(Low(now) - stamp) <= MaxLate /\ frozen' = now /\ pc' = "frozen"
      /\ UNCHANGED <<now, tm, lists, stamp, running>>
  BY DEF Freeze
<1>2. Ref' = now /\ Ref = now
  BY <1>1 DEF Ref
<1>3. TypeOK' /\ SlotsAccounted'
  BY <1>1 DEF TimerInv, TypeOK, SlotsAccounted, lists, Points, Active
<1>4. QueueOK(head', tm') /\ Settled(head', tm')
  BY <1>1 DEF TimerInv, lists
<1>5. Kept' /\ OnTime'
  BY <1>1, <1>2 DEF TimerInv, lists, Kept, OnTime
<1>6. PICK t \in Int : StampAt(t)
  BY <1>1 DEF TimerInv, StampKept
<1>7. now - t <= MaxLate /\ now \in Int
  BY <1>1, <1>6, StampExact
<1>8. StampAt(t)'
  <2>1. /\ stamp = Low(t) /\ t <= now + TIMER_MAX /\ \A s \in ToSet(head) : t <= tm[s].mark
    BY <1>2, <1>6 DEF StampAt
  <2>2. now - MaxLate <= t
    BY <1>7, BoundsAssumption
  <2> QED BY <2>1, <2>2, <1>1, <1>2 DEF StampAt, lists
<1>9. StampKept'
  BY <1>8 DEF StampKept
<1> QED BY <1>3, <1>4, <1>5, <1>9 DEF TimerInv

LEMMA RetuneKeeps ==
  ASSUME TimerInv, retune_timers
  PROVE  TimerInv'
<1> DEFINE d == now - frozen
<1>1. /\ pc = "frozen" /\ pc' = "guest" /\ frozen' = 0
      /\ tm' = [s \in All |-> IF Active(s) THEN [tm[s] EXCEPT !.mark = @ + now - frozen] ELSE tm[s]]
      /\ UNCHANGED <<now, lists, stamp, running>>
  BY DEF retune_timers
<1>2. head' = head /\ inactive' = inactive /\ free' = free /\ now' = now /\ stamp' = stamp
      /\ running' = running
  BY <1>1 DEF lists
<1>3. Ref = frozen /\ Ref' = now /\ now \in Nat /\ frozen \in Nat
  BY <1>1, <1>2, StateFacts DEF Ref
<1>4. OnTime /\ Kept /\ QueueOK(head, tm) /\ Settled(head, tm)
  BY <1>1 DEF TimerInv
<1>5. d \in Nat /\ d <= MaxFreeze /\ MaxFreeze \in Nat /\ MaxLate \in Nat /\ TIMER_MAX \in Nat
  BY <1>3, <1>4, BoundsAssumption, HalfAssumption DEF OnTime, TIMER_MAX
<1>6. \A s \in All : Active(s) <=> s \in ToSet(head)
  BY StateFacts, ContainsElement DEF Active
<1>7. tm \in [All -> Slot] /\ head \in Seq(All) /\ OVF \in ToSet(head) /\ ToSet(head) \subseteq All
      /\ \A a \in All : tm[a].mark \in Nat /\ tm[a] \in Slot
  BY StateFacts
<1>8. ASSUME NEW a \in All
      PROVE  /\ tm'[a] \in Slot /\ tm'[a].overflow = tm[a].overflow /\ tm'[a].kind = tm[a].kind
             /\ tm'[a].period = tm[a].period
             /\ a \in ToSet(head) => tm'[a].mark = tm[a].mark + d
             /\ a \notin ToSet(head) => tm'[a] = tm[a]
  <2>1. CASE a \in ToSet(head)
    <3>1. tm'[a] = [tm[a] EXCEPT !.mark = tm[a].mark + now - frozen]
      BY <2>1, <1>1, <1>6
    <3>2. tm[a] \in Slot /\ tm[a].mark + now - frozen = tm[a].mark + d /\ tm[a].mark + d \in Nat
      BY <1>3, <1>5, <1>7
    <3> HIDE DEF d
    <3> QED BY <3>1, <3>2, <2>1 DEF Slot
  <2>2. CASE a \notin ToSet(head)
    <3>1. tm'[a] = tm[a]
      BY <2>2, <1>1, <1>6
    <3> QED BY <3>1, <2>2, <1>7
  <2> QED BY <2>1, <2>2
<1>9. tm' \in [All -> Slot]
  BY <1>1, <1>8
<1> HIDE DEF d
<1>10. QueueOK(head', tm') /\ Settled(head', tm')
  <2>1. \A a \in ToSet(head) : tm'[a].mark = tm[a].mark + d /\ tm'[a].overflow = tm[a].overflow
    BY <1>7, <1>8
  <2> QED BY <2>1, <1>2, <1>4, <1>5, <1>7, <1>9, MovedQueue
<1>11. TypeOK'
  <2>1. frozen' \in 0 .. MaxTime /\ pc' \in Points
    BY <1>1, BoundsAssumption DEF Points
  <2>2. TypeOK
    BY DEF TimerInv
  <2> QED BY <1>2, <1>9, <2>1, <2>2 DEF TypeOK, Slot
<1>12. SlotsAccounted'
  BY <1>2 DEF TimerInv, SlotsAccounted, Active
<1>13. Kept'
  <2>1. \A a \in ToSet(inactive) : a \in All /\ a \notin ToSet(head)
    BY StateFacts
  <2>2. \A a \in ToSet(inactive') : ~tm'[a].overflow /\ tm'[a].kind # "shot"
    BY <1>2, <1>4, <1>8, <2>1 DEF Kept
  <2>3. \A a \in ToSet(head') : tm'[a].kind # "shot" => tm'[a].period > 0
    BY <1>2, <1>4, <1>7, <1>8 DEF Kept
  <2> QED BY <1>4, <1>7, <1>8, <2>2, <2>3 DEF Kept
<1>14. now = Ref + d
  BY <1>3 DEF d
<1>15. OnTime'
  <2>1. ASSUME NEW a \in ToSet(head) PROVE now <= tm'[a].mark + MaxLate
    <3>1. Ref <= tm[a].mark + MaxLate /\ tm'[a].mark = tm[a].mark + d /\ tm[a].mark \in Nat
      BY <1>4, <1>7, <1>8 DEF OnTime
    <3> QED BY <3>1, <1>3, <1>5, <1>14
  <2>2. tm'[OVF].mark <= now + TIMER_MAX
    <3>1. tm[OVF].mark <= Ref + TIMER_MAX /\ tm'[OVF].mark = tm[OVF].mark + d /\ tm[OVF].mark \in Nat
      BY <1>4, <1>7, <1>8 DEF OnTime
    <3> QED BY <3>1, <1>3, <1>5, <1>14
  <2> QED BY <2>1, <2>2, <1>2, <1>3, <1>5 DEF OnTime
<1>16. StampKept'
  <2>1. PICK t \in Int : StampAt(t)
    BY <1>1 DEF TimerInv, StampKept
  <2>2. stamp = Low(t) /\ t <= Ref + TIMER_MAX /\ (\A s \in ToSet(head) : t <= tm[s].mark)
        /\ Ref - MaxLate <= t
    BY <1>1, <2>1 DEF StampAt
  <2>3. t <= now + TIMER_MAX /\ now - (MaxLate + MaxFreeze) <= t
    BY <1>3, <1>5, <1>14, <2>2
  <2>4. ASSUME NEW a \in ToSet(head) PROVE t <= tm'[a].mark
    <3>1. t <= tm[a].mark /\ tm'[a].mark = tm[a].mark + d /\ tm[a].mark \in Nat
      BY <1>7, <1>8, <2>2
    <3> QED BY <3>1, <1>5
  <2>5. StampAt(t)'
    BY <1>1, <1>2, <1>3, <2>2, <2>3, <2>4 DEF StampAt
  <2> QED BY <2>5 DEF StampKept
<1> QED BY <1>10, <1>11, <1>12, <1>13, <1>15, <1>16 DEF TimerInv

LEMMA TickKeeps ==
  ASSUME TimerInv, MaxLate + MaxFreeze <= TIMER_MAX, Tick
  PROVE  TimerInv'
<1>1. /\ now < MaxTime /\ now' = now + 1
      /\ IF pc = "frozen"
         THEN now < frozen + MaxFreeze
         ELSE /\ pc = "guest" => Signed(Low(now) - stamp) < MaxLate
              /\ \A i \in 1..Len(head) : now < tm[head[i]].mark + MaxLate
      /\ UNCHANGED <<tm, lists, stamp, pc, running, frozen>>
  BY DEF Tick
<1>2. tm' = tm /\ head' = head /\ inactive' = inactive /\ free' = free /\ stamp' = stamp
      /\ pc' = pc /\ running' = running /\ frozen' = frozen
  BY <1>1 DEF lists
<1>3. /\ now \in Nat /\ frozen \in Nat /\ MaxTime \in Nat /\ MaxLate \in Nat /\ MaxFreeze \in Nat
      /\ TIMER_MAX \in Nat /\ head \in Seq(All) /\ OVF \in ToSet(head) /\ ToSet(head) \subseteq All
      /\ \A a \in All : tm[a].mark \in Nat
  BY StateFacts, BoundsAssumption, HalfAssumption DEF TIMER_MAX
<1>4. TypeOK'
  BY <1>1, <1>2, <1>3 DEF TimerInv, TypeOK
<1>5. SlotsAccounted' /\ Kept'
  BY <1>2 DEF TimerInv, SlotsAccounted, Active, Kept
<1>6. QueueOK(head', tm') /\ (pc' # "handler" \/ running' # OVF => Settled(head', tm'))
  BY <1>2 DEF TimerInv
<1>7. CASE pc = "frozen"
  <2>1. Ref = frozen /\ Ref' = frozen
    BY <1>2, <1>7 DEF Ref
  <2>2. OnTime'
    BY <1>1, <1>2, <1>3, <1>7, <2>1 DEF TimerInv, OnTime
  <2>3. StampKept'
    BY <1>2, <1>7, <2>1 DEF TimerInv, StampKept, StampAt
  <2> QED BY <1>4, <1>5, <1>6, <2>2, <2>3 DEF TimerInv
<1>8. CASE pc # "frozen"
  <2>1. Ref = now /\ Ref' = now + 1
    BY <1>1, <1>2, <1>8 DEF Ref
  <2>2. \A a \in ToSet(head) : now < tm[a].mark + MaxLate
    <3>1. \A a \in ToSet(head) : \E i \in 1 .. Len(head) : head[i] = a
      BY <1>3, Elements
    <3> QED BY <3>1, <1>1, <1>8
  <2>3. OnTime'
    <3>1. \A a \in ToSet(head) : now + 1 <= tm[a].mark + MaxLate
      BY <1>3, <2>2
    <3>2. tm[OVF].mark <= now + 1 + TIMER_MAX
      <4>1. tm[OVF].mark <= now + TIMER_MAX /\ tm[OVF].mark \in Nat
        BY <1>3, <2>1 DEF TimerInv, OnTime
      <4> QED BY <4>1, <1>3
    <3> QED BY <3>1, <3>2, <1>1, <1>2, <1>3, <2>1 DEF OnTime
  <2>4. StampKept'
    <3> SUFFICES ASSUME pc = "guest" PROVE \E t \in Int : StampAt(t)'
      BY <1>2, <1>8 DEF StampKept
    <3>1. PICK t \in Int : StampAt(t)
      BY DEF TimerInv, StampKept
    <3>2. now - t < MaxLate
      BY <1>1, <3>1, StampExact
    <3>3. stamp = Low(t) /\ t <= now + TIMER_MAX /\ \A s \in ToSet(head) : t <= tm[s].mark
      BY <2>1, <3>1 DEF StampAt
    <3>4. t <= now + 1 + TIMER_MAX /\ now + 1 - (MaxLate + MaxFreeze) <= t
      BY <1>3, <3>2, <3>3
    <3>5. StampAt(t)'
      <4>0. pc' = "guest" /\ Ref' = now + 1
        BY <1>2, <2>1
      <4>1. Ref' - (IF pc' = "guest" THEN MaxLate + MaxFreeze ELSE MaxLate) <= t
        BY <1>3, <3>4, <4>0
      <4>2. t <= Ref' + TIMER_MAX /\ stamp' = Low(t)
        BY <1>2, <2>1, <3>3, <3>4
      <4>3. \A s \in ToSet(head') : t <= tm'[s].mark
        BY <1>2, <3>3
      <4> QED BY <4>1, <4>2, <4>3 DEF StampAt
    <3> QED BY <3>5
  <2> QED BY <1>4, <1>5, <1>6, <2>3, <2>4 DEF TimerInv
<1> QED BY <1>7, <1>8
-----------------------------------------------------------------------------
(* The first state: the overflow timer alone is active.                      *)
LEMMA FreeList ==
  /\ SetToSeq(Slots) \in Seq(Slots) /\ IsInjective(SetToSeq(Slots))
  /\ ToSet(SetToSeq(Slots)) = Slots
<1> DEFINE n == Cardinality(Slots)
<1> DEFINE f == SetToSeq(Slots)
<1>1. IsFiniteSet(Slots)
  BY SlotsAssumption
<1>2. n \in Nat /\ ExistsBijection(1 .. n, Slots)
  BY <1>1, FS_CardinalityType
<1>3. \E g \in [1 .. n -> Slots] : IsInjective(g)
  BY <1>2 DEF ExistsBijection, Bijection, Injection
<1>4. f \in [1 .. n -> Slots] /\ IsInjective(f)
  BY <1>3 DEF SetToSeq
<1> HIDE DEF f
<1>5. f \in Injection(1 .. n, Slots)
  BY <1>4 DEF Injection
<1>6. Cardinality(1 .. n) = n
  <2>1. IsFiniteSet(1 .. n) /\ Cardinality(1 .. n) = IF 1 > n THEN 0 ELSE n - 1 + 1
    BY <1>2, FS_Interval
  <2> QED BY <1>2, <2>1
<1>7. f \in Surjection(1 .. n, Slots)
  <2>1. Cardinality(1 .. n) = Cardinality(Slots) <=> f \in Surjection(1 .. n, Slots)
    BY <1>1, <1>5, FS_Injection
  <2> QED BY <1>6, <2>1
<1>8. \A x \in Slots : \E i \in 1 .. n : f[i] = x
  BY <1>7 DEF Surjection
<1>9. f \in Seq(Slots) /\ Len(f) = n
  BY <1>2, <1>4
<1>10. \A x : x \in ToSet(f) <=> \E i \in 1 .. n : f[i] = x
  BY <1>9, Elements
<1>11. ToSet(f) \subseteq Slots
  BY <1>9, Elements
<1> QED BY <1>4, <1>8, <1>9, <1>10, <1>11 DEF f

LEMMA InitHolds == Init => TimerInv
<1> SUFFICES ASSUME Init PROVE TimerInv
  OBVIOUS
<1>1. /\ now = Start /\ head = <<OVF>> /\ inactive = <<>> /\ free = SetToSeq(Slots)
      /\ stamp = Low(Start + TIMER_MAX) /\ pc = "guest" /\ running = OVF /\ frozen = 0
  BY DEF Init
<1>2. Start \in Nat /\ MaxTime \in Nat /\ Start <= MaxTime /\ MaxLate \in Nat /\ MaxFreeze \in Nat
      /\ TIMER_MAX \in Nat /\ TIMER_MAX > 0 /\ Start + TIMER_MAX \in Nat
  BY BoundsAssumption, HalfAssumption DEF TIMER_MAX
<1>3. /\ tm \in [All -> Slot] /\ tm[OVF].mark = Start + TIMER_MAX /\ ~tm[OVF].overflow
      /\ tm[OVF].kind = "auto" /\ tm[OVF].period = TIMER_MAX
  <2>1. [mark |-> Start + TIMER_MAX, overflow |-> FALSE, kind |-> "auto", period |-> TIMER_MAX] \in Slot
    BY <1>2 DEF Slot, Kinds
  <2>2. Unused \in Slot
    BY DEF Unused, Slot, Kinds
  <2>3. OVF \in All
    BY DEF All
  <2> QED BY <2>1, <2>2, <2>3 DEF Init
<1>4. /\ head \in Seq(All) /\ IsInjective(head) /\ ToSet(head) = {OVF} /\ Len(head) = 1 /\ head[1] = OVF
  <2>1. OVF \in All
    BY DEF All
  <2>2. head \in Seq(All) /\ Len(head) = 1 /\ head[1] = OVF
    BY <1>1, <2>1
  <2>3. \A i \in 1 .. Len(head) : i = 1
    BY <2>2
  <2>4. 1 \in 1 .. Len(head)
    BY <2>2
  <2>5. IsInjective(head)
    BY <2>2, <2>3, Elements
  <2>6. \A x : x \in ToSet(head) <=> \E i \in 1 .. Len(head) : head[i] = x
    BY <2>2, Elements
  <2> QED BY <2>2, <2>3, <2>4, <2>5, <2>6
<1>5. inactive \in Seq(Slots) /\ IsInjective(inactive) /\ ToSet(inactive) = {}
  <2>1. inactive \in Seq(Slots) /\ Len(inactive) = 0
    BY <1>1
  <2>2. \A i : i \notin 1 .. Len(inactive)
    BY <2>1
  <2>3. IsInjective(inactive)
    BY <2>1, <2>2, Elements
  <2>4. \A x : x \in ToSet(inactive) <=> \E i \in 1 .. Len(inactive) : inactive[i] = x
    BY <2>1, Elements
  <2> QED BY <2>1, <2>2, <2>3, <2>4
<1>6. free \in Seq(Slots) /\ IsInjective(free) /\ ToSet(free) = Slots
  BY <1>1, FreeList
<1>7. TypeOK
  <2>0. Start + TIMER_MAX \in Int
    BY <1>2
  <2>1. stamp \in 0 .. M - 1
    BY <1>1, <2>0, LowRange
  <2> QED BY <1>1, <1>2, <1>3, <1>4, <1>5, <1>6, <2>1 DEF TypeOK, Slot, Points, All
<1>8. SlotsAccounted
  <2>1. Active(OVF)
    BY <1>4, ContainsElement DEF Active
  <2> QED BY <2>1, <1>4, <1>5, <1>6, SlotsAssumption DEF SlotsAccounted, All
<1>9. \A a, b : ~InFront(head, a, b)
  BY <1>4 DEF InFront
<1>10. QueueOK(head, tm)
  <2>1. Listed(head, tm)
    BY <1>3, <1>4 DEF Listed
  <2>2. InReach(head, tm)
    BY <1>2, <1>3, <1>4 DEF InReach
  <2>3. Ordered(head, tm) /\ NoneBehind(head, tm)
    BY <1>9 DEF Ordered, NoneBehind
  <2> QED BY <2>1, <2>2, <2>3 DEF QueueOK
<1>11. Settled(head, tm)
  BY <1>3, <1>4 DEF Settled
<1>12. Ref = Start
  BY <1>1 DEF Ref
<1>13. Kept
  BY <1>2, <1>3, <1>4, <1>5 DEF Kept
<1>14. OnTime
  BY <1>1, <1>2, <1>3, <1>4, <1>12 DEF OnTime
<1>15. StampKept
  <2>1. PICK t \in Int : t = Start + TIMER_MAX
    BY <1>2
  <2>2. StampAt(t)
    BY <2>1, <1>1, <1>2, <1>3, <1>4, <1>12 DEF StampAt
  <2> QED BY <2>2 DEF StampKept
<1> QED BY <1>7, <1>8, <1>10, <1>11, <1>13, <1>14, <1>15 DEF TimerInv

(* Every step keeps the invariant.                                           *)
LEMMA StepKeeps ==
  ASSUME Reprogram = FALSE, MaxLate + MaxFreeze <= TIMER_MAX, TimerInv, [Next]_vars
  PROVE  TimerInv'
<1>1. ASSUME NEW d \in Delays, abs_timer(d) PROVE TimerInv'
  BY <1>1, AbsTimerKeeps
<1>2. ASSUME NEW k \in {"auto", "manual"}, new_ptimer(k) PROVE TimerInv'
  BY <1>2, NewTimerKeeps
<1>3. ASSUME NEW s \in Slots, cancel_timer(s) PROVE TimerInv'
  BY <1>3, CancelTimerKeeps
<1>4. ASSUME NEW s \in Slots, resume_ptimer(s) PROVE TimerInv'
  BY <1>4, ResumeTimerKeeps
<1>5. ASSUME NEW s \in Slots, pause_ptimer(s) PROVE TimerInv'
  BY <1>5, PauseTimerKeeps
<1>6. ASSUME NEW s \in Slots, free_ptimer(s) PROVE TimerInv'
  BY <1>6, FreeTimerKeeps
<1>7. ASSUME NEW s \in Slots, NEW u \in Delays, set_ptimer(s, u) PROVE TimerInv'
  BY <1>7, SetTimerKeeps
<1>8. CASE rvec_timer
  BY <1>8, RvecTimerKeeps
<1>9. CASE Fire
  BY <1>9, OverflowFires, OtherFires
<1>10. CASE LoopDone
  BY <1>10, LoopDoneKeeps
<1>11. CASE HandlerReturns
  BY <1>11, HandlerReturnsKeeps
<1>12. CASE overflow_handler
  BY <1>12, OverflowHandlerKeeps
<1>13. CASE Freeze
  BY <1>13, FreezeKeeps
<1>14. CASE retune_timers
  BY <1>14, RetuneKeeps
<1>15. CASE Tick
  BY <1>15, TickKeeps
<1>16. CASE UNCHANGED vars
  <2>1. /\ now' = now /\ tm' = tm /\ head' = head /\ inactive' = inactive /\ free' = free
        /\ stamp' = stamp /\ pc' = pc /\ running' = running /\ frozen' = frozen
    BY <1>16 DEF vars
  <2>2. TypeOK' /\ SlotsAccounted' /\ QueueOK(head', tm')
    BY <2>1 DEF TimerInv, TypeOK, SlotsAccounted, Active
  <2>3. Ref' = Ref
    BY <2>1 DEF Ref
  <2>4. Kept' /\ OnTime'
    BY <2>1, <2>3 DEF TimerInv, Kept, OnTime
  <2>5. StampKept'
    BY <2>1, <2>3 DEF TimerInv, StampKept, StampAt
  <2>6. pc' # "handler" \/ running' # OVF => Settled(head', tm')
    BY <2>1 DEF TimerInv
  <2> QED BY <2>2, <2>4, <2>5, <2>6 DEF TimerInv
<1> QED BY <1>1, <1>2, <1>3, <1>4, <1>5, <1>6, <1>7, <1>8, <1>9, <1>10, <1>11, <1>12,
           <1>13, <1>14, <1>15, <1>16 DEF Next

(* The invariant says what the run checks.                                   *)
LEMMA InvariantOrders ==
  ASSUME TimerInv, MaxLate + MaxFreeze <= TIMER_MAX
  PROVE  ListsInOrder
<1>1. TypeOK /\ SlotsAccounted
  BY DEF TimerInv
<1>2. SortedByTime
  <2> SUFFICES ASSUME NEW i \in 1 .. Len(head), NEW j \in 1 .. Len(head), i < j,
                      ~tm[head[i]].overflow, ~tm[head[j]].overflow
               PROVE  tm[head[i]].mark <= tm[head[j]].mark
    BY DEF SortedByTime
  <2>1. InFront(head, head[i], head[j])
    BY DEF InFront
  <2>2. head \in Seq(All) /\ tm \in [All -> Slot] /\ QueueOK(head, tm)
    BY StateFacts DEF TimerInv
  <2>3. head[i] \in ToSet(head) /\ head[j] \in ToSet(head)
    BY <2>2, Elements
  <2> QED BY <2>1, <2>2, <2>3, SortedMarks
<1>3. StampNotLate
  <2> SUFFICES ASSUME pc = "guest"
               PROVE  Signed(stamp - Low(now)) <= 0 \/ now + Signed(stamp - Low(now)) <= tm[head[1]].mark
    BY DEF StampNotLate
  <2>1. PICK t \in Int : StampAt(t)
    BY DEF TimerInv, StampKept
  <2>2. Signed(stamp - Low(now)) = t - now /\ now \in Int
    BY <2>1, StampExact
  <2>3. head[1] \in ToSet(head)
    <3>1. QueueOK(head, tm) /\ Settled(head, tm)
      BY DEF TimerInv
    <3> QED BY <3>1, StateFacts, FirstEarliest
  <2>4. t <= tm[head[1]].mark
    BY <2>1, <2>3 DEF StampAt
  <2> QED BY <2>2, <2>4
<1> QED BY <1>1, <1>2, <1>3 DEF ListsInOrder

-----------------------------------------------------------------------------
(* Every slot is on exactly one of timer.c's lists, the active timers that do *)
(* not wait for overflow_handler() are sorted by time although only the low   *)
(* words are compared, and the kernel's stamp is never later than the first   *)
(* timer: for any number of slots, any width of the low word and any delays,  *)
(* if no caller sets or pauses a timer that waits, and the stops in the       *)
(* debugger with the lateness of the interrupt stay within half the range.   *)
THEOREM TimerListsInOrder ==
  ASSUME Reprogram = FALSE, MaxLate + MaxFreeze <= TIMER_MAX
  PROVE  Spec => []ListsInOrder
<1>1. Init => TimerInv
  BY InitHolds
<1>2. TimerInv /\ [Next]_vars => TimerInv'
  BY StepKeeps
<1>3. TimerInv => ListsInOrder
  BY InvariantOrders
<1> QED BY <1>1, <1>2, <1>3, PTL DEF Spec

(* rvec_timer() never calls a handler before its time, and never returns to   *)
(* the guest with an expired timer first in line, under the same conditions. *)
THEOREM TimersFireOnTime ==
  ASSUME Reprogram = FALSE, MaxLate + MaxFreeze <= TIMER_MAX
  PROVE  Spec => FiresOnTime
<1>1. Init => TimerInv
  BY InitHolds
<1>2. TimerInv /\ [Next]_vars => TimerInv'
  BY StepKeeps
<1> DEFINE Early == pc = "loop" /\ pc' = "handler" => now >= tm[head[1]].mark
<1> DEFINE Left == pc = "loop" /\ pc' = "guest" => tm[head[1]].mark > now
<1>3. TimerInv /\ [Next]_vars => [Early]_vars /\ [Left]_vars
  <2> SUFFICES ASSUME TimerInv, Next, pc = "loop"
               PROVE  /\ pc' = "handler" => now >= tm[head[1]].mark
                      /\ pc' = "guest" => tm[head[1]].mark > now
    OBVIOUS
  <2>1. CASE Fire
    BY <2>1, FirstExpired DEF Fire
  <2>2. CASE LoopDone
    BY <2>2, LoopDoneKeeps DEF LoopDone
  <2>3. CASE ~Fire /\ ~LoopDone
    <3>1. pc' = "loop"
      BY <2>3 DEF Next, abs_timer, new_ptimer, cancel_timer, resume_ptimer, pause_ptimer,
                  free_ptimer, set_ptimer, rvec_timer, HandlerReturns, overflow_handler,
                  Freeze, retune_timers, Tick, main
    <3> QED BY <3>1
  <2> QED BY <2>1, <2>2, <2>3
<1>4. Spec => [][Early]_vars /\ [][Left]_vars
  <2> HIDE DEF Early, Left
  <2> QED BY <1>1, <1>2, <1>3, PTL DEF Spec
<1> QED BY <1>4 DEF FiresOnTime, NeverEarly, NothingExpiredLeft
=============================================================================
