---------------------------- MODULE MemoryProofs ----------------------------
(***************************************************************************)
(* Proofs about what the kernel module remembers of the guest's memory: the  *)
(* dirty lines of the frame buffer (module FbLines), for any video modes,    *)
(* any aliases and any hash table, and the block translations (IoSpace).     *)
(***************************************************************************)
EXTENDS FbLines, IoSpace, FiniteSetTheorems, TLAPS

(* Every nonempty set of naturals has a least element.  The library proves    *)
(* it for a predicate as a parameter, which no prover here can instantiate;   *)
(* it follows as well from the ordering of finite sets by inclusion, applied   *)
(* to the intervals 0 .. x.                                                   *)
LEMMA LeastNatural ==
  ASSUME NEW T, T \subseteq Nat, T # {}
  PROVE  \E x \in T : \A y \in T : x <= y
<1> DEFINE D == {0 .. x : x \in T}
<1>1. D \subseteq FiniteSubsetsOf(Nat)
  <2> SUFFICES ASSUME NEW x \in T PROVE 0 .. x \in FiniteSubsetsOf(Nat)
    OBVIOUS
  <2>1. x \in Nat /\ 0 .. x \subseteq Nat
    OBVIOUS
  <2> QED BY <2>1, FS_Interval DEF FiniteSubsetsOf
<1>2. D # {}
  OBVIOUS
<1>3. IsWellFoundedOn(StrictSubsetOrdering(Nat), FiniteSubsetsOf(Nat))
  BY FS_StrictSubsetOrderingWellFounded
<1>4. PICK d \in D : \A e \in D : <<e, d>> \notin StrictSubsetOrdering(Nat)
  BY <1>1, <1>2, <1>3, WFMin, Zenon
<1>5. PICK x \in T : d = 0 .. x
  OBVIOUS
<1>6. ASSUME NEW y \in T, y < x PROVE FALSE
  <2>1. 0 .. y \in D /\ 0 .. y \subseteq 0 .. x /\ 0 .. y # 0 .. x /\ 0 .. x \subseteq Nat
    BY <1>6
  <2> QED BY <1>4, <1>5, <2>1 DEF StrictSubsetOrdering
<1> QED BY <1>6

(* Min of such a set is its least element.                                    *)
LEMMA MinNatural ==
  ASSUME NEW T, T \subseteq Nat, T # {}
  PROVE  Min(T) \in T /\ \A y \in T : Min(T) <= y
BY LeastNatural DEF Min

(* The larger and the smaller of two numbers.                                 *)
LEMMA MaxOfTwo ==
  ASSUME NEW a \in Int, NEW b \in Int
  PROVE  Max({a, b}) \in {a, b} /\ Max({a, b}) >= a /\ Max({a, b}) >= b
BY DEF Max

LEMMA MinOfTwo ==
  ASSUME NEW a \in Int, NEW b \in Int
  PROVE  Min({a, b}) \in {a, b} /\ Min({a, b}) <= a /\ Min({a, b}) <= b
BY DEF Min

-----------------------------------------------------------------------------
(* The rows of a page, as setup_fb_acceleration() computes them.              *)

(* The first line that is recorded for a page is not behind any line that     *)
(* touches the page.                                                         *)
LEMMA FirstLineBelow ==
  ASSUME NEW m \in FbModes, NEW i \in Nat, NEW y \in Nat,
         m.offs + (y + 1) * m.bpr > PageBytes * i
  PROVE  FirstLine(m, i) \in Int /\ FirstLine(m, i) <= y
<1> DEFINE a == PageBytes * i - m.offs
<1>1. m.bpr \in Nat \ {0} /\ m.offs \in Int /\ PageBytes \in Nat /\ PageBytes * i \in Int
  BY FbAssumption
<1>2. a \in Int /\ (y + 1) * m.bpr > a
  BY <1>1
<1> HIDE DEF a
<1> DEFINE q == a \div m.bpr
<1>3. q \in Int /\ q <= y
  BY <1>1, <1>2
<1> HIDE DEF q
<1>4. Max({0, q}) \in {0, q}
  <2>1. 0 \in Int
    OBVIOUS
  <2> QED BY <1>3, <2>1, MaxOfTwo, Zenon
<1>5. Max({0, q}) \in Int /\ Max({0, q}) <= y
  BY <1>3, <1>4
<1> QED BY <1>5 DEF FirstLine, q, a

(* The last line that is recorded for a page, or for a later page, is not      *)
(* before any line that touches the page.                                     *)
LEMMA LastLineAbove ==
  ASSUME NEW m \in FbModes, NEW i \in Nat, NEW j \in Nat, i <= j,
         NEW y \in 0 .. m.height - 1, m.offs + y * m.bpr < PageBytes * (i + 1)
  PROVE  LastLine(m, j) \in Int /\ y <= LastLine(m, j)
<1> DEFINE a == PageBytes * (j + 1) - 1 - m.offs
<1>1. /\ m.bpr \in Nat \ {0} /\ m.offs \in Int /\ m.height \in Nat \ {0}
      /\ PageBytes \in Nat \ {0} /\ PageBytes * (j + 1) \in Int /\ y * m.bpr \in Int
  BY FbAssumption
<1>2. PageBytes * (i + 1) <= PageBytes * (j + 1) /\ PageBytes * (i + 1) \in Int
  BY <1>1
<1>3. a \in Int /\ y * m.bpr <= a
  BY <1>1, <1>2
<1> HIDE DEF a
<1> DEFINE q == a \div m.bpr
<1>4. q \in Int /\ y <= q
  BY <1>1, <1>3
<1> HIDE DEF q
<1>5. Min({m.height - 1, q}) \in {m.height - 1, q}
  <2>1. m.height - 1 \in Int
    BY <1>1
  <2> QED BY <1>4, <2>1, MinOfTwo, Zenon
<1>6. Min({m.height - 1, q}) \in Int /\ y <= Min({m.height - 1, q})
  BY <1>1, <1>4, <1>5
<1> QED BY <1>6 DEF LastLine, q, a

-----------------------------------------------------------------------------
(* The frame buffer keeps its types, for any modes, aliases and slots.        *)
THEOREM FbTypeCorrect == FbSpec => []FbTypeOK
<1> USE FbAssumption
<1> DEFINE Pte == [ea : FbEas \cup {NoEa}, c : BOOLEAN, w : BOOLEAN]
           Rec == [slot : FbSlots \cup {NoSlot}, ea : FbEas \cup {NoEa}, dirty : BOOLEAN]
<1>n. NoPte \in Pte /\ NoEntry \in Rec
  BY DEF NoPte, NoEntry
<1>1. FbInit => FbTypeOK
  BY <1>n DEF FbInit, FbTypeOK, StartMode, FreshTable, FbPages
<1>2. FbTypeOK /\ [FbNext]_fbVars => FbTypeOK'
  <2> SUFFICES ASSUME FbTypeOK, [FbNext]_fbVars PROVE FbTypeOK'
    OBVIOUS
  <2>1. ASSUME NEW ea \in FbEas, NEW write \in BOOLEAN, Fault(ea, write) PROVE FbTypeOK'
    <3> USE <2>1 DEF Fault
    <3>1. PICK s \in SlotsFor(ea) :
            /\ fbTable' = video_pte_inserted(ea, s)
            /\ fbHash' = [OldSlotCleared(ea, s) EXCEPT ![s] =
                  [ea |-> ea, c |-> write \/ ea.bat \/ ea \in fbGuestC, w |-> write]]
      OBVIOUS
    <3>2. s \in FbSlots
      BY DEF SlotsFor
    <3>3. FbPages' = FbPages /\ fbMode' \in FbModes
      BY DEF FbPages, FbTypeOK
    <3>4. fbTable' \in [FbPages -> Rec]
      <4>1. (fbTable[ea.page].dirty \/ Replaced(ea, s)) \in BOOLEAN
        BY DEF FbTypeOK, Replaced
      <4>2. [slot |-> s, ea |-> ea, dirty |-> fbTable[ea.page].dirty \/ Replaced(ea, s)] \in Rec
        BY <3>2, <4>1
      <4> QED BY <3>1, <4>2 DEF FbTypeOK, video_pte_inserted
    <3>5. fbHash' \in [FbSlots -> Pte]
      <4>1. OldSlotCleared(ea, s) \in [FbSlots -> Pte]
        BY <1>n DEF FbTypeOK, OldSlotCleared
      <4>2. (write \/ ea.bat \/ ea \in fbGuestC) \in BOOLEAN
        OBVIOUS
      <4>3. [ea |-> ea, c |-> write \/ ea.bat \/ ea \in fbGuestC, w |-> write] \in Pte
        BY <4>2
      <4> QED BY <3>1, <3>2, <4>1, <4>3
    <3>6. fbGuestC' \subseteq FbEas /\ fbWrites' \in 0 .. MaxFbWrites
      BY DEF FbTypeOK
    <3> QED BY <3>3, <3>4, <3>5, <3>6 DEF FbTypeOK
  <2>2. ASSUME NEW s \in FbSlots, PteLost(s) PROVE FbTypeOK'
    BY <1>n, <2>2 DEF FbTypeOK, PteLost, FbPages
  <2>3. ASSUME NEW s \in FbSlots, NEW y \in 0 .. fbMode.height - 1, GuestWrites(s, y) PROVE FbTypeOK'
    <3>1. [fbHash[s] EXCEPT !.c = TRUE] \in Pte
      BY DEF FbTypeOK
    <3>2. fbHash' \in [FbSlots -> Pte]
      BY <2>3, <3>1 DEF FbTypeOK, GuestWrites
    <3> QED BY <2>3, <3>2 DEF FbTypeOK, GuestWrites, FbPages
  <2>4. CASE get_dirty_fb_lines
    <3>r. ASSUME NEW i \in FbPages
          PROVE  fbTable[i] \in Rec /\ [fbTable[i] EXCEPT !.dirty = FALSE] \in Rec
      BY DEF FbTypeOK
    <3>h. ASSUME NEW s \in FbSlots
          PROVE  fbHash[s] \in Pte /\ [fbHash[s] EXCEPT !.c = FALSE] \in Pte
      BY DEF FbTypeOK
    <3> USE <2>4 DEF get_dirty_fb_lines
    <3>1. FbPages' = FbPages /\ fbMode' \in FbModes
      BY DEF FbPages, FbTypeOK
    <3>2. fbTable' \in [FbPages -> Rec]
      <4> HIDE DEF Rec
      <4> QED BY <1>n, <3>r
    <3>3. fbHash' \in [FbSlots -> Pte]
      <4> HIDE DEF Pte
      <4> QED BY <3>h
    <3>4. fbGuestC' \subseteq FbEas /\ fbWrites' \in 0 .. MaxFbWrites
      BY DEF FbTypeOK
    <3> QED BY <3>1, <3>2, <3>3, <3>4 DEF FbTypeOK
  <2>5. ASSUME NEW m \in FbModes, SetVmode(m) PROVE FbTypeOK'
    BY <1>n, <2>5 DEF FbTypeOK, SetVmode, FreshTable, FbPages
  <2>6. CASE UNCHANGED fbVars
    BY <2>6 DEF FbTypeOK, fbVars, FbPages
  <2> QED BY <2>1, <2>2, <2>3, <2>4, <2>5, <2>6 DEF FbNext
<1> QED BY <1>1, <1>2, PTL DEF FbSpec

-----------------------------------------------------------------------------
(* Why nothing goes unseen.  An entry of the hash table is the one its page's  *)
(* record names, and a record names an address of its own page, so that a      *)
(* slot that now holds another page's entry counts as evicted.                 *)
Recorded ==
    \A s \in FbSlots :
        \/ fbHash[s] = NoPte
        \/ LET e == fbHash[s].ea
           IN  e \in FbEas /\ e.page \in FbPages /\ fbTable[e.page].slot = s /\ fbTable[e.page].ea = e
RecordsOwnPage ==
    \A i \in FbPages : fbTable[i].slot # NoSlot => fbTable[i].ea \in FbEas /\ fbTable[i].ea.page = i

(* A page can be written through an entry only after a write fault, which left *)
(* the C bit in the guest's page table (or a BAT needs none): an entry that is  *)
(* lost and inserted again for a read has its C bit set.                       *)
Sticky(e, marked) == e.bat \/ e \in marked
WritableIsSticky == \A s \in FbSlots : fbHash[s].w => Sticky(fbHash[s].ea, fbGuestC)
UnseenIsSticky ==
    \A u \in fbUnseen : \/ fbTable[u[2]].dirty
                        \/ fbTable[u[2]].slot # NoSlot /\ Sticky(fbTable[u[2]].ea, fbGuestC)

(* What was written is on a line that touches the page.                        *)
UnseenOnPage ==
    \A u \in fbUnseen : u[2] \in FbPages /\ u[1] \in LinesOf(u[2])

FbInv == /\ FbTypeOK /\ Recorded /\ RecordsOwnPage /\ WritableIsSticky
         /\ UnseenIsSticky /\ UnseenOnPage /\ NothingUnseen

(* A fault preserves the invariant: the record of its page names the new       *)
(* entry, the former slot is cleared, and every other page whose slot is taken  *)
(* counts as evicted.                                                          *)
LEMMA FaultKeeps ==
  ASSUME FbInv, NEW ea \in FbEas, NEW write \in BOOLEAN, Fault(ea, write)
  PROVE  /\ Recorded' /\ RecordsOwnPage' /\ WritableIsSticky'
         /\ UnseenIsSticky' /\ UnseenOnPage' /\ NothingUnseen'
<1> DEFINE p == ea.page
           new == [ea |-> ea, c |-> write \/ ea.bat \/ ea \in fbGuestC, w |-> write]
<1>1. /\ p \in FbPages /\ FbPages' = FbPages
      /\ fbMode' = fbMode /\ fbUnseen' = fbUnseen
      /\ fbGuestC \subseteq fbGuestC' /\ (write => Sticky(ea, fbGuestC'))
      /\ ~\E t \in FbSlots : fbHash[t].ea = ea /\ (write => fbHash[t].w)
  BY DEF Fault, FbPages, Sticky
<1>2. PICK s \in FbSlots : /\ fbTable' = video_pte_inserted(ea, s)
                           /\ fbHash' = [OldSlotCleared(ea, s) EXCEPT ![s] = new]
  BY DEF Fault, SlotsFor
<1>n. NoEa \notin FbEas /\ NoSlot \notin FbSlots /\ NoPte.ea = NoEa /\ NoPte.w = FALSE /\ ea # NoEa
  BY FbAssumption DEF NoEa, NoPte
<1>3. /\ fbTable'[p].slot = s /\ fbTable'[p].ea = ea
      /\ fbTable'[p].dirty <=> fbTable[p].dirty \/ Replaced(ea, s)
      /\ \A i \in FbPages : i # p => fbTable'[i] = fbTable[i]
  BY <1>1, <1>2 DEF FbInv, FbTypeOK, video_pte_inserted
<1>4. /\ fbHash'[s] = new /\ new.ea = ea /\ new.w = write
      /\ new.c = (write \/ ea.bat \/ ea \in fbGuestC)
      /\ \A t \in FbSlots : t # s => fbHash'[t] = IF t = fbTable[p].slot THEN NoPte ELSE fbHash[t]
  BY <1>1, <1>2, <1>n DEF FbInv, FbTypeOK, OldSlotCleared
<1> HIDE DEF new, p
<1>5. Recorded'
  <2> SUFFICES ASSUME NEW t \in FbSlots, fbHash'[t] # NoPte
               PROVE  LET e == fbHash'[t].ea
                      IN  /\ e \in FbEas /\ e.page \in FbPages
                          /\ fbTable'[e.page].slot = t /\ fbTable'[e.page].ea = e
    BY <1>1 DEF Recorded
  <2>1. CASE t = s
    BY <1>1, <1>3, <1>4, <2>1 DEF p
  <2>2. CASE t # s
    <3>1. t # fbTable[p].slot /\ fbHash'[t] = fbHash[t] /\ fbHash[t] # NoPte
      BY <1>4, <2>2
    <3>2. fbHash[t].ea \in FbEas /\ fbHash[t].ea.page \in FbPages
          /\ fbTable[fbHash[t].ea.page].slot = t /\ fbTable[fbHash[t].ea.page].ea = fbHash[t].ea
      BY <3>1 DEF FbInv, Recorded
    <3> QED BY <1>3, <3>1, <3>2
  <2> QED BY <2>1, <2>2
<1>6. RecordsOwnPage'
  BY <1>1, <1>3 DEF FbInv, RecordsOwnPage, p
<1>7. WritableIsSticky'
  <2> SUFFICES ASSUME NEW t \in FbSlots, fbHash'[t].w PROVE Sticky(fbHash'[t].ea, fbGuestC')
    BY DEF WritableIsSticky, Sticky
  <2>1. CASE t = s
    BY <1>1, <1>4, <2>1 DEF Sticky
  <2>2. CASE t # s
    BY <1>1, <1>4, <1>n, <2>2 DEF FbInv, WritableIsSticky, Sticky
  <2> QED BY <2>1, <2>2
<1>8. UnseenOnPage'
  BY <1>1 DEF FbInv, UnseenOnPage, LinesOf
<1>9. ASSUME NEW u \in fbUnseen
      PROVE  /\ fbTable'[u[2]].dirty \/ (fbTable'[u[2]].slot # NoSlot /\ Sticky(fbTable'[u[2]].ea, fbGuestC'))
             /\ IsDirty(u[2])'
  <2> DEFINE i == u[2]
  <2>1. i \in FbPages /\ (fbTable[i].dirty \/ (fbTable[i].slot # NoSlot /\ Sticky(fbTable[i].ea, fbGuestC)))
        /\ IsDirty(i)
    BY DEF FbInv, UnseenOnPage, UnseenIsSticky, NothingUnseen
  <2> HIDE DEF i
  <2>2. CASE i = p
    <3>1. CASE fbTable[p].dirty \/ Replaced(ea, s)
      BY <1>3, <2>2, <3>1 DEF IsDirty, i
    <3>2. CASE ~(fbTable[p].dirty \/ Replaced(ea, s))
      <4>1. fbTable[p].slot = s /\ fbTable[p].ea = ea /\ Sticky(ea, fbGuestC)
        BY <2>1, <2>2, <3>2 DEF Replaced, p
      <4>2. fbHash'[s].c /\ Sticky(ea, fbGuestC')
        BY <1>1, <1>4, <4>1 DEF Sticky
      <4> QED BY <1>3, <1>4, <1>n, <2>2, <4>2 DEF IsDirty, Changed, Evicted, i
    <3> QED BY <3>1, <3>2
  <2>3. CASE i # p
    <3>1. fbTable'[i] = fbTable[i]
      BY <1>3, <2>1, <2>3
    <3>2. CASE fbTable[i].dirty
      BY <3>1, <3>2 DEF IsDirty, i
    <3>3. CASE ~fbTable[i].dirty
      <4>1. /\ fbTable[i].slot # NoSlot /\ Sticky(fbTable[i].ea, fbGuestC) /\ Sticky(fbTable[i].ea, fbGuestC')
            /\ fbTable[i].slot \in FbSlots
            /\ fbTable[i].ea \in FbEas /\ fbTable[i].ea.page = i
        BY <1>1, <2>1, <3>3 DEF FbInv, FbTypeOK, RecordsOwnPage, Sticky
      <4> DEFINE t == fbTable[i].slot
      <4>2. CASE t = s \/ t = fbTable[p].slot
        <5>1. fbHash'[t].ea # fbTable[i].ea
          BY <1>4, <1>n, <2>3, <4>1, <4>2 DEF p
        <5> QED BY <3>1, <4>1, <5>1 DEF IsDirty, Evicted, i
      <4>3. CASE ~(t = s \/ t = fbTable[p].slot)
        <5>1. fbHash'[t] = fbHash[t]
          BY <1>4, <4>1, <4>3
        <5> QED BY <2>1, <3>1, <3>3, <4>1, <5>1 DEF IsDirty, Evicted, Changed, i
      <4> QED BY <4>2, <4>3
    <3> QED BY <3>2, <3>3
  <2> QED BY <2>2, <2>3
<1> QED BY <1>1, <1>5, <1>6, <1>7, <1>8, <1>9 DEF UnseenIsSticky, NothingUnseen

(* Every line that touches a dirty page the collection gets to is reported:     *)
(* it is between the first line of the page and the last one of the clean page  *)
(* that ends the pair, or of the buffer.                                        *)
LEMMA DirtyIsReported ==
  ASSUME FbTypeOK, NEW i \in Scanned, IsDirty(i), NEW y \in LinesOf(i)
  PROVE  y \in Reported
<1> DEFINE clean == {j \in FbPages : j > i /\ ~IsDirty(j)}
           last == IF clean = {} THEN NRec(fbMode) - 1 ELSE Min(clean)
<1>1. fbMode \in FbModes /\ i \in FbPages
  BY DEF FbTypeOK, Scanned
<1>r. NRec(fbMode) \in Int
  <2>1. /\ fbMode.bpr \in Nat /\ fbMode.height \in Nat /\ fbMode.offs \in Nat
        /\ PageBytes \in Nat \ {0}
    BY <1>1, FbAssumption
  <2> DEFINE bytes == fbMode.bpr * fbMode.height + fbMode.offs + PageBytes - 1
  <2>2. bytes \in Int
    BY <2>1
  <2> HIDE DEF bytes
  <2>3. bytes \div PageBytes \in Int
    BY <2>1, <2>2
  <2> QED BY <2>3 DEF NRec, bytes
<1>2. i \in Nat /\ FbPages \subseteq Nat /\ i <= NRec(fbMode) - 1
  BY <1>1, <1>r DEF FbPages
<1>3. last \in Nat /\ i <= last
  <2>1. CASE clean = {}
    BY <1>r, <1>2, <2>1
  <2>2. CASE clean # {}
    <3>1. clean \subseteq Nat
      BY <1>2
    <3>2. Min(clean) \in clean
      BY <2>2, <3>1, MinNatural
    <3>3. \A j \in clean : j \in Nat /\ i <= j
      BY <1>2
    <3> HIDE DEF clean
    <3>4. Min(clean) \in Nat /\ i <= Min(clean)
      BY <3>2, <3>3
    <3> USE DEF clean
    <3> QED BY <2>2, <3>4
  <2> QED BY <2>1, <2>2
<1>4. /\ y \in 0 .. fbMode.height - 1 /\ y \in Nat
      /\ fbMode.offs + y * fbMode.bpr < PageBytes * (i + 1)
      /\ fbMode.offs + (y + 1) * fbMode.bpr > PageBytes * i
  BY DEF LinesOf
<1>5. FirstLine(fbMode, i) \in Int /\ FirstLine(fbMode, i) <= y
  BY <1>1, <1>2, <1>4, FirstLineBelow
<1>6. LastLine(fbMode, last) \in Int /\ y <= LastLine(fbMode, last)
  <2> HIDE DEF last
  <2> QED BY <1>1, <1>2, <1>3, <1>4, LastLineAbove
<1>7. PairEnd(i) = LastLine(fbMode, last)
  BY DEF PairEnd
<1>8. y \in FirstLine(fbMode, i) .. PairEnd(i)
  BY <1>4, <1>5, <1>6, <1>7
<1> QED BY <1>8 DEF Reported

(* A collection preserves the invariant: what it forgets of a page is in its     *)
(* report, and a C bit that it clears is no other page's.                        *)
LEMMA CollectionKeeps ==
  ASSUME FbInv, get_dirty_fb_lines
  PROVE  /\ Recorded' /\ RecordsOwnPage' /\ WritableIsSticky'
         /\ UnseenIsSticky' /\ UnseenOnPage' /\ NothingUnseen'
<1> DEFINE Cleared(t) == \E i \in Scanned : fbTable[i].slot = t /\ Changed(i)
<1>1. fbMode' = fbMode /\ FbPages' = FbPages /\ fbGuestC' = fbGuestC
  BY DEF get_dirty_fb_lines, FbPages
<1>2. fbUnseen' = {u \in fbUnseen : u[1] \notin Reported}
  BY DEF get_dirty_fb_lines
<1>3. ASSUME NEW i \in FbPages
      PROVE  fbTable'[i] = IF i \in Scanned
                           THEN IF Evicted(i) THEN NoEntry ELSE [fbTable[i] EXCEPT !.dirty = FALSE]
                           ELSE fbTable[i]
  BY DEF get_dirty_fb_lines
<1>4. ASSUME NEW t \in FbSlots
      PROVE  fbHash'[t] = IF Cleared(t) THEN [fbHash[t] EXCEPT !.c = FALSE] ELSE fbHash[t]
  BY DEF get_dirty_fb_lines
<1> HIDE DEF Cleared
<1>n. NoEa \notin FbEas /\ NoSlot \notin FbSlots /\ NoPte.ea = NoEa
      /\ NoEntry.slot = NoSlot /\ NoPte.c = FALSE
  BY FbAssumption DEF NoEa, NoPte, NoEntry
<1>5. ASSUME NEW t \in FbSlots
      PROVE  /\ fbHash'[t].ea = fbHash[t].ea /\ fbHash'[t].w = fbHash[t].w
             /\ fbHash[t] = NoPte => fbHash'[t] = NoPte
  <2>1. fbHash[t] \in [ea : FbEas \cup {NoEa}, c : BOOLEAN, w : BOOLEAN]
    BY DEF FbInv, FbTypeOK
  <2>2. fbHash[t] = NoPte => ~Cleared(t)
    BY <1>n DEF Cleared, Changed
  <2> QED BY <1>4, <2>1, <2>2
<1>6. ASSUME NEW i \in FbPages, fbTable[i].slot # NoSlot, ~Evicted(i)
      PROVE  fbTable'[i].slot = fbTable[i].slot /\ fbTable'[i].ea = fbTable[i].ea
  <2>1. fbTable[i] \in [slot : FbSlots \cup {NoSlot}, ea : FbEas \cup {NoEa}, dirty : BOOLEAN]
    BY DEF FbInv, FbTypeOK
  <2> QED BY <1>3, <1>6, <2>1
<1>7. ASSUME NEW i \in FbPages, fbTable'[i].slot # NoSlot
      PROVE  fbTable'[i].slot = fbTable[i].slot /\ fbTable'[i].ea = fbTable[i].ea
  <2>1. fbTable[i] \in [slot : FbSlots \cup {NoSlot}, ea : FbEas \cup {NoEa}, dirty : BOOLEAN]
    BY DEF FbInv, FbTypeOK
  <2> QED BY <1>3, <1>7, <1>n, <2>1
<1>8. Recorded'
  <2> SUFFICES ASSUME NEW t \in FbSlots, fbHash'[t] # NoPte
               PROVE  LET e == fbHash'[t].ea
                      IN  /\ e \in FbEas /\ e.page \in FbPages
                          /\ fbTable'[e.page].slot = t /\ fbTable'[e.page].ea = e
    BY <1>1 DEF Recorded
  <2> DEFINE e == fbHash[t].ea
  <2>1. fbHash'[t].ea = e /\ fbHash[t] # NoPte
    BY <1>5
  <2>2. e \in FbEas /\ e.page \in FbPages /\ fbTable[e.page].slot = t /\ fbTable[e.page].ea = e
    BY <2>1 DEF FbInv, Recorded
  <2>3. ~Evicted(e.page)
    BY <2>2 DEF Evicted
  <2>4. fbTable'[e.page].slot = t /\ fbTable'[e.page].ea = e
    BY <1>6, <1>n, <2>2, <2>3
  <2> QED BY <2>1, <2>2, <2>4
<1>9. RecordsOwnPage'
  BY <1>1, <1>7 DEF FbInv, RecordsOwnPage
<1>10. WritableIsSticky'
  BY <1>1, <1>5 DEF FbInv, WritableIsSticky
<1>11. UnseenOnPage'
  BY <1>1, <1>2 DEF FbInv, UnseenOnPage, LinesOf
<1>12. ASSUME NEW u \in fbUnseen'
       PROVE  fbTable'[u[2]] = fbTable[u[2]] /\ u \in fbUnseen /\ IsDirty(u[2])'
  <2> DEFINE i == u[2]
  <2>1. u \in fbUnseen /\ i \in FbPages /\ u[1] \in LinesOf(i) /\ IsDirty(i) /\ u[1] \notin Reported
    BY <1>2 DEF FbInv, UnseenOnPage, NothingUnseen
  <2>2. i \notin Scanned
    BY <2>1, DirtyIsReported DEF FbInv
  <2>3. fbTable'[i] = fbTable[i]
    BY <1>3, <2>1, <2>2
  <2>4. ASSUME fbTable[i].slot # NoSlot, ~Evicted(i)
        PROVE  fbHash'[fbTable[i].slot] = fbHash[fbTable[i].slot]
    <3> DEFINE t == fbTable[i].slot
    <3>1. t \in FbSlots /\ fbHash[t].ea = fbTable[i].ea /\ fbTable[i].ea.page = i
      BY <2>1, <2>4 DEF FbInv, FbTypeOK, Evicted, RecordsOwnPage
    <3>2. ASSUME NEW j \in Scanned, fbTable[j].slot = t, Changed(j) PROVE FALSE
      <4>1. j \in FbPages /\ fbTable[j].ea = fbHash[t].ea /\ fbTable[j].ea.page = j
        BY <3>2 DEF FbInv, FbTypeOK, Changed, Evicted, RecordsOwnPage, Scanned
      <4> QED BY <2>2, <3>1, <4>1
    <3> QED BY <1>4, <3>1, <3>2 DEF Cleared
  <2>5. CASE fbTable[i].dirty
    BY <2>1, <2>3, <2>5 DEF IsDirty
  <2>6. CASE Evicted(i)
    <3>1. fbTable[i].slot \in FbSlots /\ fbHash'[fbTable[i].slot].ea # fbTable[i].ea
      BY <1>5, <2>1, <2>6 DEF FbInv, FbTypeOK, Evicted
    <3> QED BY <1>n, <2>1, <2>3, <3>1 DEF IsDirty, Evicted
  <2>7. CASE Changed(i)
    BY <2>1, <2>3, <2>4, <2>7 DEF IsDirty, Evicted, Changed
  <2> QED BY <2>1, <2>3, <2>5, <2>6, <2>7 DEF IsDirty
<1>13. UnseenIsSticky'
  BY <1>1, <1>12 DEF FbInv, UnseenIsSticky
<1>14. NothingUnseen'
  BY <1>12 DEF NothingUnseen
<1> QED BY <1>8, <1>9, <1>10, <1>11, <1>13, <1>14

(* The other steps of the guest and the hash table.                              *)
LEMMA OtherFbStepsKeep ==
  ASSUME FbInv,
         \/ \E s \in FbSlots : PteLost(s) \/ \E y \in 0 .. fbMode.height - 1 : GuestWrites(s, y)
         \/ \E m \in FbModes : SetVmode(m)
         \/ UNCHANGED fbVars
  PROVE  /\ Recorded' /\ RecordsOwnPage' /\ WritableIsSticky'
         /\ UnseenIsSticky' /\ UnseenOnPage' /\ NothingUnseen'
<1>n. NoEa \notin FbEas /\ NoSlot \notin FbSlots /\ NoPte.ea = NoEa /\ NoPte.w = FALSE
  BY FbAssumption DEF NoEa, NoPte
<1> USE DEF FbInv
<1>1. ASSUME NEW s \in FbSlots, PteLost(s)
      PROVE  /\ Recorded' /\ RecordsOwnPage' /\ WritableIsSticky'
             /\ UnseenIsSticky' /\ UnseenOnPage' /\ NothingUnseen'
  <2>1. /\ fbTable' = fbTable /\ fbUnseen' = fbUnseen /\ fbGuestC' = fbGuestC /\ fbMode' = fbMode
        /\ fbHash'[s] = NoPte /\ \A t \in FbSlots : t # s => fbHash'[t] = fbHash[t]
    BY <1>1 DEF PteLost, FbTypeOK
  <2>2. Recorded' /\ RecordsOwnPage' /\ WritableIsSticky' /\ UnseenIsSticky'
    BY <1>n, <2>1 DEF Recorded, RecordsOwnPage, WritableIsSticky, UnseenIsSticky, FbPages
  <2>3. UnseenOnPage'
    BY <2>1 DEF UnseenOnPage, LinesOf, FbPages
  <2>4. ASSUME NEW u \in fbUnseen PROVE IsDirty(u[2])'
    <3>1. u[2] \in FbPages /\ IsDirty(u[2])
      BY DEF UnseenOnPage, NothingUnseen
    <3>2. fbTable[u[2]].slot # NoSlot => fbTable[u[2]].slot \in FbSlots /\ fbTable[u[2]].ea # NoEa
      BY <1>n, <3>1 DEF RecordsOwnPage, FbTypeOK
    <3>3. CASE fbTable[u[2]].slot = s
      BY <1>n, <2>1, <3>1, <3>2, <3>3 DEF IsDirty, Evicted
    <3>4. CASE fbTable[u[2]].slot # s
      BY <2>1, <3>1, <3>2, <3>4 DEF IsDirty, Evicted, Changed
    <3> QED BY <3>3, <3>4
  <2> QED BY <2>1, <2>2, <2>3, <2>4 DEF NothingUnseen
<1>2. ASSUME NEW s \in FbSlots, NEW y \in 0 .. fbMode.height - 1, GuestWrites(s, y)
      PROVE  /\ Recorded' /\ RecordsOwnPage' /\ WritableIsSticky'
             /\ UnseenIsSticky' /\ UnseenOnPage' /\ NothingUnseen'
  <2> DEFINE e == fbHash[s].ea
  <2>1. /\ fbTable' = fbTable /\ fbUnseen' = fbUnseen \cup {<<y, e.page>>} /\ fbGuestC' = fbGuestC
        /\ fbMode' = fbMode /\ fbHash[s].w /\ y \in LinesOf(e.page)
    BY <1>2 DEF GuestWrites
  <2>2. /\ fbHash'[s].c /\ fbHash'[s].ea = e /\ fbHash'[s].w = fbHash[s].w
        /\ \A t \in FbSlots : t # s => fbHash'[t] = fbHash[t]
    BY <1>2 DEF GuestWrites, FbTypeOK
  <2>3. fbHash[s] # NoPte /\ e \in FbEas /\ e.page \in FbPages
        /\ fbTable[e.page].slot = s /\ fbTable[e.page].ea = e /\ Sticky(e, fbGuestC)
    BY <1>n, <2>1 DEF Recorded, WritableIsSticky
  <2> HIDE DEF e
  <2>4. Recorded'
    <3> SUFFICES ASSUME NEW t \in FbSlots, fbHash'[t] # NoPte
                 PROVE  LET f == fbHash'[t].ea
                        IN  /\ f \in FbEas /\ f.page \in FbPages
                            /\ fbTable'[f.page].slot = t /\ fbTable'[f.page].ea = f
      BY <2>1 DEF Recorded, FbPages
    <3>1. CASE t = s
      BY <2>1, <2>2, <2>3, <3>1
    <3>2. CASE t # s
      BY <2>1, <2>2, <3>2 DEF Recorded
    <3> QED BY <3>1, <3>2
  <2>5. RecordsOwnPage' /\ WritableIsSticky'
    BY <2>1, <2>2, <2>3 DEF RecordsOwnPage, WritableIsSticky, FbPages, e
  <2>6. UnseenOnPage'
    BY <2>1, <2>3 DEF UnseenOnPage, LinesOf, FbPages
  <2>7. UnseenIsSticky'
    BY <1>n, <2>1, <2>3 DEF UnseenIsSticky
  <2>8. ASSUME NEW u \in fbUnseen' PROVE IsDirty(u[2])'
    <3>1. CASE u[2] = e.page
      BY <1>n, <2>1, <2>2, <2>3, <3>1 DEF IsDirty, Evicted, Changed
    <3>2. CASE u[2] # e.page
      <4>1. u \in fbUnseen
        BY <2>1, <3>2
      <4>2. u[2] \in FbPages /\ IsDirty(u[2])
        BY <4>1 DEF UnseenOnPage, NothingUnseen
      <4>3. fbTable[u[2]].slot # NoSlot => fbTable[u[2]].slot \in FbSlots
        BY <4>2 DEF FbTypeOK
      <4>4. fbTable[u[2]].slot \in FbSlots =>
              /\ fbHash'[fbTable[u[2]].slot].ea = fbHash[fbTable[u[2]].slot].ea
              /\ fbHash[fbTable[u[2]].slot].c => fbHash'[fbTable[u[2]].slot].c
        BY <2>2 DEF e
      <4> QED BY <2>1, <4>2, <4>3, <4>4 DEF IsDirty, Evicted, Changed
    <3> QED BY <3>1, <3>2
  <2> QED BY <2>4, <2>5, <2>6, <2>7, <2>8 DEF NothingUnseen
<1>3. ASSUME NEW m \in FbModes, SetVmode(m)
      PROVE  /\ Recorded' /\ RecordsOwnPage' /\ WritableIsSticky'
             /\ UnseenIsSticky' /\ UnseenOnPage' /\ NothingUnseen'
  <2>1. /\ fbUnseen' = {} /\ \A s \in FbSlots : fbHash'[s] = NoPte
        /\ fbMode' = m /\ fbTable' = FreshTable(m)
    BY <1>3 DEF SetVmode
  <2>2. \A i \in FbPages' : fbTable'[i].slot = NoSlot
    BY <2>1 DEF FreshTable, FbPages, NoEntry
  <2> QED BY <1>n, <2>1, <2>2 DEF Recorded, RecordsOwnPage, WritableIsSticky, UnseenIsSticky,
                                  UnseenOnPage, NothingUnseen
<1>4. CASE UNCHANGED fbVars
  BY <1>4 DEF fbVars, Recorded, RecordsOwnPage, WritableIsSticky, UnseenIsSticky, UnseenOnPage,
              NothingUnseen, IsDirty, Evicted, Changed, LinesOf, FbPages
<1> QED BY <1>1, <1>2, <1>3, <1>4

(* The strengthened invariant of the frame buffer.                               *)
THEOREM FbInvariant == FbSpec => []FbInv
<1>1. FbInit => Recorded /\ RecordsOwnPage /\ WritableIsSticky /\ UnseenIsSticky
                /\ UnseenOnPage /\ NothingUnseen
  <2> SUFFICES ASSUME FbInit
               PROVE  /\ Recorded /\ RecordsOwnPage /\ WritableIsSticky /\ UnseenIsSticky
                      /\ UnseenOnPage /\ NothingUnseen
    OBVIOUS
  <2>1. fbUnseen = {} /\ \A s \in FbSlots : fbHash[s] = NoPte
    BY DEF FbInit
  <2>2. \A i \in FbPages : fbTable[i].slot = NoSlot
    BY DEF FbInit, FreshTable, FbPages, NoEntry
  <2>3. NoPte.w = FALSE
    BY DEF NoPte
  <2> QED BY <2>1, <2>2, <2>3 DEF Recorded, RecordsOwnPage, WritableIsSticky, UnseenIsSticky,
                                  UnseenOnPage, NothingUnseen
<1>2. FbInv /\ [FbNext]_fbVars => Recorded' /\ RecordsOwnPage' /\ WritableIsSticky'
                                   /\ UnseenIsSticky' /\ UnseenOnPage' /\ NothingUnseen'
  BY FaultKeeps, CollectionKeeps, OtherFbStepsKeep DEF FbNext
<1> QED BY <1>1, <1>2, FbTypeCorrect, PTL DEF FbSpec, FbInv

(* Whatever the hash table does to the entries, a page that was written and not  *)
(* reported is found by the next get_dirty_fb_lines(), for any modes, aliases     *)
(* and slots.                                                                    *)
THEOREM DirtyPagesFound == FbSpec => []NothingUnseen
BY FbInvariant, PTL DEF FbInv

(* A page of the frame buffer is reached through at most one entry, the one its   *)
(* record names.                                                                 *)
THEOREM OneEntry == FbSpec => []OneEntryPerPage
<1>1. FbInv => OneEntryPerPage
  BY DEF FbInv, Recorded, OneEntryPerPage
<1> QED BY <1>1, FbInvariant, PTL

(* All together: what was drawn is found through one entry per page            *)
(* (DirtyFound).                                                               *)
THEOREM DrawnIsFound == FbSpec => []DirtyFound
BY FbTypeCorrect, DirtyPagesFound, OneEntry, PTL DEF DirtyFound
=============================================================================
