------------------------------- MODULE Mtable -------------------------------
(***************************************************************************)
(* The kernel module's record of the PTEs it has put into the processor's   *)
(* hash table.  Each record (pent) is on the ring of its effective address, *)
(* which ends in the pelist pointer it began with, and usually on the ring  *)
(* of the Linux page it maps, whose head is a resident record that is used  *)
(* for the page's first PTE.  A page fault of the guest stores a PTE and    *)
(* then records it; when Linux takes a page away it calls flush_lvptr(),    *)
(* from any CPU, which must find every PTE of the page, the one that is     *)
(* being inserted included.                                                 *)
(*                                                                         *)
(* The functions that hold the table's lock from end to end are steps on    *)
(* mt, the memory of the table.  One pelist is kept per vsid: the effective *)
(* addresses of the model differ in the bits stored in the record (top, sv), *)
(* so that they have one TLB class.  Linux, the TLB and the hash table's    *)
(* processor side are external.                                             *)
(*                                                                         *)
(* Sources: kmod/mtable.c, kmod/fault.c, kmod/mmu.c, kmod/Linux/fault.c.    *)
(***************************************************************************)
EXTENDS Integers, Sequences, FiniteSets
LOCAL INSTANCE SequencesExt

CONSTANTS
    Vsids,      \* vsids of the guest
    Addresses,  \* effective addresses: [v : Vsids, top : Nat, sv : BOOLEAN]
    Pages,      \* Linux pages with an lvrange; a page names its head record
    Pents,      \* records of the one chunk pent_alloc() can get
    PteSlots,   \* slots of the hash table the addresses hash to
    Tables,     \* level 2 tables of the one chunk lev2_alloc() can get
    MaxSwaps,   \* bound: pages Linux takes away
    NIL         \* the null pointer

ASSUME MtAssumption == MaxSwaps \in Nat /\ Tables \in Nat
ASSUME AddressesAssumption == Addresses \subseteq [v : Vsids, top : Nat, sv : BOOLEAN]

Records == Pages \cup Pents
Tops == {a.top : a \in Addresses}

VARIABLES
    mt,         \* pelist, ea_next, lv_next, pent, free_pents, and the hash table and TLB
    known,      \* vsids with an entry (in vsid_sl)
    cur,        \* MMU.vsid[] of the segment in use
    lev2,       \* vsids whose level 2 table is attached
    freeTables, \* length of free_pent_tables
    grown,      \* chunks allocated: "pents", "tables"
    flt,        \* the fault being handled
    lost,       \* the reservation: page and lvptr_reservation_lost
    linux       \* resident pages, their frames, the page being taken away (external)

mtVars == <<mt, known, cur, lev2, freeTables, grown, flt, lost, linux>>

Unused == [head |-> TRUE, unused |-> TRUE, last |-> FALSE, top |-> 0, sv |-> FALSE, slot |-> NIL]
Blank == [Unused EXCEPT !.head = FALSE, !.unused = FALSE]
NoReservation == [page |-> NIL, flag |-> FALSE]
NoFault_ == [pc |-> "none", a |-> NIL, page |-> NIL, frame |-> 0, slot |-> NIL]

MtInit ==
    /\ mt = [pelist |-> [v \in Vsids |-> NIL],
             eaNext |-> [r \in Records |-> NIL],
             lvNext |-> [r \in Records |-> IF r \in Pages THEN r ELSE NIL],
             pent |-> [r \in Records |-> IF r \in Pages THEN Unused ELSE Blank],
             free |-> NIL,
             pte |-> [s \in PteSlots |-> NIL], tlb |-> {}]
    /\ known = {} /\ cur = NIL /\ lev2 = {} /\ freeTables = 0 /\ grown = {}
    /\ flt = NoFault_ /\ lost = NoReservation
    /\ linux = [resident |-> Pages, frame |-> [p \in Pages |-> 0], taking |-> NIL, swaps |-> 0]

-----------------------------------------------------------------------------
(* Walks along the rings.  A pelist pointer may stand for a record, since    *)
(* ea_next is a record's first field.                                        *)
Follow(m, r) == IF r \in Vsids THEN m.pelist[r] ELSE m.eaNext[r]
SetNext(m, r, to) ==
    IF r \in Vsids THEN [m EXCEPT !.pelist[r] = to] ELSE [m EXCEPT !.eaNext[r] = to]

Walk(m, from, Next(_), End(_)) ==
    LET path[k \in 0 .. Cardinality(Records)] ==
            IF k = 0 THEN <<from>>
            ELSE LET s == path[k - 1]
                 IN IF End(Last(s)) THEN s ELSE Append(s, Next(Last(s)))
    IN path[Cardinality(Records)]

(* The records of an ea ring from r to the one that is marked last.          *)
EaFrom(m, r) == Walk(m, r, LAMBDA x : m.eaNext[x],
                     LAMBDA x : m.pent[x].last \/ m.eaNext[x] \notin Records)
EaRing(m, v) == IF m.pelist[v] = NIL THEN <<>> ELSE EaFrom(m, m.pelist[v])
(* The records of an lv ring, from the one after r round to r.               *)
LvRing(m, r) == IF m.lvNext[r] \notin Records THEN <<>>
                ELSE Walk(m, m.lvNext[r], LAMBDA x : m.lvNext[x],
                          LAMBDA x : x = r \/ m.lvNext[x] \notin Records)
FreePents(m) == IF m.free = NIL THEN <<>>
                ELSE Walk(m, m.free, LAMBDA x : m.lvNext[x], LAMBDA x : m.lvNext[x] = NIL)
LvBefore(m, r) == CHOOSE p \in ToSet(LvRing(m, r)) : m.lvNext[p] = r

ZERO_PTE(m, r) ==
    IF m.pent[r].slot = NIL THEN m ELSE [m EXCEPT !.pte[m.pent[r].slot] = NIL]
tlbie(m) == [m EXCEPT !.tlb = {}]
(* Whatever a free or an unused record held is dead.                         *)
Scrub(m, r) == [m EXCEPT !.eaNext[r] = NIL, !.pent[r] = IF r \in Pages THEN Unused ELSE Blank]
Release(m, r) == [Scrub(m, r) EXCEPT !.lvNext[r] = m.free, !.free = r]

-----------------------------------------------------------------------------
(* flush_vsid_ea_(): the loop over the ring, pp following pr.                *)
UnlinkLv(m, r) ==
    IF m.pent[r].head THEN Scrub(m, r)
    ELSE Release(IF m.lvNext[r] = NIL THEN m
                 ELSE [m EXCEPT !.lvNext[LvBefore(m, r)] = m.lvNext[r]], r)

(* The mark of the last record moves to the one before it.                   *)
MoveMark(m, v, pp, wasLast) ==
    IF ~wasLast THEN m
    ELSE IF pp = v THEN SetNext(m, v, NIL) ELSE [m EXCEPT !.pent[pp].last = TRUE]

FlushVisit(v, top, s, r) ==
    IF s.m.pent[r].top # top THEN [s EXCEPT !.pp = r]
    ELSE LET cut == SetNext(s.m, s.pp, s.m.eaNext[r])
             off == UnlinkLv(ZERO_PTE(cut, r), r)
         IN [s EXCEPT !.m = tlbie(MoveMark(off, v, s.pp, s.m.pent[r].last))]

flush_vsid_ea_(m, v, top) ==
    FoldLeft(LAMBDA s, r : FlushVisit(v, top, s, r), [m |-> m, pp |-> v], EaRing(m, v)).m

(* pent_flush_unlink_ea(): the ring is entered at r and its head found at    *)
(* its end.                                                                  *)
pent_flush_unlink_ea(m, r) ==
    LET v == m.eaNext[Last(EaFrom(m, r))]
        before == CHOOSE p \in {v} \cup ToSet(EaRing(m, v)) : Follow(m, p) = r
        marked == IF m.pent[r].last /\ before # v THEN [m EXCEPT !.pent[before].last = TRUE] ELSE m
        to == IF m.pent[r].last /\ before = v THEN NIL ELSE m.eaNext[r]
    IN tlbie(ZERO_PTE(SetNext(marked, before, to), r))

(* flush_lvptr_(): all records of the page's ring, the head's last; the      *)
(* others go to the free list as they are chained.                           *)
flush_lvptr_(m, page) ==
    LET others == SelectSeq(LvRing(m, page), LAMBDA r : r # page)
        m1 == FoldLeft(pent_flush_unlink_ea, m, others)
        m2 == IF others = <<>> THEN m1
              ELSE [m1 EXCEPT !.lvNext[Last(others)] = m1.free, !.free = Head(others)]
        m3 == IF m.pent[page].unused THEN m2 ELSE pent_flush_unlink_ea(m2, page)
    IN [FoldLeft(Scrub, m3, LvRing(m, page)) EXCEPT !.lvNext[page] = page]

(* flush_vsid(): every address of the vsid; the table is freed by the caller.*)
flush_vsid(m, v) == FoldLeft(LAMBDA s, t : flush_vsid_ea_(s, v, t), m, SetToSeq(Tops))

-----------------------------------------------------------------------------
(* get_free_pent(): the page's head if it is unused, or a record from the    *)
(* free list, put on the page's ring if there is one.                        *)
get_free_pent(m, page) ==
    IF page \in Pages /\ m.pent[page].unused
    THEN [r |-> page, m |-> [m EXCEPT !.pent[page] = [Blank EXCEPT !.head = TRUE]]]
    ELSE LET r == m.free
             m1 == [m EXCEPT !.free = m.lvNext[r], !.pent[r] = Blank]
         IN [r |-> r,
             m |-> IF page = NIL THEN [m1 EXCEPT !.lvNext[r] = NIL]
                   ELSE [m1 EXCEPT !.lvNext[r] = m.lvNext[page], !.lvNext[page] = r]]

(* relink_lv(): the record of an address that now maps another page.         *)
relink_lv(m, r, page) ==
    LET ring == {r} \cup ToSet(LvRing(m, r))
        join(x) == [x EXCEPT !.lvNext[r] = x.lvNext[page], !.lvNext[page] = r]
    IN IF m.lvNext[r] = NIL THEN join(m)
       ELSE IF page \in ring /\ (m.pent[r].head => r = page) THEN m
       ELSE IF m.pent[r].head
       THEN LET v == m.eaNext[Last(EaFrom(m, r))]
                before == CHOOSE p \in {v} \cup ToSet(EaRing(m, v)) : Follow(m, p) = r
                new == get_free_pent(m, page)
                m1 == SetNext([new.m EXCEPT !.eaNext[new.r] = m.eaNext[r]], before, new.r)
            IN Scrub([m1 EXCEPT !.pent[new.r] = [m.pent[r] EXCEPT !.head = new.m.pent[new.r].head]], r)
       ELSE join([m EXCEPT !.lvNext[LvBefore(m, r)] = m.lvNext[r]])

(* pte_inserted(): the record of this address, or a new one.                 *)
Record(m, a, page, slot) ==
    LET same == {r \in ToSet(EaRing(m, a.v)) : m.pent[r].top = a.top /\ m.pent[r].sv = a.sv}
        new == get_free_pent(m, page)
        entry == [new.m.pent[new.r] EXCEPT !.top = a.top, !.sv = a.sv, !.slot = slot,
                                           !.last = (m.pelist[a.v] = NIL)]
    IN IF same # {}
       THEN LET r == CHOOSE r \in same : TRUE
                m1 == [m EXCEPT !.pent[r].slot = slot]
            IN IF page = NIL THEN m1 ELSE relink_lv(m1, r, page)
       ELSE [new.m EXCEPT !.pent[new.r] = entry,
                          !.eaNext[new.r] = IF m.pelist[a.v] = NIL THEN a.v ELSE m.pelist[a.v],
                          !.pelist[a.v] = new.r]

-----------------------------------------------------------------------------
Idle == flt.pc = "none"

(* fix_sr() and vsid_get_user_sv(): the segment's vsid gets an entry; if no  *)
(* memory is left, or the contexts wrap, all vsids are cleared first.        *)
ClearAll ==
    /\ LET m == FoldLeft(flush_vsid, mt, SetToSeq(known))
       IN mt' = [m EXCEPT !.free = NIL,
                          !.lvNext = [r \in Records |-> IF r \in Pents THEN NIL ELSE m.lvNext[r]]]
    /\ lev2' = {} /\ freeTables' = 0 /\ grown' = {}

fix_sr(v) ==
    /\ Idle /\ cur = NIL
    /\ cur' = v
    /\ \/ known' = known \cup {v} /\ UNCHANGED <<mt, lev2, freeTables, grown>>
       \/ v \notin known /\ known' = {v} /\ ClearAll
    /\ UNCHANGED <<flt, lost, linux>>

(* mtsr and mtsrin: another vsid; fix_sr() also stands for the look-up that  *)
(* vsid.S makes itself for a vsid it finds.                                  *)
SegmentChanges ==
    /\ Idle /\ cur # NIL /\ cur' = NIL
    /\ UNCHANGED <<mt, known, lev2, freeTables, grown, flt, lost, linux>>

(* clear_all_vsids() with clear_vsid_refs().                                 *)
clear_all_vsids ==
    /\ Idle /\ known' = {} /\ cur' = NIL /\ ClearAll
    /\ UNCHANGED <<flt, lost, linux>>

(* page_fault() up to insert_pte(): mtable_memory_check() allocates, or      *)
(* clears everything, in which case the fault is left to happen again.       *)
ChainPents(m) ==
    LET s == SetToSeq(Pents)
    IN [m EXCEPT !.lvNext = [r \in Records |->
            IF r \in Pages THEN m.lvNext[r]
            ELSE LET k == CHOOSE k \in DOMAIN s : s[k] = r
                 IN IF k = Len(s) THEN NIL ELSE s[k + 1]], !.free = Head(s)]

Grow(what) == what \notin grown
NeedsPents == mt.free = NIL
NeedsTables == freeTables = 0

(* get_phys_page() follows: it makes the reservation before it looks at the  *)
(* page; Linux's steps between the two have the effect they have before.     *)
page_fault(a, page) ==
    /\ Idle /\ cur = a.v
    /\ NeedsPents => Grow("pents")
    /\ NeedsTables => Grow("tables")
    /\ page = NIL \/ page \in linux.resident
    /\ mt' = IF NeedsPents THEN ChainPents(mt) ELSE mt
    /\ freeTables' = IF NeedsTables THEN Tables ELSE freeTables
    /\ grown' = grown \cup (IF NeedsPents THEN {"pents"} ELSE {})
                      \cup (IF NeedsTables THEN {"tables"} ELSE {})
    /\ lost' = [page |-> page, flag |-> FALSE]
    /\ flt' = [pc |-> "store", a |-> a, page |-> page, slot |-> NIL,
               frame |-> IF page = NIL THEN 0 ELSE linux.frame[page]]
    /\ UNCHANGED <<known, cur, lev2, linux>>

(* A page that is not there is brought in and the call repeated.             *)
PageMissing(page) ==
    /\ Idle /\ cur # NIL /\ page \notin linux.resident
    /\ linux' = [linux EXCEPT !.resident = @ \cup {page}, !.frame[page] = @ + 1]
    /\ UNCHANGED <<mt, known, cur, lev2, freeTables, grown, flt, lost>>

MemoryShort ==
    /\ Idle /\ cur # NIL /\ (NeedsPents \/ NeedsTables)
    /\ known' = {} /\ cur' = NIL /\ ClearAll
    /\ UNCHANGED <<flt, lost, linux>>

(* find_pte_slot() and __store_PTE(): the slot that holds this address, a    *)
(* free one, or a stolen one.                                                *)
Holding(a) == {s \in PteSlots : mt.pte[s] # NIL /\ mt.pte[s].a = a}
Unheld == {s \in PteSlots : mt.pte[s] = NIL}
find_pte_slot(a) ==
    IF Holding(a) # {} THEN Holding(a) ELSE IF Unheld # {} THEN Unheld ELSE PteSlots

store_PTE(slot) ==
    /\ flt.pc = "store" /\ slot \in find_pte_slot(flt.a)
    /\ mt' = tlbie([mt EXCEPT !.pte[slot] = [a |-> flt.a, page |-> flt.page, frame |-> flt.frame]])
    /\ flt' = [flt EXCEPT !.pc = "record", !.slot = slot]
    /\ UNCHANGED <<known, cur, lev2, freeTables, grown, lost, linux>>

(* The reservation is dead after this: the next one that is looked at is new. *)
(* Mutant: a lost reservation is not noticed. *)
PteInsertedAnyway ==
    /\ flt.pc = "record"
    /\ mt' = Record(mt, flt.a, flt.page, flt.slot)
    /\ lev2' = lev2 \cup {flt.a.v}
    /\ freeTables' = IF flt.a.v \in lev2 THEN freeTables ELSE freeTables - 1
    /\ flt' = NoFault_
    /\ UNCHANGED <<known, cur, grown, lost, linux>>

pte_inserted ==
    /\ flt.pc = "record"
    /\ IF flt.page # NIL /\ lost.flag
       THEN mt' = tlbie([mt EXCEPT !.pte[flt.slot] = NIL]) /\ UNCHANGED <<lev2, freeTables>>
       ELSE /\ mt' = Record(mt, flt.a, flt.page, flt.slot)
            /\ lev2' = lev2 \cup {flt.a.v}
            /\ freeTables' = IF flt.a.v \in lev2 THEN freeTables ELSE freeTables - 1
    /\ flt' = NoFault_ /\ lost' = NoReservation
    /\ UNCHANGED <<known, cur, grown, linux>>

-----------------------------------------------------------------------------
(* flush_vsid_ea() and flush_ea_range(), for the guest's tlbie and BATs.     *)
FlushEa(vs, top) ==
    /\ Idle
    /\ mt' = FoldLeft(LAMBDA m, v : flush_vsid_ea_(m, v, top), mt, SetToSeq(vs \cap known))
    /\ UNCHANGED <<known, cur, lev2, freeTables, grown, flt, lost, linux>>

(* mtable_reclaim(): empty level 2 tables are freed, and vsids without any   *)
(* that are not in use.                                                      *)
mtable_reclaim ==
    /\ Idle
    /\ LET empty == {v \in lev2 : mt.pelist[v] = NIL}
       IN /\ lev2' = lev2 \ empty
          /\ freeTables' = freeTables + Cardinality(empty)
          /\ known' = {v \in known : v \in lev2' \/ v = cur}
    /\ UNCHANGED <<mt, cur, grown, flt, lost, linux>>

(* Linux takes a page away and then calls do_flush(), which calls            *)
(* flush_lvptr(): at any time, in any step of a fault.                       *)
LinuxTakes(p) ==
    /\ linux.taking = NIL /\ p \in linux.resident /\ linux.swaps < MaxSwaps
    /\ linux' = [linux EXCEPT !.resident = @ \ {p}, !.taking = p, !.swaps = @ + 1]
    /\ UNCHANGED <<mt, known, cur, lev2, freeTables, grown, flt, lost>>

flush_lvptr ==
    /\ linux.taking # NIL
    /\ mt' = flush_lvptr_(mt, linux.taking)
    /\ lost' = IF lost.page = linux.taking THEN [lost EXCEPT !.flag = TRUE] ELSE lost
    /\ linux' = [linux EXCEPT !.taking = NIL]
    /\ UNCHANGED <<known, cur, lev2, freeTables, grown, flt>>

(* Linux evicts a PTE for one of its own.  The processor may have it in its  *)
(* TLB: tlb is the worst case, what was in the hash table since the last     *)
(* tlbie of the class and is no longer.                                      *)
LinuxEvicts(s) ==
    /\ Idle /\ mt.pte[s] # NIL
    /\ mt' = [mt EXCEPT !.pte[s] = NIL, !.tlb = @ \cup {mt.pte[s]}]
    /\ UNCHANGED <<known, cur, lev2, freeTables, grown, flt, lost, linux>>

MtNext ==
    \/ \E v \in Vsids : fix_sr(v)
    \/ SegmentChanges \/ clear_all_vsids \/ MemoryShort
    \/ \E a \in Addresses, p \in Pages \cup {NIL} : page_fault(a, p)
    \/ pte_inserted
    \/ \E s \in PteSlots : store_PTE(s) \/ LinuxEvicts(s)
    \/ \E v \in Vsids, top \in Tops : FlushEa({v}, top)
    \/ \E top \in Tops : FlushEa(Vsids, top)
    \/ mtable_reclaim
    \/ \E p \in Pages : PageMissing(p) \/ LinuxTakes(p)
    \/ flush_lvptr

MtSpec == MtInit /\ [][MtNext]_mtVars

-----------------------------------------------------------------------------
(* What ea_check() and lv_check() of the debug program look for: every ea    *)
(* ring is marked at its last record and only there and leads back to its    *)
(* pelist pointer; every lv ring leads back to its head, the only head on it,*)
(* and holds no unused record; no address has two records.                   *)
RingsClosed ==
    /\ \A v \in Vsids :
          LET s == EaRing(mt, v)
          IN /\ s # <<>> => mt.pent[Last(s)].last /\ mt.eaNext[Last(s)] = v
             /\ \A r, q \in ToSet(s) : r = q \/ <<mt.pent[r].top, mt.pent[r].sv>>
                                                # <<mt.pent[q].top, mt.pent[q].sv>>
             /\ s # <<>> => v \in lev2 \cap known
    /\ \A p \in Pages :
          LET s == LvRing(mt, p)
          IN s # <<>> /\ Last(s) = p /\ \A r \in ToSet(s) \ {p} : ~mt.pent[r].head

(* dbg_count(): no record is lost or used twice.  Each record of the chunk   *)
(* is on the free list or on exactly one ea ring, and each level 2 table is  *)
(* free or attached.                                                         *)
NothingLeaks ==
    /\ "pents" \in grown =>
          \A r \in Pents :
             1 = Cardinality({v \in Vsids : r \in ToSet(EaRing(mt, v))})
                 + (IF r \in ToSet(FreePents(mt)) THEN 1 ELSE 0)
    /\ freeTables + Cardinality(lev2) = (IF "tables" \in grown THEN Tables ELSE 0)

(* Every translation the processor can use is recorded: what is in the hash  *)
(* table is on the ring of its address with its slot, what is only in the    *)
(* TLB still has its record, and                                             *)
(* both are on the ring of the page they map.                                *)
RecordOf(t) == {r \in ToSet(EaRing(mt, t.a.v)) :
                   /\ mt.pent[r].top = t.a.top /\ mt.pent[r].sv = t.a.sv
                   /\ t.page # NIL => r \in ToSet(LvRing(mt, t.page))}
TranslationsRecorded ==
    /\ \A s \in PteSlots :
          mt.pte[s] # NIL /\ ~(flt.pc = "record" /\ flt.slot = s) =>
              \E r \in RecordOf(mt.pte[s]) : mt.pent[r].slot = s
    /\ \A t \in mt.tlb : RecordOf(t) # {}

(* "If a page-out occurs between prepare_pte_insert() and the pte_inserted() *)
(* call, then the PTE slot is zeroed out": once Linux's call has returned    *)
(* the guest cannot reach the old frame of the page, whatever step of a      *)
(* fault it met.                                                             *)
CurrentFrame(t) ==
    t.page = NIL \/ t.page = linux.taking
    \/ (t.page \in linux.resident /\ t.frame = linux.frame[t.page])
NoStaleFrame ==
    /\ \A s \in PteSlots :
          mt.pte[s] # NIL /\ ~CurrentFrame(mt.pte[s]) =>
              flt.pc = "record" /\ flt.slot = s /\ lost.flag
    /\ \A t \in mt.tlb : CurrentFrame(t)

(* An entry is inserted only for a vsid that still exists, and a vsid whose  *)
(* entry is reclaimed leaves no translation behind for the next user of its  *)
(* Linux vsid.                                                               *)
NoVsidReusedDirty ==
    /\ cur # NIL => cur \in known
    /\ ~Idle => flt.a.v \in known
    /\ \A s \in PteSlots : mt.pte[s] # NIL => mt.pte[s].a.v \in known
    /\ \A t \in mt.tlb : t.a.v \in known

(* The table is sound: its rings are closed, nothing leaks, every            *)
(* translation is recorded and none outlives the page or the context it is   *)
(* of.                                                                       *)
TableSound ==
    /\ RingsClosed /\ NothingLeaks /\ TranslationsRecorded
    /\ NoStaleFrame /\ NoVsidReusedDirty
=============================================================================
