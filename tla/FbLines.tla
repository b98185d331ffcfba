------------------------------- MODULE FbLines -------------------------------
(***************************************************************************)
(* Which lines of an off-screen frame buffer have to be redrawn.  The       *)
(* kernel module has one record per page of the buffer.  It remembers the   *)
(* one hash table entry (PTE) the page is mapped by, and takes the page for *)
(* dirty when that entry has its C bit set, was evicted, or was replaced.   *)
(*                                                                         *)
(* An effective address (ea) is a way to reach a page: the guest may map a  *)
(* page more than once.  A slot of the hash table holds the entry of an ea,  *)
(* or none of the frame buffer's; find_pte_slot() may put an entry anywhere.  *)
(* The host runs one processor, so that a fault and a collection do not     *)
(* overlap, and the guest does not clear the C bits of its own page table.   *)
(*                                                                         *)
(* Source: kmod/mmu_fb.c, insert_pte() in kmod/fault.c, set_vmode() in      *)
(* drivers/video/video.c.                                                   *)
(***************************************************************************)
EXTENDS Integers, FiniteSets, FiniteSetsExt

CONSTANTS
    PageBytes,      \* 0x1000
    FbModes,        \* video modes: bytes per row, height, offset of line 0 in its page
    FbEas,          \* effective addresses: name, page, and whether a BAT register
                    \* (or no MMU) translates it
    FbSlots,        \* slots of the hash table
    ReportPairs,    \* s of get_dirty_fb_lines(): pairs that fit into the report
    MaxFbWrites     \* bound: writes of the guest

NoSlot == "NULL"

ASSUME FbAssumption ==
    /\ PageBytes \in Nat \ {0} /\ ReportPairs \in Nat \ {0} /\ MaxFbWrites \in Nat
    /\ \A e \in FbEas : e.page \in Nat /\ e.bat \in BOOLEAN
    /\ \A m \in FbModes : /\ m.bpr \in Nat \ {0} /\ m.height \in Nat \ {0}
                          /\ m.offs \in 0 .. PageBytes - 1
    /\ FbModes # {} /\ NoSlot \notin FbSlots

NoEa == [name |-> "none", page |-> -1, bat |-> FALSE]
NoPte == [ea |-> NoEa, c |-> FALSE, w |-> FALSE]

VARIABLES
    fbMode,         \* the video mode
    fbTable,        \* fb->line_table: page -> slot, ea (pte0), dirty
    fbHash,         \* the hash table: slot -> ea (pte0), C and write permission
    fbGuestC,       \* the addresses whose C bit is set in the guest's page table
    fbUnseen,       \* history: <<line, page>> written and not yet reported
    fbWrites        \* history: writes

fbVars == <<fbMode, fbTable, fbHash, fbGuestC, fbUnseen, fbWrites>>

NRec(m) == (m.bpr * m.height + m.offs + PageBytes - 1) \div PageBytes
FbPages == 0 .. NRec(fbMode) - 1

(* y1 and y2 of a page.  C divides towards zero and \div downwards; the      *)
(* result below zero is replaced by zero in either case.                     *)
FirstLine(m, i) == Max({0, (PageBytes * i - m.offs) \div m.bpr})
LastLine(m, i) == Min({m.height - 1, (PageBytes * (i + 1) - 1 - m.offs) \div m.bpr})

NoEntry == [slot |-> NoSlot, ea |-> NoEa, dirty |-> FALSE]
FreshTable(m) == [i \in 0 .. NRec(m) - 1 |-> NoEntry]

StartMode == CHOOSE m \in FbModes : TRUE       \* vc->def_vmode

FbInit ==
    /\ fbMode = StartMode /\ fbTable = FreshTable(fbMode)
    /\ fbHash = [s \in FbSlots |-> NoPte]
    /\ fbGuestC = {} /\ fbUnseen = {} /\ fbWrites = 0

-----------------------------------------------------------------------------
(* find_pte_slot(): the slot that holds the entry, else a free one, else any. *)
SlotsFor(ea) ==
    LET present == {s \in FbSlots : fbHash[s].ea = ea}
        free == {s \in FbSlots : fbHash[s] = NoPte}
    IN  IF present # {} THEN present ELSE IF free # {} THEN free ELSE FbSlots

(* video_pte_inserted(): at most one entry maps a page.                       *)
Replaced(ea, s) ==
    LET p == fbTable[ea.page] IN p.slot # NoSlot /\ (p.slot # s \/ p.ea # ea)

(* Mutant: the page is not marked when its entry is replaced. *)
InsertedQuietly(ea, s) ==
    [fbTable EXCEPT ![ea.page] = [slot |-> s, ea |-> ea, dirty |-> @.dirty]]

video_pte_inserted(ea, s) ==
    [fbTable EXCEPT ![ea.page] = [slot |-> s, ea |-> ea, dirty |-> @.dirty \/ Replaced(ea, s)]]

(* The slot the page was mapped by before is cleared, whoever has it now.     *)
OldSlotCleared(ea, s) ==
    LET old == fbTable[ea.page].slot
    IN  IF old \in {NoSlot, s} THEN fbHash ELSE [fbHash EXCEPT ![old] = NoPte]

(* insert_pte(): a read fault inserts a read-only entry.  Its C bit is the one *)
(* of the guest's translation: always set for a BAT, and set by a write fault  *)
(* in the guest's page table.                                                 *)
Fault(ea, write) ==
    /\ ea.page \in FbPages
    /\ ~\E s \in FbSlots : fbHash[s].ea = ea /\ (write => fbHash[s].w)
    /\ fbGuestC' = IF write /\ ~ea.bat THEN fbGuestC \cup {ea} ELSE fbGuestC
    /\ \E s \in SlotsFor(ea) :
        /\ fbTable' = video_pte_inserted(ea, s)
        /\ fbHash' = [OldSlotCleared(ea, s) EXCEPT ![s] =
                        [ea |-> ea, c |-> write \/ ea.bat \/ ea \in fbGuestC, w |-> write]]
    /\ UNCHANGED <<fbMode, fbUnseen, fbWrites>>

(* The guest stores into line y; the processor sets the C bit of the entry.   *)
LinesOf(i) == {y \in 0 .. fbMode.height - 1 :
    /\ fbMode.offs + y * fbMode.bpr < PageBytes * (i + 1)
    /\ fbMode.offs + (y + 1) * fbMode.bpr > PageBytes * i}

GuestWrites(s, y) ==
    /\ fbWrites < MaxFbWrites
    /\ fbHash[s].w /\ y \in LinesOf(fbHash[s].ea.page)
    /\ fbHash' = [fbHash EXCEPT ![s].c = TRUE]
    /\ fbUnseen' = fbUnseen \cup {<<y, fbHash[s].ea.page>>}
    /\ fbWrites' = fbWrites + 1
    /\ UNCHANGED <<fbMode, fbTable, fbGuestC>>

(* The entry is flushed or its slot is taken for something else, which can be *)
(* stolen again as if it were free.                                          *)
PteLost(s) ==
    /\ fbHash[s] # NoPte
    /\ fbHash' = [fbHash EXCEPT ![s] = NoPte]
    /\ UNCHANGED <<fbMode, fbTable, fbGuestC, fbUnseen, fbWrites>>

-----------------------------------------------------------------------------
(* get_dirty_fb_lines().                                                     *)
Evicted(i) == fbTable[i].slot # NoSlot /\ fbHash[fbTable[i].slot].ea # fbTable[i].ea
Changed(i) == fbTable[i].slot # NoSlot /\ ~Evicted(i) /\ fbHash[fbTable[i].slot].c
IsDirty(i) == fbTable[i].dirty \/ Evicted(i) \/ Changed(i)

PairEnds == {i \in FbPages \ {0} : IsDirty(i - 1) /\ ~IsDirty(i)}

(* Mutant: the loop is left one page early. *)
ScannedShort == {i \in FbPages : Cardinality({e \in PairEnds : e <= i + 1}) < ReportPairs}

(* A pair of lines is put out at the first clean page after dirty ones, and   *)
(* the loop is left when the report is full.                                  *)
Scanned == {i \in FbPages : Cardinality({e \in PairEnds : e < i}) < ReportPairs}

(* The last line of the pair a dirty page belongs to.                         *)
PairEnd(i) == LET clean == {j \in FbPages : j > i /\ ~IsDirty(j)}
              IN  LastLine(fbMode, IF clean = {} THEN NRec(fbMode) - 1 ELSE Min(clean))
Reported == UNION {FirstLine(fbMode, i) .. PairEnd(i) : i \in {j \in Scanned : IsDirty(j)}}

get_dirty_fb_lines ==
    /\ \E i \in FbPages : IsDirty(i)        \* else nothing changes
    /\ \E scanned \in {Scanned} :
        /\ fbTable' = [i \in FbPages |->
                IF i \in scanned
                THEN IF Evicted(i) THEN NoEntry ELSE [fbTable[i] EXCEPT !.dirty = FALSE]
                ELSE fbTable[i]]
        /\ fbHash' = [s \in FbSlots |->
                IF \E i \in scanned : fbTable[i].slot = s /\ Changed(i)
                THEN [fbHash[s] EXCEPT !.c = FALSE] ELSE fbHash[s]]
    /\ \E lines \in {Reported} : fbUnseen' = {u \in fbUnseen : u[1] \notin lines}
    /\ UNCHANGED <<fbMode, fbGuestC, fbWrites>>

(* set_vmode(): the buffer's mapping is removed, which clears the hash table, *)
(* the table is set up for the new mode and the buffer is mapped again.  The  *)
(* display redraws everything.                                                *)
SetVmode(m) ==
    /\ fbMode' = m /\ fbTable' = FreshTable(m)
    /\ fbHash' = [s \in FbSlots |-> NoPte] /\ fbGuestC' = {} /\ fbUnseen' = {}
    /\ UNCHANGED fbWrites

FbNext ==
    \/ \E ea \in FbEas, write \in BOOLEAN : Fault(ea, write)
    \/ \E s \in FbSlots : PteLost(s) \/ \E y \in 0 .. fbMode.height - 1 : GuestWrites(s, y)
    \/ get_dirty_fb_lines
    \/ \E m \in FbModes : SetVmode(m)

(* The display asks for the dirty lines again and again.                     *)
FbFairness == WF_fbVars(get_dirty_fb_lines)

FbSpec == FbInit /\ [][FbNext]_fbVars /\ FbFairness
-----------------------------------------------------------------------------
(* The kinds of values.                                                      *)
FbTypeOK ==
    /\ fbMode \in FbModes
    /\ fbTable \in [FbPages -> [slot : FbSlots \cup {NoSlot},
                                ea : FbEas \cup {NoEa}, dirty : BOOLEAN]]
    /\ fbHash \in [FbSlots -> [ea : FbEas \cup {NoEa}, c : BOOLEAN, w : BOOLEAN]]
    /\ fbGuestC \subseteq FbEas
    /\ fbWrites \in 0 .. MaxFbWrites

(* A page that was written to and not reported since would be found by the    *)
(* next collection, whatever happened to its hash table entry meanwhile:      *)
(* evicted, stolen, replaced by an alias or inserted again (mmu_fb.c:88 and   *)
(* 158).                                                                     *)
NothingUnseen == \A u \in fbUnseen : IsDirty(u[2])

(* A page has at most one entry, the one its record names (mmu_fb.c:87): a    *)
(* second one could be written through without anybody looking at its C bit.  *)
OneEntryPerPage ==
    \A s \in FbSlots : fbHash[s] # NoPte =>
        LET p == fbTable[fbHash[s].ea.page] IN p.slot = s /\ p.ea = fbHash[s].ea

(* Once the guest leaves the buffer alone, everything it drew gets to the     *)
(* screen, also if the report has less room than there are dirty areas        *)
(* (mmu_fb.c:175).  While it draws, the areas that come first may crowd out    *)
(* the others.                                                                *)
ScreenCatchesUp == <>[][get_dirty_fb_lines]_fbVars => []<>(fbUnseen = {})

(* What the guest drew is found by the next collection, and through one      *)
(* entry per page, whatever the hash table does.                             *)
DirtyFound == FbTypeOK /\ NothingUnseen /\ OneEntryPerPage
=============================================================================
