------------------------------- MODULE IoSpace -------------------------------
(***************************************************************************)
(* Who answers when the guest touches an address outside RAM.  The guest    *)
(* moves PCI devices about by writing their configuration registers; the    *)
(* drivers' map procedures then move their I/O ranges.  A range is known in  *)
(* two places: the emulator's list, newest first, and the kernel module's    *)
(* I/O pages, which hold a pointer to the range for each doubleword.  A      *)
(* hash table entry (PTE) that led to an I/O page stays when the page is     *)
(* freed; the page's magic number is cleared instead.                       *)
(*                                                                         *)
(* Addresses count doublewords.  The MMU maps one to one, so that a page has *)
(* one entry; the frame buffer is the only block besides RAM.  A partial     *)
(* write of a register is a write of another value.                          *)
(*                                                                         *)
(* Source: drivers/pci.c, ioports.c, gc.c, usb.c, video/video.c,             *)
(* kmod/mmu_io.c, kmod/iopage.S, insert_pte() in kmod/fault.c.               *)
(***************************************************************************)
EXTENDS Integers, Sequences, FiniteSets, SequencesExt

CONSTANTS
    PciDevs,        \* devices: name, kind of map procedure, ranges, size of the ROM, and
                    \* (bound) the addresses the base register is set to
    IoPageSize,     \* doublewords of a page
    IoPages,        \* pages of the address space; page 0 is RAM
    RomValues,      \* bound: addresses a ROM is mapped at
    LowLimit,       \* 0x100000: a base register must be above it
    KernelLimit,    \* 0x2000: larger ranges are not told to the kernel
    IoFrames        \* page frames the kernel has for I/O pages

ASSUME IoAssumption ==
    /\ IoPageSize \in Nat \ {0} /\ RomValues \subseteq Nat /\ LowLimit \in Nat /\ KernelLimit \in Nat
    /\ \A d \in PciDevs : d.kind \in {"gc", "usb", "video"}
                            /\ d.rom \in Nat /\ d.bars \subseteq Nat

Ram == [dev |-> "ram", base |-> 0, size |-> IoPageSize]
NoFrame == [mphys |-> -1]          \* a free frame; the magic numbers are cleared
NoEntryIo == [to |-> "none"]
Nil == [dev |-> "NULL"]

VARIABLES
    pciBar,         \* dev->base[0]: r, old_r, bf_mapped
    pciCmd,         \* PCI_COMMAND_MEMORY of dev->cmd
    pciRom,         \* dev->rombase: r, PCI_ROM_ADDRESS_ENABLE, bf_mapped
    ioHeld,         \* what the map procedure remembers: r->is_mapped, range id, fb_mapped
    space           \* root: the list of ranges; frame: the I/O pages by page frame;
                    \* block: the block translations; pte: the hash table

ioVars == <<pciBar, pciCmd, pciRom, ioHeld, space>>

PageOf(addr) == addr \div IoPageSize
Covers(r, addr) == addr \in r.base .. r.base + r.size - 1
PagesOf(r) == PageOf(r.base) .. PageOf(r.base + r.size - 1)
Grains == 0 .. IoPageSize - 1
FrameOrders == SetToSeqs(IoFrames)     \* in which the host hands out free frames

IoInit ==
    /\ pciBar = [d \in PciDevs |-> [r |-> 0, old |-> 0, mapped |-> FALSE]]
    /\ pciCmd = [d \in PciDevs |-> FALSE]
    /\ pciRom = [d \in PciDevs |-> [r |-> 0, enable |-> FALSE, mapped |-> FALSE]]
    /\ ioHeld = [d \in PciDevs |-> FALSE]
    /\ space = [root |-> <<>>, frame |-> [f \in IoFrames |-> NoFrame], block |-> {Ram},
                pte |-> [p \in IoPages |-> NoEntryIo]]

-----------------------------------------------------------------------------
(* The kernel's I/O pages.                                                   *)
FrameOf(s, p) == {f \in IoFrames : s.frame[f].mphys = p}

SetUsr(s, f, r) ==
    [s EXCEPT !.frame[f].usr = [g \in Grains |->
        IF Covers(r, s.frame[f].mphys * IoPageSize + g) THEN r ELSE @[g]]]

(* add_io_trans(): page by page, until there is no frame for a new page.      *)
NewPage(s, p, order) ==
    LET f == SelectSeq(order, LAMBDA x : s.frame[x] = NoFrame)[1]
    IN  [s EXCEPT !.frame[f] = [mphys |-> p, usr |-> [g \in Grains |-> Nil]]]

AddToPage(s, r, p, order) ==
    LET t == IF FrameOf(s, p) = {} THEN NewPage(s, p, order) ELSE s
    IN  SetUsr(t, CHOOSE f \in FrameOf(t, p) : TRUE, r)

add_io_trans(s, r, order) ==
    LET free(t) == \E f \in IoFrames : t.frame[f] = NoFrame
        add[p \in PageOf(r.base) - 1 .. PageOf(r.base + r.size - 1)] ==
            IF p < PageOf(r.base) THEN [st |-> s, ok |-> TRUE]
            ELSE LET before == add[p - 1] IN
                 IF before.ok /\ (FrameOf(before.st, p) # {} \/ free(before.st))
                 THEN [st |-> AddToPage(before.st, r, p, order), ok |-> TRUE]
                 ELSE [before EXCEPT !.ok = FALSE]
    IN  add[PageOf(r.base + r.size - 1)].st

(* Mutant: one doubleword too few is cleared. *)
RemoveShort(s, r) ==
    LET after(page) == [page EXCEPT !.usr = [g \in Grains |->
            IF Covers([r EXCEPT !.size = @ - 1], page.mphys * IoPageSize + g) THEN Nil ELSE @[g]]]
    IN  [s EXCEPT !.frame = [f \in IoFrames |->
            LET page == s.frame[f] IN
            IF page = NoFrame \/ page.mphys \notin PagesOf(r) THEN page
            ELSE IF \A g \in Grains : after(page).usr[g] = Nil THEN NoFrame ELSE after(page)]]

(* remove_io_trans(): a page without pointers is freed.                       *)
remove_io_trans(s, r) ==
    LET after(page) == [page EXCEPT !.usr = [g \in Grains |->
            IF Covers(r, page.mphys * IoPageSize + g) THEN Nil ELSE @[g]]]
    IN  [s EXCEPT !.frame = [f \in IoFrames |->
            LET page == s.frame[f] IN
            IF page = NoFrame \/ page.mphys \notin PagesOf(r) THEN page
            ELSE IF \A g \in Grains : after(page).usr[g] = Nil THEN NoFrame ELSE after(page)]]

(* The emulator's list.  The id of a range is its device and part.            *)
add_io_range(s, r, order) ==
    LET t == [s EXCEPT !.root = <<r>> \o @]
    IN  IF r.size <= KernelLimit THEN add_io_trans(t, r, order) ELSE t

remove_io_range(s, dev, part) ==
    LET mine(r) == r.dev = dev /\ r.part = part
        at == {i \in 1 .. Len(s.root) : mine(s.root[i])}
    IN  IF at = {} THEN s
        ELSE LET i == CHOOSE i \in at : \A j \in at : i <= j
             IN  [remove_io_trans(s, s.root[i]) EXCEPT !.root = RemoveAt(@, i)]

get_range(s, addr) ==
    LET hits == {i \in 1 .. Len(s.root) : Covers(s.root[i], addr)}
    IN  IF hits = {} THEN "unmapped" ELSE s.root[CHOOSE i \in hits : \A j \in hits : i <= j].dev

(* remove_block_trans() clears the whole hash table, add_block_trans() does not. *)
remove_block_trans(s, dev) ==
    [s EXCEPT !.block = {b \in @ : b.dev # dev}, !.pte = [p \in IoPages |-> NoEntryIo]]

add_block_trans(s, dev, base, size) ==
    [s EXCEPT !.block = @ \cup {[dev |-> dev, base |-> base, size |-> size]}]

-----------------------------------------------------------------------------
(* The drivers' map procedures.  gc.c moves its ranges one after the other;   *)
(* usb.c does not look at add_map and puts its range to address 0 instead of  *)
(* unmapping it.                                                              *)
AddsRange(d, add) == add \/ d.kind = "usb"

MovePart(s, d, k, base, add, order) ==
    LET dropped == IF ioHeld[d] THEN remove_io_range(s, d.name, k) ELSE s
        r == [dev |-> d.name, part |-> k, base |-> base + d.ranges[k].offs, size |-> d.ranges[k].size]
    IN  IF AddsRange(d, add) THEN add_io_range(dropped, r, order) ELSE dropped

MapRanges(s, d, base, add, order) ==
    LET moved[k \in 0 .. Len(d.ranges)] ==
            IF k = 0 THEN s ELSE MovePart(moved[k - 1], d, k, base, add, order)
    IN  moved[Len(d.ranges)]

MapFrameBuffer(s, d, base, add) ==
    LET dropped == IF ioHeld[d] THEN remove_block_trans(s, d.name) ELSE s
    IN  IF add THEN add_block_trans(dropped, d.name, base, d.ranges[1].size) ELSE dropped

map_proc(s, d, base, add, order) ==
    IF d.kind = "video" THEN MapFrameBuffer(s, d, base, add) ELSE MapRanges(s, d, base, add, order)

Remembers(d, add) == AddsRange(d, add)

Decodes(bar, cmd) == cmd /\ bar.r > LowLimit

(* update_base_register(): map, if not mapped there already, or unmap.        *)
Maps(bar, cmd) == Decodes(bar, cmd) /\ ~(bar.mapped /\ bar.r = bar.old)

UpdateBar(s, d, bar, cmd, order) ==
    IF Maps(bar, cmd) THEN map_proc(s, d, bar.r, TRUE, order)
    ELSE IF ~Decodes(bar, cmd) /\ bar.mapped THEN map_proc(s, d, 0, FALSE, order)
    ELSE s

(* The ROM: rombase.old_r is never set, so that an enabled ROM is mapped anew  *)
(* with each write.                                                           *)
UpdateRom(s, d, rom, cmd, order) ==
    LET map == rom.enable /\ cmd
        dropped == IF rom.mapped THEN remove_io_range(s, d.name, 0) ELSE s
    IN  IF map
        THEN add_io_range(dropped, [dev |-> d.name, part |-> 0, base |-> rom.r, size |-> d.rom], order)
        ELSE dropped

(* write_pci_config(): the register is set and update_base_registers() called. *)
(* old_r counts only while the register is mapped, and is 0 here otherwise.    *)
write_pci_config(d, bar, cmd, rom) ==
    \E order \in FrameOrders :
        /\ space' = UpdateRom(UpdateBar(space, d, bar, cmd, order), d, rom, cmd, order)
        /\ pciBar' = [pciBar EXCEPT ![d] =
                [bar EXCEPT !.mapped = Decodes(bar, cmd), !.old = IF Decodes(bar, cmd) THEN bar.r ELSE 0]]
        /\ ioHeld' = IF Maps(bar, cmd) \/ (~Decodes(bar, cmd) /\ bar.mapped)
                     THEN [ioHeld EXCEPT ![d] = Remembers(d, Decodes(bar, cmd))] ELSE ioHeld
        /\ pciCmd' = [pciCmd EXCEPT ![d] = cmd]
        /\ pciRom' = [pciRom EXCEPT ![d] = [rom EXCEPT !.mapped = rom.enable /\ cmd]]

WriteBar(d) == \E v \in d.bars :
    write_pci_config(d, [pciBar[d] EXCEPT !.r = v], pciCmd[d], pciRom[d])
WriteCommand(d) == \E cmd \in BOOLEAN : write_pci_config(d, pciBar[d], cmd, pciRom[d])
WriteRomBase(d) == d.rom > 0 /\ \E v \in RomValues, enable \in BOOLEAN :
    write_pci_config(d, pciBar[d], pciCmd[d], [pciRom[d] EXCEPT !.r = v, !.enable = enable])

-----------------------------------------------------------------------------
(* An access of the guest.  mphys_to_pte() tries the blocks, then the pages.  *)
Translate(s, p) ==
    LET blocks == {b \in s.block : Covers(b, p * IoPageSize)}
    IN  IF blocks # {} THEN [to |-> "memory", block |-> CHOOSE b \in blocks : TRUE]
        ELSE IF FrameOf(s, p) # {} THEN [to |-> "page", frame |-> CHOOSE f \in FrameOf(s, p) : TRUE]
        ELSE NoEntryIo

(* check_io_page: the entry leads to a page with valid magic numbers.         *)
IsIoPage(s, e) == e.to = "page" /\ s.frame[e.frame] # NoFrame
Works(s, e) == IsIoPage(s, e) \/ e.to = "memory"

(* insert_pte() after a fault, which comes if there is no entry, or one to a   *)
(* page that is no I/O page any more.                                          *)
PageFault(p) ==
    /\ ~Works(space, space.pte[p])
    /\ Translate(space, p) # NoEntryIo
    /\ space' = [space EXCEPT !.pte[p] = Translate(space, p)]
    /\ UNCHANGED <<pciBar, pciCmd, pciRom, ioHeld>>

PteEvicted(p) ==
    /\ space.pte[p] # NoEntryIo
    /\ space' = [space EXCEPT !.pte[p] = NoEntryIo]
    /\ UNCHANGED <<pciBar, pciCmd, pciRom, ioHeld>>

(* Who gets an access to addr.  The address is made from the page's own mphys; *)
(* without a pointer, do_io_read() looks the range up.                         *)
ByPage(s, page, g) ==
    IF page.usr[g] # Nil THEN page.usr[g].dev ELSE get_range(s, page.mphys * IoPageSize + g)

Answers(s, addr) ==
    LET p == PageOf(addr)
        e == IF Works(s, s.pte[p]) THEN s.pte[p] ELSE Translate(s, p)
    IN  CASE e.to = "none" -> get_range(s, addr)
          [] e.to = "page" -> ByPage(s, s.frame[e.frame], addr % IoPageSize)
          [] e.to = "memory" -> e.block.dev

IoNext ==
    \/ \E d \in PciDevs : WriteBar(d) \/ WriteCommand(d) \/ WriteRomBase(d)
    \/ \E p \in IoPages : PageFault(p) \/ PteEvicted(p)

IoSpec == IoInit /\ [][IoNext]_ioVars
-----------------------------------------------------------------------------
(* The kinds of values, and the list has each part of a device once.          *)
IoTypeOK ==
    /\ \A d \in PciDevs : pciBar[d].r \in d.bars \cup {0} /\ pciRom[d].r \in RomValues \cup {0}
    /\ \A i, j \in 1 .. Len(space.root) :
        space.root[i].dev = space.root[j].dev /\ space.root[i].part = space.root[j].part => i = j
    /\ \A f, g \in IoFrames : space.frame[f] # NoFrame /\ space.frame[g] # NoFrame =>
        (f = g) = (space.frame[f].mphys = space.frame[g].mphys)

(* A pointer in an I/O page is to a range that still exists, covers the        *)
(* address, and is the newest of those the kernel was told of: the emulator    *)
(* uses it without a check (molcpu.c:682, ioports.c:238).                      *)
NoDanglingRange ==
    \A f \in IoFrames : space.frame[f] # NoFrame => \A g \in Grains :
        LET addr == space.frame[f].mphys * IoPageSize + g
            told == SelectSeq(space.root, LAMBDA r : Covers(r, addr) /\ r.size <= KernelLimit)
        IN  space.frame[f].usr[g] # Nil => told # <<>> /\ space.frame[f].usr[g] = told[1]

(* What the registers say: the devices that decode an address.                *)
Decoders(addr) ==
    {d.name : d \in {d \in PciDevs :
        \/ Decodes(pciBar[d], pciCmd[d]) /\ \E k \in 1 .. Len(d.ranges) :
                Covers([base |-> pciBar[d].r + d.ranges[k].offs, size |-> d.ranges[k].size], addr)
        \/ pciCmd[d] /\ pciRom[d].enable /\ Covers([base |-> pciRom[d].r, size |-> d.rom], addr)}}
    \cup {b.dev : b \in {b \in {Ram} : Covers(b, addr)}}

(* The entry leads to a frame that was freed and used for another page.       *)
Misdirected(p) == IsIoPage(space, space.pte[p]) /\ space.frame[space.pte[p].frame].mphys # p

(* However often devices were moved over each other, an access to a page that  *)
(* one device decodes reaches it, and an access to an address nobody decodes    *)
(* reaches nobody; unless the hash table still leads to an I/O page that was    *)
(* freed and is used for another page (the XXX of mmu_io.c:321).               *)
DeviceAnswers ==
    \A p \in IoPages :
        LET addrs == p * IoPageSize .. (p + 1) * IoPageSize - 1
            dec == [a \in addrs |-> Decoders(a)]
        IN  Cardinality(UNION {dec[a] : a \in addrs}) <= 1 /\ ~Misdirected(p) =>
                \A a \in addrs : IF dec[a] = {} THEN Answers(space, a) = "unmapped"
                                  ELSE Answers(space, a) \in dec[a]

(* An entry to the frame buffer's memory does not outlive its mapping          *)
(* (mmu_io.c:232): the memory may be somebody else's by then.                  *)
NoStaleMemory ==
    \A p \in IoPages : space.pte[p].to = "memory" => space.pte[p].block \in space.block

(* However the guest moves the devices, an access reaches the one that       *)
(* decodes the address, through a pointer that is still valid and no entry   *)
(* to memory that is gone.                                                   *)
AccessesReach == IoTypeOK /\ NoDanglingRange /\ DeviceAnswers /\ NoStaleMemory
=============================================================================
