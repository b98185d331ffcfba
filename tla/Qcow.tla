-------------------------------- MODULE Qcow --------------------------------
(***************************************************************************)
(* The copy-on-write disk image: a two level table that maps the clusters   *)
(* of the virtual disk to clusters of the image file, a write-through cache *)
(* of second level tables, a cache of the last decompressed cluster, and    *)
(* allocation at the end of the file.                                       *)
(*                                                                         *)
(* File offsets are counted in clusters; 0 holds the header and the first   *)
(* level table.  One call handles one cluster: a longer read or write is a  *)
(* sequence of them.  Any one file operation of a call may fail.  The       *)
(* program does not undo or remember a failed access to the tables (the     *)
(* entry in memory stays changed, a cache slot holds half a table, a failed *)
(* extension is taken for an offset): after the first one the image is torn *)
(* and the model stops there.                                               *)
(*                                                                         *)
(* Source: drivers/disk/blk_qcow.c.                                         *)
(***************************************************************************)
EXTENDS Integers, FiniteSets, FiniteSetsExt

CONSTANTS
    L1Size, L2Size,     \* entries of the tables
    CacheSize,          \* QCOW_L2_CACHE_SIZE
    CountMax,           \* 0xffffffff: a hit count that reaches it is halved
    ClusterSectors,     \* s->cluster_sectors
    Values,             \* what a sector may hold; 0 is a hole of the file
    Base,               \* what pread() from backing_hd gives: the data of the base
                        \* image or, without one, an error (the descriptor is -1)
    QcowFaults,         \* the file operations that may fail
    MaxUnits            \* bound: clusters of the image file

ASSUME QcowAssumption ==
    /\ {L1Size, L2Size, CacheSize, ClusterSectors} \subseteq Nat \ {0}
    /\ MaxUnits \in Nat /\ MaxUnits > 2      \* the header, a table and a cluster
    /\ CountMax \in Nat /\ CountMax > 1

Units == 0 .. MaxUnits
Sectors == 0 .. ClusterSectors - 1
Clusters == (0 .. L1Size - 1) \X (0 .. L2Size - 1)
NoRef == [off |-> 0, compressed |-> FALSE]
ZeroTable == [j \in 0 .. L2Size - 1 |-> NoRef]
Zeros == [x \in Sectors |-> 0]
NoFault == "none"
Unknown == -1

VARIABLES
    img,        \* the image: the file, and what BDRVQCowState keeps of it
    expect,     \* history: what each sector holds once its cluster exists, or Unknown
    written,    \* history: the clusters that exist
    torn        \* history: an access to the tables has failed

qcowVars == <<img, expect, written, torn>>

Image == [dl1   : [0 .. L1Size - 1 -> Units],               \* in the file
          tab   : [Units -> [0 .. L2Size - 1 -> [off : Units, compressed : BOOLEAN]]],
          data  : [Units -> [Sectors -> Values \cup {0}]],
          eof   : Nat,
          l1    : [0 .. L1Size - 1 -> Units],               \* s->l1_table
          cache : [1 .. CacheSize -> [off : Units, count : 0 .. CountMax,
                    tab : [0 .. L2Size - 1 -> [off : Units, compressed : BOOLEAN]]]],
          cc    : [off : Units, data : [Sectors -> Values \cup {0}]]]

QcowTypeOK ==
    /\ img \in Image
    /\ expect \in [Clusters -> [Sectors -> Values \cup {0, Unknown}]]
    /\ written \subseteq Clusters
    /\ torn \in BOOLEAN

NoCache == [i \in 1 .. CacheSize |-> [off |-> 0, count |-> 0, tab |-> ZeroTable]]

(* qcow_open(): the first level table is read, the caches are empty.         *)
Open(s) == [s EXCEPT !.l1 = s.dl1, !.cache = NoCache, !.cc = [off |-> 0, data |-> Zeros]]

(* An image whose first cluster was stored compressed.                       *)
QcowInit ==
    \E v \in Values :
        LET file == [dl1 |-> [i \in 0 .. L1Size - 1 |-> IF i = 0 THEN 1 ELSE 0],
                     tab |-> [u \in Units |-> IF u = 1
                        THEN [ZeroTable EXCEPT ![0] = [off |-> 2, compressed |-> TRUE]]
                        ELSE ZeroTable],
                     data |-> [u \in Units |-> IF u = 2 THEN [x \in Sectors |-> v] ELSE Zeros],
                     eof |-> 3, l1 |-> 0, cache |-> 0, cc |-> 0]
        IN /\ img = Open(file)
           /\ expect = [c \in Clusters |-> IF c = <<0, 0>> THEN [x \in Sectors |-> v]
                                           ELSE Zeros]
           /\ written = {<<0, 0>>}
           /\ torn = FALSE

-----------------------------------------------------------------------------
(* The hit count of slot i goes up; at the limit all counts are halved.      *)
Halved(cache, i) ==
    [j \in 1 .. CacheSize |->
        [cache[j] EXCEPT !.count = (IF j = i THEN CountMax ELSE @) \div 2]]
Hit(s, i) ==
    IF s.cache[i].count + 1 = CountMax
    THEN [s EXCEPT !.cache = Halved(s.cache, i)]
    ELSE [s EXCEPT !.cache[i].count = @ + 1]

(* The least used slot, the first of them, takes the table t of offset off.  *)
Replace(s, off, t) ==
    LET i == Min({j \in 1 .. CacheSize :
                \A k \in 1 .. CacheSize : s.cache[k].count >= s.cache[j].count})
    IN [s EXCEPT !.cache[i] = [off |-> off, count |-> 1, tab |-> t]]

(* A failed access leaves the slot with the new contents and the old offset. *)
Spoil(s) ==
    LET i == Min({j \in 1 .. CacheSize :
                \A k \in 1 .. CacheSize : s.cache[k].count >= s.cache[j].count})
    IN [s EXCEPT !.cache[i].tab = ZeroTable]

SlotOf(s, off) == {i \in 1 .. CacheSize : s.cache[i].off = off}

(* First half of get_cluster_offset(): the table of first level entry i is   *)
(* in the cache of ret.s, unless there is none or an access failed.          *)
GetTable(s, i, allocate, fault) ==
    LET new == s.l1[i] = 0
        off == IF new THEN s.eof ELSE s.l1[i]
        s1  == IF new THEN [s EXCEPT !.l1[i] = off] ELSE s
        s2  == IF new THEN [s1 EXCEPT !.dl1[i] = off] ELSE s1
    IN IF new /\ ~allocate        THEN [ok |-> FALSE, s |-> s]
       ELSE IF new /\ fault = "l1" THEN [ok |-> FALSE, s |-> s1]
       ELSE IF SlotOf(s, off) # {} THEN [ok |-> TRUE, s |-> Hit(s2, Min(SlotOf(s, off)))]
       ELSE IF fault = (IF new THEN "l2_new" ELSE "l2_load")
       THEN [ok |-> FALSE, s |-> Spoil(s2)]
       ELSE [ok |-> TRUE,
             s |-> IF new THEN Replace([s2 EXCEPT !.eof = off + 1, !.tab[off] = ZeroTable],
                                       off, ZeroTable)
                   ELSE Replace(s2, off, s.tab[off])]

Entry(s, c) == s.cache[Min(SlotOf(s, s.l1[c[1]]))].tab[c[2]]

(* decompress_cluster().                                                     *)
Decompress(s, off) ==
    IF s.cc.off = off THEN s ELSE [s EXCEPT !.cc = [off |-> off, data |-> s.data[off]]]

SetEntry(s, c, off) ==
    [s EXCEPT !.cache[Min(SlotOf(s, s.l1[c[1]]))].tab[c[2]] = [off |-> off, compressed |-> FALSE],
              !.tab[s.l1[c[1]]][c[2]] = [off |-> off, compressed |-> FALSE]]

(* Mutant: a compressed cluster that is partly overwritten is not unpacked. *)
AllocateNoUnpack(s, c, full) ==
    SetEntry([s EXCEPT !.data[s.eof] = Zeros, !.eof = @ + 1], c, s.eof)

(* A cluster at the end of the file for the entry c of the table in hand; a  *)
(* compressed cluster that is not overwritten completely is unpacked there.  *)
Allocate(s, c, full) ==
    LET e  == Entry(s, c)
        s1 == IF e.compressed /\ ~full THEN Decompress(s, e.off) ELSE s
    IN SetEntry([s1 EXCEPT !.data[s.eof] = IF e.compressed /\ ~full THEN s1.cc.data ELSE Zeros,
                           !.eof = @ + 1], c, s.eof)

-----------------------------------------------------------------------------
(* qcow_read() of one cluster.                                               *)
qcow_read(c, fault) ==
    LET t == GetTable(img, c[1], FALSE, fault)
    IN /\ img' = IF t.ok /\ Entry(t.s, c).compressed
                 THEN Decompress(t.s, Entry(t.s, c).off) ELSE t.s
       /\ torn' = (~t.ok /\ img.l1[c[1]] # 0)
       /\ UNCHANGED <<expect, written>>

(* The sectors of S of cluster c become v if the call reports success.  The  *)
(* others are not copied from the base image: in a new cluster they read 0.  *)
Expect(c, S, v) ==
    /\ written' = written \cup {c}
    /\ expect' = [expect EXCEPT ![c] = [x \in Sectors |-> IF x \in S THEN v ELSE @[x]]]

(* qcow_write() of the sectors S of cluster c.  A failure to extend the file *)
(* comes back from get_cluster_offset() as -1, which is not 0: the data goes *)
(* to wherever the file position is, and the call succeeds.                  *)
qcow_write(c, S, v, fault) ==
    LET t    == GetTable(img, c[1], TRUE, fault)
        e    == Entry(t.s, c)
        want == e.off = 0 \/ e.compressed
        s1   == IF want THEN Allocate(t.s, c, S = Sectors) ELSE t.s
        off  == Entry(s1, c).off
    IN /\ img.eof + 2 <= MaxUnits
       /\ torn' = (~t.ok \/ (want /\ fault \in {"extend", "l2_entry"}))
       /\ CASE ~t.ok ->
                 img' = t.s /\ Expect(c, S, Unknown)
            [] t.ok /\ want /\ fault = "extend" ->
                 img' = [t.s EXCEPT !.eof = @ + 1] /\ Expect(c, S, v)
            [] t.ok /\ want /\ fault = "l2_entry" ->
                 img' = [s1 EXCEPT !.tab = t.s.tab] /\ Expect(c, S, Unknown)
            [] t.ok /\ fault = "data" ->
                 img' = s1 /\ Expect(c, S, Unknown)
            [] OTHER ->
                 /\ img' = [s1 EXCEPT !.data[off] = [x \in Sectors |-> IF x \in S THEN v ELSE @[x]],
                                      !.cc.off = 0]
                 /\ Expect(c, S, v)

(* qcow_close() and qcow_open(): what was only in memory is gone.            *)
qcow_reopen == img' = Open(img) /\ UNCHANGED <<expect, written, torn>>

QcowNext ==
    /\ ~torn
    /\ \E fault \in QcowFaults \cup {NoFault} :
        \/ \E c \in Clusters : qcow_read(c, fault)
        \/ \E c \in Clusters, v \in Values, S \in {Sectors, {0}} : qcow_write(c, S, v, fault)
        \/ qcow_reopen

QcowSpec == QcowInit /\ [][QcowNext]_qcowVars

-----------------------------------------------------------------------------
Tables == {img.dl1[i] : i \in 0 .. L1Size - 1} \ {0}
Refs == {r \in Tables \X (0 .. L2Size - 1) : img.tab[r[1]][r[2]].off # 0}

(* No part of the file is handed out twice: tables and clusters that the     *)
(* file refers to are distinct and lie before its end.                       *)
QcowDisjoint ==
    /\ \A i, j \in 0 .. L1Size - 1 : i # j /\ img.dl1[i] # 0 => img.dl1[i] # img.dl1[j]
    /\ \A r, q \in Refs : r # q => img.tab[r[1]][r[2]].off # img.tab[q[1]][q[2]].off
    /\ \A r \in Refs : img.tab[r[1]][r[2]].off \notin Tables
    /\ \A u \in Tables \cup {img.tab[r[1]][r[2]].off : r \in Refs} : u < img.eof

(* The caches never disagree with the file, whatever was evicted, reloaded   *)
(* or overwritten.                                                           *)
QcowCoherent ==
    /\ img.l1 = img.dl1
    /\ \A i \in 1 .. CacheSize : img.cache[i].off # 0 =>
          /\ img.cache[i].tab = img.tab[img.cache[i].off]
          /\ \A j \in 1 .. CacheSize : img.cache[j].off = img.cache[i].off => i = j
    /\ img.cc.off # 0 => img.cc.data = img.data[img.cc.off]

(* What a read returns: by the table in the cache, or else in the file; the  *)
(* base image's data, or an error, for a cluster that does not exist.        *)
ReadSector(c, x) ==
    LET off == img.l1[c[1]]
        t == IF off # 0 /\ SlotOf(img, off) # {} THEN img.cache[Min(SlotOf(img, off))].tab
             ELSE img.tab[off]
        e == t[c[2]]
    IN IF off = 0 \/ e.off = 0 THEN Base
       ELSE IF e.compressed /\ img.cc.off = e.off THEN img.cc.data[x]
       ELSE img.data[e.off][x]

(* A sector reads what the last successful write to it stored, until a write *)
(* of it fails; a sector of a cluster nobody wrote to reads the base image.  *)
QcowReadsBack ==
    \A c \in Clusters, x \in Sectors :
        expect[c][x] # Unknown =>
            ReadSector(c, x) = IF c \in written THEN expect[c][x] ELSE Base

(* The image is sound until an access to its tables fails, also after failed *)
(* reads and writes of the data: nothing of the file is handed out twice,    *)
(* the caches agree with it, and a sector reads what was last written.       *)
ImageSound == ~torn => QcowTypeOK /\ QcowDisjoint /\ QcowCoherent /\ QcowReadsBack
=============================================================================
