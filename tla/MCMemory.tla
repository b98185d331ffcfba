------------------------------ MODULE MCMemory ------------------------------
(* The kernel module's records of the translations it gives out.             *)
(* The mapping table for one guest context with three addresses: two of the  *)
(* same page in user and supervisor mode, and one of another top-level       *)
(* table.  They map a page of Linux or an address that has none, so that a    *)
(* page's ring grows to three records.  Reverse map records and hash slots    *)
(* are interchangeable.                                                      *)
(* The skip list of its contexts.  The I/O ranges of PCI devices: gc has two  *)
(* ranges and overlaps its former place when it is moved, usb has a ROM the   *)
(* kernel is not told of, and all three can have the same address.  The three *)
(* share no state; a behaviour is one of one of them.                        *)
EXTENDS Mtable, SkipList, IoSpace, TLC

CONSTANT v1

VARIABLE focus

MCAddresses == {[v |-> v1, top |-> 0, sv |-> FALSE], [v |-> v1, top |-> 0, sv |-> TRUE],
                [v |-> v1, top |-> 1, sv |-> FALSE]}

MCPciDevs ==
    {[name |-> "gc", kind |-> "gc", rom |-> 0, bars |-> {2, 4},
      ranges |-> <<[offs |-> 0, size |-> 1], [offs |-> 2, size |-> 1]>>],
     [name |-> "usb", kind |-> "usb", rom |-> 4, bars |-> {2, 4},
      ranges |-> <<[offs |-> 0, size |-> 2]>>],
     [name |-> "video", kind |-> "video", rom |-> 0, bars |-> {2, 4},
      ranges |-> <<[offs |-> 0, size |-> 2]>>]}

Symmetry == Permutations(Pents) \cup Permutations(PteSlots)

MemoryInit == focus \in {"mtable", "skiplist", "io"} /\ MtInit /\ SkipInit /\ IoInit

MemoryNext ==
    \/ focus = "mtable" /\ MtNext /\ UNCHANGED <<skipVars, ioVars, focus>>
    \/ focus = "skiplist" /\ SkipNext /\ UNCHANGED <<mtVars, ioVars, focus>>
    \/ focus = "io" /\ IoNext /\ UNCHANGED <<mtVars, skipVars, focus>>

MemorySpec == MemoryInit /\ [][MemoryNext]_<<mtVars, skipVars, ioVars, focus>>
=============================================================================
