-------------------------------- MODULE Pic ---------------------------------
(***************************************************************************)
(* The Grand Central / Heathrow interrupt controller of Mac OS guests: two *)
(* cells of event, enable and level registers, with interrupts that two     *)
(* sources may share.  All operations run under pic.lock_mutex, so each is  *)
(* one step; the CPU line they ask for travels through the mailbox of       *)
(* module OsiPic.                                                          *)
(*                                                                         *)
(* Sources: drivers/pic.c, drivers/osi_driver.c (routing of interrupts).    *)
(***************************************************************************)
EXTENDS Integers, FiniteSets

CONSTANTS
    Bits,        \* the bit positions in use in a register
    TopBit,      \* MOL_BIT(0), whose acknowledgement clears all events
    Devices,     \* the devices that drive interrupts
    CellOf,      \* the cell (1 for irq 0-31, 2 for irq 32-63) of a device
    BitOf        \* and its bit in the registers of that cell

Cells == {1, 2}
Inds  == {0, 1}

ASSUME TopBitAssumption == TopBit \in Bits
ASSUME LineAssumption == /\ CellOf \in [Devices -> Cells]
                         /\ BitOf \in [Devices -> Bits]

NotRouted == -1

VARIABLES
    event, enable, level,   \* the registers of both cells, as sets of bits
    src,                    \* src[c][i]: bits driven by the i-th sharers
    in_use,                 \* in_use[c][i]: bits whose i-th sharer exists
    ind,                    \* the sharer number a device was given
    oldworld,               \* is_oldworld_boot(), set before drivers start
    cpu_irq                 \* pic.cpu_irq

vars == <<event, enable, level, src, in_use, ind, oldworld, cpu_irq>>

Registers == [Cells -> SUBSET Bits]
Sources   == [Cells -> [Inds -> SUBSET Bits]]

TypeOK ==
    /\ event \in Registers /\ enable \in Registers /\ level \in Registers
    /\ src \in Sources /\ in_use \in Sources
    /\ ind \in [Devices -> Inds \cup {NotRouted}]
    /\ oldworld \in {0, 1}
    /\ cpu_irq \in {0, 1}

Init ==
    /\ event = [c \in Cells |-> {}]
    /\ enable = [c \in Cells |-> {}]
    /\ level = [c \in Cells |-> {}]
    /\ src = [c \in Cells |-> [i \in Inds |-> {}]]
    /\ in_use = [c \in Cells |-> [i \in Inds |-> {}]]
    /\ ind = [d \in Devices |-> NotRouted]
    /\ oldworld \in {0, 1}
    /\ cpu_irq = 0

(* intline_upd().                                                           *)
IntLine(ev, en) == IF \E c \in Cells : ev[c] \cap en[c] # {} THEN 1 ELSE 0
intline_upd(ev, en) == cpu_irq' = IntLine(ev, en)

-----------------------------------------------------------------------------
(* source_register(): the second device on an irq becomes the sharer with   *)
(* number 1, a third one is refused.  A refused newworld driver gives up,   *)
(* but oldworld_route_irq() ignores the refusal and uses the irq as it is,  *)
(* that is, with sharer number 0.                                           *)
source_register(d) ==
    LET c == CellOf[d]
        b == BitOf[d]
        i == IF b \in in_use[c][0] THEN 1 ELSE 0
        refused == b \in in_use[c][i]
    IN /\ ind[d] = NotRouted
       /\ IF refused
          THEN /\ oldworld = 1
               /\ ind' = [ind EXCEPT ![d] = 0]
               /\ UNCHANGED in_use
          ELSE /\ in_use' = [in_use EXCEPT ![c][i] = @ \cup {b}]
               /\ ind' = [ind EXCEPT ![d] = i]
       /\ UNCHANGED <<event, enable, level, src, oldworld, cpu_irq>>

(* source_hi(): only the rising edge of a line is an event.                 *)
source_hi(d) ==
    LET c == CellOf[d]
        b == BitOf[d]
    IN /\ ind[d] # NotRouted
       /\ src' = [src EXCEPT ![c][ind[d]] = @ \cup {b}]
       /\ IF b \in level[c]
          THEN UNCHANGED <<level, event, cpu_irq>>
          ELSE /\ level' = [level EXCEPT ![c] = @ \cup {b}]
               /\ event' = [event EXCEPT ![c] = @ \cup {b}]
               /\ intline_upd(event', enable)
       /\ UNCHANGED <<enable, in_use, ind, oldworld>>

(* Mutant: the line goes low although the other sharer drives it. *)
source_low_unshared(d) ==
    LET c == CellOf[d]
        b == BitOf[d]
    IN /\ ind[d] # NotRouted
       /\ src' = [src EXCEPT ![c][ind[d]] = @ \ {b}]
       /\ level' = [level EXCEPT ![c] = @ \ {b}]
       /\ UNCHANGED <<event, enable, in_use, ind, oldworld, cpu_irq>>

(* Mutant: the source is looked up by line and not by sharer. *)
source_low_both(d) ==
    LET c == CellOf[d]
        b == BitOf[d]
    IN /\ ind[d] # NotRouted
       /\ src' = [src EXCEPT ![c] = [i \in Inds |-> src[c][i] \ {b}]]
       /\ level' = [level EXCEPT ![c] = @ \ {b}]
       /\ UNCHANGED <<event, enable, in_use, ind, oldworld, cpu_irq>>

(* source_low(): the line stays high while the other sharer drives it.  In  *)
(* the oldworld setting the falling edge is an event too, if enabled.       *)
source_low(d) ==
    LET c == CellOf[d]
        b == BitOf[d]
    IN /\ ind[d] # NotRouted
       /\ IF oldworld = 1 /\ b \in level[c]
          THEN /\ event' = [event EXCEPT ![c] = @ \cup ({b} \cap enable[c])]
               /\ intline_upd(event', enable)
          ELSE UNCHANGED <<event, cpu_irq>>
       /\ src' = [src EXCEPT ![c][ind[d]] = @ \ {b}]
       /\ level' = [level EXCEPT ![c] = @ \ ({b} \ src[c][1 - ind[d]])]
       /\ UNCHANGED <<enable, in_use, ind, oldworld>>

-----------------------------------------------------------------------------
(* The guest writes the ENABLE register of cell c; events are kept.         *)
WriteEnable(c, data) ==
    /\ enable' = [enable EXCEPT ![c] = data]
    /\ intline_upd(event, enable')
    /\ UNCHANGED <<event, level, src, in_use, ind, oldworld>>

(* The guest writes the ACK register of cell c.                             *)
WriteAck(c, data) ==
    /\ event' = IF TopBit \in data THEN [x \in Cells |-> {}]
                                   ELSE [event EXCEPT ![c] = @ \ data]
    /\ intline_upd(event', enable)
    /\ UNCHANGED <<enable, level, src, in_use, ind, oldworld>>

Next ==
    \/ \E d \in Devices : source_register(d) \/ source_hi(d) \/ source_low(d)
    \/ \E c \in Cells, data \in SUBSET Bits : WriteEnable(c, data) \/ WriteAck(c, data)

Spec == Init /\ [][Next]_vars

-----------------------------------------------------------------------------
(* A line is high exactly while one of its sharers drives it: source_low()  *)
(* of one sharer never hides the other.                                     *)
LevelIsSources == \A c \in Cells : level[c] = src[c][0] \cup src[c][1]

(* pic.cpu_irq is up to date after every operation, including those that    *)
(* do not call intline_upd().                                               *)
LineFollowsEvents == cpu_irq = IntLine(event, enable)

(* pic.c: "all irqs can be shared by at most two sources".  Routed devices  *)
(* on the same irq are different sources, hence at most two.                *)
AtMostTwoSources ==
    \A d, e \in Devices :
        d # e /\ CellOf[d] = CellOf[e] /\ BitOf[d] = BitOf[e]
              /\ ind[d] # NotRouted /\ ind[e] # NotRouted => ind[d] # ind[e]

(* It holds when the interrupts are looked up in the device tree.           *)
NewworldSharing == oldworld = 0 => AtMostTwoSources

Drives(d) == ind[d] # NotRouted /\ BitOf[d] \in src[CellOf[d]][ind[d]]

(* Only a device itself ends what it drives, whichever devices it shares    *)
(* its irq with: no access of the guest to the registers takes a line low,  *)
(* and source_low() leaves what every other device drives alone, as long as *)
(* irqs are not routed at run time.                                         *)
OnlyOwnerLowers ==
    [][\A d \in Devices : oldworld = 0 /\ Drives(d) /\ ~Drives(d)'
          => enable' = enable /\ \A e \in Devices \ {d} : Drives(e)' = Drives(e)]_vars

(* A line is high exactly while one of its sharers drives it, sharers are    *)
(* told apart, and the line of the processor is up to date.                  *)
SharersSafe == TypeOK /\ LevelIsSources /\ LineFollowsEvents /\ NewworldSharing
=============================================================================
