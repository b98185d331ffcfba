-------------------------------- MODULE Enet --------------------------------
(***************************************************************************)
(* The ring based network device.  The main thread moves packets from the   *)
(* host's interface into the receive ring and, when the guest kicks it,     *)
(* from the transmit ring to the interface.  Requests the built-in DHCP and  *)
(* ARP servers answer are not sent: the answer is put into the receive ring  *)
(* from within the kick.                                                    *)
(*                                                                         *)
(* Handlers and calls run on the main thread, which is also the one that    *)
(* runs the guest: each is atomic, the guest's own accesses to the rings     *)
(* come between them.  The guest's driver is external: it masks the          *)
(* interrupt, empties the ring and acknowledges with the index it reached.  *)
(* A packet in the receive ring is its serial number.                       *)
(*                                                                         *)
(* Sources: drivers/net/enet2.c, drivers/net/packet.c.                      *)
(***************************************************************************)
EXTENDS Integers, FiniteSets

CONSTANTS
    EnetSlots,      \* rx_mask + 1, tx_mask + 1
    EnetPackets,    \* bound: packets received, and packets sent, after a start
    EnetStarts,     \* bound: starts of the device
    WireSize        \* bound: packets that wait in the interface

ASSUME EnetAssumption == EnetSlots \in Nat \ {0} /\ EnetPackets \in Nat
                         /\ EnetStarts \in Nat /\ WireSize \in Nat

VARIABLES
    eRun, eIrqOn, eLine,    \* me->running, me->irq_enable, the interrupt line
    rx, rxTail,     \* me->rx_ring: packet (psize # 0), 0, or Bad; me->rx_tail
    tx, txHead,     \* me->tx_ring: kind of a packet, or "free"; me->tx_head
    wire,           \* packets to read from IFACE.fd
    eDrv            \* the guest's driver (external), and what it has received

enetVars == <<eRun, eIrqOn, eLine, rx, rxTail, tx, txHead, wire, eDrv>>

ESlots == 0 .. EnetSlots - 1
After(i) == (i + 1) % EnetSlots
(* A slot without a packet whose buffer cannot be used.                      *)
Bad == -1
(* plain: to the interface; query: answered by packet.c; bad: bad address.   *)
TxKinds == {"plain", "query", "bad"}

EnetTypeOK ==
    /\ eRun \in {0, 1} /\ eIrqOn \in {0, 1} /\ eLine \in {0, 1}
    /\ rx \in [ESlots -> Nat \cup {Bad}] /\ rxTail \in ESlots
    /\ tx \in [ESlots -> TxKinds \cup {"free"}] /\ txHead \in ESlots
    /\ wire \in 0 .. WireSize
    /\ eDrv \in [pc : {"run", "poll", "ack"}, up : BOOLEAN, head : ESlots, tail : ESlots,
                 got : Nat, placed : Nat, queued : Nat, starts : 0 .. EnetStarts]

EnetInit ==
    /\ eRun = 0 /\ eIrqOn = 0 /\ eLine = 0
    /\ rx = [i \in ESlots |-> 0] /\ rxTail = 0
    /\ tx = [i \in ESlots |-> "free"] /\ txHead = 0
    /\ wire = 0
    /\ eDrv = [pc |-> "run", up |-> FALSE, head |-> 0, tail |-> 0, got |-> 0,
               placed |-> 0, queued |-> 0, starts |-> 0]

-----------------------------------------------------------------------------
(* rx_packet_handler(): slots are filled until the interface is empty, the   *)
(* ring is full (the rest is dropped) or a buffer is bad (the device stops). *)
Free0(k) == \A j \in 0 .. k - 1 : rx[(rxTail + j) % EnetSlots] = 0
Room == CHOOSE k \in 0 .. EnetSlots :
            Free0(k) /\ (k = EnetSlots \/ rx[(rxTail + k) % EnetSlots] # 0)
Stored == IF wire < Room THEN wire ELSE Room
Stuck(what) == Stored < EnetSlots /\ rx[(rxTail + Stored) % EnetSlots] = what
Full == ~Stuck(0) /\ ~Stuck(Bad)

Place(k) == [i \in ESlots |->
    LET d == (i - rxTail) % EnetSlots IN IF d < k THEN eDrv.placed + d + 1 ELSE rx[i]]

(* Mutant: a dropped packet raises no interrupt, and neither does the last  *)
(* packet that fits.                                                        *)
RxRaisesRoom == Stored > 0 /\ ~Full /\ eIrqOn = 1

RxRaises == Stored + (IF Full THEN wire - Stored ELSE 0) > 0 /\ eIrqOn = 1

rx_packet_handler ==
    /\ wire > 0
    /\ IF eRun = 0 THEN wire' = 0 /\ UNCHANGED <<eRun, eLine, rx, rxTail, eDrv>>
       ELSE /\ rx' = Place(Stored)
            /\ rxTail' = (rxTail + Stored) % EnetSlots
            /\ eDrv' = [eDrv EXCEPT !.placed = @ + Stored]
            /\ wire' = IF Full THEN 0 ELSE wire - Stored
            /\ eRun' = IF Stuck(Bad) THEN 0 ELSE 1
            /\ eLine' = IF RxRaises THEN 1 ELSE eLine
    /\ UNCHANGED <<eIrqOn, tx, txHead>>

(* A packet comes in.                                                        *)
PacketArrives ==
    /\ eDrv.placed + wire < EnetPackets /\ wire < WireSize
    /\ wire' = wire + 1
    /\ UNCHANGED <<eRun, eIrqOn, eLine, rx, rxTail, tx, txHead, eDrv>>

-----------------------------------------------------------------------------
(* osip_enet2_kick() runs over the transmit ring; s is the device while it   *)
(* does.  inject_packet() does not look at irq_enable.                       *)
inject_packet(s) ==
    IF s.run = 0 \/ s.rx[s.tail] > 0 THEN s
    ELSE IF s.rx[s.tail] = Bad THEN [s EXCEPT !.run = 0]
    ELSE [s EXCEPT !.rx[s.tail] = s.placed + 1, !.placed = @ + 1, !.tail = After(@), !.line = 1]

KickOne(s) ==
    LET kind == s.tx[s.head]
        sent == IF kind = "query" THEN inject_packet(s) ELSE s
    IN IF s.stop \/ kind = "free" THEN [s EXCEPT !.stop = TRUE]
       ELSE IF kind = "bad" THEN [s EXCEPT !.stop = TRUE, !.run = 0]
       ELSE [sent EXCEPT !.tx[s.head] = "free", !.head = After(@)]

Kicked(s0) ==
    LET turn[k \in 0 .. EnetSlots] == IF k = 0 THEN s0 ELSE KickOne(turn[k - 1])
    IN turn[EnetSlots]

osip_enet2_kick ==
    /\ eDrv.up /\ eRun = 1
    /\ LET s == Kicked([run |-> 1, line |-> eLine, rx |-> rx, tail |-> rxTail, tx |-> tx,
                        head |-> txHead, placed |-> eDrv.placed, stop |-> FALSE])
       IN /\ eRun' = s.run /\ eLine' = s.line /\ rx' = s.rx /\ rxTail' = s.tail
          /\ tx' = s.tx /\ txHead' = s.head
          /\ eDrv' = [eDrv EXCEPT !.placed = s.placed, !.queued = 0]
    /\ UNCHANGED <<eIrqOn, wire>>

(* The guest puts a packet into its next slot.                               *)
QueuePacket(kind) ==
    /\ eDrv.up /\ tx[eDrv.tail] = "free"
    /\ eDrv.placed + eDrv.queued < EnetPackets
    /\ tx' = [tx EXCEPT ![eDrv.tail] = kind]
    /\ eDrv' = [eDrv EXCEPT !.tail = After(@), !.queued = @ + 1]
    /\ UNCHANGED <<eRun, eIrqOn, eLine, rx, rxTail, txHead, wire>>

-----------------------------------------------------------------------------
(* osip_enet2_irq_ack( irq_enable, rx_index ): what it returns.              *)
(* Mutant: the ring is not looked at. *)
AckSeesNothing(index) == FALSE

AckSees(index) == eRun = 1 /\ rx[index] > 0

osip_enet2_irq_ack(irq_enable) ==
    /\ eIrqOn' = irq_enable
    /\ eLine' = 0
    /\ eDrv' = [eDrv EXCEPT !.pc = IF irq_enable = 0 \/ AckSees(eDrv.head) THEN "poll" ELSE "run"]
    /\ UNCHANGED <<eRun, rx, rxTail, tx, txHead, wire>>

(* The guest's receive loop.  It hands a new buffer in, perhaps a bad one.   *)
TakeIrq == eDrv.pc = "run" /\ eDrv.up /\ eLine = 1 /\ osip_enet2_irq_ack(0)
LooksEmpty ==
    /\ eDrv.pc = "poll" /\ eDrv.up /\ rx[eDrv.head] <= 0
    /\ eDrv' = [eDrv EXCEPT !.pc = "ack"]
    /\ UNCHANGED <<eRun, eIrqOn, eLine, rx, rxTail, tx, txHead, wire>>
EndPoll == eDrv.pc = "ack" /\ eDrv.up /\ osip_enet2_irq_ack(1)
TakePacket(refill) ==
    /\ eDrv.pc = "poll" /\ eDrv.up /\ rx[eDrv.head] > 0
    /\ rx' = [rx EXCEPT ![eDrv.head] = refill]
    /\ eDrv' = [eDrv EXCEPT !.head = After(@), !.got = @ + 1]
    /\ UNCHANGED <<eRun, eIrqOn, eLine, rxTail, tx, txHead, wire>>

-----------------------------------------------------------------------------
(* osip_enet2_cntrl( kEnet2Stop ) and ( kEnet2Reset ), and osip_enet2_close, *)
(* which leaves the interrupt alone.                                         *)
osip_enet2_cntrl_stop(reset) ==
    /\ eDrv.up
    /\ eRun' = 0 /\ eIrqOn' = 0 /\ eLine' = 0
    /\ rxTail' = IF reset THEN 0 ELSE rxTail
    /\ txHead' = IF reset THEN 0 ELSE txHead
    /\ eDrv' = [eDrv EXCEPT !.up = FALSE, !.pc = "run"]
    /\ UNCHANGED <<rx, tx, wire>>

osip_enet2_close ==
    /\ eDrv.up
    /\ eRun' = 0
    /\ eDrv' = [eDrv EXCEPT !.up = FALSE, !.pc = "run"]
    /\ UNCHANGED <<eIrqOn, eLine, rx, rxTail, tx, txHead, wire>>

(* osip_enet2_ring_setup() for rings the guest has cleared, and              *)
(* osip_enet2_cntrl( kEnet2Start ).                                          *)
osip_enet2_cntrl_start ==
    /\ ~eDrv.up /\ eRun = 0 /\ eDrv.starts < EnetStarts
    /\ rx' = [i \in ESlots |-> 0] /\ rxTail' = 0
    /\ tx' = [i \in ESlots |-> "free"] /\ txHead' = 0
    /\ eRun' = 1 /\ eIrqOn' = 1
    /\ eDrv' = [pc |-> "run", up |-> TRUE, head |-> 0, tail |-> 0, got |-> 0, placed |-> 0,
                queued |-> 0, starts |-> eDrv.starts + 1]
    /\ UNCHANGED <<eLine, wire>>

-----------------------------------------------------------------------------
GuestPolls == TakeIrq \/ LooksEmpty \/ EndPoll \/ TakePacket(0)

EnetNext ==
    \/ rx_packet_handler \/ PacketArrives
    \/ osip_enet2_kick \/ \E kind \in TxKinds : QueuePacket(kind)
    \/ GuestPolls \/ TakePacket(Bad)
    \/ \E reset \in BOOLEAN : osip_enet2_cntrl_stop(reset)
    \/ osip_enet2_close \/ osip_enet2_cntrl_start

(* poll() reports the packets; the guest takes its interrupt and its packets. *)
EnetFairness == WF_enetVars(rx_packet_handler) /\ WF_enetVars(GuestPolls)

EnetSpec == EnetInit /\ [][EnetNext]_enetVars /\ EnetFairness

-----------------------------------------------------------------------------
(* Both ends of the receive ring agree: from the guest's index up to rx_tail *)
(* the slots hold the packets it has not taken, in the order they came from  *)
(* the interface and from packet.c, and the other slots hold none.           *)
RxInOrder ==
    eDrv.up => \A k \in ESlots :
        LET p == rx[(eDrv.head + k) % EnetSlots]
        IN IF k < eDrv.placed - eDrv.got THEN p = eDrv.got + k + 1 ELSE p <= 0

(* Everything the guest has queued lies from tx_head up to its own index,    *)
(* and a kick leaves nothing behind unless it stops the device.              *)
TxInOrder ==
    /\ eDrv.up => \A i \in ESlots :
          LET n == Cardinality({j \in ESlots : tx[j] # "free"})
          IN tx[i] # "free" <=> (i - txHead) % EnetSlots < n
    /\ eDrv.up /\ eRun = 1 /\ eDrv.queued = 0 => \A i \in ESlots : tx[i] = "free"

(* "If the queue is empty, return 0 (the next packet will raise an           *)
(* interrupt)": a guest that has been told to stop polling has no packet     *)
(* before it unless the line is up, although packets arrive, and answers are *)
(* injected, while it has the interrupt masked.                              *)
NoStrandedPacket ==
    eRun = 1 /\ eDrv.pc = "run" /\ eLine = 0 => eIrqOn = 1 /\ rx[eDrv.head] <= 0

(* A packet in the ring of a running device reaches the guest.               *)
PacketsReach == eDrv.placed > eDrv.got ~> (eDrv.placed = eDrv.got \/ eRun = 0)

(* The guest and the device agree on both rings, and no packet lies in them  *)
(* that the guest was not told of.                                           *)
RingsAgree == EnetTypeOK /\ RxInOrder /\ TxInOrder /\ NoStrandedPacket
=============================================================================
