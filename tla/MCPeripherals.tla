--------------------------- MODULE MCPeripherals ---------------------------
(* The machine's peripherals, on one small instance each: Grand Central with *)
(* three devices on the same irq and a fourth in the other cell, a DMA       *)
(* channel whose program is any command and then an input (a stop, if it     *)
(* begins with an input), sound and SCSI.  They share no state; a behaviour   *)
(* is one of one of them.                                                    *)
EXTENDS Pic, Dbdma, Sound, Scsi

CONSTANTS d1, d2, d3, d4

VARIABLE focus

MCDevices == {d1, d2, d3, d4}
MCCellOf == [d \in MCDevices |-> IF d = d4 THEN 2 ELSE 1]
MCBitOf  == [d \in MCDevices |-> IF d = d4 THEN 31 ELSE 5]
MCBits   == {5, 31}

(* Each command with the flags that matter for it.                           *)
Command(op, wait, br) == [op |-> op, wait |-> wait, br |-> br]
MCDmaOps == {Command("in", FALSE, FALSE), Command("out", TRUE, TRUE),
             Command("word", FALSE, FALSE), Command("memword", TRUE, FALSE),
             Command("keyword", FALSE, FALSE), Command("keymem", FALSE, FALSE),
             Command("nop", FALSE, TRUE), Command("stop", FALSE, FALSE),
             Command("bad", FALSE, FALSE)}

PeripheralsInit ==
    /\ focus \in {"pic", "dma", "sound", "scsi"}
    /\ Init /\ DmaInit /\ SndInit /\ ScsiInit
    /\ focus # "pic" => oldworld = 0
    /\ prog[ProgSize].op = (IF prog[1].op = "in" THEN "stop" ELSE "in")
    /\ focus # "dma" => prog[1].op = "in"
    /\ focus # "sound" => ~sndRing

PeripheralsNext ==
    \/ focus = "pic" /\ Next /\ UNCHANGED <<dmaVars, sndVars, scsiVars, focus>>
    \/ focus = "dma" /\ DmaNext /\ UNCHANGED <<vars, sndVars, scsiVars, focus>>
    \/ focus = "sound" /\ SndNext /\ UNCHANGED <<vars, dmaVars, scsiVars, focus>>
    \/ focus = "scsi" /\ ScsiNext /\ UNCHANGED <<vars, dmaVars, sndVars, focus>>

PeripheralsSpec ==
    /\ PeripheralsInit /\ [][PeripheralsNext]_<<vars, dmaVars, sndVars, scsiVars, focus>>
    /\ SndFairness /\ ScsiFairness
=============================================================================
