--------------------------- MODULE MCMainThread ---------------------------
(* What the main thread does for the guest: the interrupt controller when no  *)
(* other thread drives a line, and the dirty lines of a frame buffer.  One     *)
(* video mode has lines that cross page boundaries, the other a single line    *)
(* on two pages; page 0 can be reached in two ways.  They share no state; a    *)
(* behaviour is one of one of them.                                           *)
EXTENDS OsiPic, FbLines

VARIABLE focus

MCFbModes == {[bpr |-> 2, height |-> 4, offs |-> 3], [bpr |-> 6, height |-> 1, offs |-> 0]}
MCFbEas == {[name |-> "a1", page |-> 0, bat |-> TRUE], [name |-> "a2", page |-> 0, bat |-> FALSE],
            [name |-> "a1", page |-> 1, bat |-> FALSE], [name |-> "a1", page |-> 2, bat |-> FALSE]}

MainThreadInit == focus \in {"irq", "fb"} /\ Init /\ FbInit

MainThreadNext ==
    \/ focus = "irq" /\ Next /\ UNCHANGED <<fbVars, focus>>
    \/ focus = "fb" /\ FbNext /\ UNCHANGED <<vars, focus>>

MainThreadSpec ==
    /\ MainThreadInit /\ [][MainThreadNext]_<<vars, fbVars, focus>>
    /\ WF_vars(SetCpuIrqStep) /\ WF_vars(MainloopInterrupt) /\ FbFairness
=============================================================================
