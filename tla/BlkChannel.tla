----------------------------- MODULE BlkChannel -----------------------------
(***************************************************************************)
(* What the disk channel promises its client, without ring, thread, pipe or *)
(* interrupt: descriptors are completed in order, the client is told how    *)
(* many are completed, and both happen as long as the channel runs.         *)
(***************************************************************************)
EXTENDS Naturals

VARIABLES
    up,         \* the channel accepts and processes descriptors
    queued,     \* descriptors the client has handed over since the start
    done,       \* descriptors completed
    told        \* the count the client was told last

vars == <<up, queued, done, told>>

Init == up = 0 /\ queued = 0 /\ done = 0 /\ told = 0

Submit == queued' = queued + 1 /\ UNCHANGED <<up, done, told>>
Complete == done' \in done + 1 .. queued /\ UNCHANGED <<up, queued, told>>
Report == told' = done /\ UNCHANGED <<up, queued, done>>
Halt == up' = 0 /\ done' \in {0, done} /\ UNCHANGED <<queued, told>>
Start == up = 0 /\ up' = 1 /\ queued' = 0 /\ done' = 0 /\ told' = 0

Next == Submit \/ Complete \/ Report \/ Halt \/ Start

Spec == /\ Init /\ [][Next]_vars
        /\ WF_vars(up = 1 /\ Complete) /\ WF_vars(up = 1 /\ Report)
=============================================================================
