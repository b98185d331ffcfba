-------------------------------- MODULE Dbdma --------------------------------
(***************************************************************************)
(* One channel of the descriptor-based DMA engine.  The guest programs it   *)
(* through its registers; device threads ask it for a transfer, move the    *)
(* data without the lock, and acknowledge.  Whoever holds the lock may run   *)
(* the channel program, and gives the lock up around an access to a device  *)
(* register (LOAD_WORD and STORE_WORD), so that the channel may be stopped  *)
(* and restarted under it.  An identifier tells late answers from current   *)
(* ones.                                                                    *)
(*                                                                         *)
(* Memory is the channel program: prog[p] is the command at pointer p, and   *)
(* a pointer outside it is an address that is neither RAM nor ROM.  The     *)
(* words stamp_status() leaves in memory, the FLUSH and WAKE flags and the   *)
(* unimplemented interrupts are left out, and of s0-s7 one bit is kept.     *)
(*                                                                         *)
(* Source: drivers/dbdma.c.                                                *)
(***************************************************************************)
EXTENDS Integers, FiniteSets

CONSTANTS
    DmaClients,     \* device threads
    ProgSize,       \* commands of a channel program
    DmaOps,         \* bound: the commands programs are made of
    ReqCount,       \* req_count of a transfer
    MaxCmds,        \* bound: commands started
    MaxIdent        \* bound: identifiers given out before the last call

ASSUME DmaAssumption == ProgSize \in Nat /\ ReqCount \in Nat /\ MaxCmds \in Nat
                        /\ MaxIdent \in Nat

Guest == "guest"
Nobody == "nobody"
ASSUME DmaClientsAssumption == {Guest, Nobody} \cap DmaClients = {}

VARIABLES
    prog,           \* the channel program, in guest memory
    dStatus,        \* ch->status: RUN, PAUSE, DEAD, ACTIVE
    dSbit, dWaitSel, dBrSel,        \* s0-s7, r_wait_sel, r_br_sel: one bit
    dPtr, dCur,     \* ch->reg[r_cmdptr], and the command at ch->cur_cmd
    dIdle, dPhase, dIdent,          \* ch->idle, cmd_phase, identifier
    dRes,           \* ch->iostate.res_count
    dLock,          \* holder of ch->lock_mutex
    dThread,        \* per thread: pc, what it wants, identifier and command it holds
    dCmds,          \* history: commands started, the last one's serial number
    dKeyed          \* history: a STORE_WORD with a key that is not implemented was run

dmaVars == <<prog, dStatus, dSbit, dWaitSel, dBrSel, dPtr, dCur, dIdle, dPhase, dIdent,
             dRes, dLock, dThread, dCmds, dKeyed>>
regs == <<prog, dSbit, dWaitSel, dBrSel>>

DmaThreads == DmaClients \cup {Guest}
Phases == {"idling", "preparing", "starting", "inputing", "outputing", "finishing", "ioaccessing"}
Transfers == {"inputing", "outputing"}
(* in, out: transfers; word, memword: LOAD/STORE_WORD of a device and of RAM;  *)
(* keyword, keymem: the same STORE_WORDs with a key that is not implemented;   *)
(* bad: a reserved command or buffer, or a LOAD_WORD with such a key, which    *)
(* kills the channel.                                                          *)
Commands == [op : {"in", "out", "word", "memword", "keyword", "keymem", "nop", "stop", "bad"},
             wait : BOOLEAN, br : BOOLEAN]
ASSUME DmaOpsAssumption == DmaOps \subseteq Commands

DmaTypeOK ==
    /\ prog \in [1 .. ProgSize -> Commands]
    /\ dStatus \subseteq {"RUN", "PAUSE", "DEAD", "ACTIVE"}
    /\ dSbit \in {0, 1} /\ dWaitSel \in {0, 1} /\ dBrSel \in {0, 1}
    /\ dPtr \in Nat /\ dCur \in Nat /\ dIdle \in BOOLEAN /\ dPhase \in Phases /\ dIdent \in Nat
    /\ dRes \in 0 .. ReqCount /\ dLock \in DmaThreads \cup {Nobody}
    /\ dThread \in [DmaThreads -> [pc : {"out", "proc", "io", "xfer"},
                                   want : Transfers \cup {"none"}, id : Nat, cmd : Nat]]
    /\ dCmds \in Nat /\ dKeyed \in BOOLEAN

DmaInit ==
    /\ prog \in [1 .. ProgSize -> DmaOps]
    /\ dStatus = {} /\ dSbit = 0 /\ dWaitSel = 0 /\ dBrSel = 0
    /\ dPtr = 1 /\ dCur = 0 /\ dIdle = TRUE /\ dPhase = "idling" /\ dIdent = 0
    /\ dRes = 0 /\ dLock = Nobody /\ dCmds = 0 /\ dKeyed = FALSE
    /\ dThread = [t \in DmaThreads |-> [pc |-> "out", want |-> "none", id |-> 0, cmd |-> 0]]

Free(t) == dLock = Nobody /\ dThread[t].pc = "out"
Enter(t, want) ==
    /\ dLock' = t
    /\ dThread' = [dThread EXCEPT ![t].pc = "proc", ![t].want = want]

(* go_idle() takes a new identifier, which makes late answers invalid.       *)
GoIdleIdent == dIdent + 1

go_idle == dIdent' = GoIdleIdent /\ dPhase' = "idling" /\ dIdle' = TRUE
kill_channel == dStatus' = (dStatus \cup {"DEAD"}) \ {"ACTIVE"} /\ go_idle

-----------------------------------------------------------------------------
(* Steps of process_cmds() by the thread t that holds the lock.              *)
Runs(t, phase) ==
    dLock = t /\ dThread[t].pc = "proc" /\ dPhase = phase /\ "PAUSE" \notin dStatus

prepare_cmd(t) ==
    /\ Runs(t, "preparing")
    /\ IF dPtr \in 1 .. ProgSize
       THEN dCur' = dPtr /\ dPhase' = "starting" /\ UNCHANGED <<dStatus, dIdle, dIdent>>
       ELSE kill_channel /\ UNCHANGED dCur
    /\ UNCHANGED <<regs, dPtr, dRes, dLock, dThread, dCmds, dKeyed>>

(* start_cmd(), start_input() and start_output().                            *)
StartTransfer ==
    /\ prog[dCur].op \in {"in", "out"}
    /\ dPhase' = IF prog[dCur].op = "in" THEN "inputing" ELSE "outputing"
    /\ dRes' = 0
    /\ UNCHANGED <<dStatus, dIdle, dIdent, dLock, dThread, dKeyed>>

(* store_word() kills the channel for a key it does not implement, and does  *)
(* not return: the store is made and the program goes on in a dead and idle  *)
(* channel.                                                                  *)
KeyedStore == prog[dCur].op \in {"keyword", "keymem"}
WordIdent == IF KeyedStore THEN GoIdleIdent + 1 ELSE dIdent + 1
KeyKills ==
    IF KeyedStore
    THEN dStatus' = (dStatus \cup {"DEAD"}) \ {"ACTIVE"} /\ dIdle' = TRUE /\ dKeyed' = TRUE
    ELSE UNCHANGED <<dStatus, dIdle, dKeyed>>

(* load_word() and store_word(): the lock is given up for the access to a    *)
(* device, not for one to memory.                                            *)
StartWord(t) ==
    /\ prog[dCur].op \in {"word", "keyword"}
    /\ KeyKills
    /\ dPhase' = "ioaccessing" /\ dIdent' = WordIdent
    /\ dLock' = Nobody
    /\ dThread' = [dThread EXCEPT ![t].pc = "io", ![t].id = WordIdent, ![t].cmd = dCmds + 1]
    /\ UNCHANGED dRes

StartMemWord ==
    /\ prog[dCur].op \in {"memword", "keymem"}
    /\ KeyKills
    /\ dPhase' = "finishing" /\ dIdent' = WordIdent
    /\ UNCHANGED <<dRes, dLock, dThread>>

StartOther ==
    /\ \/ prog[dCur].op = "nop" /\ dPhase' = "finishing" /\ UNCHANGED <<dStatus, dIdle, dIdent>>
       \/ prog[dCur].op = "stop" /\ dStatus' = dStatus \ {"ACTIVE"}
          /\ dIdle' = TRUE /\ dPhase' = "idling" /\ UNCHANGED dIdent
       \/ prog[dCur].op = "bad" /\ kill_channel
    /\ UNCHANGED <<dRes, dLock, dThread, dKeyed>>

start_cmd(t) ==
    /\ Runs(t, "starting") /\ dCmds < MaxCmds
    /\ dCmds' = dCmds + 1
    /\ StartTransfer \/ StartWord(t) \/ StartMemWord \/ StartOther
    /\ UNCHANGED <<regs, dPtr, dCur>>

(* The access has ended and the lock is held again: the answer counts if the *)
(* channel is still at this command.                                         *)
WordEnds(t) ==
    /\ dThread[t].pc = "io" /\ dLock = Nobody
    /\ dPhase' = IF dThread[t].id = dIdent /\ dPhase = "ioaccessing" THEN "finishing" ELSE dPhase
    /\ dLock' = t /\ dThread' = [dThread EXCEPT ![t].pc = "proc"]
    /\ UNCHANGED <<regs, dStatus, dPtr, dCur, dIdle, dIdent, dRes, dCmds, dKeyed>>

(* finish_cmd().  The selectors are masked so that a condition only ever     *)
(* holds while the selected status bit is 0.                                 *)
Cond(sel) == sel = 1 /\ dSbit = 0
Waits == prog[dCur].wait /\ Cond(dWaitSel)
MayBranch == prog[dCur].op \in {"in", "out", "nop"}

finish_cmd(t) ==
    /\ Runs(t, "finishing") /\ ~Waits
    /\ dPtr' = IF MayBranch /\ prog[dCur].br /\ Cond(dBrSel) THEN 1 ELSE dPtr + 1
    /\ dPhase' = "preparing"
    /\ UNCHANGED <<regs, dStatus, dCur, dIdle, dIdent, dRes, dLock, dThread, dCmds, dKeyed>>

(* The loop ends, the caller gets its transfer if there is one, and unlocks. *)
Halted == \/ "PAUSE" \in dStatus
          \/ dPhase \in {"idling", "inputing", "outputing", "ioaccessing"}
          \/ dPhase = "finishing" /\ Waits

Grant(t) ==
    /\ dIdent' = dIdent + 1
    /\ dThread' = [dThread EXCEPT ![t].pc = "xfer", ![t].want = dPhase,
                                  ![t].id = dIdent + 1, ![t].cmd = dCmds]

LoopEnds(t) ==
    /\ dLock = t /\ dThread[t].pc = "proc" /\ Halted
    /\ dLock' = Nobody
    /\ IF dThread[t].want = dPhase
       THEN Grant(t)
       ELSE dThread' = [dThread EXCEPT ![t].pc = "out", ![t].want = "none"] /\ UNCHANGED dIdent
    /\ UNCHANGED <<regs, dStatus, dPtr, dCur, dIdle, dPhase, dRes, dCmds, dKeyed>>

-----------------------------------------------------------------------------
(* reg_io_write() of r_control, and control_write(): bits of mask, DEAD among *)
(* them, are replaced; clearing RUN stops the channel, setting it starts an   *)
(* idle one; ACTIVE is computed again, whatever was written to it.  The new   *)
(* value s of the status bit is the written one or the device's answer if the *)
(* mask has any of s0-s7, and the old one otherwise.                          *)
Halts(mask, set) == "RUN" \in mask /\ "RUN" \notin set

Begins(st) == "RUN" \in st /\ "DEAD" \notin st /\ dIdle

(* Mutant: a paused channel is not stopped. *)
StopsUnpaused(mask, set) == Halts(mask, set) /\ ~dIdle /\ "PAUSE" \notin dStatus

Stops(mask, set) == Halts(mask, set) /\ ~dIdle

control_write(mask, set, s) ==
    /\ Free(Guest) /\ dIdent < MaxIdent
    /\ dSbit' = s
    /\ LET stop == Stops(mask, set)
           st == ((dStatus \ mask) \cup set) \ (IF Halts(mask, set) THEN {"DEAD"} ELSE {})
           begin == Begins(st)
           dead == begin /\ dPtr \notin 1 .. ProgSize
           idle == ~begin /\ (stop \/ dIdle)
           go == ~idle /\ "PAUSE" \notin st /\ "DEAD" \notin st /\ ~dead
       IN /\ dStatus' = (st \ {"ACTIVE"}) \cup (IF go THEN {"ACTIVE"} ELSE {})
                                          \cup (IF dead THEN {"DEAD"} ELSE {})
          /\ dIdle' = idle
          /\ dPhase' = IF stop \/ dead THEN "idling" ELSE IF begin THEN "starting" ELSE dPhase
          /\ dIdent' = IF stop \/ dead THEN GoIdleIdent ELSE dIdent
          /\ dCur' = IF begin /\ ~dead THEN dPtr ELSE dCur
          /\ IF go THEN Enter(Guest, "none") ELSE UNCHANGED <<dLock, dThread>>
    /\ UNCHANGED <<prog, dWaitSel, dBrSel, dPtr, dRes, dCmds, dKeyed>>

(* reg_io_write() of r_cmdptr: no effect if RUN or ACTIVE is set.            *)
CmdPtrWrite(p) ==
    /\ Free(Guest) /\ {"RUN", "ACTIVE"} \cap dStatus = {}
    /\ dPtr' = p
    /\ UNCHANGED <<regs, dStatus, dCur, dIdle, dPhase, dIdent, dRes, dLock, dThread, dCmds, dKeyed>>

(* reg_io_write() of r_wait_sel and r_br_sel: nothing is processed.          *)
SelWrite(w, b) ==
    /\ Free(Guest)
    /\ dWaitSel' = w /\ dBrSel' = b
    /\ UNCHANGED <<prog, dSbit, dStatus, dPtr, dCur, dIdle, dPhase, dIdent, dRes, dLock, dThread, dCmds, dKeyed>>

(* dbdma_sbits_changed(), by a device's thread.                              *)
dbdma_sbits_changed(c) ==
    /\ Free(c)
    /\ dSbit' = 1 - dSbit
    /\ Enter(c, "none")
    /\ UNCHANGED <<prog, dWaitSel, dBrSel, dStatus, dPtr, dCur, dIdle, dPhase, dIdent, dRes, dCmds, dKeyed>>

-----------------------------------------------------------------------------
(* dma_read_req() and dma_write_req(): the transfer at hand, or what the     *)
(* program comes to.                                                         *)
dma_req(c, want) ==
    /\ Free(c) /\ "PAUSE" \notin dStatus /\ dIdent < MaxIdent
    /\ IF dPhase = want
       THEN Grant(c) /\ UNCHANGED dLock
       ELSE Enter(c, want) /\ UNCHANGED dIdent
    /\ UNCHANGED <<regs, dStatus, dPtr, dCur, dIdle, dPhase, dRes, dCmds, dKeyed>>

(* dma_read_ack() and dma_write_ack(); each request is acknowledged once.    *)
Drop(c) == dThread' = [dThread EXCEPT ![c].pc = "out", ![c].want = "none"]

(* Mutant: a late acknowledgement is accepted. *)
CurrentPhase(c) == dPhase = dThread[c].want

Current(c) == dThread[c].id = dIdent /\ dPhase = dThread[c].want

Clamp(n) == IF n > ReqCount THEN ReqCount ELSE n

dma_ack(c, len) ==
    /\ dThread[c].pc = "xfer" /\ dLock = Nobody
    /\ IF ~Current(c) THEN Drop(c) /\ UNCHANGED <<dRes, dPhase, dLock>>
       ELSE /\ dRes' = Clamp(dRes + len)
            /\ IF dRes + len >= ReqCount THEN dPhase' = "finishing" /\ Enter(c, "none")
               ELSE Drop(c) /\ UNCHANGED <<dPhase, dLock>>
    /\ UNCHANGED <<regs, dStatus, dPtr, dCur, dIdle, dIdent, dCmds, dKeyed>>

-----------------------------------------------------------------------------
ProcStep(t) ==
    prepare_cmd(t) \/ start_cmd(t) \/ finish_cmd(t) \/ WordEnds(t) \/ LoopEnds(t)

DmaNext ==
    \/ \E t \in DmaThreads : ProcStep(t)
    \/ \E mask \in SUBSET {"RUN", "PAUSE", "DEAD"} : \E set \in SUBSET mask :
          \E s \in {0, 1} : control_write(mask, set, s)
    \/ \E p \in 1 .. ProgSize : CmdPtrWrite(p)
    \/ \E sel \in {0, 1} : SelWrite(sel, sel)
    \/ \E c \in DmaClients :
          \/ dbdma_sbits_changed(c)
          \/ \E want \in Transfers : dma_req(c, want)
          \/ \E len \in 0 .. ReqCount : dma_ack(c, len)

DmaSpec == DmaInit /\ [][DmaNext]_dmaVars

-----------------------------------------------------------------------------
(* A late answer changes nothing: when a transfer's count moves or a device  *)
(* access is finished, the thread that does it was given that very command,  *)
(* however often the channel was stopped and restarted meanwhile.  It holds  *)
(* until a STORE_WORD with an unimplemented key has run.                     *)
StaleNeverApplied ==
    [][ ~dKeyed => \A t \in DmaThreads :
          LET applied == \/ dThread[t].pc = "xfer" /\ dThread'[t].pc # "xfer"
                            /\ (dRes' # dRes \/ dPhase' # dPhase)
                         \/ dThread[t].pc = "io" /\ dThread'[t].pc # "io" /\ dPhase' # dPhase
          IN applied => dThread[t].cmd = dCmds ]_dmaVars

(* The processor of the guest sees the truth: between locked sections ACTIVE *)
(* is set exactly while a program runs unpaused, and no program runs without *)
(* RUN; this holds even after a STORE_WORD with an unimplemented key.  The    *)
(* idle flag and the phase agree, but for a program started at an address     *)
(* without memory and for the commands that follow such a STORE_WORD.         *)
StatusTruth ==
    dLock = Nobody =>
        /\ "ACTIVE" \in dStatus <=> ~dIdle /\ {"PAUSE", "DEAD"} \cap dStatus = {}
        /\ "RUN" \notin dStatus => dIdle
        /\ dPhase = "idling" => dIdle \/ dPtr \notin 1 .. ProgSize
        /\ dIdle /\ ~dKeyed => dPhase = "idling"

(* The program never stops half-way: a live, unpaused channel that is left   *)
(* alone is idle, waits for a device's data or status bit, or has a thread in *)
(* the access of its current command.                                         *)
NoOrphanPhase ==
    dLock = Nobody /\ {"PAUSE", "DEAD"} \cap dStatus = {} /\ ~dKeyed =>
        \/ dPhase = "idling"
        \/ dPhase \in Transfers /\ (dRes < ReqCount \/ ReqCount = 0)
        \/ dPhase = "finishing" /\ prog[dCur].wait
        \/ dPhase = "ioaccessing" /\ \E t \in DmaThreads :
              dThread[t].pc = "io" /\ dThread[t].id = dIdent /\ dThread[t].cmd = dCmds

(* A paused program stands still: its pointer and its count do not move      *)
(* until PAUSE or RUN is cleared, except by the answer that was on its way.  *)
PausedStands ==
    [][ "PAUSE" \in dStatus /\ "RUN" \in dStatus => dPtr' = dPtr /\ dCmds' = dCmds ]_dmaVars

(* The status register tells the truth and no program is left half-way,      *)
(* whoever stopped, paused or killed the channel.                            *)
ChannelTrue == DmaTypeOK /\ StatusTruth /\ NoOrphanPhase

(* No late answer is applied to another command, and a paused program stands *)
(* still.                                                                    *)
CommandsKept == StaleNeverApplied /\ PausedStands
=============================================================================
