-------------------------- MODULE PeripheralProofs --------------------------
(***************************************************************************)
(* Proofs about three devices that hand work to other threads and may be     *)
(* stopped and restarted under them: the DMA engine (module Dbdma), for any  *)
(* program, any number of device threads and any number of commands, the    *)
(* sound driver (module Sound), and the SCSI request layer (module Scsi),    *)
(* for any drives and requests.                                              *)
(***************************************************************************)
EXTENDS Dbdma, Sound, Scsi, FiniteSetTheorems, SequenceTheorems, TLAPS

-----------------------------------------------------------------------------
(* The DMA engine.                                                           *)

Answering(t) == dThread[t].pc \in {"xfer", "io"}

(* Identifiers tell answers apart: no thread holds one that was not given     *)
(* out, at most one thread holds the last one, and the one that does has the  *)
(* command the channel is at, in the phase that waits for its answer, as long *)
(* as no STORE_WORD with an unimplemented key has run.  A device access has   *)
(* such a thread in any case.                                                 *)
IdentInv ==
    /\ \A t \in DmaThreads : Answering(t) => dThread[t].id <= dIdent
    /\ \A t, u \in DmaThreads :
          Answering(t) /\ Answering(u) /\ dThread[t].id = dIdent /\ dThread[u].id = dIdent => t = u
    /\ ~dKeyed => \A t \in DmaThreads : Answering(t) /\ dThread[t].id = dIdent =>
          /\ dThread[t].cmd = dCmds
          /\ dPhase = IF dThread[t].pc = "io" THEN "ioaccessing" ELSE dThread[t].want
    /\ \A t \in DmaThreads : dThread[t].pc = "xfer" => dThread[t].want \in Transfers
    /\ dPhase = "ioaccessing" =>
          \E t \in DmaThreads : dThread[t].pc = "io" /\ dThread[t].id = dIdent /\ dThread[t].cmd = dCmds

(* The status bits, the idle flag and the phase agree after every step, not   *)
(* only when the lock is free.                                                *)
StatusInv ==
    /\ "ACTIVE" \in dStatus <=> ~dIdle /\ {"PAUSE", "DEAD"} \cap dStatus = {}
    /\ "RUN" \notin dStatus => dIdle
    /\ dPhase = "idling" => dIdle \/ dPtr \notin 1 .. ProgSize
    /\ dIdle /\ ~dKeyed => dPhase = "idling"
    /\ dPhase \in Transfers => dRes < ReqCount \/ ReqCount = 0

(* The lock is held by the thread that runs the program, and given up in the  *)
(* states NoOrphanPhase describes.                                           *)
LockInv ==
    /\ \A t \in DmaThreads : dLock = t <=> dThread[t].pc = "proc"
    /\ dLock = Nobody /\ {"PAUSE", "DEAD"} \cap dStatus = {} /\ ~dKeyed =>
          \/ dPhase \in {"idling", "inputing", "outputing", "ioaccessing"}
          \/ dPhase = "finishing" /\ prog[dCur].wait

DmaInv == DmaTypeOK /\ IdentInv /\ StatusInv /\ LockInv

(* What the steps do to the record of the thread that takes them.             *)
DThread == [pc : {"out", "proc", "io", "xfer"}, want : Transfers \cup {"none"}, id : Nat, cmd : Nat]

SetsThread(t, pc, want, id, cmd) ==
    /\ dThread' \in [DmaThreads -> DThread]
    /\ dThread'[t].pc = pc /\ dThread'[t].want = want /\ dThread'[t].id = id /\ dThread'[t].cmd = cmd
    /\ \A u \in DmaThreads : u # t => dThread'[u] = dThread[u]

LEMMA ThreadFields ==
  ASSUME NEW t \in DmaThreads, dThread \in [DmaThreads -> DThread],
         NEW pc \in {"out", "proc", "io", "xfer"}, NEW want \in Transfers \cup {"none"},
         NEW id \in Nat, NEW cmd \in Nat
  PROVE  /\ dThread[t] \in DThread
         /\ dThread' = [dThread EXCEPT ![t].pc = pc] =>
               SetsThread(t, pc, dThread[t].want, dThread[t].id, dThread[t].cmd)
         /\ dThread' = [dThread EXCEPT ![t].pc = pc, ![t].want = want] =>
               SetsThread(t, pc, want, dThread[t].id, dThread[t].cmd)
         /\ dThread' = [dThread EXCEPT ![t].pc = pc, ![t].id = id, ![t].cmd = cmd] =>
               SetsThread(t, pc, dThread[t].want, id, cmd)
         /\ dThread' = [dThread EXCEPT ![t].pc = pc, ![t].want = want, ![t].id = id, ![t].cmd = cmd] =>
               SetsThread(t, pc, want, id, cmd)
<1> DEFINE r == dThread[t]
           R(a, b, c, d) == [pc |-> a, want |-> b, id |-> c, cmd |-> d]
<1>1. r = R(r.pc, r.want, r.id, r.cmd) /\ r \in DThread
  BY DEF DThread
<1>2. ASSUME NEW q \in DThread, dThread' = [dThread EXCEPT ![t] = q]
      PROVE  SetsThread(t, q.pc, q.want, q.id, q.cmd)
  BY <1>2 DEF SetsThread
<1>3. ASSUME dThread' = [dThread EXCEPT ![t].pc = pc]
      PROVE  SetsThread(t, pc, r.want, r.id, r.cmd)
  <2> DEFINE q == R(pc, r.want, r.id, r.cmd)
  <2>1. [r EXCEPT !.pc = pc] = q /\ q \in DThread
    <3>1. q \in DThread
      BY <1>1 DEF DThread
    <3>2. [R(r.pc, r.want, r.id, r.cmd) EXCEPT !.pc = pc] = q
      OBVIOUS
    <3> QED BY <1>1, <3>1, <3>2
  <2>2. dThread' = [dThread EXCEPT ![t] = [r EXCEPT !.pc = pc]]
    BY <1>3
  <2> QED BY <1>2, <2>1, <2>2
<1>4. ASSUME dThread' = [dThread EXCEPT ![t].pc = pc, ![t].want = want]
      PROVE  SetsThread(t, pc, want, r.id, r.cmd)
  <2> DEFINE q == R(pc, want, r.id, r.cmd)
  <2>1. [r EXCEPT !.pc = pc, !.want = want] = q /\ q \in DThread
    <3>1. q \in DThread
      BY <1>1 DEF DThread
    <3>2. [R(r.pc, r.want, r.id, r.cmd) EXCEPT !.pc = pc] = R(pc, r.want, r.id, r.cmd)
      OBVIOUS
    <3>3. [R(pc, r.want, r.id, r.cmd) EXCEPT !.want = want] = R(pc, want, r.id, r.cmd)
      OBVIOUS
    <3> QED BY <1>1, <3>1, <3>2, <3>3
  <2>2. dThread' = [dThread EXCEPT ![t] = [r EXCEPT !.pc = pc, !.want = want]]
    BY <1>4
  <2> QED BY <1>2, <2>1, <2>2
<1>5. ASSUME dThread' = [dThread EXCEPT ![t].pc = pc, ![t].id = id, ![t].cmd = cmd]
      PROVE  SetsThread(t, pc, r.want, id, cmd)
  <2> DEFINE q == R(pc, r.want, id, cmd)
  <2>1. [r EXCEPT !.pc = pc, !.id = id, !.cmd = cmd] = q /\ q \in DThread
    <3>1. q \in DThread
      BY <1>1 DEF DThread
    <3>2. [R(r.pc, r.want, r.id, r.cmd) EXCEPT !.pc = pc] = R(pc, r.want, r.id, r.cmd)
      OBVIOUS
    <3>3. [R(pc, r.want, r.id, r.cmd) EXCEPT !.id = id] = R(pc, r.want, id, r.cmd)
      OBVIOUS
    <3>4. [R(pc, r.want, id, r.cmd) EXCEPT !.cmd = cmd] = R(pc, r.want, id, cmd)
      OBVIOUS
    <3> QED BY <1>1, <3>1, <3>2, <3>3, <3>4
  <2>2. dThread' = [dThread EXCEPT ![t] = [r EXCEPT !.pc = pc, !.id = id, !.cmd = cmd]]
    BY <1>5
  <2> QED BY <1>2, <2>1, <2>2
<1>6. ASSUME dThread' = [dThread EXCEPT ![t].pc = pc, ![t].want = want, ![t].id = id, ![t].cmd = cmd]
      PROVE  SetsThread(t, pc, want, id, cmd)
  <2> DEFINE q == R(pc, want, id, cmd)
  <2>1. [r EXCEPT !.pc = pc, !.want = want, !.id = id, !.cmd = cmd] = q /\ q \in DThread
    <3>1. q \in DThread
      BY <1>1 DEF DThread
    <3>2. [R(r.pc, r.want, r.id, r.cmd) EXCEPT !.pc = pc] = R(pc, r.want, r.id, r.cmd)
      OBVIOUS
    <3>3. [R(pc, r.want, r.id, r.cmd) EXCEPT !.want = want] = R(pc, want, r.id, r.cmd)
      OBVIOUS
    <3>4. [R(pc, want, r.id, r.cmd) EXCEPT !.id = id] = R(pc, want, id, r.cmd)
      OBVIOUS
    <3>5. [R(pc, want, id, r.cmd) EXCEPT !.cmd = cmd] = R(pc, want, id, cmd)
      OBVIOUS
    <3>6. [r EXCEPT !.pc = pc, !.want = want] = R(pc, want, r.id, r.cmd)
      BY <1>1, <3>2, <3>3
    <3>7. [R(pc, want, r.id, r.cmd) EXCEPT !.id = id, !.cmd = cmd] = R(pc, want, id, cmd)
      BY <3>4, <3>5
    <3> HIDE DEF R, r
    <3> QED BY <3>1, <3>6, <3>7
  <2>2. dThread' = [dThread EXCEPT ![t] = [r EXCEPT !.pc = pc, !.want = want, !.id = id, !.cmd = cmd]]
    BY <1>6
  <2> QED BY <1>2, <2>1, <2>2
<1> QED BY <1>1, <1>3, <1>4, <1>5, <1>6

LEMMA DmaTypes ==
  ASSUME DmaTypeOK
  PROVE  /\ dThread \in [DmaThreads -> DThread] /\ dIdent \in Nat /\ dCmds \in Nat
         /\ dIdent + 1 \in Nat /\ dCmds + 1 \in Nat /\ dPtr \in Nat /\ dPtr + 1 \in Nat
         /\ dPhase \in Phases /\ dRes \in 0 .. ReqCount
BY DEF DmaTypeOK, DThread

(* A step that leaves the threads alone keeps their identifiers apart.        *)
LEMMA IdentsKept ==
  ASSUME DmaTypeOK, IdentInv, dIdent' \in Nat, dIdent' >= dIdent, UNCHANGED dThread,
         dKeyed => dKeyed', dPhase' # "ioaccessing",
         ~dKeyed' => \A u \in DmaThreads : Answering(u) => dThread[u].id # dIdent'
  PROVE  IdentInv'
<1>1. \A u \in DmaThreads : dThread[u].id \in Nat
  BY DmaTypes DEF DThread
<1>2. /\ \A u \in DmaThreads : Answering(u) => dThread[u].id <= dIdent'
      /\ \A u \in DmaThreads : Answering(u) /\ dThread[u].id = dIdent' => dThread[u].id = dIdent
  BY <1>1, DmaTypes DEF IdentInv
<1> QED BY <1>1, <1>2 DEF IdentInv, Answering

(* Steps that leave the threads alone.                                        *)
LEMMA PhaseStep ==
  ASSUME DmaInv, NEW t \in DmaThreads, prepare_cmd(t) \/ finish_cmd(t)
  PROVE  DmaInv'
<1> USE DmaAssumption DEF DmaInv
<1>1. /\ dLock = t /\ dLock # Nobody /\ dThread[t].pc = "proc" /\ "PAUSE" \notin dStatus
      /\ dPhase \in {"preparing", "finishing"}
      /\ UNCHANGED <<prog, dSbit, dWaitSel, dBrSel, dRes, dLock, dThread, dCmds, dKeyed>>
  <2>1. CASE prepare_cmd(t)
    BY <2>1, DmaClientsAssumption DEF prepare_cmd, Runs, regs, DmaThreads, Guest, Nobody
  <2>2. CASE finish_cmd(t)
    BY <2>2, DmaClientsAssumption DEF finish_cmd, Runs, regs, DmaThreads, Guest, Nobody
  <2> QED BY <2>1, <2>2
<1>2. ~dKeyed => \A u \in DmaThreads : Answering(u) => dThread[u].id \in Nat /\ dThread[u].id < dIdent
  BY <1>1, DmaTypes DEF IdentInv, Transfers, DThread
<1>3. \/ /\ dPhase' \in {"starting", "preparing"} /\ UNCHANGED <<dStatus, dIdle, dIdent>>
      \/ /\ dPhase' = "idling" /\ dIdent' = dIdent + 1 /\ dIdle' = TRUE
         /\ dStatus' = (dStatus \cup {"DEAD"}) \ {"ACTIVE"}
  <2>1. CASE prepare_cmd(t)
    BY <2>1 DEF prepare_cmd, kill_channel, go_idle, GoIdleIdent
  <2>2. CASE finish_cmd(t)
    BY <2>2 DEF finish_cmd
  <2> QED BY <2>1, <2>2
<1>4. dPtr' \in Nat /\ dCur' \in Nat
  <2>1. CASE prepare_cmd(t)
    BY <2>1, DmaTypes DEF prepare_cmd, DmaTypeOK
  <2>2. CASE finish_cmd(t)
    BY <2>2, DmaTypes DEF finish_cmd, DmaTypeOK
  <2> QED BY <2>1, <2>2
<1>5. DmaTypeOK'
  BY <1>1, <1>3, <1>4, DmaTypes DEF DmaTypeOK, Phases
<1>6. IdentInv'
  <2>1. dIdent' >= dIdent /\ dIdent' \in Nat /\ dPhase' # "ioaccessing"
    BY <1>3, DmaTypes
  <2>2. ~dKeyed => \A u \in DmaThreads : Answering(u) => dThread[u].id # dIdent'
    BY <1>2, <2>1, DmaTypes
  <2> QED BY <1>1, <2>1, <2>2, IdentsKept
<1>7. StatusInv'
  BY <1>1, <1>3 DEF StatusInv, Transfers
<1>8. LockInv'
  BY <1>1 DEF LockInv
<1> QED BY <1>5, <1>6, <1>7, <1>8

(* A word command may have killed the channel first (store_word()).           *)
LEMMA KeyKillsStatus ==
  ASSUME StatusInv, DmaTypeOK, KeyKills, dPhase' # "idling", dPhase' \notin Transfers, dPhase # "idling"
  PROVE  /\ StatusInv' /\ dKeyed' \in BOOLEAN /\ (dKeyed => dKeyed') /\ dIdle' \in BOOLEAN
         /\ dStatus' \subseteq {"RUN", "PAUSE", "DEAD", "ACTIVE"}
<1>1. CASE KeyedStore
  <2>1. dStatus' = (dStatus \cup {"DEAD"}) \ {"ACTIVE"} /\ dIdle' = TRUE /\ dKeyed' = TRUE
    BY <1>1 DEF KeyKills
  <2> QED BY <2>1 DEF StatusInv, DmaTypeOK
<1>2. CASE ~KeyedStore
  <2>1. UNCHANGED <<dStatus, dIdle, dKeyed>>
    BY <1>2 DEF KeyKills
  <2> QED BY <2>1 DEF StatusInv, DmaTypeOK
<1> QED BY <1>1, <1>2

LEMMA WordIdentIs ==
  ASSUME DmaTypeOK
  PROVE  WordIdent \in Nat /\ WordIdent > dIdent
BY DmaTypes DEF WordIdent, GoIdleIdent

(* Commands that are started.                                                *)
LEMMA StartStep ==
  ASSUME DmaInv, NEW t \in DmaThreads, start_cmd(t)
  PROVE  DmaInv'
<1> USE DmaAssumption DEF DmaInv
<1>1. /\ dLock = t /\ dLock # Nobody /\ dThread[t].pc = "proc" /\ "PAUSE" \notin dStatus
      /\ dPhase = "starting" /\ dCmds' = dCmds + 1
      /\ UNCHANGED <<prog, dSbit, dWaitSel, dBrSel, dPtr, dCur>>
  BY DmaClientsAssumption DEF start_cmd, Runs, regs, DmaThreads, Guest, Nobody
<1>2. /\ \A u \in DmaThreads : Answering(u) => dThread[u].id \in Nat /\ dThread[u].id <= dIdent
      /\ ~dKeyed => \A u \in DmaThreads : Answering(u) => dThread[u].id # dIdent
  BY <1>1, DmaTypes DEF IdentInv, Transfers, DThread
<1>3. ASSUME StartTransfer PROVE DmaInv'
  <2>1. /\ dPhase' \in Transfers /\ dRes' = 0
        /\ UNCHANGED <<dStatus, dIdle, dIdent, dLock, dThread, dKeyed>>
    BY <1>3 DEF StartTransfer, Transfers
  <2>2. DmaTypeOK'
    BY <1>1, <2>1 DEF DmaTypeOK, Phases, Transfers
  <2>3. IdentInv'
    <3>1. dIdent' \in Nat /\ dIdent' >= dIdent /\ dPhase' # "ioaccessing"
      BY <2>1, DmaTypes DEF Transfers
    <3> QED BY <1>2, <2>1, <3>1, IdentsKept
  <2>4. StatusInv'
    BY <1>1, <2>1 DEF StatusInv, Transfers
  <2>5. LockInv'
    BY <1>1, <2>1 DEF LockInv
  <2> QED BY <2>2, <2>3, <2>4, <2>5
<1>4. ASSUME StartWord(t) PROVE DmaInv'
  <2> PICK id \in Nat : id = WordIdent /\ id > dIdent
    BY WordIdentIs
  <2>1. /\ dPhase' = "ioaccessing" /\ dIdent' = id /\ dLock' = Nobody
        /\ UNCHANGED dRes /\ KeyKills
        /\ SetsThread(t, "io", dThread[t].want, id, dCmds + 1)
    BY <1>4, DmaTypes, ThreadFields DEF StartWord
  <2>2. /\ StatusInv' /\ dKeyed' \in BOOLEAN /\ (dKeyed => dKeyed') /\ dIdle' \in BOOLEAN
        /\ dStatus' \subseteq {"RUN", "PAUSE", "DEAD", "ACTIVE"}
    BY <1>1, <2>1, KeyKillsStatus DEF Transfers
  <2>3. DmaTypeOK'
    BY <1>1, <2>1, <2>2, DmaTypes DEF DmaTypeOK, Phases, SetsThread, DThread
  <2>4. IdentInv'
    <3>1. /\ Answering(t)' /\ dThread'[t].id = dIdent' /\ dThread'[t].cmd = dCmds'
          /\ dThread'[t].pc = "io"
      BY <1>1, <2>1 DEF SetsThread, Answering
    <3>2. \A u \in DmaThreads : u # t /\ Answering(u)' =>
             /\ Answering(u) /\ dThread'[u] = dThread[u] /\ dThread'[u].id <= dIdent'
             /\ dThread'[u].id # dIdent'
      BY <1>2, <2>1, DmaTypes DEF SetsThread, Answering
    <3>3. \A u \in DmaThreads : dThread'[u].pc = "xfer" => dThread'[u].want \in Transfers
      BY <2>1 DEF IdentInv, SetsThread
    <3> QED BY <2>1, <3>1, <3>2, <3>3, DmaTypes DEF IdentInv
  <2>5. LockInv'
    BY <1>1, <2>1, DmaClientsAssumption DEF LockInv, SetsThread, DmaThreads, Guest, Nobody
  <2> QED BY <2>2, <2>3, <2>4, <2>5
<1>5. ASSUME StartMemWord PROVE DmaInv'
  <2>1. /\ dPhase' = "finishing" /\ dIdent' \in Nat /\ dIdent' > dIdent
        /\ KeyKills /\ UNCHANGED <<dRes, dLock, dThread>>
    BY <1>5, WordIdentIs DEF StartMemWord
  <2>2. /\ StatusInv' /\ dKeyed' \in BOOLEAN /\ (dKeyed => dKeyed') /\ dIdle' \in BOOLEAN
        /\ dStatus' \subseteq {"RUN", "PAUSE", "DEAD", "ACTIVE"}
    BY <1>1, <2>1, KeyKillsStatus DEF Transfers
  <2>3. DmaTypeOK'
    BY <1>1, <2>1, <2>2, DmaTypes DEF DmaTypeOK, Phases
  <2>4. IdentInv'
    <3>1. \A u \in DmaThreads : Answering(u) => dThread[u].id # dIdent'
      BY <1>2, <2>1, DmaTypes
    <3> QED BY <2>1, <2>2, <3>1, IdentsKept, DmaTypes
  <2>5. LockInv'
    BY <1>1, <2>1 DEF LockInv
  <2> QED BY <2>2, <2>3, <2>4, <2>5
<1>6. ASSUME StartOther PROVE DmaInv'
  <2>1. /\ UNCHANGED <<dRes, dLock, dThread, dKeyed>>
        /\ \/ dPhase' = "finishing" /\ dIdent' = dIdent /\ UNCHANGED <<dStatus, dIdle>>
           \/ dStatus' = dStatus \ {"ACTIVE"} /\ dIdle' = TRUE /\ dPhase' = "idling" /\ dIdent' = dIdent
           \/ dStatus' = (dStatus \cup {"DEAD"}) \ {"ACTIVE"} /\ dIdle' = TRUE /\ dPhase' = "idling"
              /\ dIdent' = dIdent + 1
    BY <1>6 DEF StartOther, kill_channel, go_idle, GoIdleIdent
  <2>2. DmaTypeOK'
    BY <1>1, <2>1, DmaTypes DEF DmaTypeOK, Phases
  <2>3. IdentInv'
    <3>1. dIdent' >= dIdent /\ dIdent' \in Nat /\ dPhase' # "ioaccessing"
      BY <2>1, DmaTypes
    <3>2. ~dKeyed => \A u \in DmaThreads : Answering(u) => dThread[u].id # dIdent'
      BY <1>2, <3>1, DmaTypes
    <3> QED BY <2>1, <3>1, <3>2, IdentsKept
  <2>4. StatusInv'
    BY <1>1, <2>1 DEF StatusInv, Transfers
  <2>5. LockInv'
    BY <1>1, <2>1 DEF LockInv
  <2> QED BY <2>2, <2>3, <2>4, <2>5
<1> QED BY <1>3, <1>4, <1>5, <1>6 DEF start_cmd

(* A device access that ends, and the end of the loop over the program.       *)
LEMMA WordEndsStep ==
  ASSUME DmaInv, NEW t \in DmaThreads, WordEnds(t)
  PROVE  DmaInv'
<1> USE DmaAssumption DEF DmaInv
<1>1. /\ dThread[t].pc = "io" /\ dLock = Nobody /\ dLock' = t /\ dLock' # Nobody
      /\ UNCHANGED <<prog, dSbit, dWaitSel, dBrSel, dStatus, dPtr, dCur, dIdle, dIdent, dRes, dCmds, dKeyed>>
      /\ dPhase' = IF dThread[t].id = dIdent /\ dPhase = "ioaccessing" THEN "finishing" ELSE dPhase
  BY DmaClientsAssumption DEF WordEnds, regs, DmaThreads, Guest, Nobody
<1>2. SetsThread(t, "proc", dThread[t].want, dThread[t].id, dThread[t].cmd)
  BY DmaTypes, ThreadFields DEF WordEnds, DThread
<1>3. DmaTypeOK'
  <2>1. dPhase' \in Phases
    BY <1>1, DmaTypes DEF Phases
  <2> QED BY <1>1, <1>2, <2>1 DEF DmaTypeOK, SetsThread, DThread
<1>4. IdentInv'
  <2>1. CASE dThread[t].id = dIdent /\ dPhase = "ioaccessing"
    <3>1. dPhase' = "finishing" /\ \A u \in DmaThreads \ {t} : Answering(u) => dThread[u].id # dIdent
      BY <1>1, <2>1 DEF IdentInv, Answering
    <3> QED BY <1>1, <1>2, <3>1 DEF IdentInv, Answering, SetsThread
  <2>2. CASE ~(dThread[t].id = dIdent /\ dPhase = "ioaccessing")
    <3>1. dPhase' = dPhase
      BY <1>1, <2>2
    <3> QED BY <1>1, <1>2, <2>2, <3>1 DEF IdentInv, Answering, SetsThread
  <2> QED BY <2>1, <2>2
<1>5. StatusInv'
  BY <1>1 DEF StatusInv, Transfers
<1>6. LockInv'
  <2>1. \A u \in DmaThreads : u # dLock
    BY <1>1, DmaClientsAssumption DEF DmaThreads, Guest, Nobody
  <2> QED BY <1>1, <1>2, <2>1 DEF LockInv, SetsThread
<1> QED BY <1>3, <1>4, <1>5, <1>6

(* A transfer that is granted takes a new identifier.                         *)
LEMMA GrantKeepsIdents ==
  ASSUME DmaInv, NEW t \in DmaThreads, Grant(t), dPhase \in Transfers,
         UNCHANGED <<dPhase, dCmds, dKeyed>>
  PROVE  SetsThread(t, "xfer", dPhase, dIdent + 1, dCmds) /\ dIdent' = dIdent + 1 /\ IdentInv'
<1> USE DEF DmaInv
<1>1. SetsThread(t, "xfer", dPhase, dIdent + 1, dCmds) /\ dIdent' = dIdent + 1
  BY DmaTypes, ThreadFields DEF Grant
<1>2. \A u \in DmaThreads : Answering(u) => dThread[u].id \in Nat /\ dThread[u].id <= dIdent
  BY DmaTypes DEF IdentInv, DThread
<1>3. IdentInv'
  BY <1>1, <1>2, DmaTypes DEF IdentInv, Answering, SetsThread, Transfers
<1> QED BY <1>1, <1>3

LEMMA LoopEndsStep ==
  ASSUME DmaInv, NEW t \in DmaThreads, LoopEnds(t)
  PROVE  DmaInv'
<1> USE DmaAssumption DEF DmaInv
<1>1. /\ dLock = t /\ dThread[t].pc = "proc" /\ Halted /\ dLock' = Nobody
      /\ UNCHANGED <<prog, dSbit, dWaitSel, dBrSel, dStatus, dPtr, dCur, dIdle, dPhase, dRes, dCmds, dKeyed>>
  BY DEF LoopEnds, regs
<1>2. \E pc \in {"xfer", "out"}, want \in Transfers \cup {"none"}, id \in Nat, cmd \in Nat :
         SetsThread(t, pc, want, id, cmd) /\ dIdent' \in Nat /\ IdentInv'
  <2>1. CASE dThread[t].want = dPhase
    <3>1. Grant(t) /\ dPhase \in Transfers
      BY <2>1, DmaTypes DEF LoopEnds, DThread, Phases
    <3> QED BY <1>1, <3>1, GrantKeepsIdents, DmaTypes
  <2>2. CASE dThread[t].want # dPhase
    <3>1. SetsThread(t, "out", "none", dThread[t].id, dThread[t].cmd) /\ dIdent' = dIdent
      BY <2>2, DmaTypes, ThreadFields DEF LoopEnds, DThread
    <3>2. dThread[t].id \in Nat /\ dThread[t].cmd \in Nat
      BY DmaTypes DEF DThread
    <3>3. IdentInv'
      BY <1>1, <3>1 DEF IdentInv, Answering, SetsThread
    <3> QED BY <3>1, <3>2, <3>3, DmaTypes
  <2> QED BY <2>1, <2>2
<1>3. DmaTypeOK'
  BY <1>1, <1>2 DEF DmaTypeOK, SetsThread, DThread
<1>4. StatusInv'
  BY <1>1 DEF StatusInv
<1>5. LockInv'
  <2>1. \A u \in DmaThreads : dLock' # u /\ dThread'[u].pc # "proc"
    BY <1>1, <1>2, DmaClientsAssumption DEF LockInv, SetsThread, DmaThreads, Guest, Nobody
  <2>2. \/ "PAUSE" \in dStatus \/ dPhase \in {"idling", "inputing", "outputing", "ioaccessing"}
        \/ dPhase = "finishing" /\ prog[dCur].wait
    BY <1>1 DEF Halted, Waits
  <2> QED BY <1>1, <2>1, <2>2 DEF LockInv
<1> QED BY <1>2, <1>3, <1>4, <1>5

(* The guest's writes.                                                        *)
LEMMA ControlStep ==
  ASSUME DmaInv, NEW mask \in SUBSET {"RUN", "PAUSE", "DEAD"}, NEW set \in SUBSET mask,
         NEW s \in {0, 1}, control_write(mask, set, s)
  PROVE  DmaInv'
<1> DEFINE halt == Halts(mask, set)
           stop == Stops(mask, set)
           st == ((dStatus \ mask) \cup set) \ (IF halt THEN {"DEAD"} ELSE {})
           begin == Begins(st)
           dead == begin /\ dPtr \notin 1 .. ProgSize
           idle == ~begin /\ (stop \/ dIdle)
           go == ~idle /\ "PAUSE" \notin st /\ "DEAD" \notin st /\ ~dead
<1> USE DmaAssumption DEF DmaInv
<1>1. /\ dLock = Nobody /\ dThread[Guest].pc = "out"
      /\ dStatus' = (st \ {"ACTIVE"}) \cup (IF go THEN {"ACTIVE"} ELSE {})
                                        \cup (IF dead THEN {"DEAD"} ELSE {})
      /\ dIdle' = idle
      /\ dPhase' = IF stop \/ dead THEN "idling" ELSE IF begin THEN "starting" ELSE dPhase
      /\ dIdent' = IF stop \/ dead THEN dIdent + 1 ELSE dIdent
      /\ dCur' \in {dCur, dPtr}
      /\ IF go THEN Enter(Guest, "none") ELSE UNCHANGED <<dLock, dThread>>
      /\ dSbit' = s
      /\ UNCHANGED <<prog, dWaitSel, dBrSel, dPtr, dRes, dCmds, dKeyed>>
  BY DEF control_write, Free, GoIdleIdent, regs
<1>2. Guest \in DmaThreads /\ Guest # Nobody /\ Nobody \notin DmaThreads
  BY DmaClientsAssumption DEF DmaThreads, Guest, Nobody
<1>3. ASSUME go PROVE dLock' = Guest /\ SetsThread(Guest, "proc", "none", dThread[Guest].id, dThread[Guest].cmd)
  BY <1>1, <1>2, <1>3, DmaTypes, ThreadFields DEF Enter, DThread
<1>4. /\ dThread' \in [DmaThreads -> DThread]
      /\ \A u \in DmaThreads : Answering(u)' => Answering(u) /\ dThread'[u] = dThread[u]
      /\ \A u \in DmaThreads : Answering(u) => Answering(u)' /\ dThread'[u] = dThread[u]
      /\ \A u \in DmaThreads : dLock' = u <=> dThread'[u].pc = "proc"
      /\ dLock' \in {Nobody, Guest} /\ (go <=> dLock' = Guest)
  <2>1. CASE go
    BY <1>1, <1>2, <1>3, <2>1 DEF LockInv, SetsThread, Answering
  <2>2. CASE ~go
    BY <1>1, <1>2, <2>2, DmaTypes DEF LockInv, Answering
  <2> QED BY <2>1, <2>2
<1>5. /\ halt <=> "RUN" \in mask /\ "RUN" \notin set
      /\ begin <=> "RUN" \in st /\ "DEAD" \notin st /\ dIdle
      /\ stop <=> halt /\ ~dIdle
  BY DEF Halts, Begins, Stops
<1> HIDE DEF halt, begin, stop
<1>6. DmaTypeOK'
  <2>1. dStatus' \subseteq {"RUN", "PAUSE", "DEAD", "ACTIVE"}
    BY <1>1 DEF DmaTypeOK
  <2>2. dPhase' \in Phases /\ dIdle' \in BOOLEAN /\ dIdent' \in Nat /\ dCur' \in Nat
    BY <1>1, DmaTypes DEF DmaTypeOK, Phases
  <2> QED BY <1>1, <1>2, <1>4, <2>1, <2>2 DEF DmaTypeOK, DThread
<1>7. stop /\ begin => FALSE
  BY <1>5
<1>8. IdentInv'
  <2>1. \/ dIdent' = dIdent + 1 /\ dPhase' = "idling"
        \/ dIdent' = dIdent /\ dPhase' = dPhase
        \/ dIdent' = dIdent /\ (~dKeyed => dPhase = "idling") /\ dPhase' = "starting"
    BY <1>1, <1>5 DEF StatusInv
  <2>2. \A u \in DmaThreads : Answering(u) => dThread[u].id \in Nat /\ dThread[u].id <= dIdent
    BY DmaTypes DEF IdentInv, DThread
  <2>3. ~dKeyed /\ dPhase = "idling" => \A u \in DmaThreads : Answering(u) => dThread[u].id # dIdent
    BY DEF IdentInv, Transfers, Answering
  <2> HIDE DEF go, dead, idle, st
  <2>4. CASE dIdent' = dIdent + 1 /\ dPhase' = "idling"
    BY <1>1, <1>4, <2>2, <2>4, DmaTypes DEF IdentInv, Answering
  <2>5. CASE dIdent' = dIdent /\ dPhase' = dPhase
    BY <1>1, <1>4, <2>5 DEF IdentInv, Answering
  <2>6. CASE dIdent' = dIdent /\ (~dKeyed => dPhase = "idling") /\ dPhase' = "starting"
    BY <1>1, <1>4, <2>3, <2>6 DEF IdentInv, Answering
  <2> QED BY <2>1, <2>4, <2>5, <2>6
<1>9. StatusInv'
  <2>1. /\ "RUN" \in dStatus' <=> "RUN" \in st
        /\ "PAUSE" \in dStatus' <=> "PAUSE" \in st
        /\ "ACTIVE" \in dStatus' <=> go
        /\ "DEAD" \in dStatus' <=> "DEAD" \in st \/ dead
    BY <1>1
  <2>2. "RUN" \notin st => halt \/ "RUN" \notin dStatus
    BY <1>5
  <2> HIDE DEF st
  <2>3. "ACTIVE" \in dStatus' <=> ~dIdle' /\ {"PAUSE", "DEAD"} \cap dStatus' = {}
    BY <1>1, <2>1
  <2>4. "RUN" \notin dStatus' => dIdle'
    BY <1>1, <1>5, <2>1, <2>2 DEF StatusInv
  <2>5. dPhase' = "idling" => dIdle' \/ dPtr' \notin 1 .. ProgSize
    BY <1>1, <1>5, <1>7 DEF StatusInv
  <2>6. dIdle' /\ ~dKeyed' => dPhase' = "idling"
    BY <1>1, <1>5, <1>7 DEF StatusInv
  <2>7. dPhase' \in Transfers => dRes' < ReqCount \/ ReqCount = 0
    BY <1>1 DEF StatusInv, Transfers
  <2> QED BY <2>3, <2>4, <2>5, <2>6, <2>7 DEF StatusInv
<1>10. LockInv'
  <2>1. ASSUME dLock' = Nobody, {"PAUSE", "DEAD"} \cap dStatus' = {}, ~dKeyed' PROVE dPhase' = "idling"
    <3>1. ~go
      BY <1>2, <1>4, <2>1
    <3>2. dIdle'
      BY <1>1, <2>1, <3>1 DEF DmaTypeOK
    <3> QED BY <1>9, <2>1, <3>2 DEF StatusInv
  <2> QED BY <1>4, <2>1 DEF LockInv
<1> QED BY <1>6, <1>8, <1>9, <1>10

LEMMA RegisterStep ==
  ASSUME DmaInv, \/ \E p \in 1 .. ProgSize : CmdPtrWrite(p)
                 \/ \E sel \in {0, 1} : SelWrite(sel, sel)
  PROVE  DmaInv'
<1> USE DmaAssumption DEF DmaInv
<1>1. UNCHANGED <<prog, dStatus, dSbit, dCur, dIdle, dPhase, dIdent, dRes, dLock, dThread, dCmds, dKeyed>>
  BY DEF CmdPtrWrite, SelWrite, regs
<1>2. dPtr' = dPtr \/ dIdle
  BY DEF CmdPtrWrite, SelWrite, StatusInv
<1>3. dPtr' \in Nat /\ dWaitSel' \in {0, 1} /\ dBrSel' \in {0, 1}
  <2>1. CASE \E p \in 1 .. ProgSize : CmdPtrWrite(p)
    BY <2>1 DEF CmdPtrWrite, regs, DmaTypeOK
  <2>2. CASE \E sel \in {0, 1} : SelWrite(sel, sel)
    BY <2>2 DEF SelWrite, DmaTypeOK
  <2> QED BY <2>1, <2>2
<1>4. DmaTypeOK'
  BY <1>1, <1>3 DEF DmaTypeOK
<1>5. IdentInv' /\ StatusInv'
  BY <1>1, <1>2 DEF IdentInv, StatusInv, Answering
<1>6. LockInv'
  BY <1>1 DEF LockInv
<1> QED BY <1>4, <1>5, <1>6

(* A thread that takes the lock to run the program.                           *)
LEMMA EnterStep ==
  ASSUME DmaInv, NEW t \in DmaThreads, NEW want \in Transfers \cup {"none"},
         dLock = Nobody, dThread[t].pc \in {"out", "xfer"}, Enter(t, want),
         dPhase' = dPhase \/ (dThread[t].pc = "xfer" /\ dThread[t].id = dIdent /\ dPhase \in Transfers
                             /\ dPhase' = "finishing"),
         dRes' \in 0 .. ReqCount, dPhase' \in Transfers => dRes' = dRes, dSbit' \in {0, 1},
         UNCHANGED <<prog, dWaitSel, dBrSel, dStatus, dPtr, dCur, dIdle, dIdent, dCmds, dKeyed>>
  PROVE  DmaInv'
<1> USE DmaAssumption DEF DmaInv
<1>1. /\ dLock' = t /\ SetsThread(t, "proc", want, dThread[t].id, dThread[t].cmd)
      /\ dThread[t].id \in Nat /\ dThread[t].cmd \in Nat
  BY DmaTypes, ThreadFields DEF Enter, DThread
<1>2. Nobody \notin DmaThreads
  BY DmaClientsAssumption DEF DmaThreads, Guest, Nobody
<1>3. DmaTypeOK'
  <2>1. dPhase' \in Phases
    BY DmaTypes DEF Phases
  <2> QED BY <1>1, <2>1 DEF DmaTypeOK, SetsThread, DThread
<1>4. IdentInv'
  <2>1. CASE dPhase' = dPhase
    BY <1>1, <2>1 DEF IdentInv, Answering, SetsThread
  <2>2. CASE dThread[t].pc = "xfer" /\ dThread[t].id = dIdent /\ dPhase \in Transfers /\ dPhase' = "finishing"
    <3>1. \A u \in DmaThreads \ {t} : Answering(u) => dThread[u].id # dIdent
      BY <2>2 DEF IdentInv, Answering
    <3> QED BY <1>1, <2>2, <3>1 DEF IdentInv, Answering, SetsThread
  <2> QED BY <2>1, <2>2
<1>5. StatusInv'
  <2>1. CASE dPhase' = dPhase
    BY <2>1 DEF StatusInv
  <2>2. CASE dThread[t].pc = "xfer" /\ dThread[t].id = dIdent /\ dPhase \in Transfers /\ dPhase' = "finishing"
    BY <2>2 DEF StatusInv, Transfers
  <2> QED BY <2>1, <2>2
<1>6. LockInv'
  BY <1>1, <1>2 DEF LockInv, SetsThread
<1> QED BY <1>3, <1>4, <1>5, <1>6

(* A request and an acknowledgement of a device's thread.                     *)
LEMMA RequestStep ==
  ASSUME DmaInv, NEW c \in DmaClients, NEW want \in Transfers, dma_req(c, want)
  PROVE  DmaInv'
<1> USE DmaAssumption DEF DmaInv
<1>1. /\ dLock = Nobody /\ dThread[c].pc = "out" /\ c \in DmaThreads /\ Nobody \notin DmaThreads
      /\ UNCHANGED <<prog, dSbit, dWaitSel, dBrSel, dStatus, dPtr, dCur, dIdle, dPhase, dRes, dCmds, dKeyed>>
  BY DmaClientsAssumption DEF dma_req, Free, regs, DmaThreads, Guest, Nobody
<1>2. CASE dPhase = want
  <2>1. Grant(c) /\ dLock' = dLock
    BY <1>2 DEF dma_req
  <2>2. SetsThread(c, "xfer", dPhase, dIdent + 1, dCmds) /\ dIdent' = dIdent + 1 /\ IdentInv'
    BY <1>1, <1>2, <2>1, GrantKeepsIdents
  <2>3. DmaTypeOK'
    BY <1>1, <2>1, <2>2, DmaTypes DEF DmaTypeOK, SetsThread, DThread
  <2>4. StatusInv'
    BY <1>1 DEF StatusInv
  <2>5. LockInv'
    BY <1>1, <2>1, <2>2 DEF LockInv, SetsThread
  <2> QED BY <2>2, <2>3, <2>4, <2>5
<1>3. CASE dPhase # want
  <2>1. Enter(c, want) /\ dIdent' = dIdent
    BY <1>3 DEF dma_req
  <2> QED BY <1>1, <2>1, EnterStep, DmaTypes DEF DmaTypeOK
<1> QED BY <1>2, <1>3

LEMMA AckStep ==
  ASSUME DmaInv, NEW c \in DmaClients, NEW len \in 0 .. ReqCount, dma_ack(c, len)
  PROVE  DmaInv'
<1> USE DmaAssumption DEF DmaInv
<1>1. /\ dLock = Nobody /\ dThread[c].pc = "xfer" /\ c \in DmaThreads /\ Nobody \notin DmaThreads
      /\ UNCHANGED <<prog, dSbit, dWaitSel, dBrSel, dStatus, dPtr, dCur, dIdle, dIdent, dCmds, dKeyed>>
  BY DmaClientsAssumption DEF dma_ack, regs, DmaThreads, Guest, Nobody
<1>2. dRes \in Nat /\ dRes <= ReqCount
  BY DmaTypes
<1>3. CASE Current(c) /\ dRes + len >= ReqCount
  <2>1. /\ dRes' \in 0 .. ReqCount /\ dPhase' = "finishing" /\ Enter(c, "none") /\ dThread[c].id = dIdent
        /\ dPhase \in Transfers
    BY <1>1, <1>2, <1>3 DEF dma_ack, Clamp, Current, IdentInv
  <2>2. dPhase' \notin Transfers /\ dSbit' \in {0, 1}
    BY <1>1, <2>1 DEF Transfers, DmaTypeOK
  <2> QED BY <1>1, <2>1, <2>2, EnterStep
<1>4. CASE ~(Current(c) /\ dRes + len >= ReqCount)
  <2>1. /\ Drop(c) /\ UNCHANGED <<dPhase, dLock>> /\ dRes' \in 0 .. ReqCount
        /\ dRes' = dRes \/ dRes' < ReqCount
    BY <1>2, <1>4 DEF dma_ack, Clamp
  <2>2. SetsThread(c, "out", "none", dThread[c].id, dThread[c].cmd)
    BY <1>1, <2>1, DmaTypes, ThreadFields DEF Drop, DThread
  <2>3. DmaTypeOK'
    BY <1>1, <2>1, <2>2 DEF DmaTypeOK, SetsThread, DThread
  <2>4. IdentInv'
    BY <1>1, <2>1, <2>2 DEF IdentInv, Answering, SetsThread
  <2>5. StatusInv'
    BY <1>1, <2>1 DEF StatusInv
  <2>6. LockInv'
    BY <1>1, <2>1, <2>2 DEF LockInv, SetsThread
  <2> QED BY <2>3, <2>4, <2>5, <2>6
<1> QED BY <1>3, <1>4

(* The inductive invariant of the DMA engine.                                 *)
THEOREM DmaInvariant == DmaSpec => []DmaInv
<1> USE DmaAssumption, DmaOpsAssumption
<1>1. DmaInit => DmaInv
  <2> SUFFICES ASSUME DmaInit PROVE DmaInv
    OBVIOUS
  <2>1. DmaTypeOK
    <3>1. prog \in [1 .. ProgSize -> Commands]
      BY DEF DmaInit
    <3>2. dThread \in [DmaThreads -> DThread]
      BY DEF DmaInit, DThread
    <3>3. dLock \in DmaThreads \cup {Nobody} /\ dRes \in 0 .. ReqCount
      BY DEF DmaInit
    <3> QED BY <3>1, <3>2, <3>3 DEF DmaInit, DmaTypeOK, DThread, Phases
  <2>2. \A t \in DmaThreads : dThread[t].pc = "out" /\ t # Nobody
    BY DmaClientsAssumption DEF DmaInit, DmaThreads, Guest, Nobody
  <2> QED BY <2>1, <2>2 DEF DmaInit, DmaInv, IdentInv, StatusInv, LockInv, Answering, Transfers
<1>2. DmaInv /\ [DmaNext]_dmaVars => DmaInv'
  <2> SUFFICES ASSUME DmaInv, [DmaNext]_dmaVars PROVE DmaInv'
    OBVIOUS
  <2>1. ASSUME NEW t \in DmaThreads, ProcStep(t) PROVE DmaInv'
    BY <2>1, PhaseStep, StartStep, WordEndsStep, LoopEndsStep DEF ProcStep
  <2>2. ASSUME NEW mask \in SUBSET {"RUN", "PAUSE", "DEAD"}, NEW set \in SUBSET mask,
               NEW s \in {0, 1}, control_write(mask, set, s)
        PROVE  DmaInv'
    BY <2>2, ControlStep
  <2>3. CASE \/ \E p \in 1 .. ProgSize : CmdPtrWrite(p)
             \/ \E sel \in {0, 1} : SelWrite(sel, sel)
    BY <2>3, RegisterStep
  <2>4. ASSUME NEW c \in DmaClients, dbdma_sbits_changed(c) PROVE DmaInv'
    <3>1. c \in DmaThreads /\ "none" \in Transfers \cup {"none"} /\ dSbit' \in {0, 1} /\ dRes' \in 0 .. ReqCount
      BY <2>4 DEF DmaThreads, dbdma_sbits_changed, DmaInv, DmaTypeOK
    <3> QED BY <2>4, <3>1, EnterStep DEF dbdma_sbits_changed, Free
  <2>5. ASSUME NEW c \in DmaClients, NEW want \in Transfers, dma_req(c, want) PROVE DmaInv'
    BY <2>5, RequestStep
  <2>6. ASSUME NEW c \in DmaClients, NEW len \in 0 .. ReqCount, dma_ack(c, len) PROVE DmaInv'
    BY <2>6, AckStep
  <2>7. CASE UNCHANGED dmaVars
    BY <2>7 DEF dmaVars, DmaInv, DmaTypeOK, IdentInv, StatusInv, LockInv, Answering
  <2> QED BY <2>1, <2>2, <2>3, <2>4, <2>5, <2>6, <2>7 DEF DmaNext
<1> QED BY <1>1, <1>2, PTL DEF DmaSpec

(* DmaTypeOK holds in every reachable state; the count of a transfer stays    *)
(* within the request (dma_read_ack() and dma_write_ack() clamp it).          *)
THEOREM DmaTypeCorrect == DmaSpec => []DmaTypeOK
BY DmaInvariant, PTL DEF DmaInv

(* The guest reads a true status (StatusTruth), whatever stopped the channel. *)
THEOREM StatusIsTrue == DmaSpec => []StatusTruth
<1>1. DmaInv => StatusTruth
  BY DEF DmaInv, StatusInv, StatusTruth
<1> QED BY <1>1, DmaInvariant, PTL

(* A program is never left half-way (NoOrphanPhase).                          *)
THEOREM NoOrphan == DmaSpec => []NoOrphanPhase
<1>1. DmaInv => NoOrphanPhase
  <2> SUFFICES ASSUME DmaInv, dLock = Nobody, {"PAUSE", "DEAD"} \cap dStatus = {}, ~dKeyed
               PROVE  \/ dPhase = "idling"
                      \/ dPhase \in Transfers /\ (dRes < ReqCount \/ ReqCount = 0)
                      \/ dPhase = "finishing" /\ prog[dCur].wait
                      \/ dPhase = "ioaccessing" /\ \E t \in DmaThreads :
                            dThread[t].pc = "io" /\ dThread[t].id = dIdent /\ dThread[t].cmd = dCmds
    BY DEF NoOrphanPhase
  <2>1. CASE dPhase = "ioaccessing"
    BY <2>1 DEF DmaInv, IdentInv
  <2>2. CASE dPhase # "ioaccessing"
    BY <2>2 DEF DmaInv, LockInv, StatusInv, Transfers
  <2> QED BY <2>1, <2>2
<1> QED BY <1>1, DmaInvariant, PTL

(* No step touches a thread that is about to answer, but its own answer.       *)
LEMMA OnlyAnswers ==
  ASSUME DmaTypeOK, DmaNext, NEW t \in DmaThreads, Answering(t), dThread'[t].pc # dThread[t].pc
  PROVE  WordEnds(t) \/ \E len \in 0 .. ReqCount : dma_ack(t, len)
<1>1. dThread \in [DmaThreads -> DThread]
  BY DEF DmaTypeOK, DThread
<1>2. ASSUME NEW u \in DmaThreads, NEW want, Enter(u, want), u # t PROVE FALSE
  BY <1>1, <1>2 DEF Enter
<1>3. ASSUME NEW u \in DmaThreads, Grant(u), u # t PROVE FALSE
  BY <1>1, <1>3 DEF Grant
<1>4. ASSUME NEW u \in DmaThreads, Drop(u), u # t PROVE FALSE
  BY <1>1, <1>4 DEF Drop
<1>5. UNCHANGED dThread => FALSE
  OBVIOUS
<1>6. ASSUME NEW u \in DmaThreads, ProcStep(u) PROVE WordEnds(t)
  <2>1. CASE prepare_cmd(u) \/ finish_cmd(u)
    BY <1>5, <2>1 DEF prepare_cmd, finish_cmd
  <2>2. CASE start_cmd(u)
    <3>1. u # t
      BY <2>2 DEF start_cmd, Runs, Answering
    <3>2. CASE StartTransfer \/ StartMemWord \/ StartOther
      BY <1>5, <3>2 DEF StartTransfer, StartMemWord, StartOther
    <3>3. CASE StartWord(u)
      BY <1>1, <3>1, <3>3 DEF StartWord
    <3> QED BY <2>2, <3>2, <3>3 DEF start_cmd
  <2>3. CASE WordEnds(u)
    BY <1>1, <2>3 DEF WordEnds
  <2>4. CASE LoopEnds(u)
    <3>1. u # t
      BY <2>4 DEF LoopEnds, Answering
    <3>2. Grant(u) \/ Drop(u)
      BY <2>4 DEF LoopEnds, Drop
    <3> QED BY <1>3, <1>4, <3>1, <3>2
  <2> QED BY <1>6, <2>1, <2>2, <2>3, <2>4 DEF ProcStep
<1>7. ASSUME NEW mask, NEW set, NEW s, control_write(mask, set, s) PROVE FALSE
  <2>1. Guest \in DmaThreads /\ Guest # t
    BY <1>7 DEF control_write, Free, Answering, DmaThreads
  <2>2. Enter(Guest, "none") \/ UNCHANGED dThread
    BY <1>7 DEF control_write
  <2> QED BY <1>2, <1>5, <2>1, <2>2
<1>8. ASSUME NEW p, CmdPtrWrite(p) \/ SelWrite(p, p) PROVE FALSE
  BY <1>5, <1>8 DEF CmdPtrWrite, SelWrite
<1>9. ASSUME NEW c \in DmaClients, dbdma_sbits_changed(c) PROVE FALSE
  BY <1>2, <1>9 DEF dbdma_sbits_changed, Free, Answering, DmaThreads
<1>10. ASSUME NEW c \in DmaClients, NEW want \in Transfers, dma_req(c, want) PROVE FALSE
  <2>1. c \in DmaThreads /\ c # t
    BY <1>10 DEF dma_req, Free, Answering, DmaThreads
  <2>2. Grant(c) \/ Enter(c, want)
    BY <1>10 DEF dma_req
  <2> QED BY <1>2, <1>3, <2>1, <2>2
<1>11. ASSUME NEW c \in DmaClients, NEW len \in 0 .. ReqCount, dma_ack(c, len)
       PROVE  dma_ack(t, len)
  <2>1. c \in DmaThreads /\ (Drop(c) \/ Enter(c, "none"))
    BY <1>11 DEF dma_ack, DmaThreads
  <2>2. c = t
    BY <1>2, <1>4, <2>1
  <2> QED BY <1>11, <2>2
<1> QED BY <1>6, <1>7, <1>8, <1>9, <1>10, <1>11 DEF DmaNext

(* A late answer changes nothing (StaleNeverApplied): by IdentInv a thread    *)
(* whose identifier is the last one has the command the channel is at, until  *)
(* a STORE_WORD with an unimplemented key has run.                            *)
THEOREM LateAnswersIgnored == DmaSpec => StaleNeverApplied
<1>1. ASSUME DmaInv, DmaNext, ~dKeyed, NEW t \in DmaThreads,
             \/ dThread[t].pc = "xfer" /\ dThread'[t].pc # "xfer" /\ (dRes' # dRes \/ dPhase' # dPhase)
             \/ dThread[t].pc = "io" /\ dThread'[t].pc # "io" /\ dPhase' # dPhase
      PROVE  dThread[t].cmd = dCmds
  <2>1. Answering(t) /\ dThread'[t].pc # dThread[t].pc
    BY <1>1 DEF Answering
  <2>2. WordEnds(t) \/ \E len \in 0 .. ReqCount : dma_ack(t, len)
    BY <1>1, <2>1, OnlyAnswers DEF DmaInv
  <2>3. dThread[t].id = dIdent
    <3>1. CASE WordEnds(t)
      BY <1>1, <3>1 DEF WordEnds
    <3>2. ASSUME NEW len \in 0 .. ReqCount, dma_ack(t, len) PROVE dThread[t].id = dIdent
      BY <1>1, <3>2 DEF dma_ack, Current
    <3> QED BY <2>2, <3>1, <3>2
  <2> QED BY <1>1, <2>1, <2>3 DEF DmaInv, IdentInv
<1>2. DmaInv /\ [DmaNext]_dmaVars =>
        [ ~dKeyed => \A t \in DmaThreads :
            LET applied == \/ dThread[t].pc = "xfer" /\ dThread'[t].pc # "xfer"
                              /\ (dRes' # dRes \/ dPhase' # dPhase)
                           \/ dThread[t].pc = "io" /\ dThread'[t].pc # "io" /\ dPhase' # dPhase
            IN applied => dThread[t].cmd = dCmds ]_dmaVars
  BY <1>1
<1> QED BY <1>2, DmaInvariant, PTL DEF DmaSpec, StaleNeverApplied

(* A paused program stands still (PausedStands): process_cmds() leaves its    *)
(* loop on PAUSE and a command pointer is not accepted while RUN is set.      *)
THEOREM PauseHolds == DmaSpec => PausedStands
<1>1. ASSUME DmaNext, "PAUSE" \in dStatus, "RUN" \in dStatus
      PROVE  dPtr' = dPtr /\ dCmds' = dCmds
  <2>1. ASSUME NEW t \in DmaThreads, ProcStep(t) PROVE dPtr' = dPtr /\ dCmds' = dCmds
    BY <1>1, <2>1 DEF ProcStep, prepare_cmd, start_cmd, finish_cmd, Runs, WordEnds, LoopEnds
  <2>2. ASSUME NEW mask, NEW set, NEW s, control_write(mask, set, s) PROVE dPtr' = dPtr /\ dCmds' = dCmds
    BY <2>2 DEF control_write
  <2>3. ASSUME NEW p, CmdPtrWrite(p) \/ SelWrite(p, p) PROVE dPtr' = dPtr /\ dCmds' = dCmds
    BY <1>1, <2>3 DEF CmdPtrWrite, SelWrite
  <2>4. ASSUME NEW c \in DmaClients,
               \/ dbdma_sbits_changed(c)
               \/ \E want \in Transfers : dma_req(c, want)
               \/ \E len \in 0 .. ReqCount : dma_ack(c, len)
        PROVE  dPtr' = dPtr /\ dCmds' = dCmds
    BY <2>4 DEF dbdma_sbits_changed, dma_req, dma_ack
  <2> QED BY <1>1, <2>1, <2>2, <2>3, <2>4 DEF DmaNext
<1>2. [DmaNext]_dmaVars => ["PAUSE" \in dStatus /\ "RUN" \in dStatus => dPtr' = dPtr /\ dCmds' = dCmds]_dmaVars
  BY <1>1
<1> QED BY <1>2, PTL DEF DmaSpec, PausedStands

-----------------------------------------------------------------------------
(* The sound driver.                                                         *)

Locking == {"ring", "look", "copy", "advance", "go", "irq", "exit"}
Exists(t) == audio[t].pc # "none"

(* There is one audio thread exactly while ss.thread_running is not 0, with   *)
(* the device open for it, and it holds the lock but while the device plays.  *)
(* It leaves only when it was stopped.                                        *)
EngineInv ==
    /\ \A t \in AudioThreads : sndLock = t <=> audio[t].pc \in Locking
    /\ \A t, u \in AudioThreads : Exists(t) /\ Exists(u) => t = u
    /\ sndRunning # 0 <=> \E t \in AudioThreads : Exists(t)
    /\ sndDev # "closed" <=> sndRunning # 0
    /\ \A t \in AudioThreads : audio[t].pc = "exit" => sndRunning = -1

(* What the guest asked for, and where its request stands, give the sign of   *)
(* ss.thread_running.                                                        *)
RequestInv ==
    /\ sndMain.pc = "start" => sndStarted /\ sndRunning <= 0
    /\ sndMain.pc = "stop" => ~sndStarted /\ sndRunning > 0
    /\ sndMain.pc = "wait" => ~sndStarted
    /\ StartedRuns

(* The two interfaces: where a thread may be, and what the ring engine's      *)
(* index says of the fragment last played.                                    *)
RingInv ==
    /\ \A t \in AudioThreads :
          IF sndRing THEN audio[t].pc \in {"none", "lock", "ring", "playring", "exit"}
                     ELSE audio[t].pc \notin {"ring", "playring"}
    /\ \A t \in AudioThreads :
          /\ audio[t].pc = "lock" => sndFrag = -1
          /\ audio[t].pc = "ring" => sndInd = (sndFrag + 1) % RingFrags
          /\ audio[t].pc = "playring" /\ sndRunning = 1 => sndFrag = sndInd
          /\ audio[t].pc = "lock" => sndInd = 0
    /\ sndRunning = 2 => sndInd = 0

SndCore == SndTypeOK /\ EngineInv /\ RequestInv /\ RingInv

(* The hand-over of buffers: what is left of the source is the end of what    *)
(* was written, and the part the thread took off it comes before that, right  *)
(* after what was played.                                                    *)
Took(t) == audio[t].pc \in {"go", "irq", "play"} /\ audio[t].buf # <<>>
HandoverInv ==
    /\ \A t \in AudioThreads :
          /\ audio[t].pc \in {"copy", "advance"} => sndSize > 0
          /\ audio[t].pc \notin {"advance", "go", "irq", "play"} => audio[t].buf = <<>>
    /\ sndSize > 0 => sndSrc[1] > 0
    /\ sndMain.pc = "size" => sndSrc[1] > 0
    /\ ~sndWarned =>
          /\ sndMain.pc = "size" => sndSize = 0 /\ sndSrc[2] = 0
          /\ Len(sndPlayed) + sndSize <= Len(sndWritten)
          /\ \A i \in 1 .. Len(sndPlayed) : sndPlayed[i] = sndWritten[i]
          /\ \A k \in 1 .. sndSize :
                sndWritten[Len(sndWritten) - sndSize + k] = <<sndSrc[1], sndSrc[2] + k - 1>>
          /\ \A t \in AudioThreads : audio[t].pc = "advance" => audio[t].buf = <<sndSrc>>
          /\ \A t \in AudioThreads : Took(t) =>
                /\ Len(sndWritten) = Len(sndPlayed) + 1 + sndSize
                /\ audio[t].buf = <<sndWritten[Len(sndPlayed) + 1]>>
          /\ (\A t \in AudioThreads : ~Took(t)) => Len(sndWritten) = Len(sndPlayed) + sndSize

SndInv == SndCore /\ HandoverInv

(* What a step does to the record of the audio thread that takes it.          *)
AudioRec == [pc : AudioPcs, buf : Seq(Units)]
SetsAudio(t, pc, buf) ==
    /\ audio' \in [AudioThreads -> AudioRec]
    /\ audio'[t].pc = pc /\ audio'[t].buf = buf
    /\ \A u \in AudioThreads : u # t => audio'[u] = audio[u]

LEMMA AudioFields ==
  ASSUME NEW t \in AudioThreads, audio \in [AudioThreads -> AudioRec],
         NEW pc \in AudioPcs, NEW buf \in Seq(Units)
  PROVE  /\ AudioTo(t, pc) => SetsAudio(t, pc, audio[t].buf)
         /\ audio' = [audio EXCEPT ![t] = [pc |-> pc, buf |-> buf]] => SetsAudio(t, pc, buf)
<1> DEFINE r == audio[t]
           R(a, b) == [pc |-> a, buf |-> b]
<1>1. r = R(r.pc, r.buf) /\ r.buf \in Seq(Units)
  BY DEF AudioRec
<1>2. ASSUME NEW q \in AudioRec, audio' = [audio EXCEPT ![t] = q] PROVE SetsAudio(t, q.pc, q.buf)
  BY <1>2 DEF SetsAudio
<1>3. ASSUME AudioTo(t, pc) PROVE SetsAudio(t, pc, r.buf)
  <2>1. [R(r.pc, r.buf) EXCEPT !.pc = pc] = R(pc, r.buf)
    OBVIOUS
  <2>2. audio' = [audio EXCEPT ![t] = [r EXCEPT !.pc = pc]]
    BY <1>3 DEF AudioTo
  <2>3. R(pc, r.buf) \in AudioRec
    BY <1>1 DEF AudioRec
  <2>4. audio' = [audio EXCEPT ![t] = R(pc, r.buf)]
    BY <1>1, <2>1, <2>2
  <2> QED BY <1>2, <2>3, <2>4
<1>4. ASSUME audio' = [audio EXCEPT ![t] = R(pc, buf)] PROVE SetsAudio(t, pc, buf)
  <2>1. R(pc, buf) \in AudioRec
    BY DEF AudioRec
  <2> QED BY <1>2, <1>4, <2>1
<1> QED BY <1>3, <1>4

(* The main thread's steps that leave the hand-over alone.                    *)
LEMMA RequestSteps ==
  ASSUME SndInv,
         \/ stop_sound \/ StopLocks \/ start_sound \/ ModeSet \/ WriteFlag \/ osip_sound_irq_ack
         \/ \E f \in SndFormats : set_mode(f)
         \/ \E go \in BOOLEAN : SetGo(go)
  PROVE  SndInv'
<1> USE SoundAssumption, AudioThreadsAssumption DEF SndInv, SndCore
<1>1. /\ UNCHANGED <<sndRing, sndInd, sndSrc, sndSize, sndDev, sndLock, audio, sndHistory>>
      /\ sndMain'.pc # "size"
  BY DEF stop_sound, StopLocks, start_sound, ModeSet, WriteFlag, osip_sound_irq_ack, set_mode, SetGo,
         MainAt, MainTo, handover, guestSide, sndHistory
<1>2. SndTypeOK'
  <2>1. /\ sndRunning' \in {-1, 0, 1, 2} /\ sndStarted' \in BOOLEAN /\ sndGo' \in BOOLEAN
        /\ sndIrq' \in {0, 1} /\ sndStarts' \in 0 .. MaxStarts
        /\ sndFormat' \in SndFormats \cup {NoFormat}
    <3>1. CASE ModeSet
      <4>1. sndFormat' = sndFormat \/ sndFormat' = sndMain.arg
        BY <3>1 DEF ModeSet
      <4> QED BY <3>1, <4>1 DEF ModeSet, MainAt, SndTypeOK, handover
    <3>2. CASE \E go \in BOOLEAN : SetGo(go)
      BY <3>2 DEF SetGo, handover, guestSide, SndTypeOK
    <3>3. CASE stop_sound \/ StopLocks
      BY <3>3 DEF stop_sound, StopLocks, handover, SndTypeOK
    <3>4. CASE start_sound
      <4>1. sndStarts' \in 0 .. MaxStarts
        BY <3>4 DEF start_sound, SndTypeOK
      <4> QED BY <3>4, <4>1 DEF start_sound, handover, SndTypeOK
    <3>5. CASE WriteFlag \/ osip_sound_irq_ack \/ \E f \in SndFormats : set_mode(f)
      BY <3>5 DEF WriteFlag, osip_sound_irq_ack, set_mode, handover, guestSide, SndTypeOK
    <3> QED BY <3>1, <3>2, <3>3, <3>4, <3>5
  <2>2. /\ sndMain'.pc \in {"rest", "stop", "start", "wait", "flag"}
        /\ sndMain'.pc = "wait" => sndMain'.arg \in SndFormats
    BY DEF stop_sound, StopLocks, start_sound, ModeSet, WriteFlag, osip_sound_irq_ack, set_mode, SetGo,
           MainAt, MainTo, handover, guestSide, SndTypeOK
  <2> QED BY <1>1, <2>1, <2>2 DEF SndTypeOK, sndHistory
<1>3. EngineInv' /\ (sndRunning' = 2 => sndRunning = 2) /\ (sndRunning' = 1 => sndRunning = 1)
  <2>1. CASE StopLocks
    <3>1. sndRunning # 0
      BY <2>1 DEF StopLocks, RequestInv, MainAt
    <3> QED BY <1>1, <2>1, <3>1 DEF StopLocks, EngineInv, Exists
  <2>2. CASE UNCHANGED sndRunning
    BY <1>1, <2>2 DEF EngineInv, Exists
  <2> QED BY <2>1, <2>2 DEF stop_sound, start_sound, ModeSet, WriteFlag, osip_sound_irq_ack, set_mode,
           SetGo
<1>4. RequestInv'
  BY DEF RequestInv, StartedRuns, SndTypeOK, stop_sound, StopLocks, start_sound, ModeSet, WriteFlag,
         osip_sound_irq_ack, set_mode, SetGo, MainAt, MainTo, guestSide
<1>5. RingInv'
  BY <1>1, <1>3 DEF RingInv, sndHistory
<1>6. HandoverInv'
  BY <1>1 DEF HandoverInv, Took, sndHistory
<1> QED BY <1>2, <1>3, <1>4, <1>5, <1>6

(* The second half of start_sound().                                          *)
LEMMA StartStepSnd ==
  ASSUME SndInv, StartLocks
  PROVE  SndInv'
<1> USE SoundAssumption, AudioThreadsAssumption DEF SndInv, SndCore
<1>1. /\ UNCHANGED <<sndRing, sndStarted, sndFormat, sndStarts, sndSrc, sndSize, sndIrq, sndLock,
                    sndWritten, sndPlayed, sndWarned>>
      /\ sndInd' = 0 /\ sndGo' = FALSE /\ sndFrag' = -1 /\ sndMain'.pc = "rest"
      /\ sndMain.pc = "start" /\ sndLock = NoOwner /\ sndStarted /\ sndRunning <= 0
  BY DEF StartLocks, MainAt, MainTo, Unlocked, RequestInv
<1>2. \A t \in AudioThreads : audio[t].pc \notin Locking
  BY <1>1 DEF EngineInv
<1>3. 0 \in 0 .. RingFrags - 1 /\ -1 \in -1 .. RingFrags - 1
  OBVIOUS
<1>4. CASE sndRunning # 0
  <2>1. sndRunning' = 2 /\ UNCHANGED <<sndDev, audio>>
    BY <1>4 DEF StartLocks
  <2>2. SndTypeOK'
    BY <1>1, <1>3, <2>1 DEF SndTypeOK
  <2>3. EngineInv'
    BY <1>1, <1>2, <1>4, <2>1 DEF EngineInv, Exists, Locking
  <2>4. RequestInv'
    BY <1>1, <2>1 DEF RequestInv, StartedRuns, MainAt
  <2>5. RingInv'
    BY <1>1, <1>2, <2>1 DEF RingInv, Locking
  <2>6. HandoverInv'
    BY <1>1, <2>1 DEF HandoverInv, Took
  <2> QED BY <2>2, <2>3, <2>4, <2>5, <2>6
<1>5. CASE sndRunning = 0
  <2>1. /\ sndRunning' = 1 /\ sndDev' \in {"open", "nosound"}
        /\ \E t \in AudioThreads : AudioTo(t, "lock")
    BY <1>5 DEF StartLocks, OpenAndCreate
  <2>2. PICK t \in AudioThreads : AudioTo(t, "lock")
    BY <2>1
  <2>3. \A u \in AudioThreads : audio[u].pc = "none"
    BY <1>5 DEF EngineInv, Exists
  <2>4. SetsAudio(t, "lock", audio[t].buf)
    BY <2>2, AudioFields DEF SndTypeOK, AudioRec, AudioPcs
  <2>5. SndTypeOK'
    BY <1>1, <1>3, <2>1, <2>4 DEF SndTypeOK, SetsAudio, AudioRec
  <2>6. EngineInv'
    BY <1>1, <2>1, <2>3, <2>4 DEF EngineInv, Exists, Locking, SetsAudio
  <2>7. RequestInv'
    BY <1>1, <2>1 DEF RequestInv, StartedRuns, MainAt
  <2>8. RingInv'
    BY <1>1, <2>1, <2>3, <2>4 DEF RingInv, SetsAudio
  <2>9. HandoverInv'
    <3>1. \A u \in AudioThreads : audio'[u].buf = <<>> /\ ~Took(u) /\ audio'[u].pc \in {"none", "lock"}
      BY <2>3, <2>4 DEF HandoverInv, Took, SetsAudio
    <3>2. \A u \in AudioThreads : ~Took(u)'
      BY <3>1 DEF Took
    <3> QED BY <1>1, <3>1, <3>2 DEF HandoverInv
  <2> QED BY <2>5, <2>6, <2>7, <2>8, <2>9
<1> QED BY <1>4, <1>5

(* kSoundWrite, its first store: the new source.  If no warning is given the  *)
(* source was used up.                                                       *)
LEMMA WriteStep ==
  ASSUME SndInv, NEW len \in BufLens, osip_sound_write(len)
  PROVE  SndInv'
<1> USE SoundAssumption, AudioThreadsAssumption DEF SndInv, SndCore
<1>1. /\ UNCHANGED <<sndRing, sndStarted, sndFormat, sndStarts, sndRunning, sndInd, sndSize, sndGo,
                    sndDev, sndIrq, sndLock, audio, sndFrag>>
      /\ sndMain'.pc = "size" /\ sndMain'.arg = len /\ sndMain.pc = "rest"
      /\ sndWarned' = (sndWarned \/ sndSize # 0)
  BY DEF osip_sound_write, MainAt
<1>2. sndSrc[1] \in 0 .. MaxWrites
  BY DEF SndTypeOK
<1>3. Writes = sndSrc[1]
  BY <1>2 DEF Writes
<1>4. sndSrc' = <<sndSrc[1] + 1, 0>> /\ sndSrc[1] < MaxWrites
  BY <1>3 DEF osip_sound_write
<1>5. sndSrc'[1] = sndSrc[1] + 1 /\ sndSrc'[2] = 0 /\ sndSrc' \in (0 .. MaxWrites) \X Nat
  BY <1>2, <1>4
<1>6. SndTypeOK'
  <2>1. sndWarned' \in BOOLEAN
    BY <1>1
  <2>2. sndWritten' \in Seq(Units) /\ sndPlayed' \in Seq(Units)
    <3>1. \/ sndWritten' = <<>> /\ sndPlayed' = <<>>
          \/ sndWritten' = sndWritten /\ sndPlayed' = sndPlayed
      BY DEF osip_sound_write
    <3>2. <<>> \in Seq(Units)
      OBVIOUS
    <3> QED BY <3>1, <3>2 DEF SndTypeOK
  <2> QED BY <1>1, <1>5, <2>1, <2>2 DEF SndTypeOK
<1>7. EngineInv'
  BY <1>1 DEF EngineInv, Exists
<1>8. RequestInv'
  BY <1>1 DEF RequestInv, StartedRuns, MainAt
<1>9. RingInv'
  BY <1>1 DEF RingInv
<1>10. HandoverInv'
  <2>1. CASE sndWarned'
    BY <1>1, <1>2, <1>5, <2>1 DEF HandoverInv
  <2>2. CASE ~sndWarned'
    <3>1. ~sndWarned /\ sndSize = 0 /\ UNCHANGED <<sndWritten, sndPlayed>>
      BY <1>1, <2>2 DEF osip_sound_write
    <3>2. \A t \in AudioThreads : audio[t].pc \notin {"copy", "advance"}
      BY <3>1 DEF HandoverInv
    <3> QED BY <1>1, <1>2, <1>5, <3>1, <3>2 DEF HandoverInv, Took
  <2> QED BY <2>1, <2>2
<1> QED BY <1>6, <1>7, <1>8, <1>9, <1>10

(* Its second store: the size.                                               *)
LEMMA WriteSizeStep ==
  ASSUME SndInv, WriteSize
  PROVE  SndInv'
<1> USE SoundAssumption, AudioThreadsAssumption DEF SndInv, SndCore
<1>1. /\ UNCHANGED <<sndRing, sndStarted, sndFormat, sndStarts, sndRunning, sndInd, sndSrc, sndGo,
                    sndDev, sndIrq, sndLock, audio, sndFrag, sndPlayed, sndWarned>>
      /\ sndMain'.pc = "flag" /\ sndMain.pc = "size" /\ sndSize' = sndMain.arg
  BY DEF WriteSize, MainAt, MainTo
<1> DEFINE len == sndMain.arg
           part == [k \in 1 .. len |-> <<sndSrc[1], k - 1>>]
<1>2. len \in Nat \ {0} /\ sndSrc[1] \in 1 .. MaxWrites
  <2>1. len \in BufLens
    BY <1>1 DEF SndTypeOK
  <2>2. sndSrc[1] \in 0 .. MaxWrites /\ sndSrc[1] > 0
    BY <1>1 DEF SndTypeOK, HandoverInv
  <2>3. sndSrc[1] \in 1 .. MaxWrites
    BY <2>2
  <2>4. BufLens \subseteq Nat \ {0}
    BY SoundAssumption
  <2> HIDE DEF len
  <2>5. len \in Nat \ {0}
    BY <2>1, <2>4
  <2> QED BY <2>3, <2>5
<1>3. part \in Seq(Units) /\ Len(part) = len
  BY <1>2 DEF Units
<1>4. sndWritten' = IF sndWarned THEN sndWritten ELSE sndWritten \o part
  BY DEF WriteSize
<1>5. sndWritten \in Seq(Units) /\ sndPlayed \in Seq(Units)
  BY DEF SndTypeOK
<1> HIDE DEF len, part
<1>6. SndTypeOK'
  <2>1. sndWritten' \in Seq(Units)
    BY <1>3, <1>4, <1>5
  <2> QED BY <1>1, <1>2, <2>1 DEF SndTypeOK, len
<1>7. EngineInv'
  BY <1>1 DEF EngineInv, Exists
<1>8. RequestInv'
  BY <1>1 DEF RequestInv, StartedRuns, MainAt
<1>9. RingInv'
  BY <1>1 DEF RingInv
<1>10. HandoverInv'
  <2>1. CASE sndWarned
    BY <1>1, <1>2, <2>1 DEF HandoverInv, len
  <2>2. CASE ~sndWarned
    <3>1. sndSize = 0 /\ sndSrc[2] = 0
      BY <1>1, <2>2 DEF HandoverInv
    <3>2. /\ Len(sndWritten') = Len(sndWritten) + len
          /\ \A i \in 1 .. Len(sndWritten) : sndWritten'[i] = sndWritten[i]
          /\ \A k \in 1 .. len : sndWritten'[Len(sndWritten) + k] = part[k]
      <4> DEFINE all == sndWritten \o part
      <4>1. /\ Len(all) = Len(sndWritten) + Len(part)
            /\ \A i \in 1 .. Len(sndWritten) + Len(part) :
                  all[i] = IF i <= Len(sndWritten) THEN sndWritten[i] ELSE part[i - Len(sndWritten)]
        BY <1>3, <1>5, ConcatProperties, Zenon
      <4>2. sndWritten' = all /\ Len(sndWritten) \in Nat
        BY <1>4, <1>5, <2>2
      <4> HIDE DEF all
      <4> QED BY <1>2, <1>3, <4>1, <4>2
    <3>3. \A k \in 1 .. len : part[k] = <<sndSrc[1], k - 1>>
      BY DEF part
    <3>4. \A t \in AudioThreads : audio[t].pc \notin {"copy", "advance"}
      BY <3>1 DEF HandoverInv
    <3>5. Len(sndWritten) \in Nat /\ Len(sndPlayed) \in Nat
      BY <1>5
    <3>6. Len(sndPlayed) <= Len(sndWritten)
      BY <2>2, <3>1, <3>5 DEF HandoverInv
    <3>7. \A t \in AudioThreads : audio[t].pc \notin {"advance", "go", "irq", "play"} => audio[t].buf = <<>>
      BY DEF HandoverInv
    <3>8. \A i \in 1 .. Len(sndPlayed) : sndPlayed[i] = sndWritten'[i]
      BY <2>2, <3>2, <3>5, <3>6 DEF HandoverInv
    <3>9. \A k \in 1 .. len : sndWritten'[Len(sndWritten') - len + k] = <<sndSrc[1], sndSrc[2] + k - 1>>
      <4> TAKE k \in 1 .. len
      <4>1. k \in Nat /\ Len(sndWritten') - len + k = Len(sndWritten) + k
        BY <1>2, <3>2, <3>5
      <4>2. sndSrc[2] + k - 1 = k - 1
        BY <3>1, <4>1
      <4>3. sndWritten'[Len(sndWritten) + k] = <<sndSrc[1], k - 1>>
        BY <3>2, <3>3, Zenon
      <4> QED BY <4>1, <4>2, <4>3, Zenon
    <3>10. ASSUME NEW t \in AudioThreads, Took(t)
           PROVE  /\ Len(sndWritten') = Len(sndPlayed) + 1 + len
                  /\ audio[t].buf = <<sndWritten'[Len(sndPlayed) + 1]>>
      <4>1. /\ Len(sndWritten) = Len(sndPlayed) + 1
            /\ audio[t].buf = <<sndWritten[Len(sndPlayed) + 1]>>
        BY <2>2, <3>1, <3>5, <3>10 DEF HandoverInv
      <4> QED BY <1>2, <3>2, <3>5, <4>1
    <3>11. (\A t \in AudioThreads : ~Took(t)) => Len(sndWritten') = Len(sndPlayed) + len
      <4> HAVE \A t \in AudioThreads : ~Took(t)
      <4>1. Len(sndWritten) = Len(sndPlayed) + sndSize
        BY <2>2 DEF HandoverInv
      <4> QED BY <1>2, <3>1, <3>2, <3>5, <4>1
    <3>12. \A t \in AudioThreads : Took(t)' <=> Took(t)
      BY <1>1 DEF Took
    <3>13. sndSize' = len /\ Len(sndPlayed) + len <= Len(sndWritten')
      BY <1>1, <1>2, <3>2, <3>5, <3>6 DEF len
    <3> QED BY <1>1, <1>2, <2>2, <3>4, <3>7, <3>8, <3>9, <3>10, <3>11, <3>12, <3>13 DEF HandoverInv
  <2> QED BY <2>1, <2>2
<1> QED BY <1>6, <1>7, <1>8, <1>9, <1>10

(* The audio thread takes the lock or has it, and goes on.                     *)
LEMMA EngineGoesOn ==
  ASSUME SndInv, NEW t \in AudioThreads, NEW pc \in AudioPcs \ {"none"}, NEW buf \in Seq(Units),
         SetsAudio(t, pc, buf), audio[t].pc # "none",
         audio[t].pc \in Locking \/ sndLock = NoOwner,
         sndLock' = IF pc \in Locking THEN t ELSE NoOwner,
         sndDev' = sndDev, sndRunning' # 0, pc = "exit" => sndRunning' = -1
  PROVE  EngineInv'
<1> USE AudioThreadsAssumption DEF SndInv, SndCore
<1>1. \A u \in AudioThreads : u # t => audio'[u] = audio[u] /\ audio[u].pc = "none"
  BY DEF EngineInv, Exists, SetsAudio
<1>2. sndRunning # 0
  BY DEF EngineInv, Exists
<1> QED BY <1>1, <1>2 DEF EngineInv, Exists, SetsAudio, Locking

LEMMA LocksStep ==
  ASSUME SndInv, NEW t \in AudioThreads, AudioStarts(t)
  PROVE  SndInv'
<1> USE SoundAssumption, AudioThreadsAssumption DEF SndInv, SndCore
<1> DEFINE pc == IF sndRing THEN "ring" ELSE "look"
<1>1. /\ UNCHANGED <<sndRing, guestSide, sndRunning, sndInd, handover, sndDev, sndIrq, sndHistory>>
      /\ audio[t].pc = "lock" /\ sndLock = NoOwner /\ sndLock' = t
      /\ pc \in AudioPcs \ {"none", "exit"} /\ pc \in Locking
  BY DEF AudioStarts, AudioAt, Unlocked, AudioPcs, Locking
<1>2. SetsAudio(t, pc, audio[t].buf) /\ audio[t].buf \in Seq(Units) /\ audio[t].buf = <<>>
  BY <1>1, AudioFields DEF AudioStarts, SndTypeOK, AudioRec, HandoverInv
<1>3. SndTypeOK'
  BY <1>1, <1>2 DEF SndTypeOK, SetsAudio, AudioRec, guestSide, handover, sndHistory
<1>4. EngineInv'
  <2>1. sndRunning # 0
    BY <1>1 DEF EngineInv, Exists
  <2> HIDE DEF pc
  <2> QED BY <1>1, <1>2, <2>1, EngineGoesOn
<1>5. RequestInv'
  BY <1>1 DEF RequestInv, StartedRuns, MainAt, guestSide
<1>6. RingInv'
  <2>1. \A u \in AudioThreads : u # t => audio'[u] = audio[u] /\ audio[u].pc = "none"
    BY <1>1, <1>2 DEF EngineInv, Exists, SetsAudio
  <2>2. sndInd = 0 /\ sndFrag = -1 /\ 0 = (-1 + 1) % RingFrags
    BY <1>1 DEF RingInv
  <2> QED BY <1>1, <1>2, <2>1, <2>2 DEF RingInv, SetsAudio, sndHistory
<1>7. HandoverInv'
  <2>1. \A u \in AudioThreads : u # t => audio'[u] = audio[u]
    BY <1>2 DEF SetsAudio
  <2>2. audio'[t].pc = pc /\ audio'[t].buf = <<>>
    BY <1>2 DEF SetsAudio
  <2>3. \A u \in AudioThreads : Took(u)' <=> Took(u)
    BY <1>1, <2>1, <2>2 DEF Took
  <2> QED BY <1>1, <2>1, <2>2, <2>3 DEF HandoverInv, guestSide, handover, sndHistory
<1> QED BY <1>3, <1>4, <1>5, <1>6, <1>7

(* The index of the fragments.                                               *)
LEMMA NextFragment ==
  ASSUME NEW i \in 0 .. RingFrags - 1
  PROVE  /\ (i + 1) % RingFrags \in 0 .. RingFrags - 1
         /\ (i + 1) % RingFrags = 0 => i = RingFrags - 1
BY SoundAssumption

LEMMA RingSteps ==
  ASSUME SndInv, NEW t \in AudioThreads, RingPlays(t) \/ RingPlayed(t)
  PROVE  SndInv'
<1> USE SoundAssumption, AudioThreadsAssumption DEF SndInv, SndCore
<1> DEFINE pc == audio'[t].pc
<1>1. /\ UNCHANGED <<sndRing, guestSide, handover, sndDev, sndWritten, sndPlayed, sndWarned>>
      /\ sndRing /\ audio[t].pc \in {"ring", "playring"} /\ sndRunning # 0
  BY DEF RingPlays, RingPlayed, AudioAt, RingInv, EngineInv, Exists
<1>2. \A u \in AudioThreads : u # t => audio[u].pc = "none"
  BY <1>1 DEF EngineInv, Exists
<1>3. \/ /\ AudioTo(t, "playring") /\ sndLock' = NoOwner /\ sndFrag' = sndInd
         /\ UNCHANGED <<sndInd, sndIrq, sndRunning>> /\ sndRunning > 0 /\ audio[t].pc = "ring"
      \/ /\ AudioTo(t, "exit") /\ sndRunning = -1 /\ UNCHANGED <<sndInd, sndIrq, sndRunning, sndFrag>>
         /\ sndLock' = t
      \/ /\ AudioTo(t, "ring") /\ sndLock' = t /\ sndRunning = 2 /\ sndRunning' = 1 /\ sndFrag' = -1
         /\ UNCHANGED <<sndInd, sndIrq>> /\ sndLock = NoOwner
      \/ /\ AudioTo(t, "ring") /\ sndLock' = t /\ sndRunning = 1 /\ UNCHANGED <<sndRunning, sndFrag>>
         /\ audio[t].pc = "playring"
         /\ sndInd' = (sndInd + 1) % RingFrags /\ sndIrq' \in {sndIrq, 1} /\ sndLock = NoOwner
  <2>1. CASE RingPlays(t)
    <3>1. sndLock = t
      BY <2>1 DEF RingPlays, AudioAt, EngineInv, Locking
    <3> QED BY <1>1, <2>1, <3>1 DEF RingPlays, AudioAt, Play, Leave, SndTypeOK
  <2>2. CASE RingPlayed(t)
    BY <1>1, <2>2 DEF RingPlayed, AudioAt, Unlocked, Restarted, NextFrag, SndTypeOK
  <2> QED BY <2>1, <2>2
<1>4. audio[t].pc \in Locking \/ sndLock = NoOwner
  BY <1>1 DEF RingPlays, RingPlayed, AudioAt, Unlocked, Locking
<1>5. /\ SetsAudio(t, pc, audio[t].buf) /\ audio[t].buf \in Seq(Units) /\ audio[t].buf = <<>>
      /\ pc \in {"ring", "playring", "exit"}
  <2>1. audio \in [AudioThreads -> AudioRec]
    BY DEF SndTypeOK, AudioRec
  <2>2. audio[t].buf = <<>> /\ audio[t].buf \in Seq(Units)
    BY <1>1, <2>1 DEF HandoverInv, AudioRec
  <2>3. PICK q \in {"ring", "playring", "exit"} : AudioTo(t, q)
    BY <1>3
  <2>4. SetsAudio(t, q, audio[t].buf)
    <3>1. q \in AudioPcs
      BY DEF AudioPcs
    <3> QED BY <2>1, <2>2, <2>3, <3>1, AudioFields, Zenon
  <2> QED BY <2>2, <2>4 DEF SetsAudio
<1>11. \A q \in {"ring", "playring", "exit"} : AudioTo(t, q) => pc = q
  BY DEF AudioTo, SndTypeOK
<1> HIDE DEF pc
<1>6. SndTypeOK'
  <2>1. sndInd' \in 0 .. RingFrags - 1 /\ sndFrag' \in -1 .. RingFrags - 1
    <3>1. sndInd \in 0 .. RingFrags - 1 /\ sndFrag \in -1 .. RingFrags - 1 /\ RingFrags \in Nat
      BY DEF SndTypeOK
    <3>2. (sndInd + 1) % RingFrags \in 0 .. RingFrags - 1
      BY <3>1, NextFragment
    <3> QED BY <1>3, <3>1, <3>2
  <2> QED BY <1>1, <1>3, <1>5, <2>1 DEF SndTypeOK, SetsAudio, AudioRec, guestSide, handover
<1>7. EngineInv'
  <2>1. sndLock' = IF pc \in Locking THEN t ELSE NoOwner
    BY <1>3, <1>11 DEF Locking
  <2>2. sndRunning' # 0 /\ (pc = "exit" => sndRunning' = -1)
    BY <1>1, <1>3, <1>11
  <2>3. pc \in AudioPcs \ {"none"}
    BY <1>5 DEF AudioPcs
  <2> QED BY <1>1, <1>4, <1>5, <2>1, <2>2, <2>3, EngineGoesOn
<1>8. RequestInv'
  BY <1>1, <1>3 DEF RequestInv, StartedRuns, MainAt, guestSide
<1>9. RingInv'
  <2>1. \A u \in AudioThreads : u # t => audio'[u].pc = "none"
    BY <1>2, <1>5 DEF SetsAudio
  <2>2. /\ pc = "ring" => sndInd' = (sndFrag' + 1) % RingFrags
        /\ pc = "playring" => sndFrag' = sndInd'
        /\ sndRunning' = 2 => sndInd' = 0
    <3>1. 0 = (-1 + 1) % RingFrags
      OBVIOUS
    <3>3. /\ audio[t].pc = "playring" /\ sndRunning = 1 => sndFrag = sndInd
          /\ sndRunning = 2 => sndInd = 0
      BY DEF RingInv
    <3> QED BY <1>3, <1>11, <3>1, <3>3
  <2> QED BY <1>1, <1>5, <2>1, <2>2 DEF RingInv, pc
<1>10. HandoverInv'
  <2>1. \A u \in AudioThreads : u # t => audio'[u] = audio[u]
    BY <1>5 DEF SetsAudio
  <2>2. audio'[t].pc \in {"ring", "playring", "exit"} /\ audio'[t].buf = <<>>
    BY <1>5 DEF SetsAudio
  <2>3. \A u \in AudioThreads : Took(u)' <=> Took(u)
    BY <1>1, <2>1, <2>2 DEF Took
  <2>4. UNCHANGED <<sndSize, sndSrc, sndMain, sndPlayed, sndWritten, sndWarned>>
    BY <1>1 DEF guestSide, handover
  <2>5. \A u \in AudioThreads :
          /\ audio'[u].pc \in {"copy", "advance"} => sndSize > 0
          /\ audio'[u].pc \notin {"advance", "go", "irq", "play"} => audio'[u].buf = <<>>
    BY <2>1, <2>2 DEF HandoverInv
  <2>6. \A u \in AudioThreads : audio'[u].pc \in {"advance", "go", "irq", "play"} => u # t /\ audio'[u] = audio[u]
    BY <2>1, <2>2
  <2>7. \A u \in AudioThreads : Took(u)' => audio'[u] = audio[u]
    BY <2>6 DEF Took
  <2>8. (\A u \in AudioThreads : ~Took(u)') => (\A u \in AudioThreads : ~Took(u))
    BY <2>3
  <2> HIDE DEF Took
  <2> QED BY <2>3, <2>4, <2>5, <2>6, <2>7, <2>8 DEF HandoverInv
<1> QED BY <1>6, <1>7, <1>8, <1>9, <1>10

(* What every step of the double buffer's engine keeps.                       *)
LEMMA DbufKeeps ==
  ASSUME SndInv, NEW t \in AudioThreads, NEW pc \in AudioPcs \ {"none", "lock", "ring", "playring"},
         NEW buf \in Seq(Units), SetsAudio(t, pc, buf),
         audio[t].pc \in {"look", "copy", "advance", "go", "irq", "play"},
         audio[t].pc = "play" => sndLock = NoOwner,
         sndLock' = IF pc \in Locking THEN t ELSE NoOwner,
         UNCHANGED <<sndRing, guestSide, sndRunning, sndInd, sndDev, sndFrag>>,
         pc = "exit" => sndRunning = -1
  PROVE  /\ EngineInv' /\ RequestInv' /\ RingInv'
         /\ \A u \in AudioThreads : u # t => audio'[u] = audio[u] /\ audio[u].pc = "none"
<1> USE AudioThreadsAssumption DEF SndInv, SndCore
<1>1. \A u \in AudioThreads : u # t => audio'[u] = audio[u] /\ audio[u].pc = "none"
  BY DEF EngineInv, Exists, SetsAudio
<1>2. EngineInv'
  <2>1. sndRunning # 0
    BY DEF EngineInv, Exists
  <2>2. audio[t].pc \in Locking \/ sndLock = NoOwner
    BY DEF Locking
  <2> QED BY <2>1, <2>2, EngineGoesOn
<1>3. RequestInv'
  BY DEF RequestInv, StartedRuns, MainAt, guestSide
<1>4. RingInv'
  <2>1. ~sndRing
    BY DEF RingInv
  <2> QED BY <1>1, <2>1 DEF RingInv, SetsAudio
<1> QED BY <1>1, <1>2, <1>3, <1>4

LEMMA DbufPassSteps ==
  ASSUME SndInv, NEW t \in AudioThreads, DbufLooks(t) \/ DbufGoes(t) \/ DbufInterrupts(t)
  PROVE  SndInv'
<1> USE SoundAssumption, AudioThreadsAssumption DEF SndInv, SndCore
<1>1. /\ UNCHANGED <<sndRing, guestSide, sndRunning, sndInd, sndSrc, sndSize, sndDev, sndHistory>>
      /\ audio[t].pc \in {"look", "go", "irq"}
  BY DEF DbufLooks, DbufGoes, DbufInterrupts, AudioAt, handover
<1>2. sndLock = t
  BY <1>1 DEF EngineInv, Locking
<1>3. \E q \in {"exit", "go", "copy", "irq", "play"} :
        /\ AudioTo(t, q) /\ sndLock' = IF q \in Locking THEN t ELSE NoOwner
        /\ q = "exit" => sndRunning = -1
        /\ q = "copy" => sndSize > 0
        /\ q \in {"go", "copy", "exit"} <=> audio[t].pc = "look"
  BY <1>2 DEF DbufLooks, DbufGoes, DbufInterrupts, AudioAt, Leave, Play, Locking, SndTypeOK
<1>4. PICK q \in {"exit", "go", "copy", "irq", "play"} :
        /\ AudioTo(t, q) /\ sndLock' = IF q \in Locking THEN t ELSE NoOwner
        /\ q = "exit" => sndRunning = -1
        /\ q = "copy" => sndSize > 0
        /\ q \in {"go", "copy", "exit"} <=> audio[t].pc = "look"
  BY <1>3
<1>5. audio \in [AudioThreads -> AudioRec] /\ audio[t].buf \in Seq(Units)
  BY DEF SndTypeOK, AudioRec
<1>6. q \in AudioPcs \ {"none", "lock", "ring", "playring"} /\ q \in AudioPcs
  BY DEF AudioPcs
<1>7. SetsAudio(t, q, audio[t].buf)
  BY <1>4, <1>5, <1>6, AudioFields, Zenon
<1>8. sndGo' \in BOOLEAN /\ sndIrq' \in {0, 1}
  BY DEF DbufLooks, DbufGoes, DbufInterrupts, handover, SndTypeOK
<1>9. SndTypeOK'
  BY <1>1, <1>2, <1>4, <1>7, <1>8 DEF SndTypeOK, SetsAudio, AudioRec, guestSide, sndHistory
<1>10. /\ EngineInv' /\ RequestInv' /\ RingInv'
       /\ \A u \in AudioThreads : u # t => audio'[u] = audio[u] /\ audio[u].pc = "none"
  BY <1>1, <1>4, <1>5, <1>6, <1>7, DbufKeeps DEF sndHistory
<1>11. HandoverInv'
  <2>1. audio'[t].pc = q /\ audio'[t].buf = audio[t].buf
    BY <1>7 DEF SetsAudio
  <2>2. audio[t].pc = "look" => audio[t].buf = <<>>
    BY DEF HandoverInv
  <2>3. \A u \in AudioThreads : Took(u)' <=> Took(u)
    BY <1>1, <1>4, <1>10, <2>1, <2>2 DEF Took
  <2> QED BY <1>1, <1>4, <1>10, <2>1, <2>2, <2>3 DEF HandoverInv, guestSide, sndHistory
<1> QED BY <1>9, <1>10, <1>11

LEMMA DbufCopyStep ==
  ASSUME SndInv, NEW t \in AudioThreads, DbufCopies(t)
  PROVE  SndInv'
<1> USE SoundAssumption, AudioThreadsAssumption DEF SndInv, SndCore
<1>1. /\ UNCHANGED <<sndRing, guestSide, sndRunning, sndInd, handover, sndDev, sndIrq, sndLock,
                     sndHistory>>
      /\ audio[t].pc = "copy" /\ sndLock = t
  BY DEF DbufCopies, AudioAt, EngineInv, Locking
<1>2. <<sndSrc>> \in Seq(Units)
  <2>1. sndSrc[1] > 0 /\ sndSrc \in (0 .. MaxWrites) \X Nat
    BY <1>1 DEF HandoverInv, SndTypeOK
  <2>2. sndSrc \in Units
    BY <2>1 DEF Units
  <2> QED BY <2>2
<1>3. SetsAudio(t, "advance", <<sndSrc>>)
  <2>1. audio \in [AudioThreads -> AudioRec] /\ "advance" \in AudioPcs
    BY DEF SndTypeOK, AudioRec, AudioPcs
  <2>2. audio' = [audio EXCEPT ![t] = [pc |-> "advance", buf |-> <<sndSrc>>]]
    BY DEF DbufCopies
  <2> QED BY <1>2, <2>1, <2>2, AudioFields, Zenon
<1>4. SndTypeOK'
  BY <1>1, <1>3 DEF SndTypeOK, SetsAudio, AudioRec, guestSide, handover, sndHistory
<1>5. /\ EngineInv' /\ RequestInv' /\ RingInv'
      /\ \A u \in AudioThreads : u # t => audio'[u] = audio[u] /\ audio[u].pc = "none"
  <2>1. "advance" \in AudioPcs \ {"none", "lock", "ring", "playring"} /\ "advance" \in Locking
    BY DEF AudioPcs, Locking
  <2> QED BY <1>1, <1>2, <1>3, <2>1, DbufKeeps DEF sndHistory
<1>6. HandoverInv'
  <2>1. audio'[t].pc = "advance" /\ audio'[t].buf = <<sndSrc>>
    BY <1>3 DEF SetsAudio
  <2>2. \A u \in AudioThreads : Took(u)' <=> Took(u)
    BY <1>1, <1>5, <2>1 DEF Took
  <2> QED BY <1>1, <1>5, <2>1, <2>2 DEF HandoverInv, guestSide, handover, sndHistory
<1> QED BY <1>4, <1>5, <1>6

LEMMA DbufAdvanceStep ==
  ASSUME SndInv, NEW t \in AudioThreads, DbufAdvances(t)
  PROVE  SndInv'
<1> USE SoundAssumption, AudioThreadsAssumption DEF SndInv, SndCore
<1>1. /\ UNCHANGED <<sndRing, guestSide, sndRunning, sndInd, sndGo, sndDev, sndIrq, sndLock,
                     sndHistory>>
      /\ audio[t].pc = "advance" /\ sndLock = t /\ sndSize' = sndSize - 1
  BY DEF DbufAdvances, AudioAt, EngineInv, Locking
<1>2. /\ sndSrc[1] \in 1 .. MaxWrites /\ sndSrc[2] \in Nat /\ sndSize \in Nat \ {0}
      /\ sndSrc = <<sndSrc[1], sndSrc[2]>>
  BY <1>1 DEF HandoverInv, SndTypeOK
<1>3. sndSrc' = <<sndSrc[1], sndSrc[2] + 1>>
  BY <1>2 DEF DbufAdvances
<1>4. SetsAudio(t, "go", audio[t].buf) /\ audio[t].buf \in Seq(Units)
  <2>1. audio \in [AudioThreads -> AudioRec] /\ "go" \in AudioPcs
    BY DEF SndTypeOK, AudioRec, AudioPcs
  <2>2. audio[t].buf \in Seq(Units) /\ AudioTo(t, "go")
    BY <2>1 DEF AudioRec, DbufAdvances
  <2> QED BY <2>1, <2>2, AudioFields, Zenon
<1>5. SndTypeOK'
  <2>1. sndSrc' \in (0 .. MaxWrites) \X Nat /\ sndSize' \in Nat
    BY <1>1, <1>2, <1>3
  <2> QED BY <1>1, <1>4, <2>1 DEF SndTypeOK, SetsAudio, AudioRec, guestSide, sndHistory
<1>6. /\ EngineInv' /\ RequestInv' /\ RingInv'
      /\ \A u \in AudioThreads : u # t => audio'[u] = audio[u] /\ audio[u].pc = "none"
  <2>1. "go" \in AudioPcs \ {"none", "lock", "ring", "playring"} /\ "go" \in Locking
    BY DEF AudioPcs, Locking
  <2> QED BY <1>1, <1>4, <2>1, DbufKeeps DEF sndHistory
<1>7. HandoverInv'
  <2>1. audio'[t].pc = "go" /\ audio'[t].buf = audio[t].buf
    BY <1>4 DEF SetsAudio
  <2>2. sndSrc'[1] = sndSrc[1] /\ sndSrc'[2] = sndSrc[2] + 1
    BY <1>3
  <2>3. CASE sndWarned
    BY <1>1, <1>2, <1>6, <2>1, <2>2, <2>3 DEF HandoverInv, guestSide, sndHistory
  <2>4. CASE ~sndWarned
    <3>1. Len(sndWritten) \in Nat /\ Len(sndPlayed) \in Nat
      BY DEF SndTypeOK
    <3>2. \A u \in AudioThreads : ~Took(u)
      BY <1>1, <1>6 DEF Took
    <3>3. Len(sndWritten) = Len(sndPlayed) + sndSize
      BY <2>4, <3>2 DEF HandoverInv
    <3>4. \A k \in 1 .. sndSize :
            sndWritten[Len(sndWritten) - sndSize + k] = <<sndSrc[1], sndSrc[2] + k - 1>>
      BY <2>4 DEF HandoverInv
    <3>5. sndWritten[Len(sndPlayed) + 1] = sndSrc
      <4>1. sndWritten[Len(sndWritten) - sndSize + 1] = <<sndSrc[1], sndSrc[2] + 1 - 1>>
        <5>1. 1 \in 1 .. sndSize
          BY <1>2
        <5> QED BY <3>4, <5>1, Zenon
      <4>2. Len(sndWritten) - sndSize + 1 = Len(sndPlayed) + 1 /\ sndSrc[2] + 1 - 1 = sndSrc[2]
        BY <1>2, <3>1, <3>3
      <4> QED BY <1>2, <4>1, <4>2
    <3>6. audio[t].buf = <<sndWritten[Len(sndPlayed) + 1]>>
      BY <1>1, <2>4, <3>5 DEF HandoverInv
    <3>7. ASSUME NEW k \in 1 .. sndSize'
          PROVE  sndWritten[Len(sndWritten) - sndSize' + k] = <<sndSrc'[1], sndSrc'[2] + k - 1>>
      <4>1. k + 1 \in 1 .. sndSize
        BY <1>1, <1>2
      <4>2. sndWritten[Len(sndWritten) - sndSize + (k + 1)] = <<sndSrc[1], sndSrc[2] + (k + 1) - 1>>
        BY <3>4, <4>1, Zenon
      <4>3. /\ Len(sndWritten) - sndSize' + k = Len(sndWritten) - sndSize + (k + 1)
            /\ sndSrc'[2] + k - 1 = sndSrc[2] + (k + 1) - 1
        BY <1>1, <1>2, <2>2, <3>1
      <4> QED BY <2>2, <4>2, <4>3
    <3>8. \A u \in AudioThreads : Took(u)' <=> u = t
      BY <1>6, <2>1, <3>6 DEF Took
    <3>9. Len(sndWritten) = Len(sndPlayed) + 1 + sndSize' /\ Len(sndPlayed) + sndSize' <= Len(sndWritten)
      BY <1>1, <1>2, <3>1, <3>3
    <3>10. UNCHANGED <<sndWritten, sndPlayed, sndWarned, sndMain>>
      BY <1>1 DEF guestSide, sndHistory
    <3>11. sndMain.pc # "size"
      BY <1>2, <2>4 DEF HandoverInv
    <3>12. \A i \in 1 .. Len(sndPlayed) : sndPlayed[i] = sndWritten[i]
      BY <2>4 DEF HandoverInv
    <3>13. \A u \in AudioThreads : audio'[u].pc \notin {"go"} => audio'[u].buf = <<>> /\ audio'[u].pc = "none"
      BY <1>6, <2>1 DEF HandoverInv
    <3>14. \A u \in AudioThreads : Took(u)' =>
             /\ Len(sndWritten') = Len(sndPlayed') + 1 + sndSize'
             /\ audio'[u].buf = <<sndWritten'[Len(sndPlayed') + 1]>>
      BY <2>1, <3>6, <3>8, <3>9, <3>10
    <3>15. ~(\A u \in AudioThreads : ~Took(u)')
      BY <3>8
    <3>16. /\ \A u \in AudioThreads :
                /\ audio'[u].pc \notin {"copy", "advance"}
                /\ audio'[u].pc \notin {"advance", "go", "irq", "play"} => audio'[u].buf = <<>>
           /\ sndSrc'[1] > 0 /\ sndMain'.pc # "size"
      BY <1>2, <2>1, <2>2, <3>10, <3>11, <3>13
    <3>17. \A k \in 1 .. sndSize' :
             sndWritten'[Len(sndWritten') - sndSize' + k] = <<sndSrc'[1], sndSrc'[2] + k - 1>>
      BY <3>7, <3>10
    <3>18. /\ Len(sndPlayed') + sndSize' <= Len(sndWritten')
           /\ \A i \in 1 .. Len(sndPlayed') : sndPlayed'[i] = sndWritten'[i]
      BY <3>9, <3>10, <3>12
    <3> QED BY <3>14, <3>15, <3>16, <3>17, <3>18, Zenon DEF HandoverInv
  <2> QED BY <2>3, <2>4
<1> QED BY <1>5, <1>6, <1>7

LEMMA DbufPlayedStep ==
  ASSUME SndInv, NEW t \in AudioThreads, DbufPlayed(t)
  PROVE  SndInv'
<1> USE SoundAssumption, AudioThreadsAssumption DEF SndInv, SndCore
<1>1. /\ UNCHANGED <<sndRing, guestSide, sndRunning, sndInd, handover, sndDev, sndIrq, sndFrag,
                    sndWritten, sndWarned>>
      /\ audio[t].pc = "play" /\ sndLock = NoOwner /\ sndLock' = t
      /\ sndPlayed' = IF sndWarned THEN sndPlayed ELSE sndPlayed \o audio[t].buf
  BY DEF DbufPlayed, AudioAt, Unlocked
<1>2. audio[t].buf \in Seq(Units) /\ sndPlayed \in Seq(Units) /\ sndWritten \in Seq(Units)
  BY DEF SndTypeOK
<1>3. SetsAudio(t, "look", <<>>)
  <2>1. audio \in [AudioThreads -> AudioRec] /\ "look" \in AudioPcs /\ <<>> \in Seq(Units)
    BY DEF SndTypeOK, AudioRec, AudioPcs
  <2>2. audio' = [audio EXCEPT ![t] = [pc |-> "look", buf |-> <<>>]]
    BY DEF DbufPlayed
  <2> QED BY <2>1, <2>2, AudioFields, Zenon
<1>4. SndTypeOK'
  <2>1. sndPlayed' \in Seq(Units)
    BY <1>1, <1>2
  <2> QED BY <1>1, <1>3, <2>1 DEF SndTypeOK, SetsAudio, AudioRec, guestSide, handover
<1>5. /\ EngineInv' /\ RequestInv' /\ RingInv'
      /\ \A u \in AudioThreads : u # t => audio'[u] = audio[u] /\ audio[u].pc = "none"
  <2>1. /\ "look" \in AudioPcs \ {"none", "lock", "ring", "playring"} /\ "look" \in Locking
        /\ <<>> \in Seq(Units)
    BY DEF AudioPcs, Locking
  <2> QED BY <1>1, <1>3, <2>1, DbufKeeps
<1>6. HandoverInv'
  <2>1. audio'[t].pc = "look" /\ audio'[t].buf = <<>>
    BY <1>3 DEF SetsAudio
  <2>2. \A u \in AudioThreads : ~Took(u)'
    BY <1>5, <2>1 DEF Took
  <2>3. CASE sndWarned
    BY <1>1, <1>5, <2>1, <2>3 DEF HandoverInv, guestSide, handover
  <2>4. CASE ~sndWarned
    <3>1. Len(sndWritten) \in Nat /\ Len(sndPlayed) \in Nat /\ sndSize \in Nat
      BY DEF SndTypeOK
    <3>2. /\ Len(sndWritten) = Len(sndPlayed') + sndSize /\ Len(sndPlayed') \in Nat
          /\ \A i \in 1 .. Len(sndPlayed') : sndPlayed'[i] = sndWritten[i]
      <4>1. CASE audio[t].buf = <<>>
        <5>1. sndPlayed' = sndPlayed
          BY <1>1, <1>2, <2>4, <4>1, ConcatEmptySeq
        <5>2. \A u \in AudioThreads : ~Took(u)
          BY <1>5, <4>1 DEF Took
        <5> QED BY <2>4, <3>1, <5>1, <5>2 DEF HandoverInv
      <4>2. CASE audio[t].buf # <<>>
        <5> DEFINE x == sndWritten[Len(sndPlayed) + 1]
                   all == sndPlayed \o <<x>>
        <5>1. Took(t)
          BY <1>1, <4>2 DEF Took
        <5>2. Len(sndWritten) = Len(sndPlayed) + 1 + sndSize /\ audio[t].buf = <<x>>
          BY <2>4, <5>1 DEF HandoverInv
        <5>3. sndPlayed' = all
          BY <1>1, <2>4, <5>2
        <5>4. <<x>> \in Seq(Units) /\ Len(<<x>>) = 1 /\ <<x>>[1] = x
          BY <1>2, <5>2
        <5>5. /\ Len(all) = Len(sndPlayed) + Len(<<x>>)
              /\ \A i \in 1 .. Len(sndPlayed) + Len(<<x>>) :
                    all[i] = IF i <= Len(sndPlayed) THEN sndPlayed[i] ELSE <<x>>[i - Len(sndPlayed)]
          BY <1>2, <5>4, ConcatProperties, Zenon
        <5>6. \A i \in 1 .. Len(sndPlayed) : sndPlayed[i] = sndWritten[i]
          BY <2>4 DEF HandoverInv
        <5> HIDE DEF all
        <5>7. \A i \in 1 .. Len(all) : all[i] = sndWritten[i]
          BY <3>1, <5>4, <5>5, <5>6
        <5> QED BY <3>1, <5>2, <5>3, <5>4, <5>5, <5>7
      <4> QED BY <4>1, <4>2
    <3>3. UNCHANGED <<sndWritten, sndWarned, sndMain, sndSize, sndSrc>>
      BY <1>1 DEF guestSide, handover
    <3>4. Len(sndPlayed') + sndSize <= Len(sndWritten)
      BY <3>1, <3>2
    <3>5. /\ sndMain.pc = "size" => sndSize = 0 /\ sndSrc[2] = 0
          /\ sndSize > 0 => sndSrc[1] > 0
          /\ sndMain.pc = "size" => sndSrc[1] > 0
          /\ \A k \in 1 .. sndSize :
                sndWritten[Len(sndWritten) - sndSize + k] = <<sndSrc[1], sndSrc[2] + k - 1>>
      BY <2>4 DEF HandoverInv
    <3>6. \A u \in AudioThreads : audio'[u].buf = <<>> /\ audio'[u].pc \in {"none", "look"}
      BY <1>5, <2>1 DEF HandoverInv
    <3> QED BY <2>2, <2>4, <3>2, <3>3, <3>4, <3>5, <3>6 DEF HandoverInv
  <2> QED BY <2>3, <2>4
<1> QED BY <1>4, <1>5, <1>6

LEMMA ExitStep ==
  ASSUME SndInv, NEW t \in AudioThreads, AudioExits(t)
  PROVE  SndInv'
<1> USE SoundAssumption, AudioThreadsAssumption DEF SndInv, SndCore
<1>1. /\ UNCHANGED <<sndRing, guestSide, sndInd, handover, sndIrq, sndHistory>>
      /\ audio[t].pc = "exit" /\ sndDev' = "closed" /\ sndRunning' = 0 /\ sndLock' = NoOwner
      /\ sndRunning = -1 /\ audio[t].buf = <<>>
  BY DEF AudioExits, AudioAt, EngineInv, HandoverInv
<1>2. SetsAudio(t, "none", audio[t].buf)
  <2>1. /\ audio \in [AudioThreads -> AudioRec] /\ "none" \in AudioPcs /\ audio[t].buf \in Seq(Units)
        /\ AudioTo(t, "none")
    BY DEF SndTypeOK, AudioRec, AudioPcs, AudioExits
  <2> QED BY <2>1, AudioFields, Zenon
<1>3. SndTypeOK'
  BY <1>1, <1>2 DEF SndTypeOK, SetsAudio, AudioRec, guestSide, handover, sndHistory
<1>4. \A u \in AudioThreads : audio'[u].pc = "none" /\ audio'[u].buf = <<>> /\ audio[u].pc \in {"none", "exit"}
  BY <1>1, <1>2 DEF EngineInv, Exists, SetsAudio, HandoverInv
<1>5. EngineInv'
  BY <1>1, <1>4 DEF EngineInv, Exists, Locking
<1>6. RequestInv'
  BY <1>1 DEF RequestInv, StartedRuns, MainAt, guestSide
<1>7. RingInv'
  BY <1>1, <1>4 DEF RingInv
<1>8. HandoverInv'
  <2>1. \A u \in AudioThreads : ~Took(u) /\ ~Took(u)'
    BY <1>4 DEF Took
  <2> QED BY <1>1, <1>4, <2>1 DEF HandoverInv, guestSide, handover, sndHistory
<1> QED BY <1>3, <1>5, <1>6, <1>7, <1>8

LEMMA SndStep == SndInv /\ [SndNext]_sndVars => SndInv'
<1> SUFFICES ASSUME SndInv, [SndNext]_sndVars PROVE SndInv'
  OBVIOUS
<1>1. CASE \/ stop_sound \/ StopLocks \/ start_sound \/ ModeSet \/ WriteFlag \/ osip_sound_irq_ack
           \/ \E f \in SndFormats : set_mode(f)
           \/ \E go \in BOOLEAN : SetGo(go)
  BY <1>1, RequestSteps
<1>2. CASE StartLocks
  BY <1>2, StartStepSnd
<1>3. CASE WriteSize \/ \E len \in BufLens : osip_sound_write(len)
  BY <1>3, WriteStep, WriteSizeStep
<1>4. ASSUME NEW t \in AudioThreads, AudioStep(t) PROVE SndInv'
  BY <1>4, LocksStep, RingSteps, DbufPassSteps, DbufCopyStep, DbufAdvanceStep, DbufPlayedStep, ExitStep
     DEF AudioStep
<1>5. CASE UNCHANGED sndVars
  <2>1. UNCHANGED <<sndRing, guestSide, sndRunning, sndInd, handover, sndDev, sndIrq, sndLock, audio,
                    sndHistory>>
    BY <1>5 DEF sndVars
  <2>2. SndTypeOK'
    BY <2>1 DEF guestSide, handover, sndHistory, SndTypeOK, SndInv, SndCore
  <2>3. EngineInv' /\ RequestInv' /\ RingInv'
    BY <2>1 DEF guestSide, handover, sndHistory, SndInv, SndCore, EngineInv, Exists, RequestInv,
                StartedRuns, MainAt, RingInv
  <2>4. HandoverInv'
    BY <2>1 DEF guestSide, handover, sndHistory, SndInv, HandoverInv, Took
  <2> QED BY <2>2, <2>3, <2>4 DEF SndInv, SndCore
<1> QED BY <1>1, <1>2, <1>3, <1>4, <1>5 DEF SndNext

(* The inductive invariant of the sound driver.                               *)
THEOREM SndInvariant == SndSpec => []SndInv
<1>1. SndInit => SndInv
  <2> SUFFICES ASSUME SndInit PROVE SndInv
    OBVIOUS
  <2> USE SoundAssumption, AudioThreadsAssumption
  <2>1. SndTypeOK
    <3>1. /\ 0 \in 0 .. RingFrags - 1 /\ -1 \in -1 .. RingFrags - 1 /\ 0 \in 0 .. MaxStarts
          /\ <<0, 0>> \in (0 .. MaxWrites) \X Nat /\ <<>> \in Seq(Units)
      OBVIOUS
    <3>2. audio \in [AudioThreads -> [pc : AudioPcs, buf : Seq(Units)]]
      BY <3>1 DEF SndInit, AudioPcs
    <3> QED BY <3>1, <3>2 DEF SndInit, SndTypeOK
  <2>2. \A t \in AudioThreads : audio[t].pc = "none" /\ audio[t].buf = <<>>
    BY DEF SndInit
  <2>3. EngineInv /\ RequestInv /\ RingInv
    BY <2>2 DEF SndInit, EngineInv, Exists, Locking, RequestInv, StartedRuns, MainAt, RingInv
  <2>4. HandoverInv
    BY <2>2 DEF SndInit, HandoverInv, Took
  <2> QED BY <2>1, <2>3, <2>4 DEF SndInv, SndCore
<1> QED BY <1>1, SndStep, PTL DEF SndSpec

(* SndTypeOK holds in every reachable state; among others the ring index      *)
(* stays below the number of fragments (NextFrag wraps it).                   *)
THEOREM SndTypeCorrect == SndSpec => []SndTypeOK
BY SndInvariant, PTL DEF SndInv, SndCore

(* However stop_sound() and start_sound() follow each other, there is at most *)
(* one audio thread, and the device is open exactly while there is one        *)
(* (OneEngine).                                                               *)
THEOREM OneAudioThread == SndSpec => []OneEngine
<1>1. SndInv => OneEngine
  <2> SUFFICES ASSUME SndInv PROVE OneEngine
    OBVIOUS
  <2> DEFINE Alive == {t \in AudioThreads : ~AudioAt(t, "none")}
  <2>1. Cardinality(Alive) <= 1
    <3>1. CASE Alive = {}
      BY <3>1, FS_EmptySet
    <3>2. CASE Alive # {}
      <4>1. PICK t \in AudioThreads : t \in Alive
        BY <3>2
      <4>2. Alive = {t}
        BY <4>1 DEF SndInv, SndCore, EngineInv, Exists, AudioAt
      <4>3. Cardinality({t}) = 1
        BY FS_Singleton
      <4> QED BY <4>2, <4>3
    <3> QED BY <3>1, <3>2
  <2>2. sndRunning # 0 <=> \E t \in AudioThreads : ~AudioAt(t, "none")
    BY DEF SndInv, SndCore, EngineInv, Exists, AudioAt
  <2> QED BY <2>1, <2>2 DEF OneEngine, SndInv, SndCore, EngineInv
<1> QED BY <1>1, SndInvariant, PTL

(* A start is not lost to the exit of the thread before it (StartedRuns).     *)
THEOREM StartsNotLost == SndSpec => []StartedRuns
BY SndInvariant, PTL DEF SndInv, SndCore, RequestInv

(* Nothing is lost, repeated or reordered in the hand-over without a lock,    *)
(* unless the driver warned (PlayedInOrder).                                  *)
THEOREM HandoverInOrder == SndSpec => []PlayedInOrder
<1>1. SndInv => PlayedInOrder
  <2> SUFFICES ASSUME SndInv, ~sndWarned
               PROVE  /\ Len(sndPlayed) <= Len(sndWritten)
                      /\ sndPlayed = SubSeq(sndWritten, 1, Len(sndPlayed))
                      /\ \A t \in AudioThreads : AudioAt(t, "look") =>
                            Len(sndWritten) = Len(sndPlayed) + sndSize
    BY DEF PlayedInOrder
  <2>1. sndPlayed \in Seq(Units) /\ sndWritten \in Seq(Units) /\ sndSize \in Nat
    BY DEF SndInv, SndCore, SndTypeOK
  <2>2. /\ Len(sndPlayed) + sndSize <= Len(sndWritten)
        /\ \A i \in 1 .. Len(sndPlayed) : sndPlayed[i] = sndWritten[i]
    BY DEF SndInv, HandoverInv
  <2>3. Len(sndPlayed) <= Len(sndWritten) /\ Len(sndPlayed) \in Nat /\ Len(sndWritten) \in Nat
    BY <2>1, <2>2
  <2>4. sndPlayed = SubSeq(sndWritten, 1, Len(sndPlayed))
    BY <2>1, <2>2, <2>3
  <2>5. ASSUME NEW t \in AudioThreads, AudioAt(t, "look")
        PROVE  Len(sndWritten) = Len(sndPlayed) + sndSize
    <3>1. \A u \in AudioThreads : ~Took(u)
      BY <2>5 DEF SndInv, SndCore, EngineInv, Exists, Took, AudioAt
    <3> QED BY <3>1 DEF SndInv, HandoverInv
  <2> QED BY <2>3, <2>4, <2>5
<1> QED BY <1>1, SndInvariant, PTL

(* After stop_sound() the ring engine is quiet (QuietWhenStopped): the engine *)
(* looks at ss.thread_running again before it raises the line.                *)
THEOREM QuietAfterStop == SndSpec => []QuietWhenStopped
<1>1. SndInit => QuietWhenStopped
  BY DEF SndInit, QuietWhenStopped
<1>2. SndInv /\ QuietWhenStopped /\ [SndNext]_sndVars => QuietWhenStopped'
  <2> SUFFICES ASSUME SndInv, QuietWhenStopped, [SndNext]_sndVars, sndRing', sndIrq' = 1
               PROVE  sndStarted' \/ sndMain'.pc = "stop"
    BY DEF QuietWhenStopped, MainAt
  <2> USE DEF QuietWhenStopped, MainAt, MainTo, guestSide
  <2>1. CASE stop_sound \/ StopLocks \/ start_sound \/ ModeSet \/ WriteFlag \/ osip_sound_irq_ack
    <3>1. CASE stop_sound \/ StopLocks
      BY <3>1 DEF stop_sound, StopLocks
    <3>2. CASE ModeSet \/ WriteFlag
      BY <3>2 DEF ModeSet, WriteFlag
    <3>3. CASE osip_sound_irq_ack
      BY <3>3 DEF osip_sound_irq_ack
    <3>4. CASE start_sound
      BY <3>4, Zenon DEF start_sound
    <3> QED BY <2>1, <3>1, <3>2, <3>3, <3>4
  <2>2. CASE \/ StartLocks \/ WriteSize \/ \E f \in SndFormats : set_mode(f)
             \/ \E go \in BOOLEAN : SetGo(go)
             \/ \E len \in BufLens : osip_sound_write(len)
    BY <2>2 DEF StartLocks, WriteSize, set_mode, SetGo, osip_sound_write
  <2>3. ASSUME NEW t \in AudioThreads, AudioStep(t) PROVE sndStarted' \/ sndMain'.pc = "stop"
    <3>1. UNCHANGED <<sndStarted, sndMain, sndRing>>
      BY <2>3 DEF AudioStep, AudioStarts, RingPlays, RingPlayed, DbufLooks, DbufCopies, DbufAdvances,
                  DbufGoes, DbufInterrupts, DbufPlayed, AudioExits
    <3>2. CASE RingPlayed(t)
      <4>1. sndIrq = 1 \/ sndRunning > 0
        BY <3>2 DEF RingPlayed, SndInv, SndCore, SndTypeOK
      <4>2. CASE sndIrq = 1
        BY <3>1, <4>2
      <4>3. CASE sndRunning > 0
        <5>1. ~(sndRunning <= 0)
          BY <4>3 DEF SndInv, SndCore, SndTypeOK
        <5> QED BY <3>1, <5>1 DEF SndInv, SndCore, RequestInv, StartedRuns
      <4> QED BY <4>1, <4>2, <4>3
    <3>3. CASE ~RingPlayed(t)
      <4>1. ~DbufInterrupts(t)
        BY <3>1 DEF DbufInterrupts, AudioAt, SndInv, SndCore, RingInv
      <4>2. sndIrq' = sndIrq
        BY <2>3, <3>3, <4>1 DEF AudioStep, AudioStarts, RingPlays, DbufLooks, DbufCopies, DbufAdvances,
                    DbufGoes, DbufPlayed, AudioExits
      <4> QED BY <3>1, <4>2
    <3> QED BY <3>2, <3>3
  <2>4. CASE UNCHANGED sndVars
    BY <2>4 DEF sndVars
  <2> QED BY <2>1, <2>2, <2>3, <2>4 DEF SndNext
<1> QED BY <1>1, <1>2, SndInvariant, PTL DEF SndSpec

(* The mode is not changed under a running engine (ModeStable): set_mode() is *)
(* only past wait_sound_stopped() when there is no thread.                    *)
THEOREM ModeOfEngineStable == SndSpec => ModeStable
<1>1. ASSUME SndInv, SndNext, sndRunning # 0 PROVE sndFormat' = sndFormat
  <2>1. ~ModeSet
    BY <1>1 DEF ModeSet, MainAt, StillRuns, SndInv, SndCore, RequestInv, StartedRuns, SndTypeOK
  <2>2. ASSUME NEW t \in AudioThreads, AudioStep(t) PROVE sndFormat' = sndFormat
    BY <2>2 DEF AudioStep, AudioStarts, RingPlays, RingPlayed, DbufLooks, DbufCopies, DbufAdvances,
                DbufGoes, DbufInterrupts, DbufPlayed, AudioExits, guestSide
  <2> QED BY <1>1, <2>1, <2>2 DEF SndNext, stop_sound, StopLocks, start_sound, StartLocks, set_mode,
          SetGo, osip_sound_write, WriteSize, WriteFlag, osip_sound_irq_ack, guestSide
<1>2. SndInv /\ [SndNext]_sndVars => [sndRunning # 0 => sndFormat' = sndFormat]_sndVars
  BY <1>1
<1> QED BY <1>2, SndInvariant, PTL DEF SndSpec, ModeStable

(* The ring is played in order, from its first fragment after each start, and *)
(* the guest is interrupted at its end only (RingInOrder).                    *)
THEOREM RingPlayedInOrder == SndSpec => RingInOrder
<1>1. ASSUME SndInv, SndNext, NEW t \in AudioThreads, AudioAt(t, "ring"), audio'[t].pc = "playring"
      PROVE  sndFrag' = (sndFrag + 1) % RingFrags
  <2>1. audio \in [AudioThreads -> AudioRec]
    BY <1>1 DEF SndInv, SndCore, SndTypeOK, AudioRec
  <2>2. \A u \in AudioThreads : u # t => audio[u].pc = "none"
    BY <1>1 DEF SndInv, SndCore, EngineInv, Exists, AudioAt
  <2>3. sndLock = t /\ t # NoOwner
    BY <1>1, AudioThreadsAssumption DEF SndInv, SndCore, EngineInv, AudioAt, Locking
  <2>4. ASSUME NEW u \in AudioThreads, AudioStep(u) PROVE RingPlays(t)
    <3>1. u = t
      BY <2>2, <2>4 DEF AudioStep, AudioStarts, RingPlays, RingPlayed, DbufLooks, DbufCopies,
         DbufAdvances, DbufGoes, DbufInterrupts, DbufPlayed, AudioExits, AudioAt
    <3> QED BY <1>1, <2>4, <3>1 DEF AudioStep, AudioStarts, RingPlayed, DbufLooks, DbufCopies,
         DbufAdvances, DbufGoes, DbufInterrupts, DbufPlayed, AudioExits, AudioAt
  <2>5. RingPlays(t)
    <3>1. ~StartLocks
      BY <2>3 DEF StartLocks, Unlocked
    <3>2. audio' # audio
      BY <1>1 DEF AudioAt
    <3> QED BY <1>1, <2>4, <3>1, <3>2 DEF SndNext, stop_sound, StopLocks, start_sound, ModeSet, set_mode,
          SetGo, osip_sound_write, WriteSize, WriteFlag, osip_sound_irq_ack
  <2>6. sndFrag' = sndInd
    <3>1. CASE sndRunning > 0
      BY <2>5, <3>1 DEF RingPlays
    <3>2. CASE ~(sndRunning > 0)
      <4>1. AudioTo(t, "exit")
        BY <2>5, <3>2 DEF RingPlays, Leave
      <4>2. audio'[t].pc = "exit"
        BY <2>1, <4>1 DEF AudioTo, AudioRec
      <4> QED BY <1>1, <4>2
    <3> QED BY <3>1, <3>2
  <2> QED BY <1>1, <2>6 DEF SndInv, SndCore, RingInv, AudioAt
<1>2. ASSUME SndInv, SndNext, sndRing, sndIrq = 0, sndIrq' = 1 PROVE sndFrag = RingFrags - 1
  <2>1. PICK t \in AudioThreads : AudioStep(t)
    BY <1>2 DEF SndNext, stop_sound, StopLocks, start_sound, StartLocks, ModeSet, set_mode,
          SetGo, osip_sound_write, WriteSize, WriteFlag, osip_sound_irq_ack
  <2>2. ~DbufInterrupts(t)
    BY <1>2 DEF DbufInterrupts, AudioAt, SndInv, SndCore, RingInv
  <2>3. RingPlayed(t)
    BY <1>2, <2>1, <2>2 DEF AudioStep, AudioStarts, RingPlays, DbufLooks, DbufCopies, DbufAdvances,
                    DbufGoes, DbufPlayed, AudioExits
  <2>4. sndRunning = 1 /\ audio[t].pc = "playring" /\ NextFrag = 0
    BY <1>2, <2>3 DEF RingPlayed, AudioAt, Restarted, SndInv, SndCore, SndTypeOK
  <2>5. sndFrag = sndInd /\ sndInd \in 0 .. RingFrags - 1
    BY <1>2, <2>4 DEF SndInv, SndCore, RingInv, SndTypeOK
  <2> QED BY <2>4, <2>5, NextFragment DEF NextFrag
<1>3. SndInv /\ [SndNext]_sndVars =>
        [ /\ \A t \in AudioThreads :
              AudioAt(t, "ring") /\ audio'[t].pc = "playring" => sndFrag' = (sndFrag + 1) % RingFrags
          /\ sndRing /\ sndIrq = 0 /\ sndIrq' = 1 => sndFrag = RingFrags - 1 ]_sndVars
  BY <1>1, <1>2
<1> QED BY <1>3, SndInvariant, PTL DEF SndSpec, RingInOrder

-----------------------------------------------------------------------------
(* The SCSI request layer.                                                   *)

Members(s) == {s[k] : k \in DOMAIN s}
Distinct(s) == \A i, j \in DOMAIN s : s[i] = s[j] => i = j

(* Every request is in one place: with the guest, with Linux, with one drive, *)
(* on the chain or on the chain that was handed over, once in each.           *)
Apart(order, others) ==
    /\ \A d \in CdDrives : Distinct(order[d]) /\ Members(order[d]) \cap others = {}
    /\ \A d, e \in CdDrives : d # e => Members(order[d]) \cap Members(order[e]) = {}

PlacesInv ==
    /\ Distinct(listed) /\ Distinct(given)
    /\ Members(listed) \cap Members(given) = {}
    /\ sgBusy \cap (Members(listed) \cup Members(given)) = {}
    /\ guestReqs \cap (sgBusy \cup Members(listed) \cup Members(given)) = {}
    /\ Apart(cdOrder, guestReqs \cup sgBusy \cup Members(listed) \cup Members(given))

(* A drive has a thread exactly while running is set, and the thread a request *)
(* while it executes one.                                                     *)
WorkerInv ==
    \A d \in CdDrives :
        /\ cdRunning[d] <=> cdWork[d].pc # "none"
        /\ cdWork[d].pc = "exec" => cdWork[d].u \in ScsiReqs

ScsiHistoryOK ==
    listed \in Seq(ScsiReqs) /\ given \in Seq(ScsiReqs) /\ cdOrder \in [CdDrives -> Seq(ScsiReqs)]

ScsiInv ==
    /\ ScsiTypeOK /\ ScsiHistoryOK /\ WorkerInv /\ PlacesInv
    /\ DriveInOrder /\ NothingWaits /\ ChainsWhole

LEMMA MembersOfNone == Members(<<>>) = {} /\ Distinct(<<>>)
  BY DEF Members, Distinct

LEMMA MembersOfOne ==
  ASSUME NEW x
  PROVE  Members(<<x>>) = {x} /\ Distinct(<<x>>)
  BY DEF Members, Distinct

LEMMA MembersIn ==
  ASSUME NEW S, NEW s \in Seq(S)
  PROVE  Members(s) \subseteq S /\ \A k \in 1 .. Len(s) : s[k] \in Members(s)
  BY DEF Members

(* A concatenation has the members of both parts, and is without repetition   *)
(* if both are and they share none.                                           *)
LEMMA MembersOfConcat ==
  ASSUME NEW S, NEW s \in Seq(S), NEW t \in Seq(S)
  PROVE  /\ Members(s \o t) = Members(s) \cup Members(t)
         /\ Distinct(s \o t) <=> Distinct(s) /\ Distinct(t) /\ Members(s) \cap Members(t) = {}
  <1> DEFINE c == s \o t
  <1>1. /\ c \in Seq(S) /\ Len(c) = Len(s) + Len(t) /\ DOMAIN c = 1 .. Len(s) + Len(t)
        /\ DOMAIN s = 1 .. Len(s) /\ DOMAIN t = 1 .. Len(t) /\ Len(s) \in Nat /\ Len(t) \in Nat
    OBVIOUS
  <1>2. \A k \in 1 .. Len(s) : c[k] = s[k]
    OBVIOUS
  <1>3. \A k \in 1 .. Len(t) : c[Len(s) + k] = t[k]
    OBVIOUS
  <1>4. \A k \in DOMAIN c : k \in 1 .. Len(s) \/ k - Len(s) \in 1 .. Len(t)
    BY <1>1
  <1> HIDE DEF c
  <1>5. Members(c) = Members(s) \cup Members(t)
    <2>1. ASSUME NEW x \in Members(c) PROVE x \in Members(s) \cup Members(t)
      <3>1. PICK k \in DOMAIN c : x = c[k]
        BY <2>1 DEF Members
      <3>2. CASE k \in 1 .. Len(s)
        BY <3>1, <3>2, <1>1, <1>2 DEF Members
      <3>3. CASE k - Len(s) \in 1 .. Len(t)
        <4>1. c[Len(s) + (k - Len(s))] = t[k - Len(s)] /\ Len(s) + (k - Len(s)) = k
          BY <3>1, <3>3, <1>1, <1>3
        <4> QED BY <4>1, <3>1, <3>3, <1>1 DEF Members
      <3> QED BY <3>1, <3>2, <3>3, <1>4
    <2>2. ASSUME NEW x \in Members(s) PROVE x \in Members(c)
      BY <2>2, <1>1, <1>2 DEF Members
    <2>3. ASSUME NEW x \in Members(t) PROVE x \in Members(c)
      <3>1. PICK k \in 1 .. Len(t) : x = t[k]
        BY <2>3, <1>1 DEF Members
      <3>2. Len(s) + k \in DOMAIN c /\ c[Len(s) + k] = x
        BY <3>1, <1>1, <1>3
      <3> QED BY <3>2 DEF Members
    <2> QED BY <2>1, <2>2, <2>3
  <1>6. ASSUME Distinct(c) PROVE Distinct(s) /\ Distinct(t) /\ Members(s) \cap Members(t) = {}
    <2>1. Distinct(s)
      BY <1>6, <1>1, <1>2 DEF Distinct
    <2>2. Distinct(t)
      <3> SUFFICES ASSUME NEW i \in 1 .. Len(t), NEW j \in 1 .. Len(t), t[i] = t[j] PROVE i = j
        BY <1>1 DEF Distinct
      <3>1. Len(s) + i \in DOMAIN c /\ Len(s) + j \in DOMAIN c /\ c[Len(s) + i] = c[Len(s) + j]
        BY <1>1, <1>3
      <3>2. Len(s) + i = Len(s) + j
        BY <3>1, <1>6 DEF Distinct
      <3> QED BY <3>2, <1>1
    <2>3. ASSUME NEW x \in Members(s), x \in Members(t) PROVE FALSE
      <3>1. PICK i \in 1 .. Len(s), j \in 1 .. Len(t) : x = s[i] /\ x = t[j]
        BY <2>3, <1>1 DEF Members
      <3>2. i \in DOMAIN c /\ Len(s) + j \in DOMAIN c /\ i # Len(s) + j
        BY <1>1
      <3>3. c[i] = x /\ c[Len(s) + j] = x
        BY <3>1, <1>2, <1>3
      <3> QED BY <3>2, <3>3, <1>6 DEF Distinct
    <2> QED BY <2>1, <2>2, <2>3
  <1>7. ASSUME Distinct(s), Distinct(t), Members(s) \cap Members(t) = {} PROVE Distinct(c)
    <2> SUFFICES ASSUME NEW i \in DOMAIN c, NEW j \in DOMAIN c, c[i] = c[j] PROVE i = j
      BY DEF Distinct
    <2> DEFINE Low(k) == k \in 1 .. Len(s)
    <2>1. ASSUME NEW k \in DOMAIN c, ~Low(k)
          PROVE  k - Len(s) \in 1 .. Len(t) /\ c[k] = t[k - Len(s)] /\ c[k] \in Members(t)
      <3>1. k - Len(s) \in 1 .. Len(t) /\ Len(s) + (k - Len(s)) = k
        BY <2>1, <1>1, <1>4
      <3>2. c[Len(s) + (k - Len(s))] = t[k - Len(s)]
        BY <3>1, <1>3
      <3> QED BY <3>1, <3>2, <1>1 DEF Members
    <2>2. ASSUME NEW k \in DOMAIN c, Low(k) PROVE c[k] = s[k] /\ c[k] \in Members(s)
      BY <2>2, <1>1, <1>2 DEF Members
    <2>3. CASE Low(i) /\ Low(j)
      BY <2>3, <2>2, <1>1, <1>7 DEF Distinct
    <2>4. CASE ~Low(i) /\ ~Low(j)
      <3>1. i - Len(s) \in DOMAIN t /\ j - Len(s) \in DOMAIN t /\ t[i - Len(s)] = t[j - Len(s)]
        BY <2>4, <2>1, <1>1
      <3>2. i - Len(s) = j - Len(s)
        BY <3>1, <1>7 DEF Distinct
      <3> QED BY <3>2, <1>1
    <2>5. CASE Low(i) /\ ~Low(j)
      BY <2>5, <2>1, <2>2, <1>7
    <2>6. CASE ~Low(i) /\ Low(j)
      BY <2>6, <2>1, <2>2, <1>7
    <2> QED BY <2>3, <2>4, <2>5, <2>6
  <1> QED BY <1>5, <1>6, <1>7 DEF c

LEMMA AppendOne ==
  ASSUME NEW S, NEW s \in Seq(S), NEW x \in S
  PROVE  Append(s, x) = s \o <<x>>
  OBVIOUS

LEMMA HeadAndTail ==
  ASSUME NEW S, NEW s \in Seq(S), s # <<>>
  PROVE  s = <<s[1]>> \o Tail(s) /\ Tail(s) \in Seq(S) /\ s[1] \in S /\ Head(s) = s[1]
  OBVIOUS

LEMMA TailIs ==
  ASSUME NEW S, NEW s \in Seq(S), s # <<>>
  PROVE  /\ Len(s) \in Nat \ {0} /\ Len(Tail(s)) = Len(s) - 1
         /\ Len(s) = 1 => Tail(s) = <<>>
         /\ \A k \in 1 .. Len(s) - 1 : Tail(s)[k] = s[k + 1]
  OBVIOUS

LEMMA CutFront ==
  ASSUME NEW S, NEW s \in Seq(S), NEW t \in Seq(S)
  PROVE  SubSeq(s \o t, Len(s) + 1, Len(s \o t)) = t
  OBVIOUS

-----------------------------------------------------------------------------
(* complete(): requests that are on neither chain come to the end of the one  *)
(* that grows, and the one the guest walks is not touched.                    *)
LEMMA CompleteStep ==
  ASSUME ScsiTypeOK, ScsiHistoryOK, ChainsWhole, Distinct(listed),
         Members(listed) \cap Members(given) = {},
         NEW s \in Seq(ScsiReqs), Distinct(s),
         Members(s) \cap (Members(listed) \cup Members(given)) = {},
         Complete(s), guestAt' = guestAt, given' = given
  PROVE  /\ ChainsWhole' /\ listed' = listed \o s /\ scsiLine' = 1
         /\ firstDone' \in ScsiReqs /\ doneTail' \in ScsiReqs
         /\ nextDone' \in [ScsiReqs -> ScsiReqs \cup {NoReq}]
         /\ listed' \in Seq(ScsiReqs)
  <1> DEFINE n == Len(listed)
             c == listed \o s
  <1>1. /\ listed \in Seq(ScsiReqs) /\ given \in Seq(ScsiReqs) /\ s # <<>>
        /\ n \in Nat /\ Len(s) \in Nat \ {0}
        /\ DOMAIN s = 1 .. Len(s) /\ DOMAIN listed = 1 .. n /\ DOMAIN given = 1 .. Len(given)
        /\ LastOf(s) \in ScsiReqs /\ s[1] \in ScsiReqs
        /\ LastOf(s) = s[Len(s)]
    BY DEF ScsiHistoryOK, Complete, LastOf
  <1>2. /\ c \in Seq(ScsiReqs) /\ Len(c) = n + Len(s)
        /\ \A k \in 1 .. n : c[k] = listed[k]
        /\ \A k \in 1 .. Len(s) : c[n + k] = s[k]
    BY <1>1
  <1>3. /\ listed' = c /\ doneTail' = LastOf(s) /\ scsiLine' = 1
        /\ firstDone' = IF doneTail = ChainHead THEN s[1] ELSE firstDone
    BY DEF Complete
  <1>4. \A r \in Members(s) : r \in ScsiReqs /\ r \notin Members(listed) /\ r \notin Members(given)
    BY <1>1, MembersIn
  <1>5. ASSUME NEW k \in 1 .. Len(s)
        PROVE  nextDone'[s[k]] = IF k < Len(s) THEN s[k + 1] ELSE NoReq
    <2>1. s[k] \in ScsiReqs /\ k \in DOMAIN s
      BY <1>1
    <2>2. (CHOOSE i \in DOMAIN s : s[i] = s[k]) = k
      BY <2>1 DEF Distinct
    <2> QED BY <2>1, <2>2 DEF Complete
  <1>6. ASSUME NEW r \in ScsiReqs, r \notin Members(s)
        PROVE  nextDone'[r] = IF r = doneTail THEN s[1] ELSE nextDone[r]
    BY <1>6 DEF Complete, Members
  <1>7. /\ listed # <<>> => doneTail = listed[n] /\ n > 0 /\ doneTail \in Members(listed)
        /\ listed = <<>> => doneTail = ChainHead /\ n = 0
    BY <1>1 DEF ChainsWhole, LastOf, Members
  <1>8. nextDone' \in [ScsiReqs -> ScsiReqs \cup {NoReq}]
    <2>1. ASSUME NEW r \in ScsiReqs PROVE nextDone'[r] \in ScsiReqs \cup {NoReq}
      <3>1. CASE r \in Members(s)
        <4>1. PICK k \in 1 .. Len(s) : r = s[k]
          BY <3>1, <1>1 DEF Members
        <4> QED BY <4>1, <1>5, <1>1
      <3>2. CASE r \notin Members(s)
        BY <3>2, <1>6, <1>1 DEF ScsiTypeOK
      <3> QED BY <3>1, <3>2
    <2>2. nextDone' = [r \in ScsiReqs |-> nextDone'[r]]
      BY DEF Complete
    <2> QED BY <2>1, <2>2
  <1>9. firstDone' \in ScsiReqs /\ firstDone' = c[1]
    <2>1. CASE listed = <<>>
      BY <2>1, <1>1, <1>2, <1>3, <1>7
    <2>2. CASE listed # <<>>
      <3>1. doneTail # ChainHead
        BY <2>2, <1>1, <1>7, MembersIn, ScsiAssumption
      <3>2. firstDone = listed[1] /\ listed[1] \in ScsiReqs
        BY <2>2, <1>1 DEF ChainsWhole, ChainIs
      <3> QED BY <3>1, <3>2, <2>2, <1>1, <1>2, <1>3, <1>7
    <2> QED BY <2>1, <2>2
  <1>10. ASSUME NEW k \in 1 .. Len(c) - 1 PROVE nextDone'[c[k]] = c[k + 1]
    <2>0. k \in Nat /\ k > 0 /\ k < n + Len(s)
      BY <1>1, <1>2
    <2>n. n \in Nat /\ n = Len(listed) /\ (n > 0 => listed # <<>>)
      BY <1>1
    <2> HIDE DEF n, c
    <2>1. CASE k < n
      <3>1. /\ k \in 1 .. n /\ k + 1 \in 1 .. n /\ n \in 1 .. n /\ listed # <<>> /\ k # n
            /\ k \in 1 .. Len(listed) - 1
        BY <2>0, <2>1, <2>n
      <3>2. listed[k] \in Members(listed) /\ listed[k] \in ScsiReqs /\ listed[k] # listed[n]
        <4>1. k \in DOMAIN listed /\ n \in DOMAIN listed
          BY <3>1, <1>1
        <4>2. listed[k] # listed[n]
          BY <4>1, <3>1 DEF Distinct
        <4> QED BY <4>1, <4>2, <1>1 DEF Members
      <3>3. nextDone'[listed[k]] = nextDone[listed[k]]
        BY <3>1, <3>2, <1>4, <1>6, <1>7
      <3>4. nextDone[listed[k]] = listed[k + 1]
        BY <3>1 DEF ChainsWhole, ChainIs
      <3> QED BY <3>1, <3>3, <3>4, <1>2
    <2>2. CASE k = n
      <3>1. n \in 1 .. n /\ listed # <<>> /\ listed[n] \in Members(listed) /\ listed[n] \in ScsiReqs
        BY <2>2, <1>1, MembersIn
      <3>2. nextDone'[listed[n]] = s[1]
        BY <3>1, <1>4, <1>6, <1>7
      <3>3. c[n + 1] = s[1]
        BY <1>1, <1>2
      <3> QED BY <2>2, <3>1, <3>2, <3>3, <1>2
    <2>3. CASE k > n
      <3>1. PICK i \in 1 .. Len(s) : k = n + i /\ i < Len(s)
        <4>1. k - n \in 1 .. Len(s) /\ k = n + (k - n) /\ k - n < Len(s)
          BY <2>3, <1>1, <1>2
        <4> QED BY <4>1
      <3>2. c[k] = s[i] /\ i + 1 \in 1 .. Len(s) /\ k + 1 = n + (i + 1)
        BY <3>1, <1>1, <1>2
      <3>3. c[k + 1] = s[i + 1]
        BY <3>2, <1>2
      <3> QED BY <3>1, <3>2, <3>3, <1>5
    <2> QED BY <2>0, <2>n, <2>1, <2>2, <2>3
  <1>11. c # <<>> /\ LastOf(c) = LastOf(s) /\ nextDone'[LastOf(c)] = NoReq
    <2>1. LastOf(c) = s[Len(s)] /\ c # <<>>
      BY <1>1, <1>2 DEF LastOf
    <2>2. Len(s) \in 1 .. Len(s)
      BY <1>1
    <2> QED BY <2>1, <2>2, <1>1, <1>5
  <1>12. ASSUME NEW k \in 1 .. Len(given) PROVE nextDone'[given[k]] = nextDone[given[k]]
    <2>1. given[k] \in Members(given) /\ given[k] \in ScsiReqs
      BY <1>1, MembersIn
    <2>2. given[k] \notin Members(s)
      BY <2>1, <1>4
    <2>3. given[k] # doneTail
      <3>1. CASE listed = <<>>
        BY <3>1, <2>1, <1>7, ScsiAssumption
      <3>2. CASE listed # <<>>
        BY <3>2, <2>1, <1>7
      <3> QED BY <3>1, <3>2
    <2> QED BY <2>1, <2>2, <2>3, <1>6
  <1>13. ChainIs(guestAt, given)'
    <2>1. CASE given = <<>>
      BY <2>1 DEF ChainsWhole, ChainIs
    <2>2. CASE given # <<>>
      <3>1. Len(given) \in 1 .. Len(given) /\ \A k \in 1 .. Len(given) - 1 : k \in 1 .. Len(given)
        BY <2>2, <1>1
      <3>2. nextDone'[LastOf(given)] = NoReq
        BY <2>2, <3>1, <1>12 DEF ChainsWhole, ChainIs, LastOf
      <3>3. \A k \in 1 .. Len(given) - 1 : nextDone'[given[k]] = given[k + 1]
        BY <2>2, <3>1, <1>12 DEF ChainsWhole, ChainIs
      <3>4. guestAt = given[1]
        BY <2>2 DEF ChainsWhole, ChainIs
      <3> QED BY <2>2, <3>2, <3>3, <3>4 DEF ChainIs, LastOf
    <2> QED BY <2>1, <2>2
  <1>14. ChainIs(firstDone, listed)'
    <2> HIDE DEF c
    <2> QED BY <1>3, <1>9, <1>10, <1>11 DEF ChainIs, LastOf
  <1>15. doneTail' = IF listed' = <<>> THEN ChainHead ELSE LastOf(listed')
    <2> HIDE DEF c
    <2> QED BY <1>3, <1>11
  <1> QED BY <1>1, <1>2, <1>3, <1>8, <1>9, <1>13, <1>14, <1>15 DEF ChainsWhole, LastOf

-----------------------------------------------------------------------------
(* What a drive has to do, in order.                                          *)
InHand(d) == IF cdWork[d].pc = "exec" THEN <<cdWork[d].u>> ELSE <<>>

LEMMA InHandIs ==
  ASSUME ScsiTypeOK, WorkerInv, NEW d \in CdDrives
  PROVE  /\ InHand(d) \in Seq(ScsiReqs)
         /\ rqueue[d] \in Seq(ScsiReqs) /\ doneQueue[d] \in Seq(ScsiReqs)
         /\ cdWork[d].pc \in {"none", "look", "exec", "send"}
         /\ cdWork[d].u \in ScsiReqs \cup {NoReq}
  <1>1. cdWork[d].pc = "exec" => cdWork[d].u \in ScsiReqs
    BY DEF WorkerInv
  <1> QED BY <1>1 DEF InHand, ScsiTypeOK

LEMMA Joining ==
  ASSUME NEW s \in Seq(ScsiReqs), NEW t \in Seq(ScsiReqs), NEW u \in Seq(ScsiReqs)
  PROVE  (s \o t) \o u = s \o (t \o u) /\ s \o <<>> = s /\ <<>> \o s = s
  BY ConcatAssociative, ConcatEmptySeq

(* The first request of a queue becomes the one that is executed.             *)
LEMMA HeadMoves ==
  ASSUME NEW S, NEW s \in Seq(S), NEW t \in Seq(S), t # <<>>
  PROVE  s \o <<>> \o t = s \o <<t[1]>> \o Tail(t)
  <1>1. /\ <<t[1]>> \in Seq(S) /\ Tail(t) \in Seq(S)
    OBVIOUS
  <1>2. (s \o <<t[1]>>) \o Tail(t) = s \o (<<t[1]>> \o Tail(t))
    BY <1>1, ConcatAssociative
  <1>3. <<t[1]>> \o Tail(t) = t
    BY HeadAndTail
  <1>4. s \o <<>> = s
    BY ConcatEmptySeq
  <1> QED BY <1>2, <1>3, <1>4

(* A request that is queued comes last.                                       *)
LEMMA AppendMoves ==
  ASSUME NEW s \in Seq(ScsiReqs), NEW t \in Seq(ScsiReqs), NEW u \in Seq(ScsiReqs), NEW x \in ScsiReqs
  PROVE  Append(s \o t \o u, x) = s \o t \o Append(u, x)
  <1>1. s \o t \in Seq(ScsiReqs)
    OBVIOUS
  <1>2. (s \o t) \o u \in Seq(ScsiReqs) /\ <<x>> \in Seq(ScsiReqs)
    BY <1>1
  <1>3. ((s \o t) \o u) \o <<x>> = (s \o t) \o (u \o <<x>>)
    BY <1>1, <1>2, Joining, SMTT(30)
  <1> QED BY <1>2, <1>3, AppendOne

(* The drives' parts of the invariant, from the one drive a step is about.     *)
DriveInv(d) ==
    /\ cdRunning[d] <=> cdWork[d].pc # "none"
    /\ cdWork[d].pc = "exec" => cdWork[d].u \in ScsiReqs
    /\ cdOrder[d] = doneQueue[d] \o InHand(d) \o rqueue[d]
    /\ rqueue[d] # <<>> => cdRunning[d] /\ cdWork[d].pc # "none"
    /\ doneQueue[d] # <<>> => cdEvents > 0 \/ cdWork[d].pc = "send" \/ d \in visit

LEMMA DriveParts ==
  /\ (\A d \in CdDrives : DriveInv(d)) <=>
        /\ WorkerInv /\ DriveInOrder
        /\ \A d \in CdDrives :
              /\ rqueue[d] # <<>> => cdRunning[d] /\ cdWork[d].pc # "none"
              /\ doneQueue[d] # <<>> => cdEvents > 0 \/ cdWork[d].pc = "send" \/ d \in visit
  BY Zenon DEF DriveInv, WorkerInv, DriveInOrder, InHand

(* The thread of a drive.                                                     *)
LEMMA WorkerStep ==
  ASSUME ScsiInv, NEW d \in CdDrives, WorkStep(d)
  PROVE  ScsiInv'
  <1>0. /\ ScsiTypeOK /\ ScsiHistoryOK /\ WorkerInv /\ PlacesInv /\ DriveInOrder /\ NothingWaits /\ ChainsWhole
        /\ \A e \in CdDrives : DriveInv(e)
    BY DriveParts DEF ScsiInv, NothingWaits
  <1>1. UNCHANGED <<cdOrder, chainVars, guestVars, sgBusy, allowRead, visit>>
    BY DEF WorkStep, WorkTakes, do_execute, WorkSends
  <1>2. ScsiHistoryOK' /\ PlacesInv' /\ ChainsWhole'
    <2>1. UNCHANGED <<listed, given, cdOrder, sgBusy, guestReqs, firstDone, nextDone, guestAt, doneTail>>
      BY <1>1 DEF chainVars, guestVars
    <2>2. ScsiHistoryOK'
      BY <1>0, <2>1 DEF ScsiHistoryOK
    <2>3. PlacesInv'
      BY <1>0, <2>1 DEF PlacesInv
    <2>4. ChainsWhole'
      BY <1>0, <2>1, Zenon DEF ChainsWhole, ChainIs, LastOf
    <2> QED BY <2>2, <2>3, <2>4
  <1>3. /\ InHand(d) \in Seq(ScsiReqs) /\ rqueue[d] \in Seq(ScsiReqs) /\ doneQueue[d] \in Seq(ScsiReqs)
        /\ DriveInv(d)
    BY <1>0, InHandIs
  <1>4. ASSUME ScsiTypeOK', DriveInv(d)',
               \A e \in CdDrives \ {d} :
                   /\ rqueue'[e] = rqueue[e] /\ doneQueue'[e] = doneQueue[e] /\ cdRunning'[e] = cdRunning[e]
                   /\ cdWork'[e] = cdWork[e],
               cdEvents > 0 => cdEvents' > 0
        PROVE  ScsiInv'
    <2>1. \A e \in CdDrives : DriveInv(e)'
      <3>1. ASSUME NEW e \in CdDrives, e # d PROVE DriveInv(e)'
        <4>1. DriveInv(e) /\ cdOrder' = cdOrder /\ visit' = visit
          BY <1>0, <1>1
        <4> QED BY <4>1, <3>1, <1>4 DEF DriveInv, InHand
      <3> QED BY <3>1, <1>4
    <2>2. (listed # <<>> => scsiLine = 1)'
      BY <1>0, <1>1 DEF NothingWaits, chainVars
    <2>3. WorkerInv' /\ DriveInOrder' /\ NothingWaits'
      BY <2>1, <2>2, Zenon DEF WorkerInv, DriveInOrder, NothingWaits, DriveInv, InHand
    <2> QED BY <2>3, <1>2, <1>4 DEF ScsiInv
  <1>5. CASE WorkTakes(d) /\ rqueue[d] = <<>>
    <2>1. /\ cdRunning' = [cdRunning EXCEPT ![d] = FALSE] /\ cdWork' = [cdWork EXCEPT ![d].pc = "none"]
          /\ UNCHANGED <<rqueue, doneQueue, cdEvents>> /\ cdWork[d].pc = "look"
      BY <1>5 DEF WorkTakes
    <2>2. ScsiTypeOK'
      BY <1>0, <1>1, <2>1 DEF ScsiTypeOK, chainVars, guestVars
    <2>3. DriveInv(d)'
      BY <1>0, <1>1, <1>3, <1>5, <2>1 DEF DriveInv, InHand, ScsiTypeOK
    <2>4. \A e \in CdDrives \ {d} : cdRunning'[e] = cdRunning[e] /\ cdWork'[e] = cdWork[e]
      BY <1>0, <2>1 DEF ScsiTypeOK
    <2> QED BY <1>4, <2>1, <2>2, <2>3, <2>4
  <1>6. CASE WorkTakes(d) /\ rqueue[d] # <<>>
    <2> DEFINE h == rqueue[d][1]
    <2>1. /\ rqueue' = [rqueue EXCEPT ![d] = Tail(rqueue[d])]
          /\ cdWork' = [cdWork EXCEPT ![d] = [pc |-> "exec", u |-> h]]
          /\ UNCHANGED <<cdRunning, doneQueue, cdEvents>> /\ cdWork[d].pc = "look"
      BY <1>6, <1>3, HeadAndTail DEF WorkTakes
    <2>2. rqueue[d] = <<h>> \o Tail(rqueue[d]) /\ Tail(rqueue[d]) \in Seq(ScsiReqs) /\ h \in ScsiReqs
      BY <1>3, <1>6, HeadAndTail
    <2>3. /\ rqueue'[d] = Tail(rqueue[d]) /\ cdWork'[d] = [pc |-> "exec", u |-> h]
          /\ \A e \in CdDrives \ {d} : rqueue'[e] = rqueue[e] /\ cdWork'[e] = cdWork[e]
      BY <1>0, <2>1 DEF ScsiTypeOK
    <2>4. ScsiTypeOK'
      BY <1>0, <1>1, <2>1, <2>2 DEF ScsiTypeOK, chainVars, guestVars
    <2>5. doneQueue[d] \o <<>> \o rqueue[d] = doneQueue[d] \o <<h>> \o Tail(rqueue[d])
      BY <1>3, <1>6, HeadMoves, Zenon
    <2>6. DriveInv(d)'
      <3> HIDE DEF h
      <3>1. /\ cdRunning'[d] /\ cdWork'[d].pc = "exec" /\ cdWork'[d].u = h /\ InHand(d)' = <<h>>
            /\ doneQueue'[d] = doneQueue[d] /\ cdOrder'[d] = cdOrder[d]
        BY <1>1, <1>3, <2>1, <2>3 DEF DriveInv, InHand
      <3>2. cdOrder[d] = doneQueue[d] \o <<>> \o rqueue[d]
        BY <1>3, <2>1, Zenon DEF DriveInv, InHand
      <3>3. cdOrder'[d] = doneQueue'[d] \o InHand(d)' \o rqueue'[d]
        BY <3>1, <3>2, <2>3, <2>5, Zenon
      <3>4. doneQueue'[d] # <<>> => cdEvents' > 0 \/ d \in visit'
        BY <3>1, <1>1, <1>3, <2>1 DEF DriveInv
      <3> QED BY <3>1, <3>3, <3>4, <2>2, Zenon DEF DriveInv
    <2> QED BY <1>4, <2>1, <2>3, <2>4, <2>6
  <1>7. CASE do_execute(d)
    <2> DEFINE x == cdWork[d].u
    <2>1. /\ doneQueue' = [doneQueue EXCEPT ![d] = Append(doneQueue[d], x)]
          /\ cdWork' = [cdWork EXCEPT ![d] = [pc |-> "send", u |-> NoReq]]
          /\ UNCHANGED <<cdRunning, rqueue, cdEvents>> /\ cdWork[d].pc = "exec"
      BY <1>7 DEF do_execute
    <2>2. x \in ScsiReqs
      BY <1>0, <2>1 DEF WorkerInv
    <2>3. /\ doneQueue'[d] = Append(doneQueue[d], x) /\ cdWork'[d] = [pc |-> "send", u |-> NoReq]
          /\ \A e \in CdDrives \ {d} : doneQueue'[e] = doneQueue[e] /\ cdWork'[e] = cdWork[e]
      BY <1>0, <2>1 DEF ScsiTypeOK
    <2>4. ScsiTypeOK'
      BY <1>0, <1>1, <2>1, <2>2 DEF ScsiTypeOK, chainVars, guestVars
    <2>5. doneQueue[d] \o <<x>> \o rqueue[d] = Append(doneQueue[d], x) \o <<>> \o rqueue[d]
      <3> HIDE DEF x
      <3>1. Append(doneQueue[d], x) = doneQueue[d] \o <<x>> /\ Append(doneQueue[d], x) \in Seq(ScsiReqs)
        <4>1. doneQueue[d] \in Seq(ScsiReqs)
          BY <1>3
        <4> QED BY <4>1, <2>2
      <3>2. Append(doneQueue[d], x) \o <<>> = Append(doneQueue[d], x)
        BY <3>1, Joining, Zenon
      <3> QED BY <3>1, <3>2, Zenon
    <2>6. DriveInv(d)'
      <3>1. /\ cdRunning'[d] /\ cdWork'[d].pc = "send" /\ InHand(d)' = <<>>
            /\ rqueue'[d] = rqueue[d] /\ cdOrder'[d] = cdOrder[d]
        BY <1>1, <1>3, <2>1, <2>3 DEF DriveInv, InHand
      <3>2. cdOrder[d] = doneQueue[d] \o <<x>> \o rqueue[d]
        BY <1>3, <2>1, Zenon DEF DriveInv, InHand
      <3>3. cdOrder'[d] = doneQueue'[d] \o InHand(d)' \o rqueue'[d]
        BY <3>1, <3>2, <2>3, <2>5, Zenon
      <3> QED BY <3>1, <3>3 DEF DriveInv
    <2> QED BY <1>4, <2>1, <2>3, <2>4, <2>6
  <1>8. CASE WorkSends(d)
    <2>1. /\ cdWork' = [cdWork EXCEPT ![d].pc = "look"] /\ cdEvents' = cdEvents + 1
          /\ UNCHANGED <<cdRunning, rqueue, doneQueue>> /\ cdWork[d].pc = "send" /\ cdEvents < MaxAevents
      BY <1>8 DEF WorkSends
    <2>2. /\ cdWork'[d].pc = "look" /\ cdWork'[d].u = cdWork[d].u
          /\ \A e \in CdDrives \ {d} : cdWork'[e] = cdWork[e]
      BY <1>0, <2>1 DEF ScsiTypeOK
    <2>3. cdEvents \in Nat /\ cdEvents' \in 0 .. MaxAevents /\ cdEvents' > 0
      BY <1>0, <2>1, ScsiAssumption DEF ScsiTypeOK
    <2>4. ScsiTypeOK'
      BY <1>0, <1>1, <2>1, <2>3 DEF ScsiTypeOK, chainVars, guestVars
    <2>5. DriveInv(d)'
      BY <1>1, <1>3, <2>1, <2>2, <2>3 DEF DriveInv, InHand
    <2> QED BY <1>4, <2>1, <2>2, <2>3, <2>4, <2>5
  <1> QED BY <1>5, <1>6, <1>7, <1>8 DEF WorkStep

(* A request that no drive has is queued at one.                               *)
LEMMA ApartQueued ==
  ASSUME NEW o \in [CdDrives -> Seq(ScsiReqs)], NEW X, Apart(o, X),
         NEW d \in CdDrives, NEW r \in X \cap ScsiReqs
  PROVE  Apart([o EXCEPT ![d] = Append(o[d], r)], X \ {r})
  <1> DEFINE n == [o EXCEPT ![d] = Append(o[d], r)]
  <1>1. o[d] \in Seq(ScsiReqs) /\ Distinct(o[d]) /\ \A e \in CdDrives : r \notin Members(o[e])
    BY DEF Apart
  <1>2. n[d] = o[d] \o <<r>> /\ \A e \in CdDrives \ {d} : n[e] = o[e]
    BY <1>1
  <1> HIDE DEF n
  <1>3. Members(n[d]) = Members(o[d]) \cup {r} /\ Distinct(n[d])
    <2>1. <<r>> \in Seq(ScsiReqs) /\ Members(<<r>>) = {r} /\ Distinct(<<r>>)
      BY MembersOfOne
    <2>2. /\ Members(o[d] \o <<r>>) = Members(o[d]) \cup Members(<<r>>)
          /\ Distinct(o[d] \o <<r>>) <=>
                Distinct(o[d]) /\ Distinct(<<r>>) /\ Members(o[d]) \cap Members(<<r>>) = {}
      BY <2>1, <1>1, MembersOfConcat, Zenon
    <2> QED BY <2>1, <2>2, <1>1, <1>2
  <1>4. ASSUME NEW e \in CdDrives PROVE Distinct(n[e]) /\ Members(n[e]) \cap (X \ {r}) = {}
    <2>1. Distinct(o[e]) /\ Members(o[e]) \cap X = {}
      BY DEF Apart
    <2>2. CASE e = d
      BY <2>1, <2>2, <1>3
    <2>3. CASE e # d
      BY <2>1, <2>3, <1>2
    <2> QED BY <2>2, <2>3
  <1>5. ASSUME NEW e \in CdDrives, NEW f \in CdDrives, e # f PROVE Members(n[e]) \cap Members(n[f]) = {}
    <2>1. Members(o[e]) \cap Members(o[f]) = {} /\ r \notin Members(o[e]) /\ r \notin Members(o[f])
      BY <1>1, <1>5 DEF Apart
    <2>2. CASE e = d
      BY <2>1, <2>2, <1>2, <1>3, <1>5
    <2>3. CASE f = d
      BY <2>1, <2>3, <1>2, <1>3, <1>5
    <2>4. CASE e # d /\ f # d
      BY <2>1, <2>4, <1>2
    <2> QED BY <2>2, <2>3, <2>4
  <1> QED BY <1>4, <1>5 DEF Apart, n

(* The first requests of a drive are taken from it.                            *)
LEMMA ApartTaken ==
  ASSUME NEW o \in [CdDrives -> Seq(ScsiReqs)], NEW X, Apart(o, X), NEW d \in CdDrives,
         NEW q \in Seq(ScsiReqs), NEW t \in Seq(ScsiReqs), o[d] = q \o t
  PROVE  /\ Apart([o EXCEPT ![d] = t], X \cup Members(q))
         /\ Distinct(q) /\ Members(q) \cap X = {}
  <1> DEFINE n == [o EXCEPT ![d] = t]
  <1>1. Distinct(o[d]) /\ Members(o[d]) \cap X = {}
    BY DEF Apart
  <1>2. n[d] = t /\ \A e \in CdDrives \ {d} : n[e] = o[e]
    OBVIOUS
  <1> HIDE DEF n
  <1>3. /\ Members(o[d]) = Members(q) \cup Members(t)
        /\ Distinct(q) /\ Distinct(t) /\ Members(q) \cap Members(t) = {}
    <2>1. /\ Members(q \o t) = Members(q) \cup Members(t)
          /\ Distinct(q \o t) <=> Distinct(q) /\ Distinct(t) /\ Members(q) \cap Members(t) = {}
      BY MembersOfConcat, Zenon
    <2> QED BY <1>1, <2>1, Zenon
  <1>4. ASSUME NEW e \in CdDrives PROVE Distinct(n[e]) /\ Members(n[e]) \cap (X \cup Members(q)) = {}
    <2>1. CASE e = d
      BY <2>1, <1>1, <1>2, <1>3
    <2>2. CASE e # d
      <3>1. Distinct(o[e]) /\ Members(o[e]) \cap X = {} /\ Members(o[e]) \cap Members(o[d]) = {}
        BY <2>2 DEF Apart
      <3> QED BY <3>1, <2>2, <1>2, <1>3
    <2> QED BY <2>1, <2>2
  <1>5. ASSUME NEW e \in CdDrives, NEW f \in CdDrives, e # f PROVE Members(n[e]) \cap Members(n[f]) = {}
    <2>1. Members(o[e]) \cap Members(o[f]) = {}
      BY <1>5 DEF Apart
    <2>2. CASE e = d
      BY <2>1, <2>2, <1>2, <1>3, <1>5
    <2>3. CASE f = d
      BY <2>1, <2>3, <1>2, <1>3, <1>5
    <2>4. CASE e # d /\ f # d
      BY <2>1, <2>4, <1>2
    <2> QED BY <2>2, <2>3, <2>4
  <1>6. Apart(n, X \cup Members(q))
    BY <1>4, <1>5 DEF Apart
  <1> QED BY <1>1, <1>3, <1>6 DEF n

(* Fewer other places.                                                         *)
LEMMA ApartLess ==
  ASSUME NEW o, NEW X, NEW Y, Apart(o, X), Y \subseteq X
  PROVE  Apart(o, Y)
  BY DEF Apart

(* Steps that leave the drives alone.                                         *)
LEMMA DrivesKept ==
  ASSUME ScsiInv, UNCHANGED <<cdVars, cdEvents, visit>>,
         (listed # <<>> => scsiLine = 1)'
  PROVE  WorkerInv' /\ DriveInOrder' /\ NothingWaits'
  <1>1. WorkerInv /\ DriveInOrder /\ NothingWaits
    BY DEF ScsiInv
  <1>2. UNCHANGED <<rqueue, doneQueue, cdRunning, cdWork, cdOrder, cdEvents, visit>>
    BY DEF cdVars
  <1>3. WorkerInv'
    BY <1>1, <1>2 DEF WorkerInv
  <1>4. DriveInOrder'
    BY <1>1, <1>2, Zenon DEF DriveInOrder
  <1>5. NothingWaits'
    BY <1>1, <1>2, Zenon DEF NothingWaits
  <1> QED BY <1>3, <1>4, <1>5

(* A request of the guest or of Linux is completed at once.                    *)
LEMMA CompleteOne ==
  ASSUME ScsiInv, NEW r \in ScsiReqs, r \in guestReqs \cup sgBusy,
         guestReqs' = guestReqs \ {r}, sgBusy' = sgBusy \ {r}, Complete(<<r>>),
         UNCHANGED <<cdVars, guestAt, given, cdEvents, visit>>, allowRead' \subseteq ScsiDevs
  PROVE  ScsiInv'
  <1>1. ScsiTypeOK /\ ScsiHistoryOK /\ PlacesInv /\ ChainsWhole
    BY DEF ScsiInv
  <1>2. <<r>> \in Seq(ScsiReqs) /\ Members(<<r>>) = {r} /\ Distinct(<<r>>)
    BY MembersOfOne
  <1>3. r \notin Members(listed) /\ r \notin Members(given)
    BY <1>1 DEF PlacesInv
  <1>4. /\ ChainsWhole' /\ listed' = listed \o <<r>> /\ scsiLine' = 1
        /\ firstDone' \in ScsiReqs /\ doneTail' \in ScsiReqs
        /\ nextDone' \in [ScsiReqs -> ScsiReqs \cup {NoReq}]
        /\ listed' \in Seq(ScsiReqs)
    <2>1. Distinct(listed) /\ Members(listed) \cap Members(given) = {}
      BY <1>1 DEF PlacesInv
    <2>2. Members(<<r>>) \cap (Members(listed) \cup Members(given)) = {}
      BY <1>2, <1>3
    <2> QED BY <1>1, <1>2, <2>1, <2>2, CompleteStep, Zenon
  <1>5. Members(listed') = Members(listed) \cup {r} /\ Distinct(listed')
    <2>1. listed \in Seq(ScsiReqs)
      BY <1>1 DEF ScsiHistoryOK
    <2>2. /\ Members(listed \o <<r>>) = Members(listed) \cup Members(<<r>>)
          /\ Distinct(listed \o <<r>>) <=> Distinct(listed) /\ Distinct(<<r>>) /\ Members(listed) \cap Members(<<r>>) = {}
      BY <1>2, <2>1, MembersOfConcat, Zenon
    <2>3. Distinct(listed)
      BY <1>1 DEF PlacesInv
    <2> QED BY <1>2, <1>3, <1>4, <2>2, <2>3
  <1>6. UNCHANGED <<rqueue, doneQueue, cdRunning, cdWork, cdOrder, cdEvents, visit, guestAt, given>>
    BY DEF cdVars
  <1>7. PlacesInv'
    <2> DEFINE X == guestReqs \cup sgBusy \cup Members(listed) \cup Members(given)
               Y == guestReqs' \cup sgBusy' \cup Members(listed') \cup Members(given)
    <2>1. Y \subseteq X
      BY <1>5
    <2>2. Apart(cdOrder, X)
      BY <1>1 DEF PlacesInv
    <2>3. Apart(cdOrder, Y)
      <3> HIDE DEF X, Y
      <3> QED BY <2>1, <2>2, ApartLess
    <2> QED BY <1>1, <1>3, <1>5, <1>6, <2>3 DEF PlacesInv
  <1>8. ScsiTypeOK'
    BY <1>1, <1>4, <1>6 DEF ScsiTypeOK
  <1>9. ScsiHistoryOK'
    BY <1>1, <1>4, <1>6 DEF ScsiHistoryOK
  <1>10. WorkerInv' /\ DriveInOrder' /\ NothingWaits'
    BY <1>4, DrivesKept
  <1> QED BY <1>4, <1>7, <1>8, <1>9, <1>10 DEF ScsiInv

(* The chains are as before.                                                   *)
LEMMA ChainsKept ==
  ASSUME ChainsWhole, UNCHANGED <<chainVars, guestAt, given>>
  PROVE  ChainsWhole'
  <1>1. UNCHANGED <<firstDone, doneTail, nextDone, listed, guestAt, given>>
    BY DEF chainVars
  <1> QED BY <1>1, Zenon DEF ChainsWhole, ChainIs, LastOf

(* execute() of sg-scsi.c: Linux has the request.                              *)
LEMMA QueuedAtLinux ==
  ASSUME ScsiInv, NEW r \in guestReqs, guestReqs' = guestReqs \ {r}, sgBusy' = sgBusy \cup {r},
         UNCHANGED <<cdVars, chainVars, guestAt, given, cdEvents, visit>>, allowRead' \subseteq ScsiDevs
  PROVE  ScsiInv'
  <1>1. ScsiTypeOK /\ ScsiHistoryOK /\ PlacesInv /\ ChainsWhole /\ NothingWaits
    BY DEF ScsiInv
  <1>2. UNCHANGED <<rqueue, doneQueue, cdRunning, cdWork, cdOrder, cdEvents, visit, guestAt, given,
                    firstDone, doneTail, nextDone, scsiLine, listed>>
    BY DEF cdVars, chainVars
  <1>3. PlacesInv'
    <2>1. guestReqs' \cup sgBusy' \cup Members(listed) \cup Members(given) =
            guestReqs \cup sgBusy \cup Members(listed) \cup Members(given)
      OBVIOUS
    <2> QED BY <1>1, <1>2, <2>1 DEF PlacesInv
  <1>4. ScsiTypeOK'
    BY <1>1, <1>2 DEF ScsiTypeOK
  <1>5. ScsiHistoryOK'
    BY <1>1, <1>2 DEF ScsiHistoryOK
  <1>6. WorkerInv' /\ DriveInOrder' /\ NothingWaits'
    BY <1>1, <1>2, DrivesKept DEF NothingWaits
  <1> QED BY <1>1, <1>3, <1>4, <1>5, <1>6, ChainsKept DEF ScsiInv

(* execute() of cd-scsi.c.                                                     *)
LEMMA QueuedAtDrive ==
  ASSUME ScsiInv, NEW d \in CdDrives, NEW r \in guestReqs, guestReqs' = guestReqs \ {r},
         execute_cd(d, r), UNCHANGED <<guestAt, given, cdEvents, visit>>, allowRead' \subseteq ScsiDevs
  PROVE  ScsiInv'
  <1>1. ScsiTypeOK /\ ScsiHistoryOK /\ PlacesInv /\ ChainsWhole /\ NothingWaits /\ WorkerInv /\ r \in ScsiReqs
        /\ \A e \in CdDrives : DriveInv(e)
    BY DriveParts DEF ScsiInv, NothingWaits, ScsiTypeOK
  <1>2. UNCHANGED <<doneQueue, sgBusy, cdEvents, visit, guestAt, given,
                    firstDone, doneTail, nextDone, scsiLine, listed>>
    BY DEF execute_cd, chainVars
  <1>3. /\ rqueue'[d] = Append(rqueue[d], r) /\ cdOrder'[d] = Append(cdOrder[d], r) /\ cdRunning'[d]
        /\ cdWork'[d].pc = IF cdRunning[d] THEN cdWork[d].pc ELSE "look"
        /\ cdWork'[d].u = cdWork[d].u
        /\ \A e \in CdDrives \ {d} :
              /\ rqueue'[e] = rqueue[e] /\ cdOrder'[e] = cdOrder[e] /\ cdRunning'[e] = cdRunning[e]
              /\ cdWork'[e] = cdWork[e]
    BY <1>1 DEF execute_cd, ScsiTypeOK, ScsiHistoryOK
  <1>4. ScsiTypeOK'
    <2>1. rqueue' \in [CdDrives -> Seq(ScsiReqs)]
      BY <1>1 DEF execute_cd, ScsiTypeOK
    <2>2. cdRunning' \in [CdDrives -> BOOLEAN]
      BY <1>1 DEF execute_cd, ScsiTypeOK
    <2>3. cdWork' \in [CdDrives -> [pc : {"none", "look", "exec", "send"}, u : ScsiReqs \cup {NoReq}]]
      BY <1>1 DEF execute_cd, ScsiTypeOK
    <2> QED BY <1>1, <1>2, <2>1, <2>2, <2>3 DEF ScsiTypeOK
  <1>5. ScsiHistoryOK'
    BY <1>1, <1>2 DEF ScsiHistoryOK, execute_cd
  <1>8. PlacesInv'
    <2> DEFINE X == guestReqs \cup sgBusy \cup Members(listed) \cup Members(given)
    <2>1. cdOrder' = [cdOrder EXCEPT ![d] = Append(cdOrder[d], r)] /\ cdOrder \in [CdDrives -> Seq(ScsiReqs)]
      BY <1>1 DEF execute_cd, ScsiHistoryOK
    <2>2. Apart(cdOrder, X) /\ r \in X \cap ScsiReqs
      BY <1>1 DEF PlacesInv
    <2>3. X \ {r} = guestReqs' \cup sgBusy \cup Members(listed) \cup Members(given)
      BY <1>1 DEF PlacesInv
    <2> HIDE DEF X
    <2>4. Apart(cdOrder', X \ {r})
      BY <2>1, <2>2, ApartQueued
    <2> QED BY <1>1, <1>2, <2>3, <2>4 DEF PlacesInv
  <1>9. DriveInv(d)'
    <2>1. InHand(d) \in Seq(ScsiReqs) /\ rqueue[d] \in Seq(ScsiReqs) /\ doneQueue[d] \in Seq(ScsiReqs)
          /\ cdWork[d].pc \in {"none", "look", "exec", "send"}
      BY <1>1, InHandIs
    <2>2. /\ cdRunning[d] <=> cdWork[d].pc # "none"
          /\ cdWork[d].pc = "exec" => cdWork[d].u \in ScsiReqs
          /\ cdOrder[d] = doneQueue[d] \o InHand(d) \o rqueue[d]
          /\ doneQueue[d] # <<>> => cdEvents > 0 \/ cdWork[d].pc = "send" \/ d \in visit
      BY <1>1 DEF DriveInv
    <2>3. /\ cdWork'[d].pc # "none" /\ (cdWork'[d].pc = "exec" <=> cdWork[d].pc = "exec")
          /\ cdWork[d].pc = "send" => cdWork'[d].pc = "send"
      BY <1>3, <2>1, <2>2
    <2>4. InHand(d)' = InHand(d)
      BY <1>3, <2>3 DEF InHand
    <2>5. Append(doneQueue[d] \o InHand(d) \o rqueue[d], r) = doneQueue[d] \o InHand(d) \o Append(rqueue[d], r)
      <3>1. /\ r \in ScsiReqs /\ InHand(d) \in Seq(ScsiReqs) /\ rqueue[d] \in Seq(ScsiReqs)
            /\ doneQueue[d] \in Seq(ScsiReqs)
        BY <1>1, <2>1
      <3> QED BY <3>1, AppendMoves, Zenon
    <2>6. cdOrder'[d] = doneQueue'[d] \o InHand(d)' \o rqueue'[d]
      BY <1>2, <1>3, <2>2, <2>4, <2>5, Zenon
    <2>7. doneQueue'[d] # <<>> => cdEvents' > 0 \/ cdWork'[d].pc = "send" \/ d \in visit'
      BY <1>2, <2>2, <2>3
    <2>8. cdWork'[d].pc = "exec" => cdWork'[d].u \in ScsiReqs
      BY <1>3, <2>2, <2>3
    <2> QED BY <1>3, <2>3, <2>6, <2>7, <2>8, Zenon DEF DriveInv
  <1>10. \A e \in CdDrives : DriveInv(e)'
    <2>1. ASSUME NEW e \in CdDrives, e # d PROVE DriveInv(e)'
      <3>1. DriveInv(e)
        BY <1>1
      <3>2. /\ rqueue'[e] = rqueue[e] /\ cdOrder'[e] = cdOrder[e] /\ cdRunning'[e] = cdRunning[e]
            /\ cdWork'[e] = cdWork[e]
        BY <1>3, <2>1
      <3> QED BY <3>1, <3>2, <1>2 DEF DriveInv, InHand
    <2> QED BY <2>1, <1>9
  <1>11. (listed # <<>> => scsiLine = 1)'
    BY <1>1, <1>2 DEF NothingWaits
  <1>12. WorkerInv' /\ DriveInOrder' /\ NothingWaits'
    BY <1>10, <1>11, Zenon DEF WorkerInv, DriveInOrder, NothingWaits, DriveInv, InHand
  <1>13. ChainsWhole'
    BY <1>1, <1>2, ChainsKept DEF chainVars
  <1> QED BY <1>4, <1>5, <1>8, <1>12, <1>13 DEF ScsiInv

LEMMA SubmitStepScsi ==
  ASSUME ScsiInv, NEW r \in ScsiReqs, NEW dev \in ScsiDevs \cup {NoTarget}, NEW cmd \in ScsiCmds,
         osip_scsi_submit(r, dev, cmd)
  PROVE  ScsiInv'
  <1>1. /\ r \in guestReqs /\ guestReqs' = guestReqs \ {r} /\ UNCHANGED <<guestAt, given, cdEvents, visit>>
        /\ r \notin sgBusy /\ allowRead \subseteq ScsiDevs
    BY DEF osip_scsi_submit, ScsiInv, PlacesInv, ScsiTypeOK
  <1>2. CASE dev = NoTarget \/ Aborts(dev, cmd)
    <2>1. Complete(<<r>>) /\ UNCHANGED <<cdVars, sgBusy, allowRead>>
      BY <1>2 DEF osip_scsi_submit
    <2> QED BY <1>1, <2>1, CompleteOne
  <1>3. CASE ~(dev = NoTarget \/ Aborts(dev, cmd))
    <2>1. allowRead' = IF cmd = "INQUIRY" THEN allowRead ELSE allowRead \cup {dev}
      BY <1>3, Zenon DEF osip_scsi_submit
    <2>2. IF dev = Generic THEN execute_sg(r) ELSE execute_cd(dev, r)
      BY <1>3, Zenon DEF osip_scsi_submit
    <2>3. allowRead' \subseteq ScsiDevs
      BY <1>1, <1>3, <2>1
    <2>4. CASE dev = Generic
      <3>1. UNCHANGED cdVars /\ (\/ sgBusy' = sgBusy \cup {r} /\ UNCHANGED chainVars
                                 \/ Complete(<<r>>) /\ UNCHANGED sgBusy)
        BY <2>2, <2>4 DEF execute_sg
      <3>2. CASE sgBusy' = sgBusy \cup {r} /\ UNCHANGED chainVars
        BY <1>1, <2>3, <3>1, <3>2, QueuedAtLinux
      <3>3. CASE Complete(<<r>>) /\ UNCHANGED sgBusy
        BY <1>1, <2>3, <3>1, <3>3, CompleteOne
      <3> QED BY <3>1, <3>2, <3>3
    <2>5. CASE dev # Generic
      <3>1. dev \in CdDrives /\ execute_cd(dev, r)
        BY <1>3, <2>2, <2>5 DEF ScsiDevs
      <3> QED BY <1>1, <2>3, <3>1, QueuedAtDrive
    <2> QED BY <2>4, <2>5
  <1> QED BY <1>2, <1>3

LEMMA AnswerStep ==
  ASSUME ScsiInv, NEW r \in ScsiReqs, async_completion(r)
  PROVE  ScsiInv'
  <1>1. /\ r \in sgBusy /\ sgBusy' = sgBusy \ {r} /\ Complete(<<r>>)
        /\ UNCHANGED <<cdVars, guestVars, cdEvents, allowRead, visit>>
    BY DEF async_completion
  <1>2. guestReqs' = guestReqs \ {r} /\ UNCHANGED <<guestAt, given>> /\ allowRead' \subseteq ScsiDevs
    BY <1>1 DEF guestVars, ScsiInv, PlacesInv, ScsiTypeOK
  <1> QED BY <1>1, <1>2, CompleteOne

(* The chain goes to the guest, which walks it.                                *)
LEMMA GuestSteps ==
  ASSUME ScsiInv, osip_scsi_ack \/ GuestTakes \/ osip_scsi_cntrl
  PROVE  ScsiInv'
  <1>1. ScsiTypeOK /\ ScsiHistoryOK /\ PlacesInv /\ ChainsWhole /\ NothingWaits
    BY DEF ScsiInv
  <1>2. UNCHANGED <<cdVars, nextDone, cdEvents, sgBusy, allowRead, visit>>
    BY DEF osip_scsi_ack, GuestTakes, osip_scsi_cntrl, chainVars
  <1>3. UNCHANGED <<rqueue, doneQueue, cdRunning, cdWork, cdOrder, nextDone, cdEvents, sgBusy, allowRead, visit>>
    BY <1>2 DEF cdVars
  <1> DEFINE X == guestReqs \cup sgBusy \cup Members(listed) \cup Members(given)
  <1>4. listed \in Seq(ScsiReqs) /\ given \in Seq(ScsiReqs) /\ Apart(cdOrder, X)
    BY <1>1 DEF ScsiHistoryOK, PlacesInv
  <1>5. ASSUME guestAt = NoReq PROVE given = <<>>
    <2>1. CASE given # <<>>
      <3>1. guestAt = given[1] /\ given[1] \in ScsiReqs
        BY <2>1, <1>1, <1>4 DEF ChainsWhole, ChainIs
      <3> QED BY <3>1, <1>5, ScsiAssumption
    <2> QED BY <2>1
  <1>6. CASE osip_scsi_ack
    <2>1. /\ given = <<>> /\ guestAt' = firstDone /\ given' = listed /\ firstDone' = NoReq
          /\ doneTail' = ChainHead /\ listed' = <<>> /\ scsiLine' = 0 /\ guestReqs' = guestReqs
      BY <1>5, <1>6 DEF osip_scsi_ack
    <2>2. Members(given) = {} /\ Members(listed') = {} /\ Distinct(listed')
      BY <2>1, MembersOfNone
    <2>3. guestReqs' \cup sgBusy' \cup Members(listed') \cup Members(given') = X
      BY <2>1, <2>2, <1>3
    <2>4. PlacesInv'
      BY <1>1, <1>3, <1>4, <2>1, <2>2, <2>3 DEF PlacesInv
    <2>5. ChainsWhole'
      BY <1>1, <1>3, <2>1 DEF ChainsWhole, ChainIs, LastOf
    <2>6. ScsiTypeOK' /\ ScsiHistoryOK'
      BY <1>1, <1>3, <2>1 DEF ScsiTypeOK, ScsiHistoryOK
    <2>7. WorkerInv' /\ DriveInOrder' /\ NothingWaits'
      BY <1>2, <2>1, DrivesKept
    <2> QED BY <2>4, <2>5, <2>6, <2>7 DEF ScsiInv
  <1>7. CASE osip_scsi_cntrl
    <2>1. /\ given = <<>> /\ firstDone' = NoReq /\ doneTail' = ChainHead /\ listed' = <<>>
          /\ guestReqs' = guestReqs \cup Members(listed) /\ UNCHANGED <<guestAt, given, scsiLine>>
      BY <1>5, <1>7 DEF osip_scsi_cntrl, Members
    <2>2. Members(given) = {} /\ Members(listed') = {} /\ Distinct(listed') /\ Members(listed) \subseteq ScsiReqs
      BY <1>4, <2>1, MembersOfNone, MembersIn
    <2>3. guestReqs' \cup sgBusy' \cup Members(listed') \cup Members(given') = X
      BY <2>1, <2>2, <1>3
    <2>4. PlacesInv'
      BY <1>1, <1>3, <1>4, <2>1, <2>2, <2>3 DEF PlacesInv
    <2>5. ChainsWhole'
      BY <1>1, <1>3, <2>1 DEF ChainsWhole, ChainIs, LastOf
    <2>6. ScsiTypeOK' /\ ScsiHistoryOK'
      BY <1>1, <1>3, <2>1, <2>2 DEF ScsiTypeOK, ScsiHistoryOK
    <2>7. WorkerInv' /\ DriveInOrder' /\ NothingWaits'
      BY <1>2, <2>1, DrivesKept
    <2> QED BY <2>4, <2>5, <2>6, <2>7 DEF ScsiInv
  <1>8. CASE GuestTakes
    <2> DEFINE t == Tail(given)
    <2>1. /\ guestAt # NoReq /\ guestReqs' = guestReqs \cup {guestAt} /\ guestAt' = nextDone[guestAt]
          /\ given' = Tail(given) /\ UNCHANGED <<firstDone, doneTail, scsiLine, listed>>
      BY <1>8 DEF GuestTakes, chainVars
    <2>2. given # <<>> /\ guestAt = given[1]
      BY <1>1, <2>1 DEF ChainsWhole, ChainIs
    <2>3. given = <<guestAt>> \o Tail(given) /\ Tail(given) \in Seq(ScsiReqs) /\ guestAt \in ScsiReqs
      BY <1>4, <2>2, HeadAndTail
    <2>4. Members(given) = {guestAt} \cup Members(t) /\ Distinct(t) /\ guestAt \notin Members(t)
      <3>1. <<guestAt>> \in Seq(ScsiReqs) /\ Members(<<guestAt>>) = {guestAt}
        BY <2>3, MembersOfOne
      <3>2. t \in Seq(ScsiReqs) /\ given = <<guestAt>> \o t /\ Distinct(given)
        BY <1>1, <2>3 DEF PlacesInv
      <3> HIDE DEF t
      <3>3. /\ Members(<<guestAt>> \o t) = Members(<<guestAt>>) \cup Members(t)
            /\ Distinct(<<guestAt>> \o t) <=>
                  Distinct(<<guestAt>>) /\ Distinct(t) /\ Members(<<guestAt>>) \cap Members(t) = {}
        BY <3>1, <3>2, MembersOfConcat, Zenon
      <3>4. Members(given) = Members(<<guestAt>>) \cup Members(t) /\ Distinct(t)
            /\ Members(<<guestAt>>) \cap Members(t) = {}
        BY <3>2, <3>3, Zenon
      <3> QED BY <3>1, <3>4
    <2>5. PlacesInv'
      <3>1. given' = t
        BY <2>1
      <3> HIDE DEF t
      <3>2. guestReqs' \cup sgBusy' \cup Members(listed') \cup Members(given') = X
        BY <2>1, <2>4, <3>1, <1>3
      <3>3. /\ Distinct(listed) /\ Members(listed) \cap Members(t) = {}
            /\ sgBusy \cap (Members(listed) \cup Members(t)) = {}
            /\ guestReqs' \cap (sgBusy \cup Members(listed) \cup Members(t)) = {}
        BY <1>1, <2>1, <2>4 DEF PlacesInv
      <3>4. UNCHANGED <<sgBusy, listed, cdOrder>>
        BY <1>3, <2>1
      <3> QED BY <1>4, <2>4, <3>1, <3>2, <3>3, <3>4 DEF PlacesInv
    <2>6. ChainIs(guestAt, given)' /\ guestAt' \in ScsiReqs \cup {NoReq}
      <3>1. CASE Len(given) = 1
        <4>1. LastOf(given) = guestAt /\ Tail(given) = <<>>
          BY <3>1, <1>4, <2>2, TailIs DEF LastOf
        <4>2. nextDone[guestAt] = NoReq
          BY <4>1, <1>1, <2>2 DEF ChainsWhole, ChainIs
        <4>3. given' = <<>> /\ guestAt' = NoReq
          BY <4>1, <4>2, <2>1
        <4> QED BY <4>3 DEF ChainIs
      <3>2. CASE Len(given) # 1
        <4>1. /\ Len(given) \in Nat /\ Len(given) > 1 /\ Len(t) = Len(given) - 1 /\ t # <<>>
              /\ \A k \in 1 .. Len(t) : t[k] = given[k + 1]
          <5>1. /\ Len(given) \in Nat \ {0} /\ Len(t) = Len(given) - 1
                /\ \A k \in 1 .. Len(given) - 1 : t[k] = given[k + 1]
            BY <1>4, <2>2, TailIs
          <5> QED BY <5>1, <3>2
        <4>2. \A k \in 1 .. Len(given) - 1 : nextDone[given[k]] = given[k + 1]
          BY <1>1, <2>2 DEF ChainsWhole, ChainIs
        <4>3. nextDone[given[Len(given)]] = NoReq
          BY <1>1, <2>2 DEF ChainsWhole, ChainIs, LastOf
        <4>4. given' = t /\ guestAt' = nextDone[given[1]] /\ nextDone' = nextDone
          <5>1. nextDone' = nextDone
            BY <1>3
          <5> QED BY <5>1, <2>1, <2>2, Zenon
        <4> HIDE DEF t
        <4>5. guestAt' = t[1] /\ t[1] \in ScsiReqs
          <5>1. 1 \in 1 .. Len(given) - 1 /\ 1 \in 1 .. Len(t) /\ 2 \in 1 .. Len(given)
            BY <4>1
          <5>2. guestAt' = given[1 + 1] /\ t[1] = given[1 + 1]
            BY <5>1, <4>1, <4>2, <4>4
          <5> QED BY <5>1, <5>2, <1>4
        <4>6. nextDone[t[Len(t)]] = NoReq
          <5>1. Len(t) \in 1 .. Len(t) /\ Len(t) + 1 = Len(given)
            BY <4>1
          <5> QED BY <5>1, <4>1, <4>3
        <4>7. ASSUME NEW k \in 1 .. Len(t) - 1 PROVE nextDone[t[k]] = t[k + 1]
          <5>1. k \in 1 .. Len(t) /\ k + 1 \in 1 .. Len(t) /\ k + 1 \in 1 .. Len(given) - 1
            BY <4>1
          <5> QED BY <5>1, <4>1, <4>2
        <4> QED BY <4>1, <4>4, <4>5, <4>6, <4>7 DEF ChainIs, LastOf
      <3> QED BY <3>1, <3>2
    <2>7. ChainsWhole'
      <3>1. ChainIs(firstDone, listed)'
        BY <1>1, <1>3, <2>1 DEF ChainsWhole, ChainIs, LastOf
      <3>2. (doneTail = IF listed = <<>> THEN ChainHead ELSE LastOf(listed))'
        BY <1>1, <2>1 DEF ChainsWhole, LastOf
      <3> QED BY <2>6, <3>1, <3>2, Zenon DEF ChainsWhole
    <2>8. ScsiTypeOK' /\ ScsiHistoryOK'
      BY <1>1, <1>3, <2>1, <2>3, <2>6 DEF ScsiTypeOK, ScsiHistoryOK
    <2>9. WorkerInv' /\ DriveInOrder' /\ NothingWaits'
      BY <1>1, <1>2, <2>1, DrivesKept DEF NothingWaits
    <2> QED BY <2>5, <2>7, <2>8, <2>9 DEF ScsiInv
  <1> QED BY <1>6, <1>7, <1>8

(* complete() of cd-scsi.c.                                                    *)
LEMMA DriveStep ==
  ASSUME ScsiInv, NEW d \in CdDrives, complete_cd(d)
  PROVE  ScsiInv'
  <1>1. /\ ScsiTypeOK /\ ScsiHistoryOK /\ PlacesInv /\ ChainsWhole /\ NothingWaits /\ WorkerInv
        /\ \A e \in CdDrives : DriveInv(e)
    BY DriveParts DEF ScsiInv, NothingWaits
  <1> DEFINE q == doneQueue[d]
             t == InHand(d) \o rqueue[d]
             X == guestReqs \cup sgBusy \cup Members(listed) \cup Members(given)
  <1>2. /\ visit' = visit \ {d} /\ doneQueue' = [doneQueue EXCEPT ![d] = <<>>]
        /\ cdOrder' = [cdOrder EXCEPT ![d] = SubSeq(cdOrder[d], Len(q) + 1, Len(cdOrder[d]))]
        /\ UNCHANGED <<rqueue, cdRunning, cdWork, guestReqs, guestAt, given, cdEvents, sgBusy, allowRead>>
    BY DEF complete_cd, guestVars
  <1>3. IF doneQueue[d] = <<>> THEN UNCHANGED chainVars ELSE Complete(doneQueue[d])
    BY Zenon DEF complete_cd
  <1>4. InHand(d) \in Seq(ScsiReqs) /\ rqueue[d] \in Seq(ScsiReqs) /\ q \in Seq(ScsiReqs)
    BY <1>1, InHandIs
  <1>5. t \in Seq(ScsiReqs) /\ q \o InHand(d) \o rqueue[d] = q \o t
    <2>1. InHand(d) \o rqueue[d] \in Seq(ScsiReqs)
      BY <1>4
    <2>2. (q \o InHand(d)) \o rqueue[d] = q \o (InHand(d) \o rqueue[d])
      <3> HIDE DEF q
      <3> QED BY <1>4, Joining, Zenon
    <2> QED BY <2>1, <2>2
  <1>6. cdOrder[d] = q \o t
    BY <1>1, <1>5, Zenon DEF DriveInv
  <1> HIDE DEF t, q, X
  <1>7. cdOrder' = [cdOrder EXCEPT ![d] = t]
    <2>1. SubSeq(q \o t, Len(q) + 1, Len(q \o t)) = t
      BY <1>4, <1>5, CutFront, Zenon
    <2> QED BY <1>2, <1>6, <2>1
  <1>8. Apart(cdOrder', X \cup Members(q)) /\ Distinct(q) /\ Members(q) \cap X = {}
    <2>1. cdOrder \in [CdDrives -> Seq(ScsiReqs)] /\ Apart(cdOrder, X)
      BY <1>1 DEF ScsiHistoryOK, PlacesInv, X
    <2> QED BY <2>1, <1>4, <1>5, <1>6, <1>7, ApartTaken
  <1>9. /\ ChainsWhole' /\ listed' \in Seq(ScsiReqs) /\ (listed # <<>> => scsiLine = 1)'
        /\ firstDone' \in ScsiReqs \cup {NoReq} /\ doneTail' \in ScsiReqs \cup {ChainHead}
        /\ nextDone' \in [ScsiReqs -> ScsiReqs \cup {NoReq}] /\ scsiLine' \in {0, 1}
        /\ Members(listed') = Members(listed) \cup Members(q) /\ Distinct(listed')
    <2>0. /\ Distinct(listed) /\ Members(listed) \cap Members(given) = {} /\ listed \in Seq(ScsiReqs)
      BY <1>1 DEF PlacesInv, ScsiHistoryOK
    <2>1. CASE q = <<>>
      <3>1. UNCHANGED <<firstDone, doneTail, nextDone, scsiLine, listed>> /\ UNCHANGED chainVars
        BY <1>3, <2>1 DEF q, chainVars
      <3>2. ChainsWhole'
        BY <1>1, <1>2, <3>1, ChainsKept
      <3>3. Members(q) = {}
        BY <2>1, MembersOfNone
      <3> QED BY <1>1, <2>0, <3>1, <3>2, <3>3 DEF ScsiTypeOK, NothingWaits
    <2>2. CASE q # <<>>
      <3>1. Complete(q) /\ guestAt' = guestAt /\ given' = given
        BY <1>2, <1>3, <2>2 DEF q
      <3>2. Members(q) \cap (Members(listed) \cup Members(given)) = {}
        BY <1>8 DEF X
      <3>3. /\ ChainsWhole' /\ listed' = listed \o q /\ scsiLine' = 1
            /\ firstDone' \in ScsiReqs /\ doneTail' \in ScsiReqs
            /\ nextDone' \in [ScsiReqs -> ScsiReqs \cup {NoReq}] /\ listed' \in Seq(ScsiReqs)
        BY <1>1, <1>4, <1>8, <2>0, <3>1, <3>2, CompleteStep, Zenon
      <3>4. /\ Members(listed \o q) = Members(listed) \cup Members(q)
            /\ Distinct(listed \o q) <=> Distinct(listed) /\ Distinct(q) /\ Members(listed) \cap Members(q) = {}
        BY <1>4, <2>0, MembersOfConcat, Zenon
      <3> QED BY <1>8, <2>0, <3>2, <3>3, <3>4
    <2> QED BY <2>1, <2>2
  <1>10. PlacesInv'
    <2>1. X \cup Members(q) = guestReqs' \cup sgBusy' \cup Members(listed') \cup Members(given')
      BY <1>2, <1>9 DEF X
    <2>2. /\ Distinct(given) /\ Members(listed') \cap Members(given) = {}
          /\ sgBusy \cap (Members(listed') \cup Members(given)) = {}
          /\ guestReqs \cap (sgBusy \cup Members(listed') \cup Members(given)) = {}
      BY <1>1, <1>8, <1>9 DEF PlacesInv, X
    <2> QED BY <1>2, <1>8, <1>9, <2>1, <2>2 DEF PlacesInv
  <1>11. ScsiTypeOK'
    BY <1>1, <1>2, <1>9 DEF ScsiTypeOK
  <1>12. ScsiHistoryOK'
    BY <1>1, <1>2, <1>5, <1>7, <1>9 DEF ScsiHistoryOK
  <1>13. DriveInv(d)'
    <2>1. doneQueue'[d] = <<>> /\ cdOrder'[d] = t /\ InHand(d)' = InHand(d)
          /\ rqueue'[d] = rqueue[d] /\ cdRunning'[d] = cdRunning[d] /\ cdWork'[d] = cdWork[d]
      BY <1>1, <1>2, <1>7 DEF ScsiTypeOK, ScsiHistoryOK, InHand
    <2>2. <<>> \o InHand(d) = InHand(d)
      BY <1>4, Joining, Zenon
    <2>3. cdOrder'[d] = doneQueue'[d] \o InHand(d)' \o rqueue'[d]
      BY <2>1, <2>2, Zenon DEF t
    <2>4. DriveInv(d)
      BY <1>1
    <2> QED BY <2>1, <2>3, <2>4 DEF DriveInv
  <1>14. \A e \in CdDrives : DriveInv(e)'
    <2>1. ASSUME NEW e \in CdDrives, e # d PROVE DriveInv(e)'
      <3>1. DriveInv(e) /\ (e \in visit' <=> e \in visit)
        BY <1>1, <1>2, <2>1
      <3>2. doneQueue'[e] = doneQueue[e] /\ cdOrder'[e] = cdOrder[e]
        BY <1>1, <1>2, <1>7, <2>1 DEF ScsiTypeOK, ScsiHistoryOK
      <3> QED BY <3>1, <3>2, <1>2 DEF DriveInv, InHand
    <2> QED BY <2>1, <1>13
  <1>15. WorkerInv' /\ DriveInOrder' /\ NothingWaits'
    BY <1>9, <1>14, Zenon DEF WorkerInv, DriveInOrder, NothingWaits, DriveInv, InHand
  <1> QED BY <1>9, <1>10, <1>11, <1>12, <1>15 DEF ScsiInv

LEMMA EventStep ==
  ASSUME ScsiInv, CompletionEvent
  PROVE  ScsiInv'
  <1>1. /\ ScsiTypeOK /\ ScsiHistoryOK /\ PlacesInv /\ ChainsWhole /\ NothingWaits /\ WorkerInv /\ DriveInOrder
    BY DEF ScsiInv
  <1>2. /\ cdEvents > 0 /\ cdEvents' = cdEvents - 1 /\ visit' = CdDrives
        /\ UNCHANGED <<rqueue, doneQueue, cdRunning, cdWork, cdOrder, firstDone, doneTail, nextDone,
                       scsiLine, listed, guestReqs, guestAt, given, sgBusy, allowRead>>
    BY DEF CompletionEvent, cdVars, chainVars, guestVars
  <1>3. ScsiTypeOK' /\ ScsiHistoryOK'
    BY <1>1, <1>2, ScsiAssumption DEF ScsiTypeOK, ScsiHistoryOK
  <1>4. PlacesInv'
    BY <1>1, <1>2 DEF PlacesInv
  <1>5. ChainsWhole'
    BY <1>1, <1>2, ChainsKept DEF chainVars
  <1>6. WorkerInv'
    BY <1>1, <1>2 DEF WorkerInv
  <1>7. DriveInOrder'
    BY <1>1, <1>2, Zenon DEF DriveInOrder
  <1>8. NothingWaits'
    BY <1>1, <1>2 DEF NothingWaits
  <1> QED BY <1>3, <1>4, <1>5, <1>6, <1>7, <1>8 DEF ScsiInv

(* All of it is inductive: each request is in one place, each drive's queues   *)
(* and its thread agree with the order of execute(), and both chains are       *)
(* whole.                                                                      *)
THEOREM ScsiInvariant == ScsiSpec => []ScsiInv
  <1>1. ScsiInit => ScsiInv
    <2> SUFFICES ASSUME ScsiInit PROVE ScsiInv
      OBVIOUS
    <2> USE DEF ScsiInit
    <2>1. ScsiTypeOK /\ ScsiHistoryOK
      BY ScsiAssumption DEF ScsiTypeOK, ScsiHistoryOK
    <2>2. WorkerInv /\ NothingWaits
      BY DEF WorkerInv, NothingWaits
    <2>3. DriveInOrder
      <3>1. <<>> \o <<>> \o <<>> = <<>>
        OBVIOUS
      <3> QED BY <3>1 DEF DriveInOrder
    <2>4. PlacesInv
      BY MembersOfNone DEF PlacesInv, Apart
    <2>5. ChainsWhole
      BY DEF ChainsWhole, ChainIs
    <2> QED BY <2>1, <2>2, <2>3, <2>4, <2>5 DEF ScsiInv
  <1>2. ScsiInv /\ [ScsiNext]_scsiVars => ScsiInv'
    <2> SUFFICES ASSUME ScsiInv, [ScsiNext]_scsiVars PROVE ScsiInv'
      OBVIOUS
    <2>1. CASE \E r \in ScsiReqs : \E dev \in ScsiDevs \cup {NoTarget} : \E cmd \in ScsiCmds :
                  osip_scsi_submit(r, dev, cmd)
      BY <2>1, SubmitStepScsi
    <2>2. CASE osip_scsi_ack \/ GuestTakes \/ osip_scsi_cntrl
      BY <2>2, GuestSteps
    <2>3. CASE CompletionEvent
      BY <2>3, EventStep
    <2>4. CASE \E d \in CdDrives : complete_cd(d)
      BY <2>4, DriveStep
    <2>5. CASE \E r \in ScsiReqs : async_completion(r)
      BY <2>5, AnswerStep
    <2>6. CASE \E d \in CdDrives : WorkStep(d)
      BY <2>6, WorkerStep
    <2>7. CASE UNCHANGED scsiVars
      <3>1. UNCHANGED <<rqueue, doneQueue, cdRunning, cdWork, cdOrder, firstDone, doneTail, nextDone,
                        scsiLine, listed, guestReqs, guestAt, given, cdEvents, sgBusy, allowRead, visit>>
        BY <2>7 DEF scsiVars, cdVars, chainVars, guestVars
      <3>2. ScsiTypeOK' /\ ScsiHistoryOK' /\ PlacesInv' /\ WorkerInv'
        BY <3>1 DEF ScsiInv, ScsiTypeOK, ScsiHistoryOK, PlacesInv, WorkerInv
      <3>3. ChainsWhole' /\ DriveInOrder' /\ NothingWaits'
        BY <3>1, Zenon DEF ScsiInv, ChainsWhole, ChainIs, LastOf, DriveInOrder, NothingWaits
      <3> QED BY <3>2, <3>3 DEF ScsiInv
    <2> QED BY <2>1, <2>2, <2>3, <2>4, <2>5, <2>6, <2>7 DEF ScsiNext, ScsiCompletions
  <1> QED BY <1>1, <1>2, PTL DEF ScsiSpec

(* The request layer's variables keep their types, for any requests, drives    *)
(* and size of the event pipe.                                                 *)
THEOREM ScsiTypeCorrect == ScsiSpec => []ScsiTypeOK
  BY ScsiInvariant, PTL DEF ScsiInv

(* The chain complete() of scsi.c builds through the guest's memory is whole,  *)
(* and the one the guest walks is not touched.                                 *)
THEOREM ChainsCorrect == ScsiSpec => []ChainsWhole
  BY ScsiInvariant, PTL DEF ScsiInv

(* Queues of cd-scsi.c have a thread, done queues an event on its way and the  *)
(* chain its interrupt.                                                        *)
THEOREM RequestsMove == ScsiSpec => []NothingWaits
  BY ScsiInvariant, PTL DEF ScsiInv

(* Each drive executes its requests once and in the order of execute().        *)
THEOREM DrivesInOrder == ScsiSpec => []DriveInOrder
  BY ScsiInvariant, PTL DEF ScsiInv

(* All together: the channel's registers tell what its program does            *)
(* (ChannelTrue) ...                                                           *)
THEOREM DmaChannelCorrect == DmaSpec => []ChannelTrue
BY DmaTypeCorrect, StatusIsTrue, NoOrphan, PTL DEF ChannelTrue

(* ... and neither a late answer nor a pause moves another command             *)
(* (CommandsKept).                                                             *)
THEOREM DmaCommandsKept == DmaSpec => CommandsKept
BY LateAnswersIgnored, PauseHolds DEF CommandsKept

(* All together: one audio thread, which follows the guest's starts and stops   *)
(* and plays what it is given (SoundSafe) ...                                  *)
THEOREM SoundCorrect == SndSpec => []SoundSafe
BY SndTypeCorrect, OneAudioThread, StartsNotLost, QuietAfterStop, HandoverInOrder, PTL
   DEF SoundSafe

(* ... in the order of the ring and in one mode (EngineSteps).                 *)
THEOREM SoundStepsCorrect == SndSpec => EngineSteps
BY RingPlayedInOrder, ModeOfEngineStable DEF EngineSteps

(* All together: chains, queues and drives of the request layer agree          *)
(* (RequestsSafe).                                                             *)
THEOREM RequestsCorrect == ScsiSpec => []RequestsSafe
BY ScsiTypeCorrect, ChainsCorrect, RequestsMove, DrivesInOrder, PTL DEF RequestsSafe
=============================================================================
