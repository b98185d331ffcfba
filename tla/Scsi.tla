-------------------------------- MODULE Scsi --------------------------------
(***************************************************************************)
(* The SCSI host controller: requests of the guest go to CD drives, each     *)
(* served by a thread that comes and goes with its queue, or to a generic   *)
(* device, whose answers Linux gives in any order.  The main thread links   *)
(* completed requests into a chain through the guest's own memory, by a      *)
(* pointer to the field to write next, and hands the chain over when the    *)
(* guest acknowledges the interrupt.                                        *)
(*                                                                         *)
(* Everything but the drives' threads runs on the main thread, as the guest *)
(* does.  The data, the status and the sense bytes of a request are left     *)
(* out, and the list of the generic device, which nobody reads, is a set.   *)
(*                                                                         *)
(* Sources: drivers/disk/scsi.c, cd-scsi.c, sg-scsi.c.                      *)
(***************************************************************************)
EXTENDS Integers, Sequences, FiniteSets

CONSTANTS
    ScsiReqs,       \* request blocks in guest memory
    CdDrives,       \* drives served by cd-scsi.c
    MaxAevents      \* aevents the pipe of async.c holds

Generic == "sg"
NoTarget == "no target"
NoReq == "0"
ChainHead == "&sc.first_completed"

ASSUME ScsiAssumption == MaxAevents \in Nat \ {0} /\ {NoReq, ChainHead} \cap ScsiReqs = {}

ScsiDevs == CdDrives \cup {Generic}
ScsiCmds == {"INQUIRY", "READ", "MODE_SENSE", "other"}

VARIABLES
    rqueue, doneQueue, cdRunning,   \* of each drive (idev_t)
    cdWork,         \* the thread of each drive: pc and request
    cdEvents,       \* completion aevents in the pipe
    sgBusy,         \* requests Linux works on for the generic device
    allowRead,      \* devices with hack_allow_read set
    firstDone, doneTail,            \* sc.first_completed, what completed_tail points into
    nextDone,       \* next_completed of each request, in guest memory
    scsiLine,       \* the interrupt
    visit,          \* drives complete() of cd-scsi.c has still to look at
    guestReqs,      \* requests that belong to the guest
    guestAt,        \* the chain the guest walks
    listed, given, cdOrder          \* history: completed, handed over, outstanding per drive

cdVars == <<rqueue, doneQueue, cdRunning, cdWork, cdOrder>>
chainVars == <<firstDone, doneTail, nextDone, scsiLine, listed>>
guestVars == <<guestReqs, guestAt, given>>
scsiVars == <<cdVars, chainVars, guestVars, cdEvents, sgBusy, allowRead, visit>>

ScsiTypeOK ==
    /\ rqueue \in [CdDrives -> Seq(ScsiReqs)] /\ doneQueue \in [CdDrives -> Seq(ScsiReqs)]
    /\ cdRunning \in [CdDrives -> BOOLEAN]
    /\ cdWork \in [CdDrives -> [pc : {"none", "look", "exec", "send"}, u : ScsiReqs \cup {NoReq}]]
    /\ cdEvents \in 0 .. MaxAevents /\ sgBusy \subseteq ScsiReqs /\ allowRead \subseteq ScsiDevs
    /\ firstDone \in ScsiReqs \cup {NoReq} /\ doneTail \in ScsiReqs \cup {ChainHead}
    /\ nextDone \in [ScsiReqs -> ScsiReqs \cup {NoReq}] /\ scsiLine \in {0, 1}
    /\ visit \subseteq CdDrives
    /\ guestReqs \subseteq ScsiReqs /\ guestAt \in ScsiReqs \cup {NoReq}

(* The state after SCSI_CTRL_INIT, the first call of the guest's driver.     *)
ScsiInit ==
    /\ rqueue = [d \in CdDrives |-> <<>>] /\ doneQueue = [d \in CdDrives |-> <<>>]
    /\ cdRunning = [d \in CdDrives |-> FALSE]
    /\ cdWork = [d \in CdDrives |-> [pc |-> "none", u |-> NoReq]]
    /\ cdEvents = 0 /\ sgBusy = {} /\ allowRead = {}
    /\ firstDone = NoReq /\ doneTail = ChainHead
    /\ nextDone = [r \in ScsiReqs |-> NoReq] /\ scsiLine = 0
    /\ visit = {} /\ guestReqs = ScsiReqs /\ guestAt = NoReq
    /\ listed = <<>> /\ given = <<>> /\ cdOrder = [d \in CdDrives |-> <<>>]

GuestRuns == visit = {}
LastOf(s) == s[Len(s)]

-----------------------------------------------------------------------------
(* complete() of scsi.c for the requests of s, one after the other: each     *)
(* goes where completed_tail points.                                         *)
Complete(s) ==
    /\ s # <<>>
    /\ firstDone' = IF doneTail = ChainHead THEN s[1] ELSE firstDone
    /\ nextDone' = [r \in ScsiReqs |->
            IF \E k \in DOMAIN s : s[k] = r
            THEN LET k == CHOOSE k \in DOMAIN s : s[k] = r
                 IN IF k < Len(s) THEN s[k + 1] ELSE NoReq
            ELSE IF r = doneTail THEN s[1] ELSE nextDone[r]]
    /\ doneTail' = LastOf(s)
    /\ scsiLine' = 1
    /\ listed' = listed \o s

(* hack_execute_hook(): mode commands, and reads before the device is set up. *)
Aborts(dev, cmd) == cmd = "MODE_SENSE" \/ (dev \notin allowRead /\ cmd = "READ")

(* execute() of cd-scsi.c: a thread is started if none runs.                 *)
execute_cd(d, r) ==
    /\ rqueue' = [rqueue EXCEPT ![d] = Append(@, r)]
    /\ cdOrder' = [cdOrder EXCEPT ![d] = Append(@, r)]
    /\ cdRunning' = [cdRunning EXCEPT ![d] = TRUE]
    /\ cdWork' = IF cdRunning[d] THEN cdWork ELSE [cdWork EXCEPT ![d].pc = "look"]
    /\ UNCHANGED <<doneQueue, sgBusy, chainVars>>

(* execute() of sg-scsi.c: a request Linux refuses is completed at once.     *)
execute_sg(r) ==
    /\ \/ sgBusy' = sgBusy \cup {r} /\ UNCHANGED chainVars
       \/ Complete(<<r>>) /\ UNCHANGED sgBusy
    /\ UNCHANGED cdVars

osip_scsi_submit(r, dev, cmd) ==
    /\ GuestRuns /\ r \in guestReqs
    /\ guestReqs' = guestReqs \ {r}
    /\ IF dev = NoTarget \/ Aborts(dev, cmd)
       THEN Complete(<<r>>) /\ UNCHANGED <<cdVars, sgBusy, allowRead>>
       ELSE /\ allowRead' = IF cmd = "INQUIRY" THEN allowRead ELSE allowRead \cup {dev}
            /\ IF dev = Generic THEN execute_sg(r) ELSE execute_cd(dev, r)
    /\ UNCHANGED <<guestAt, given, cdEvents, visit>>

(* osip_scsi_ack(): the chain is the guest's from here on.                   *)
(* Mutant: the end of the old chain is kept. *)
osip_scsi_ack_keeps_tail ==
    /\ GuestRuns /\ guestAt = NoReq /\ scsiLine = 1
    /\ scsiLine' = 0
    /\ guestAt' = firstDone /\ given' = listed
    /\ firstDone' = NoReq /\ listed' = <<>>
    /\ UNCHANGED <<cdVars, doneTail, nextDone, guestReqs, cdEvents, sgBusy, allowRead, visit>>

osip_scsi_ack ==
    /\ GuestRuns /\ guestAt = NoReq /\ scsiLine = 1
    /\ scsiLine' = 0
    /\ guestAt' = firstDone /\ given' = listed
    /\ firstDone' = NoReq /\ doneTail' = ChainHead /\ listed' = <<>>
    /\ UNCHANGED <<cdVars, nextDone, guestReqs, cdEvents, sgBusy, allowRead, visit>>

(* The guest takes the requests of its chain, and may use them again.        *)
GuestTakes ==
    /\ GuestRuns /\ guestAt # NoReq
    /\ guestReqs' = guestReqs \cup {guestAt}
    /\ guestAt' = nextDone[guestAt] /\ given' = Tail(given)
    /\ UNCHANGED <<cdVars, chainVars, cdEvents, sgBusy, allowRead, visit>>

(* osip_scsi_cntrl(): what is on the chain is forgotten by both sides.       *)
osip_scsi_cntrl ==
    /\ GuestRuns /\ guestAt = NoReq /\ listed # <<>>
    /\ firstDone' = NoReq /\ doneTail' = ChainHead /\ listed' = <<>>
    /\ guestReqs' = guestReqs \cup {listed[k] : k \in DOMAIN listed}
    /\ UNCHANGED <<cdVars, nextDone, scsiLine, guestAt, given, cdEvents, sgBusy, allowRead, visit>>

-----------------------------------------------------------------------------
(* async_completion() of sg-scsi.c, for an answer of Linux.                  *)
async_completion(r) ==
    /\ GuestRuns /\ r \in sgBusy
    /\ sgBusy' = sgBusy \ {r}
    /\ Complete(<<r>>)
    /\ UNCHANGED <<cdVars, guestVars, cdEvents, allowRead, visit>>

(* The aevent, and complete() of cd-scsi.c drive by drive, under its lock.   *)
CompletionEvent ==
    /\ GuestRuns /\ cdEvents > 0
    /\ cdEvents' = cdEvents - 1 /\ visit' = CdDrives
    /\ UNCHANGED <<cdVars, chainVars, guestVars, sgBusy, allowRead>>

complete_cd(d) ==
    /\ d \in visit
    /\ visit' = visit \ {d}
    /\ doneQueue' = [doneQueue EXCEPT ![d] = <<>>]
    /\ cdOrder' = [cdOrder EXCEPT ![d] = SubSeq(@, Len(doneQueue[d]) + 1, Len(@))]
    /\ IF doneQueue[d] = <<>> THEN UNCHANGED chainVars ELSE Complete(doneQueue[d])
    /\ UNCHANGED <<rqueue, cdRunning, cdWork, guestVars, cdEvents, sgBusy, allowRead>>

(* workloop(): the decision to end and its mark are under the lock.          *)
(* Mutant: the thread ends without a mark. *)
WorkTakesUnmarked(d) ==
    /\ cdWork[d].pc = "look"
    /\ IF rqueue[d] = <<>>
       THEN cdWork' = [cdWork EXCEPT ![d].pc = "none"] /\ UNCHANGED rqueue
       ELSE /\ rqueue' = [rqueue EXCEPT ![d] = Tail(@)]
            /\ cdWork' = [cdWork EXCEPT ![d] = [pc |-> "exec", u |-> Head(rqueue[d])]]
    /\ UNCHANGED <<cdRunning, doneQueue, cdOrder, chainVars, guestVars, cdEvents, sgBusy,
                   allowRead, visit>>

WorkTakes(d) ==
    /\ cdWork[d].pc = "look"
    /\ IF rqueue[d] = <<>>
       THEN /\ cdRunning' = [cdRunning EXCEPT ![d] = FALSE]
            /\ cdWork' = [cdWork EXCEPT ![d].pc = "none"]
            /\ UNCHANGED rqueue
       ELSE /\ rqueue' = [rqueue EXCEPT ![d] = Tail(@)]
            /\ cdWork' = [cdWork EXCEPT ![d] = [pc |-> "exec", u |-> Head(rqueue[d])]]
            /\ UNCHANGED cdRunning
    /\ UNCHANGED <<doneQueue, cdOrder, chainVars, guestVars, cdEvents, sgBusy, allowRead, visit>>

(* do_execute(): the command, then the done queue, then the aevent.          *)
do_execute(d) ==
    /\ cdWork[d].pc = "exec"
    /\ doneQueue' = [doneQueue EXCEPT ![d] = Append(@, cdWork[d].u)]
    /\ cdWork' = [cdWork EXCEPT ![d] = [pc |-> "send", u |-> NoReq]]
    /\ UNCHANGED <<rqueue, cdRunning, cdOrder, chainVars, guestVars, cdEvents, sgBusy, allowRead,
                   visit>>

WorkSends(d) ==
    /\ cdWork[d].pc = "send" /\ cdEvents < MaxAevents
    /\ cdEvents' = cdEvents + 1
    /\ cdWork' = [cdWork EXCEPT ![d].pc = "look"]
    /\ UNCHANGED <<rqueue, doneQueue, cdRunning, cdOrder, chainVars, guestVars, sgBusy, allowRead,
                   visit>>

-----------------------------------------------------------------------------
WorkStep(d) == WorkTakes(d) \/ do_execute(d) \/ WorkSends(d)
ScsiCompletions == CompletionEvent \/ \E d \in CdDrives : complete_cd(d)

ScsiNext ==
    \/ \E r \in ScsiReqs : \E dev \in ScsiDevs \cup {NoTarget} : \E cmd \in ScsiCmds :
          osip_scsi_submit(r, dev, cmd)
    \/ osip_scsi_ack \/ GuestTakes \/ osip_scsi_cntrl \/ ScsiCompletions
    \/ \E r \in ScsiReqs : async_completion(r)
    \/ \E d \in CdDrives : WorkStep(d)

(* Threads run, Linux answers, the main loop serves its descriptors between  *)
(* turns of the guest, and the guest serves its interrupt.  The main thread   *)
(* does other work in between: hence strong fairness where it may interfere. *)
ScsiFairness ==
    /\ \A d \in CdDrives : WF_scsiVars(WorkStep(d))
    /\ \A r \in ScsiReqs : SF_scsiVars(async_completion(r))
    /\ WF_scsiVars(ScsiCompletions)
    /\ SF_scsiVars(osip_scsi_ack) /\ WF_scsiVars(GuestTakes)

ScsiSpec == ScsiInit /\ [][ScsiNext]_scsiVars /\ ScsiFairness

-----------------------------------------------------------------------------
(* The chain that starts at p consists of the requests of s.                 *)
ChainIs(p, s) ==
    IF s = <<>> THEN p = NoReq
    ELSE /\ p = s[1] /\ nextDone[LastOf(s)] = NoReq
         /\ \A k \in 1 .. Len(s) - 1 : nextDone[s[k]] = s[k + 1]

(* The chain built through guest memory is whole: it has each completed      *)
(* request once, in the order of completion, completed_tail points to its    *)
(* end, and the chain the guest walks is not touched any more, although the  *)
(* guest uses requests of it again.                                          *)
ChainsWhole ==
    /\ ChainIs(firstDone, listed) /\ ChainIs(guestAt, given)
    /\ doneTail = IF listed = <<>> THEN ChainHead ELSE LastOf(listed)

(* Nothing waits for something nobody will do: a queue that is not empty has *)
(* a thread, a done queue has an event on its way, and the chain its         *)
(* interrupt.                                                                *)
NothingWaits ==
    /\ \A d \in CdDrives :
          /\ rqueue[d] # <<>> => cdRunning[d] /\ cdWork[d].pc # "none"
          /\ doneQueue[d] # <<>> => cdEvents > 0 \/ cdWork[d].pc = "send" \/ d \in visit
    /\ listed # <<>> => scsiLine = 1

(* A drive executes the guest's requests in the order they were submitted,   *)
(* each of them once, although threads come and go.                          *)
DriveInOrder ==
    \A d \in CdDrives :
        cdOrder[d] = doneQueue[d] \o (IF cdWork[d].pc = "exec" THEN <<cdWork[d].u>> ELSE <<>>)
                                  \o rqueue[d]

(* Every request the guest submits comes back to it.                         *)
ScsiReturns == \A r \in ScsiReqs : r \notin guestReqs ~> r \in guestReqs

(* Requests are safe: both chains are whole, every queue has somebody who    *)
(* will look at it, and each drive executes its requests once and in order.  *)
RequestsSafe == ScsiTypeOK /\ ChainsWhole /\ NothingWaits /\ DriveInOrder
=============================================================================
