-------------------------------- MODULE Usb --------------------------------
(* The OHCI host controller (drivers/usb.c): endpoints with queues of        *)
(* descriptors in guest memory, the urbs the controller gives to a device's  *)
(* client, control transfers collected from several descriptors, and the     *)
(* done list that is handed to the guest through the HCCA.                   *)
(*                                                                           *)
(* Guest and controller run on the main thread, so a register write or a     *)
(* completion by the client is not interrupted; `work' is what a call still  *)
(* has to do, in the order of the calls nested in it.  The client completes  *)
(* an urb later or, if it cannot pass it on, within the submission.          *)
(*                                                                           *)
(* A control transfer that is given up (suspend, reset, a disabled list)     *)
(* leaves the urb that waits for its answer in hc.urbs; the source marks     *)
(* this as to be handled differently, and so does PendingAnswered below.     *)
EXTENDS Naturals, Sequences, FiniteSets, SequencesExt

CONSTANTS
    BulkTds,        \* the guest's descriptors for the bulk endpoint
    CtrlTds,        \* and for the control endpoint
    MaxQueued,      \* bound: bulk descriptors and control transfers queued
    MaxUsbStops     \* bound: times the guest disables, pauses, suspends or resets

ASSUME UsbAssumption == BulkTds \cap CtrlTds = {}

VARIABLES
    ed,       \* endpoint descriptors: queue from headp to tailp, skip (K), halt (H)
    urbs,     \* hc.urbs, newest first
    cu,       \* the device's control transfer (dev->curbs), or NoCtrl
    done,     \* the list at HC_DONE_HEAD, newest first
    hcca,     \* hcca->done_head: what the guest is given
    hasHcca,  \* hc.hcca # NULL
    wdh,      \* INT_WDH in hc.irq_status
    oper,     \* IS_OPERATIONAL()
    lists,    \* CTRL_CLE, CTRL_BLE: lists that are enabled
    work,     \* rest of the call in progress
    told,     \* endpoints the guest has told the controller of (CMD_CLF, CMD_BLF)
    owed,     \* descriptors the guest has queued and waits for
    uses,     \* number of bulk descriptors and of control transfers queued
    stops

usbVars == <<ed, urbs, cu, done, hcca, hasHcca, wdh, oper, lists, work, told,
             owed, uses, stops>>
guestOnly == <<told, owed, uses, stops>>

Endpoints == {"ctrl", "bulk"}    \* each is on the list of its name

(* full: of a write, all data of the transfer are there.                     *)
NoCtrl == [xfer |-> 0, read |-> FALSE, full |-> FALSE, submitted |-> FALSE,
           answered |-> FALSE, ok |-> TRUE]

(* A descriptor in a queue: its address, its buffer (what is queued at a     *)
(* time has buffers of its own), for control the transfer it belongs to, and *)
(* what it is for.                                                           *)
Desc(t, n, x, r) == [td |-> t, use |-> n, xfer |-> x, role |-> r]
Roles == {"bulk", "read", "write", "in", "out", "statusIn", "statusOut"}
Setups == {"read", "write"}
IsRead(d) == d.role \in {"in", "statusIn"}
IsNull(d) == d.role \in {"statusIn", "statusOut"}

(* The descriptors of a control transfer: its SETUP, and data and status.    *)
Setup(read, n, t) == <<Desc(t[1], n, n, IF read THEN "read" ELSE "write")>>
DataAndStatus(read, data, n, x, t) ==
    (IF data THEN <<Desc(t[3], n, x, IF read THEN "in" ELSE "out")>> ELSE <<>>)
    \o <<Desc(t[2], n, x, IF read THEN "statusOut" ELSE "statusIn")>>

Live(e) == ~ed[e].skip /\ ~ed[e].halt
Issued(e) ==
    /\ ed[e].q # <<>>
    /\ \E i \in 1 .. Len(urbs) : urbs[i].ed = e /\ urbs[i].d.td = Head(ed[e].q).td

UsbTypeOK ==
    /\ \A e \in Endpoints : /\ ed[e].skip \in BOOLEAN /\ ed[e].halt \in BOOLEAN
                            /\ \A d \in ToSet(ed[e].q) : d.role \in Roles
    /\ cu.xfer \in 0 .. MaxQueued
    /\ \A x \in ToSet(done) \cup ToSet(hcca) : x.by \in Nat
    /\ hasHcca \in BOOLEAN /\ wdh \in BOOLEAN /\ oper \in BOOLEAN
    /\ lists \subseteq Endpoints /\ told \subseteq Endpoints
    /\ wdh \/ hcca = <<>>            \* a list in the HCCA is announced

UsbInit ==
    /\ ed = [e \in Endpoints |-> [q |-> <<>>, skip |-> FALSE, halt |-> FALSE]]
    /\ urbs = <<>> /\ cu = NoCtrl
    /\ done = <<>> /\ hcca = <<>> /\ hasHcca = FALSE /\ wdh = FALSE
    /\ oper = FALSE /\ lists = {} /\ work = <<>>
    /\ told = {} /\ owed = {} /\ uses = [bulk |-> 0, ctrl |-> 0] /\ stops = 0

-----------------------------------------------------------------------------
(* The done list goes to the guest when the guest has acknowledged the       *)
(* previous one.                                                             *)
update_done_head(dn, pending) ==
    IF hasHcca /\ dn # <<>> /\ ~pending
    THEN hcca' = dn /\ done' = <<>> /\ wdh' = TRUE
    ELSE done' = dn /\ wdh' = pending /\ UNCHANGED hcca

(* poll_lists(): the enabled lists, control first.                           *)
PollLists(on) ==
    IF ~on THEN <<>>
    ELSE SelectSeq(<<[op |-> "scan", ed |-> "ctrl"], [op |-> "scan", ed |-> "bulk"]>>,
                   LAMBDA w : w.ed \in lists)

(* The first descriptor of a live endpoint is done: it moves to the done     *)
(* list, and without an error the next one is issued.                        *)
Retire(e, by, ok, rest) ==
    /\ ed' = [ed EXCEPT ![e].q = Tail(@), ![e].halt = ~ok]
    /\ update_done_head(<<[d |-> Head(ed[e].q), by |-> by, ok |-> ok]>> \o done, wdh)
    /\ work' = (IF ok THEN <<[op |-> "issue", ed |-> e]>> ELSE <<>>) \o rest

(* Mutant: without looking at the descriptor again.                          *)
StillHotByAddress(u) ==
    /\ Live(u.ed) /\ ed[u.ed].q # <<>>
    /\ Head(ed[u.ed].q).td = u.d.td

(* complete_urb_(): the urb is dropped unless its descriptor is still the    *)
(* first of a live endpoint, with the same buffer.                           *)
StillHot(u) ==
    /\ Live(u.ed) /\ ed[u.ed].q # <<>>
    /\ Head(ed[u.ed].q).td = u.d.td /\ Head(ed[u.ed].q).use = u.d.use

DropUrb(rest) == work' = PollLists(oper) \o rest /\ UNCHANGED <<ed, done, hcca, wdh>>

complete_urb_(u, by, ok, rest) ==
    IF StillHot(u) THEN Retire(u.ed, by, ok, rest) ELSE DropUrb(rest)

-----------------------------------------------------------------------------
(* The answer to the control transfer is there and the urb of descriptor d   *)
(* is waiting: a write ends with it; a read hands over its data, which may   *)
(* be too few for the descriptor, and goes on; its status ends it.           *)
Ends(d) == ~cu.read \/ ~IsRead(d)
Answers(d, ok) ==
    IF ~cu.read THEN {ok /\ d.role = "statusIn"}
    ELSE IF IsRead(d) THEN BOOLEAN
    ELSE {ok /\ IsNull(d)}

finish_ctrl_urb(i, ok, rest) ==
    LET u == urbs[i]
    IN /\ urbs' = RemoveAt(urbs, i)
       /\ cu' = IF Ends(u.d) THEN NoCtrl ELSE [cu EXCEPT !.answered = TRUE, !.ok = ok]
       /\ \E good \in Answers(u.d, ok) : complete_urb_(u, cu.xfer, good, rest)

CtrlUrbs == {i \in 1 .. Len(urbs) : urbs[i].ed = "ctrl"}

(* The urb that is found is the newest of the endpoint, whatever transfer it *)
(* has been waiting for.                                                     *)
CtrlAnswer(ok, rest) ==
    \/ /\ CtrlUrbs = {}
       /\ cu' = [cu EXCEPT !.answered = TRUE, !.ok = ok]
       /\ work' = rest
       /\ UNCHANGED <<urbs, ed, done, hcca, wdh>>
    \/ /\ CtrlUrbs # {}
       /\ finish_ctrl_urb(CHOOSE i \in CtrlUrbs : \A j \in CtrlUrbs : i <= j, ok, rest)

-----------------------------------------------------------------------------
(* do_submit_ctrl() for the first descriptor of the control endpoint.  A     *)
(* transfer that a new SETUP finds in progress is aborted: the client        *)
(* completes it without effect.  Descriptors that are accepted at once are   *)
(* retired at once; the others wait in hc.urbs.  A read goes to the client   *)
(* after the descriptors that follow its SETUP.                              *)
SubmitSetup(d, rest) ==
    /\ d.role \in Setups
    /\ \/ cu' = NoCtrl /\ Retire("ctrl", d.xfer, FALSE, rest)        \* bad size
       \/ \E full \in BOOLEAN, read \in {d.role = "read"} :
             /\ full => ~read
             /\ cu' = [NoCtrl EXCEPT !.xfer = d.xfer, !.read = read, !.full = full,
                                     !.submitted = read]
             /\ Retire("ctrl", d.xfer, TRUE,
                       (IF read THEN <<[op |-> "submit", ed |-> "ctrl", xfer |-> d.xfer]>>
                                ELSE <<>>) \o rest)
    /\ UNCHANGED urbs

SubmitOutOfSync(d, rest) ==
    /\ d.role \notin Setups /\ cu = NoCtrl
    /\ Retire("ctrl", d.xfer, FALSE, rest)
    /\ UNCHANGED <<cu, urbs>>

UrbWaits(u, rest) ==
    /\ urbs' = <<u>> \o urbs
    /\ work' = rest
    /\ UNCHANGED <<ed, done, hcca, wdh>>

(* Data of a write: some, all, or more than were announced.  A null packet   *)
(* that comes too early passes for data.                                     *)
WriteData(d, rest) ==
    /\ ~cu.submitted /\ ~cu.full
    /\ \E full \in (IF IsNull(d) THEN {FALSE} ELSE BOOLEAN) : cu' = [cu EXCEPT !.full = full]
    /\ Retire("ctrl", cu.xfer, TRUE, rest)
    /\ UNCHANGED urbs

WriteAborted(d, rest) ==
    /\ IF cu.submitted THEN TRUE
       ELSE IF cu.full THEN d.role # "statusIn" ELSE ~IsNull(d)
    /\ cu' = NoCtrl
    /\ Retire("ctrl", d.xfer, FALSE, rest)
    /\ UNCHANGED urbs

(* The status packet of a write: it goes to the client, or is dealt with at  *)
(* once (SET_ADDRESS, or the client cannot pass it on).                      *)
WriteStatus(d, rest) ==
    /\ ~cu.submitted /\ cu.full /\ d.role = "statusIn"
    /\ \/ cu' = [cu EXCEPT !.submitted = TRUE] /\ UrbWaits([ed |-> "ctrl", d |-> d], rest)
       \/ /\ cu' = NoCtrl
          /\ \E ok \in BOOLEAN : Retire("ctrl", cu.xfer, ok, rest)
          /\ UNCHANGED urbs

SubmitWrite(d, rest) ==
    /\ d.role \notin Setups /\ cu # NoCtrl /\ ~cu.read
    /\ WriteData(d, rest) \/ WriteAborted(d, rest) \/ WriteStatus(d, rest)

(* A read whose answer is there is finished, otherwise the urb waits for it. *)
SubmitRead(d, rest) ==
    /\ d.role \notin Setups /\ cu.read
    /\ IF cu.answered
       THEN /\ cu' = IF Ends(d) THEN NoCtrl ELSE cu
            /\ \E good \in Answers(d, cu.ok) : Retire("ctrl", cu.xfer, good, rest)
            /\ UNCHANGED urbs
       ELSE UrbWaits([ed |-> "ctrl", d |-> d], rest) /\ UNCHANGED cu

do_submit_ctrl(rest) ==
    LET d == Head(ed["ctrl"].q)
    IN SubmitSetup(d, rest) \/ SubmitOutOfSync(d, rest)
       \/ SubmitWrite(d, rest) \/ SubmitRead(d, rest)

(* The client gets a read, which may have been given up meanwhile.           *)
SubmitRequest(w, rest) ==
    \/ work' = rest /\ UNCHANGED <<cu, urbs, ed, done, hcca, wdh>>
    \/ cu.xfer = w.xfer /\ \E ok \in BOOLEAN : CtrlAnswer(ok, rest)

SubmitBulk(rest) ==
    /\ \/ UrbWaits([ed |-> "bulk", d |-> Head(ed["bulk"].q)], rest)
       \/ Retire("bulk", Head(ed["bulk"].q).xfer, FALSE, rest) /\ UNCHANGED urbs
    /\ UNCHANGED cu

(* The endpoint may name an address that no device has.                      *)
NoSuchDev(e, rest) ==
    Retire(e, Head(ed[e].q).xfer, FALSE, rest) /\ UNCHANGED <<cu, urbs>>

(* process_endpoint() after a completion does not ask whether the first      *)
(* descriptor has been issued; process_list() does.                          *)
Skips(w) ==
    \/ ed[w.ed].q = <<>>
    \/ w.op = "scan" /\ (~Live(w.ed) \/ Issued(w.ed))

ProcessEndpoint ==
    /\ work # <<>>
    /\ LET w == Head(work)
           rest == Tail(work)
       IN \/ w.op = "submit" /\ SubmitRequest(w, rest)
          \/ /\ w.op # "submit" /\ Skips(w)
             /\ work' = rest /\ UNCHANGED <<cu, urbs, ed, done, hcca, wdh>>
          \/ /\ w.op # "submit" /\ ~Skips(w)
             /\ \/ w.ed = "ctrl" /\ do_submit_ctrl(rest)
                \/ w.ed = "bulk" /\ SubmitBulk(rest)
                \/ NoSuchDev(w.ed, rest)
    /\ UNCHANGED <<hasHcca, oper, lists, guestOnly>>

-----------------------------------------------------------------------------
(* The client completes an urb.                                              *)
Idle == work = <<>>

complete_data_urb(i, ok) ==
    /\ Idle /\ i \in 1 .. Len(urbs) /\ urbs[i].ed = "bulk"
    /\ urbs' = RemoveAt(urbs, i)
    /\ IF ~oper \/ "bulk" \notin lists
       THEN UNCHANGED <<ed, done, hcca, wdh, work>>
       ELSE complete_urb_(urbs[i], urbs[i].d.xfer, ok, <<>>)
    /\ UNCHANGED <<cu, hasHcca, oper, lists, guestOnly>>

(* A transfer that ends while the controller or the list is off is given up; *)
(* its urb stays.                                                            *)
complete_ctrl_urb(ok) ==
    /\ Idle /\ cu.submitted /\ ~cu.answered
    /\ IF oper /\ "ctrl" \in lists THEN CtrlAnswer(ok, <<>>)
       ELSE cu' = NoCtrl /\ UNCHANGED <<urbs, ed, done, hcca, wdh, work>>
    /\ UNCHANGED <<hasHcca, oper, lists, guestOnly>>

-----------------------------------------------------------------------------
(* The guest.                                                                *)
InUse == {d.td : d \in owed}

(* Descriptors are appended; only for an empty queue the guest must tell the *)
(* controller.                                                               *)
Enqueue(e, s) ==
    /\ Idle
    /\ ed' = [ed EXCEPT ![e].q = @ \o s]
    /\ uses' = [uses EXCEPT ![e] = @ + 1]
    /\ owed' = owed \cup ToSet(s)
    /\ told' = IF ed[e].q = <<>> THEN told \ {e} ELSE told
    /\ UNCHANGED <<urbs, cu, done, hcca, hasHcca, wdh, oper, lists, work, stops>>

EnqueueBulk(t) ==
    /\ uses.bulk + uses.ctrl < MaxQueued /\ t \in BulkTds \ InUse
    /\ Enqueue("bulk", <<Desc(t, uses.bulk + 1, uses.bulk + 1, "bulk")>>)

(* A control transfer as a whole, its SETUP alone, or the rest of the        *)
(* transfer whose SETUP the controller has seen (or of none), which may not  *)
(* fit it.                                                                   *)
EnqueueCtrl(read, data, part) ==
    LET t == SetToSeq(CtrlTds)
        n == uses.ctrl + 1
    IN /\ uses.bulk + uses.ctrl < MaxQueued /\ CtrlTds \cap InUse = {}
       /\ \/ /\ part = "whole"
             /\ Enqueue("ctrl", Setup(read, n, t) \o DataAndStatus(read, data, n, n, t))
          \/ /\ part = "setup" /\ ~data
             /\ Enqueue("ctrl", Setup(read, n, t))
          \/ /\ part = "rest"
             /\ Enqueue("ctrl", DataAndStatus(read, data, n,
                                              IF cu = NoCtrl THEN n ELSE cu.xfer, t))

(* HC_CMD_STATUS with CMD_CLF and CMD_BLF.  The guest writes it when it has   *)
(* something new on a list that is enabled.                                  *)
Filled ==
    /\ Idle /\ oper /\ ~(lists \subseteq told)
    /\ work' = PollLists(TRUE)
    /\ told' = told \cup lists
    /\ UNCHANGED <<ed, urbs, cu, done, hcca, hasHcca, wdh, oper, lists, owed, uses, stops>>

(* HC_CONTROL with other list bits: nothing is polled.                       *)
EnableLists ==
    /\ Idle /\ hasHcca /\ lists # Endpoints
    /\ lists' = Endpoints /\ told' = told \cap lists
    /\ UNCHANGED <<ed, urbs, cu, done, hcca, hasHcca, wdh, oper, work, owed, uses, stops>>

DisableList(e) ==
    /\ Idle /\ stops < MaxUsbStops /\ e \in lists
    /\ lists' = lists \ {e} /\ stops' = stops + 1
    /\ UNCHANGED <<ed, urbs, cu, done, hcca, hasHcca, wdh, oper, work, told, owed, uses>>

(* HC_CONTROL with another functional state.                                 *)
GoOperational ==
    /\ Idle /\ hasHcca /\ ~oper
    /\ oper' = TRUE
    /\ update_done_head(done, wdh)
    /\ work' = PollLists(TRUE)
    /\ told' = lists
    /\ UNCHANGED <<ed, urbs, cu, hasHcca, lists, owed, uses, stops>>

Suspend ==
    /\ Idle /\ oper /\ stops < MaxUsbStops
    /\ oper' = FALSE /\ stops' = stops + 1
    /\ UNCHANGED <<ed, urbs, cu, done, hcca, hasHcca, wdh, lists, work, told, owed, uses>>

(* HC_CMD_STATUS with CMD_HCR: the registers are cleared but for the list    *)
(* bits, the functional state is suspend; irq_status and hc.urbs stay.  The  *)
(* guest takes all descriptors back.                                         *)
hc_reset ==
    /\ Idle /\ hasHcca /\ stops < MaxUsbStops
    /\ oper' = FALSE /\ done' = <<>> /\ hasHcca' = FALSE
    /\ ed' = [e \in Endpoints |-> [q |-> <<>>, skip |-> FALSE, halt |-> FALSE]]
    /\ hcca' = <<>> /\ owed' = {} /\ told' = {} /\ stops' = stops + 1
    /\ UNCHANGED <<urbs, cu, wdh, lists, work, uses>>

(* HC_HCCA and the heads of the lists.                                       *)
SetHcca ==
    /\ Idle /\ ~hasHcca
    /\ hasHcca' = TRUE
    /\ UNCHANGED <<ed, urbs, cu, done, hcca, wdh, oper, lists, work, guestOnly>>

(* The guest pauses an endpoint (K), and later lets it go on, with its       *)
(* descriptors or without them.  A halted endpoint is restarted without.     *)
Skip(e) ==
    /\ Idle /\ stops < MaxUsbStops /\ ~ed[e].skip
    /\ ed' = [ed EXCEPT ![e].skip = TRUE] /\ stops' = stops + 1
    /\ UNCHANGED <<urbs, cu, done, hcca, hasHcca, wdh, oper, lists, work, told, owed, uses>>

Restart(e, keep) ==
    /\ Idle /\ ~Live(e) /\ (keep => ~ed[e].halt)
    /\ ed' = [ed EXCEPT ![e] = [q |-> IF keep THEN @.q ELSE <<>>, skip |-> FALSE,
                                halt |-> FALSE]]
    /\ owed' = IF keep THEN owed ELSE owed \ ToSet(ed[e].q)
    /\ told' = told \ {e}
    /\ UNCHANGED <<urbs, cu, done, hcca, hasHcca, wdh, oper, lists, work, uses, stops>>

(* The guest's interrupt handler: it takes the list, then acknowledges.      *)
TakeDone ==
    /\ Idle /\ wdh /\ hcca # <<>>
    /\ owed' = owed \ {x.d : x \in ToSet(hcca)}
    /\ hcca' = <<>>
    /\ UNCHANGED <<ed, urbs, cu, done, hasHcca, wdh, oper, lists, work, told, uses, stops>>

(* Mutant: the next list waits for the next completion.                      *)
AckDoneOnly ==
    /\ Idle /\ wdh /\ hcca = <<>>
    /\ wdh' = FALSE
    /\ UNCHANGED <<ed, urbs, cu, done, hcca, hasHcca, oper, lists, work, guestOnly>>

(* HC_INT_STATUS with INT_WDH.                                               *)
AckDone ==
    /\ Idle /\ wdh /\ hcca = <<>>
    /\ update_done_head(done, FALSE)
    /\ UNCHANGED <<ed, urbs, cu, hasHcca, oper, lists, work, guestOnly>>

UsbNext ==
    \/ ProcessEndpoint
    \/ \E i \in 1 .. Len(urbs), ok \in BOOLEAN : complete_data_urb(i, ok)
    \/ \E ok \in BOOLEAN : complete_ctrl_urb(ok)
    \/ \E t \in BulkTds : EnqueueBulk(t)
    \/ \E read, data \in BOOLEAN, part \in {"whole", "setup", "rest"} :
           EnqueueCtrl(read, data, part)
    \/ Filled \/ GoOperational \/ Suspend \/ hc_reset \/ SetHcca \/ EnableLists
    \/ \E e \in Endpoints : DisableList(e) \/ Skip(e)
    \/ \E e \in Endpoints, keep \in BOOLEAN : Restart(e, keep)
    \/ TakeDone \/ AckDone

(* The client completes what it was given; the guest, when it waits for      *)
(* descriptors, brings the controller and its endpoints back into operation, *)
(* tells it of new descriptors and handles its interrupt.                    *)
UsbFairness ==
    /\ WF_usbVars(ProcessEndpoint)
    /\ WF_usbVars(\E i \in 1 .. Len(urbs), ok \in BOOLEAN : complete_data_urb(i, ok))
    /\ WF_usbVars(\E ok \in BOOLEAN : complete_ctrl_urb(ok))
    /\ WF_usbVars(Filled)
    /\ WF_usbVars(owed # {} /\ (SetHcca \/ GoOperational \/ EnableLists))
    /\ WF_usbVars(\E e \in Endpoints, keep \in BOOLEAN : Restart(e, keep))
    /\ WF_usbVars(TakeDone) /\ WF_usbVars(AckDone)

UsbSpec == UsbInit /\ [][UsbNext]_usbVars /\ UsbFairness

-----------------------------------------------------------------------------
(* No descriptor vanishes and none is given back twice: what the guest waits *)
(* for is once in a queue, on the done list, or in the HCCA, also when       *)
(* completions come while the guest is still reading the previous list.      *)
NothingVanishes ==
    LET all == ed["ctrl"].q \o ed["bulk"].q \o [i \in 1 .. Len(done) |-> done[i].d]
               \o [i \in 1 .. Len(hcca) |-> hcca[i].d]
    IN ToSet(all) = owed /\ Len(all) = Cardinality(owed)

(* The done list, newest first, has the descriptors of an endpoint in the    *)
(* order in which they were queued, and all before those still queued.       *)
RetiredInOrder ==
    LET uses_ == [i \in 1 .. Len(done \o hcca) |-> (done \o hcca)[i].d]
    IN \A i, j \in 1 .. Len(uses_) :
           i < j /\ uses_[i].role = "bulk" /\ uses_[j].role = "bulk"
               => uses_[i].use > uses_[j].use

(* A descriptor is only ever completed by the urb that was submitted for it, *)
(* or by the answer to its own transfer: an urb that comes back after the    *)
(* guest took its descriptor away and used it again is dropped.              *)
OwnAnswer == \A x \in ToSet(done) \cup ToSet(hcca) : x.by = x.d.xfer

(* A descriptor is not given to the device twice at a time.                  *)
OneInFlight ==
    \A i, j \in 1 .. Len(urbs) : i # j => urbs[i] # urbs[j]

(* The controller does not lose sight of an endpoint: once it has been told, *)
(* there is an urb for the first descriptor of each live endpoint, whatever  *)
(* completed, was dropped or was discarded meanwhile.                        *)
HeadIssued ==
    Idle /\ oper => \A e \in lists \cap told :
                       Live(e) /\ ed[e].q # <<>> => Issued(e)

(* A control urb that waits for the transfer in progress waits for an answer *)
(* that the client still has to give; and as long as the guest has stopped   *)
(* nothing, no urb waits for a transfer that was given up (afterwards one    *)
(* may, and the controller does not issue its descriptor again).             *)
PendingAnswered ==
    /\ \A i \in CtrlUrbs : StillHot(urbs[i]) /\ urbs[i].d.xfer = cu.xfer
                              => cu.submitted /\ ~cu.answered
    /\ stops = 0 => \A i \in CtrlUrbs : urbs[i].d.xfer = cu.xfer

(* What the guest queues comes back, unless the guest takes it back: the      *)
(* guest queues a bounded number of descriptors and again and again has none  *)
(* of the bulk endpoint outstanding.                                         *)
DescriptorsReturn == []<>(\A d \in owed : d.role # "bulk")

(* Descriptors are safe: none is lost or given back twice or out of order,   *)
(* each is completed by its own urb or answer, none is given to the device   *)
(* twice at a time, no endpoint is forgotten, and a control urb only if the  *)
(* guest has stopped the controller in the middle of its transfer.           *)
DescriptorsSafe ==
    UsbTypeOK /\ NothingVanishes /\ RetiredInOrder /\ OwnAnswer
    /\ OneInFlight /\ HeadIssued /\ PendingAnswered
=============================================================================
