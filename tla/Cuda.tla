-------------------------------- MODULE Cuda --------------------------------
(***************************************************************************)
(* The CUDA microcontroller behind the VIA, and the ADB keyboard and mouse  *)
(* behind it.  Guest and CUDA exchange bytes through the VIA's shift         *)
(* register under the handshake lines TIP, TACK (the guest's) and TREQ      *)
(* (CUDA's); a timer raises the shift register interrupt after each byte.   *)
(* Keys, mouse movements and one-second ticks come at any moment, also       *)
(* between two register accesses of the guest, and may collide with a        *)
(* command the guest begins to send.                                        *)
(*                                                                         *)
(* Register accesses, timers and input handlers run on the main thread, one  *)
(* at a time.  The guest's driver is external: an interrupt driven driver    *)
(* that follows the handshake, gives way when its command collides with a    *)
(* message, and may synchronise while it is idle.  A reply of several bytes  *)
(* is one of ReplyLen, its contents are left out except for the keys in it.  *)
(* Not modelled: the VIA's timers 1 and 2 and its interrupt enable register, *)
(* power-down, the clock, the change of ADB addresses and stop_input.        *)
(*                                                                         *)
(* Sources: drivers/via-cuda.c, drivers/adb.c.                              *)
(***************************************************************************)
EXTENDS Integers, Sequences

CONSTANTS
    ReplyLen,       \* bytes of a reply (3 to 7 in the code)
    CommandLen,     \* bytes of a command
    BufferLen,      \* VIA_BUFFER_LEN
    KeyBufSize,     \* KEY_BUF_SIZE
    MaxInput,       \* bound: keys and mouse movements
    MaxTicks,       \* bound: one-second ticks
    MaxCommands     \* bound: commands and synchronisations of the guest

ASSUME CudaAssumption ==
    /\ {ReplyLen, CommandLen, BufferLen, KeyBufSize} \subseteq Nat \ {0}
    /\ {MaxInput, MaxTicks, MaxCommands} \subseteq Nat
    /\ 1 < ReplyLen /\ ReplyLen <= BufferLen /\ 1 < CommandLen /\ CommandLen <= BufferLen
    /\ 1 < KeyBufSize

VARIABLES
    cuda,       \* via, cuda and the ADB devices
    cdrv        \* the guest's driver (external)

cudaVars == <<cuda, cdrv>>

(* sr: the shift register, i for byte i of CUDA's message, -i for byte i of  *)
(* the guest's command, 0 for none.  All lines are low until the driver      *)
(* opens the port.                                                           *)
CudaInit ==
    /\ cuda = [tack |-> 0, tip |-> 0, treq |-> 0,
               sr |-> 0, srActive |-> FALSE, srInt |-> FALSE,
               outN |-> 0, outReq |-> 0, keys |-> <<>>, fill |-> FALSE,
               inN |-> 0, inFrom |-> 0,
               autopoll |-> FALSE, onesec |-> FALSE, pending |-> 0,
               replies |-> 0, seconds |-> 0,        \* timers that run
               kbd |-> <<>>, kbdReq |-> FALSE,
               move |-> 0, dirty |-> FALSE, mouseReq |-> FALSE,
               keysIn |-> 0, keysOut |-> 0, len |-> 0, inputs |-> 0, ticks |-> 0,   \* history
               misread |-> FALSE, exited |-> FALSE]
    /\ cdrv = [st |-> "idle", pc |-> "off", sent |-> 0, got |-> 0,
               plan |-> [write |-> FALSE, lines |-> "keep", to |-> "idle"],
               announced |-> FALSE, retry |-> FALSE, ops |-> 0]

CudaTypeOK ==
    /\ {cuda.tack, cuda.tip, cuda.treq} \subseteq {0, 1}
    /\ cuda.outN \in 0 .. BufferLen - 1 /\ cuda.outReq \in 0 .. BufferLen
    /\ cuda.outN <= cuda.outReq /\ cuda.inN \in 0 .. BufferLen
    /\ Len(cuda.kbd) < KeyBufSize /\ cuda.replies \in Nat
    /\ (cuda.mouseReq => cuda.dirty) /\ (cuda.kbdReq => cuda.kbd # <<>>)

-----------------------------------------------------------------------------
(* The VIA's shift register.  A shift that is asked for while one is active  *)
(* shares its interrupt.                                                     *)
via_sr_int_post(s) == [s EXCEPT !.srActive = TRUE]
via_dummy_shift(s) == via_sr_int_post([s EXCEPT !.sr = 0])

cuda_msg_avail(s) == s.outReq > 0

(* via_cuda_reply() and via_cuda_set_reply_buffer(); a reply that is set     *)
(* while one is being sent has the length of the whole buffer.               *)
via_cuda_reply(s, len, keys) ==
    [s EXCEPT !.outReq = IF s.outN # 0 THEN BufferLen ELSE len, !.keys = keys,
              !.len = IF s.outN # 0 THEN BufferLen ELSE len]

-----------------------------------------------------------------------------
(* kbd_read_reg() and mouse_read_reg() of register 0: up to two keys, or a   *)
(* step of the movement; nothing if there is nothing.                        *)
kbd_read_reg(s) ==
    LET n == IF Len(s.kbd) < 2 THEN Len(s.kbd) ELSE 2
        rest == SubSeq(s.kbd, n + 1, Len(s.kbd))
    IN via_cuda_reply([s EXCEPT !.kbd = rest, !.kbdReq = IF rest = <<>> THEN FALSE ELSE @],
                      IF n = 0 THEN 0 ELSE ReplyLen, SubSeq(s.kbd, 1, n))

mouse_read_reg(s) ==
    LET left == IF s.move > 1 THEN s.move - 1 ELSE 0
    IN IF ~s.dirty THEN via_cuda_reply([s EXCEPT !.mouseReq = FALSE], 0, <<>>)
       ELSE via_cuda_reply([s EXCEPT !.move = left,
                                     !.dirty = left # 0,
                                     !.mouseReq = IF left = 0 THEN FALSE ELSE @],
                           ReplyLen, <<>>)

(* adb_poll(): the mouse was registered last and is asked first.             *)
adb_poll(s) ==
    IF s.mouseReq THEN mouse_read_reg(s) ELSE IF s.kbdReq THEN kbd_read_reg(s) ELSE s
adb_mes_avail(s) == s.mouseReq \/ s.kbdReq

(* adb_service_request().                                                    *)
(* Mutant: a transfer in progress is not spared. *)
MayServeAnytime(s) == (s.autopoll \/ s.onesec) /\ s.outReq = 0

MayServe(s) ==
    (s.autopoll \/ s.onesec) /\ s.tip = 1 /\ s.tack = 1 /\ s.outReq = 0

adb_service_request(s) ==
    IF MayServe(s) THEN via_dummy_shift([s EXCEPT !.fill = TRUE, !.treq = 0]) ELSE s

-----------------------------------------------------------------------------
(* cuda_packet() and adb_packet(): commands that change state, Talk of       *)
(* register 0, and the others, which only get a reply.                       *)
CudaCommands == {"auto_on", "auto_off", "sec_on", "sec_off", "talk_kbd", "talk_mouse", "other"}

Execute(s, cmd) ==
    CASE cmd = "talk_kbd" -> kbd_read_reg(s)
      [] cmd = "talk_mouse" -> mouse_read_reg(s)
      [] OTHER -> via_cuda_reply(
            [s EXCEPT !.autopoll = IF cmd = "auto_on" THEN TRUE ELSE IF cmd = "auto_off" THEN FALSE ELSE @,
                      !.onesec = IF cmd = "sec_on" THEN TRUE ELSE IF cmd = "sec_off" THEN FALSE ELSE @,
                      !.seconds = IF cmd = "sec_on" THEN @ + 1 ELSE @], ReplyLen, <<>>)

cuda_incoming(s, cmd) ==
    LET s1 == [s EXCEPT !.outN = 0]
    IN IF s.inN < 2 THEN s1
       ELSE Execute([s1 EXCEPT !.misread = @ \/ s.inFrom # 1], cmd)

(* cuda_handshake() when TIP is high: a command that has come in is executed,*)
(* and a message is announced after a delay.                                 *)
Restart(s) == [s EXCEPT !.outN = 0, !.inN = 0, !.inFrom = 0]

(* Mutant: synchronising, and a command without a reply, shift nothing. *)
TipHighQuiet(s, cmd) ==
    LET s1 == [s EXCEPT !.fill = FALSE]
        s2 == IF s1.inN > 0 THEN cuda_incoming(s1, cmd) ELSE s1
        s3 == [Restart(s2) EXCEPT !.outReq = IF s.tack = 0 THEN 0 ELSE @, !.treq = s.tack]
    IN IF s.tack = 1 /\ cuda_msg_avail(s3) THEN [s3 EXCEPT !.replies = @ + 1] ELSE s3

TipHigh(s, cmd) ==
    LET s1 == [s EXCEPT !.fill = FALSE]
        s2 == IF s1.inN > 0 THEN cuda_incoming(s1, cmd) ELSE s1
        s3 == [Restart(s2) EXCEPT !.outReq = IF s.tack = 0 THEN 0 ELSE @, !.treq = s.tack]
    IN IF s.tack = 1 /\ cuda_msg_avail(s3) THEN [s3 EXCEPT !.replies = @ + 1]
       ELSE via_dummy_shift(s3)

(* ... and when it is low: a byte to CUDA, or one from it.                   *)
ToCuda(s) ==
    via_sr_int_post(IF s.inN = BufferLen THEN s
                    ELSE [s EXCEPT !.inN = @ + 1, !.inFrom = IF s.inN = 0 THEN -s.sr ELSE @])

Fill(s) ==
    LET s1 == [s EXCEPT !.fill = FALSE]
    IN IF ~s.fill \/ cuda_msg_avail(s) THEN s1
       ELSE IF s.onesec /\ s.pending > 0
       THEN via_cuda_reply([s1 EXCEPT !.pending = @ - 1, !.ticks = @ + 1], 1, <<>>)
       ELSE IF s.autopoll THEN adb_poll(s1) ELSE s1

SentAll(s) == s.outN >= s.outReq

FromCuda(s) ==
    LET s1 == Fill(s)
        s2 == via_sr_int_post([s1 EXCEPT !.sr = s1.outN + 1, !.outN = @ + 1])
    IN IF s.fill /\ ~cuda_msg_avail(s1) THEN [s1 EXCEPT !.exited = TRUE]
       ELSE IF ~SentAll(s2) THEN s2
       ELSE [s2 EXCEPT !.outN = 0, !.outReq = 0, !.treq = 1,
                       !.keysOut = @ + Len(s2.keys), !.keys = <<>>]

cuda_handshake(s, tack, tip, cmd) ==
    LET s1 == [s EXCEPT !.tack = tack, !.tip = tip]
    IN IF tack = s.tack /\ tip = s.tip THEN s
       ELSE IF tip = 1 THEN TipHigh(s1, cmd)
       ELSE IF s.treq = 1 THEN ToCuda(s1) ELSE FromCuda(s1)

(* cuda_sr_idle(), when the guest reads the shift register.                  *)
cuda_sr_idle(s) ==
    IF s.treq = 1 /\ s.tip = 1 /\ s.outReq = 0 /\ s.autopoll /\ adb_mes_avail(s)
    THEN via_dummy_shift([s EXCEPT !.fill = TRUE, !.treq = 0]) ELSE s

-----------------------------------------------------------------------------
(* Timers and input.                                                         *)
via_sr_int ==
    /\ cuda.srActive
    /\ cuda' = [cuda EXCEPT !.srActive = FALSE, !.srInt = TRUE]
    /\ UNCHANGED cdrv

cuda_start_reply ==
    /\ cuda.replies > 0
    /\ LET s == [cuda EXCEPT !.replies = @ - 1]
       IN cuda' = IF s.outReq > 0 /\ s.treq = 1 /\ s.tip = 1
                  THEN via_dummy_shift([s EXCEPT !.treq = 0]) ELSE s
    /\ UNCHANGED cdrv

cuda_one_sec_timer ==
    /\ cuda.seconds > 0
    /\ IF ~cuda.onesec THEN cuda' = [cuda EXCEPT !.seconds = @ - 1]
       ELSE /\ cuda.ticks + cuda.pending < MaxTicks
            /\ cuda' = adb_service_request([cuda EXCEPT !.pending = @ + 1])
    /\ UNCHANGED cdrv

Notify(s) == IF s.autopoll THEN adb_service_request(s) ELSE s

QueueKey(s) ==
    IF Len(s.kbd) + 1 < KeyBufSize
    THEN [s EXCEPT !.kbd = Append(@, s.keysIn + 1), !.keysIn = @ + 1, !.kbdReq = TRUE] ELSE s

(* The start button is queued twice.                                         *)
adb_key(twice) ==
    /\ cuda.inputs < MaxInput
    /\ LET s == [cuda EXCEPT !.inputs = @ + 1]
           first == Notify(QueueKey(s))
       IN cuda' = IF twice THEN Notify(QueueKey(first)) ELSE first
    /\ UNCHANGED cdrv

(* A movement of 0 is a button; one of 2 takes two packets.                  *)
adb_mouse_event(d) ==
    /\ cuda.inputs < MaxInput
    /\ cuda' = Notify([cuda EXCEPT !.inputs = @ + 1, !.move = @ + d, !.dirty = TRUE,
                                   !.mouseReq = TRUE])
    /\ UNCHANGED cdrv

-----------------------------------------------------------------------------
(* Register accesses: via_io_read() and via_io_write() of SR, and            *)
(* via_io_write() of B.                                                      *)
ReadSR == cuda' = cuda_sr_idle([cuda EXCEPT !.srInt = FALSE])
WriteSR(byte) == cuda' = [cuda EXCEPT !.sr = -byte, !.srInt = FALSE]
WriteB(tack, tip) == \E cmd \in CudaCommands : cuda' = cuda_handshake(cuda, tack, tip, cmd)

(* The guest's driver.  Its interrupt handler reads SR, looks at TREQ, writes *)
(* SR if it sends, and sets TIP and TACK; what it does, and the state it is   *)
(* in afterwards, depend on its state and on TREQ.                            *)
Act(write, lines, to) == [write |-> write, lines |-> lines, to |-> to]

Plan(st, treq) ==
    CASE st \in {"idle", "awaiting"} \/ (st = "done" /\ treq = 0) -> Act(FALSE, "lower", "reading")
      [] st = "start" -> Act(TRUE, "lower", "sent")
      [] st = "sent" /\ treq = 0 -> Act(FALSE, "raise", "idle")
      [] st = "reading" /\ treq = 0 -> Act(FALSE, "toggle", "reading")
      [] st = "reading" /\ treq = 1 -> Act(FALSE, "raise", "done")
      [] st = "sync" -> Act(FALSE, "raise", "synced")
      [] st = "synced" \/ (st = "done" /\ treq = 1) -> Act(FALSE, "keep", "idle")
      [] OTHER -> IF cdrv.sent < CommandLen THEN Act(TRUE, "toggle", "sending")
                  ELSE Act(FALSE, "raise", "awaiting")

DriverIrq ==
    /\ cdrv.pc = "wait" /\ cuda.srInt
    /\ ReadSR
    /\ cdrv' = [cdrv EXCEPT !.pc = "look", !.got = IF cdrv.st # "reading" THEN 0
                                                  ELSE IF cuda.sr = @ + 1 THEN @ + 1 ELSE -1]

DriverLooks ==
    /\ cdrv.pc = "look"
    /\ LET plan == Plan(cdrv.st, cuda.treq)
       IN cdrv' = [cdrv EXCEPT !.pc = IF plan.write THEN "sr" ELSE "b", !.plan = plan]
    /\ UNCHANGED cuda

DriverSR ==
    /\ cdrv.pc = "sr"
    /\ WriteSR(cdrv.sent + 1)
    /\ cdrv' = [cdrv EXCEPT !.pc = "b", !.sent = @ + 1]

(* The packet it has sent, or reads, is over; after a collision it reads     *)
(* before it sends again.                                                    *)
DriverB ==
    /\ cdrv.pc = "b"
    /\ \/ cdrv.plan.lines = "lower" /\ WriteB(cuda.tack, 0)
       \/ cdrv.plan.lines = "toggle" /\ WriteB(1 - cuda.tack, 0)
       \/ cdrv.plan.lines = "raise" /\ WriteB(1, 1)
       \/ cdrv.plan.lines = "keep" /\ UNCHANGED cuda
    /\ LET collided == cdrv.st = "sent" /\ cdrv.plan.lines = "raise"
       IN cdrv' = [cdrv EXCEPT !.pc = "wait", !.st = cdrv.plan.to,
                      !.announced = IF cdrv.plan.lines = "lower" THEN cuda.treq = 0 ELSE @,
                      !.retry = collided \/ (@ /\ cdrv.st # "done"),
                      !.ops = IF collided THEN @ - 1 ELSE @]

DriverOpens ==
    /\ cdrv.pc = "off"
    /\ WriteB(1, 1)
    /\ cdrv' = [cdrv EXCEPT !.pc = "wait", !.st = "synced"]

(* It begins to send a command, or to synchronise.                           *)
MayBegin == cdrv.pc = "wait" /\ cdrv.st = "idle" /\ cdrv.ops < MaxCommands /\ ~cdrv.retry

DriverStart ==
    /\ MayBegin /\ cuda.treq = 1
    /\ cdrv' = [cdrv EXCEPT !.st = "start", !.pc = "look", !.sent = 0, !.ops = @ + 1]
    /\ UNCHANGED cuda

DriverSync ==
    /\ MayBegin
    /\ WriteB(0, 1)
    /\ cdrv' = [cdrv EXCEPT !.st = "sync", !.ops = @ + 1]

-----------------------------------------------------------------------------
Driver == DriverIrq \/ DriverLooks \/ DriverSR \/ DriverB

CudaNext ==
    \/ via_sr_int \/ cuda_start_reply \/ cuda_one_sec_timer
    \/ \E twice \in BOOLEAN : adb_key(twice)
    \/ \E d \in 0 .. 2 : adb_mouse_event(d)
    \/ Driver \/ DriverOpens \/ DriverStart \/ DriverSync

(* Timers expire, and the guest serves its interrupt.                        *)
CudaFairness == WF_cudaVars(via_sr_int) /\ WF_cudaVars(cuda_start_reply) /\ WF_cudaVars(Driver)

CudaSpec == CudaInit /\ [][CudaNext]_cudaVars /\ CudaFairness

-----------------------------------------------------------------------------
(* "Message supposed to be available": when CUDA asserts TREQ to a guest     *)
(* that has not begun, it has a message or can make one when the guest does, *)
(* although what it promised may have been read by a command or a mode       *)
(* switched off meanwhile.  Otherwise the emulator exits.                    *)
ServiceHasData ==
    /\ ~cuda.exited
    /\ cuda.treq = 0 /\ cuda.tip = 1 /\ cuda.tack = 1 =>
          \/ cuda.outReq > 0
          \/ /\ cuda.fill
             /\ (cuda.onesec /\ cuda.pending > 0) \/ (cuda.autopoll /\ adb_mes_avail(cuda))

(* Keys reach the guest in the order they were typed, none twice and, while  *)
(* it follows the handshake, none is lost: whatever collides, the keys that  *)
(* CUDA holds are those accepted and not yet sent.                           *)
KeysInOrder ==
    (IF cuda.outReq > 0 THEN cuda.keys ELSE <<>>) \o cuda.kbd
        = [i \in 1 .. cuda.keysIn - cuda.keysOut |-> cuda.keysOut + i]

(* The guest never waits for nothing: each change of TIP or TACK is answered *)
(* by an interrupt that has come, or whose timer runs.                       *)
AnswerPending ==
    cdrv.pc = "wait" /\ cdrv.st \notin {"idle"} =>
        cuda.srInt \/ cuda.srActive \/ cuda.replies > 0

(* A message that CUDA announced is read byte by byte to its end, although   *)
(* shifts share interrupts and the register is cleared for service requests. *)
ReadsWhole ==
    cdrv.st = "reading" /\ cdrv.pc = "b" /\ cdrv.plan.to = "done" /\ cdrv.announced => cdrv.got = cuda.len

(* A command is executed from its first byte, unless the packet it collided  *)
(* with was the single byte of a one-second tick: TREQ is then high again    *)
(* when the guest looks.                                                     *)
CommandWhole == cuda.misread => cuda.ticks > 0

(* A key that waits is announced: when nothing is under way and no interrupt *)
(* is due, TREQ is asserted, although the key may have come while a transfer *)
(* kept its service request from being made.                                 *)
KeysAnnounced ==
    /\ cuda.autopoll /\ cuda.kbd # <<>>
    /\ cdrv.st = "idle" /\ cdrv.pc = "wait"
    /\ ~cuda.srInt /\ ~cuda.srActive /\ cuda.replies = 0
    => cuda.treq = 0

(* Whatever the guest began comes to its end.                                *)
DriverRests == cdrv.st # "idle" ~> cdrv.st = "idle"

(* The handshake is safe, whatever collides: every step of the guest is      *)
(* answered, a service request has a message, messages and commands are      *)
(* whole, and keys are announced and reach the guest in order.               *)
HandshakeSafe ==
    /\ CudaTypeOK /\ ServiceHasData /\ AnswerPending
    /\ ReadsWhole /\ CommandWhole
    /\ KeysInOrder /\ KeysAnnounced
=============================================================================
