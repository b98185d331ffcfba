------------------------------- MODULE Sound -------------------------------
(***************************************************************************)
(* The sound driver: the main thread starts and stops the sound for the     *)
(* guest without waiting, and an audio thread feeds the output device,      *)
(* either round and round from a ring in guest memory (Mac OS X) or from     *)
(* buffers the guest hands over one at a time (classic).  The audio thread   *)
(* gives its lock up only while the device plays; the main thread hands     *)
(* buffers over without the lock.                                           *)
(*                                                                         *)
(* A guest uses one of the two interfaces, with the ring set up before the   *)
(* first start: kSoundSetupRing takes no lock.  Volume, queries and the      *)
(* start-up sound are left out.                                             *)
(*                                                                         *)
(* Source: drivers/sound/sound.c.                                           *)
(***************************************************************************)
EXTENDS Integers, Sequences, FiniteSets

CONSTANTS
    AudioThreads,   \* threads create_thread() may use
    RingFrags,      \* ss.ringfrags
    BufLens,        \* lengths of the buffers the guest writes, in double buffers
    SndFormats,     \* modes of the guest, a format and a rate
    MaxStarts,      \* bound: starts
    MaxWrites       \* bound: buffers written

ASSUME SoundAssumption == RingFrags \in Nat \ {0} /\ BufLens \subseteq Nat \ {0}
                          /\ MaxStarts \in Nat /\ MaxWrites \in Nat

NoFormat == "no format"
NoOwner == "nobody"
ASSUME AudioThreadsAssumption == NoOwner \notin AudioThreads

VARIABLES
    sndRing,        \* ss.ringbuf is set
    sndStarted, sndRunning,         \* ss.started, ss.thread_running
    sndFormat,      \* the mode in use (lastformat, lastrate)
    sndInd,         \* ss.ringind
    sndSrc, sndSize, sndGo,         \* ss.dbuf_src (buffer, offset), dbuf_srcsize, dbuf_go
    sndDev,         \* the output device: closed, open, or replaced by no sound
    sndIrq, sndLock,                \* interrupt line, holder of ss.lock
    audio,          \* per thread: pc, and the part of the source it holds
    sndMain,        \* the main thread: pc and argument
    sndFrag,        \* history: fragment last given to the device, -1 if to begin anew
    sndWarned,      \* history: a write found the one before unplayed
    sndWritten, sndPlayed,          \* history: written by the guest, given to the device, until then
    sndStarts       \* history: starts

guestSide == <<sndStarted, sndFormat, sndMain, sndStarts>>
handover == <<sndSrc, sndSize, sndGo>>
sndHistory == <<sndFrag, sndWritten, sndPlayed, sndWarned>>
sndVars == <<sndRing, guestSide, sndRunning, sndInd, handover, sndDev, sndIrq, sndLock,
             audio, sndHistory>>

Units == (1 .. MaxWrites) \X Nat
AudioPcs == {"none", "lock", "ring", "playring", "look", "copy", "advance", "go", "irq", "play",
             "exit"}
SndTypeOK ==
    /\ sndRing \in BOOLEAN /\ sndStarted \in BOOLEAN /\ sndRunning \in {-1, 0, 1, 2}
    /\ sndFormat \in SndFormats \cup {NoFormat} /\ sndInd \in 0 .. RingFrags - 1
    /\ sndSrc \in (0 .. MaxWrites) \X Nat /\ sndSize \in Nat /\ sndGo \in BOOLEAN
    /\ sndDev \in {"closed", "open", "nosound"} /\ sndIrq \in {0, 1}
    /\ sndLock \in AudioThreads \cup {NoOwner}
    /\ audio \in [AudioThreads -> [pc : AudioPcs, buf : Seq(Units)]]
    /\ sndMain.pc \in {"rest", "stop", "start", "wait", "size", "flag"}
    /\ sndMain.pc = "wait" => sndMain.arg \in SndFormats
    /\ sndMain.pc = "size" => sndMain.arg \in BufLens
    /\ sndFrag \in -1 .. RingFrags - 1 /\ sndWarned \in BOOLEAN /\ sndStarts \in 0 .. MaxStarts
    /\ sndWritten \in Seq(Units) /\ sndPlayed \in Seq(Units)

SndInit ==
    /\ sndRing \in BOOLEAN /\ sndStarted = FALSE /\ sndRunning = 0 /\ sndFormat = NoFormat
    /\ sndInd = 0 /\ sndSrc = <<0, 0>> /\ sndSize = 0 /\ sndGo = FALSE
    /\ sndDev = "closed" /\ sndIrq = 0 /\ sndLock = NoOwner
    /\ audio = [t \in AudioThreads |-> [pc |-> "none", buf |-> <<>>]]
    /\ sndMain = [pc |-> "rest", arg |-> NoFormat]
    /\ sndFrag = -1 /\ sndWritten = <<>> /\ sndPlayed = <<>> /\ sndWarned = FALSE
    /\ sndStarts = 0

MainAt(pc) == sndMain.pc = pc
MainTo(pc) == sndMain' = [pc |-> pc, arg |-> NoFormat]
AudioAt(t, pc) == audio[t].pc = pc
AudioTo(t, pc) == audio' = [audio EXCEPT ![t].pc = pc]
Unlocked == sndLock = NoOwner

-----------------------------------------------------------------------------
(* stop_sound(): the sound is stopped asynchronously.                        *)
stop_sound ==
    /\ MainAt("rest") /\ sndStarted
    /\ sndStarted' = FALSE /\ MainTo("stop")
    /\ UNCHANGED <<sndRing, sndFormat, sndStarts, sndRunning, sndInd, handover, sndDev, sndIrq,
                   sndLock, audio, sndHistory>>

(* Mutant: the thread is taken for dead at once. *)
StopLocksDead ==
    /\ MainAt("stop") /\ Unlocked
    /\ sndRunning' = 0 /\ sndIrq' = 0 /\ MainTo("rest")
    /\ UNCHANGED <<sndRing, sndStarted, sndFormat, sndStarts, sndInd, handover, sndDev, sndLock,
                   audio, sndHistory>>

StopLocks ==
    /\ MainAt("stop") /\ Unlocked
    /\ sndRunning' = -1 /\ sndIrq' = 0 /\ MainTo("rest")
    /\ UNCHANGED <<sndRing, sndStarted, sndFormat, sndStarts, sndInd, handover, sndDev, sndLock,
                   audio, sndHistory>>

(* start_sound(): a thread that still runs is told to go on.                 *)
start_sound ==
    /\ MainAt("rest") /\ ~sndStarted /\ sndFormat # NoFormat /\ sndStarts < MaxStarts
    /\ sndStarted' = TRUE /\ sndStarts' = sndStarts + 1 /\ MainTo("start")
    /\ UNCHANGED <<sndRing, sndFormat, sndRunning, sndInd, handover, sndDev, sndIrq, sndLock,
                   audio, sndHistory>>

OpenAndCreate ==
    /\ sndDev' \in {"open", "nosound"}
    /\ sndRunning' = 1
    /\ \E t \in AudioThreads : AudioAt(t, "none") /\ AudioTo(t, "lock")

StartLocks ==
    /\ MainAt("start") /\ Unlocked
    /\ sndInd' = 0 /\ sndGo' = FALSE /\ sndFrag' = -1 /\ MainTo("rest")
    /\ IF sndRunning # 0
       THEN sndRunning' = 2 /\ UNCHANGED <<sndDev, audio>>
       ELSE OpenAndCreate
    /\ UNCHANGED <<sndRing, sndStarted, sndFormat, sndStarts, sndSrc, sndSize, sndIrq, sndLock,
                   sndWritten, sndPlayed, sndWarned>>

(* set_mode(): a mode that is in use already is not set again; a new one     *)
(* waits in wait_sound_stopped(), and may be refused by the device.          *)
set_mode(f) ==
    /\ MainAt("rest") /\ ~sndStarted /\ f # sndFormat
    /\ sndMain' = [pc |-> "wait", arg |-> f]
    /\ UNCHANGED <<sndRing, sndStarted, sndFormat, sndStarts, sndRunning, sndInd, handover, sndDev,
                   sndIrq, sndLock, audio, sndHistory>>

StillRuns == sndRunning < 0
ModeSet ==
    /\ MainAt("wait") /\ ~StillRuns
    /\ sndFormat' \in {sndFormat, sndMain.arg}
    /\ MainTo("rest")
    /\ UNCHANGED <<sndRing, sndStarted, sndStarts, sndRunning, sndInd, handover, sndDev, sndIrq,
                   sndLock, audio, sndHistory>>

(* resume_sound() and pause_sound().                                         *)
SetGo(go) ==
    /\ MainAt("rest") /\ sndStarted /\ ~sndRing
    /\ sndGo' = go
    /\ UNCHANGED <<sndRing, guestSide, sndRunning, sndInd, sndSrc, sndSize, sndDev, sndIrq,
                   sndLock, audio, sndHistory>>

(* osip_sound_write(), store by store, without the lock.                     *)
Writes == IF sndSrc[1] > 0 THEN sndSrc[1] ELSE 0

osip_sound_write(len) ==
    /\ MainAt("rest") /\ ~sndRing /\ Writes < MaxWrites
    /\ sndWarned' = (sndWarned \/ sndSize # 0)
    /\ IF sndWarned' THEN sndWritten' = <<>> /\ sndPlayed' = <<>>
                     ELSE UNCHANGED <<sndWritten, sndPlayed>>
    /\ sndSrc' = <<Writes + 1, 0>>
    /\ sndMain' = [pc |-> "size", arg |-> len]
    /\ UNCHANGED <<sndRing, sndStarted, sndFormat, sndStarts, sndRunning, sndInd, sndSize, sndGo,
                   sndDev, sndIrq, sndLock, audio, sndFrag>>

WriteSize ==
    /\ MainAt("size")
    /\ sndSize' = sndMain.arg
    /\ sndWritten' = IF sndWarned THEN sndWritten
                     ELSE sndWritten \o [k \in 1 .. sndMain.arg |-> <<sndSrc[1], k - 1>>]
    /\ MainTo("flag")
    /\ UNCHANGED <<sndRing, sndStarted, sndFormat, sndStarts, sndRunning, sndInd, sndSrc, sndGo,
                   sndDev, sndIrq, sndLock, audio, sndFrag, sndPlayed, sndWarned>>

WriteFlag ==
    /\ MainAt("flag")
    /\ sndGo' = TRUE /\ MainTo("rest")
    /\ UNCHANGED <<sndRing, sndStarted, sndFormat, sndStarts, sndRunning, sndInd, sndSrc, sndSize,
                   sndDev, sndIrq, sndLock, audio, sndHistory>>

osip_sound_irq_ack ==
    /\ MainAt("rest") /\ sndIrq = 1
    /\ sndIrq' = 0
    /\ UNCHANGED <<sndRing, guestSide, sndRunning, sndInd, handover, sndDev, sndLock, audio,
                   sndHistory>>

-----------------------------------------------------------------------------
(* audio_thread(): it holds the lock but while the device plays.             *)
AudioStarts(t) ==
    /\ AudioAt(t, "lock") /\ Unlocked
    /\ sndLock' = t /\ AudioTo(t, IF sndRing THEN "ring" ELSE "look")
    /\ UNCHANGED <<sndRing, guestSide, sndRunning, sndInd, handover, sndDev, sndIrq, sndHistory>>

Leave(t) == AudioTo(t, "exit") /\ UNCHANGED sndLock
Play(t, pc) == AudioTo(t, pc) /\ sndLock' = NoOwner

(* ring_engine()                                                             *)
RingPlays(t) ==
    /\ AudioAt(t, "ring")
    /\ IF sndRunning > 0 THEN Play(t, "playring") /\ sndFrag' = sndInd
       ELSE Leave(t) /\ UNCHANGED sndFrag
    /\ UNCHANGED <<sndRing, guestSide, sndRunning, sndInd, handover, sndDev, sndIrq, sndWritten,
                   sndPlayed, sndWarned>>

(* Mutant: quick restarts are not noticed. *)
RestartedIgnored == FALSE

Restarted == sndRunning > 1
NextFrag == (sndInd + 1) % RingFrags

RingPlayed(t) ==
    /\ AudioAt(t, "playring") /\ Unlocked
    /\ sndLock' = t
    /\ IF Restarted
       THEN /\ sndRunning' = 1 /\ sndFrag' = -1 /\ AudioTo(t, "ring")
            /\ UNCHANGED <<sndInd, sndIrq>>
       ELSE /\ UNCHANGED <<sndRunning, sndFrag>>
            /\ IF sndRunning <= 0 THEN AudioTo(t, "exit") /\ UNCHANGED <<sndInd, sndIrq>>
               ELSE /\ sndInd' = NextFrag
                    /\ sndIrq' = IF NextFrag = 0 THEN 1 ELSE sndIrq
                    /\ AudioTo(t, "ring")
    /\ UNCHANGED <<sndRing, guestSide, handover, sndDev, sndWritten, sndPlayed, sndWarned>>

(* dbuf_engine(): the switch of the double buffer, access by access.  A part *)
(* of the source of at most one double buffer is taken; without a source     *)
(* silence is played.                                                        *)
DbufLooks(t) ==
    /\ AudioAt(t, "look")
    /\ IF sndSize = 0
       THEN \/ sndRunning < 0 /\ Leave(t)
            \/ ~(sndRunning < 0) /\ AudioTo(t, "go") /\ UNCHANGED sndLock
       ELSE AudioTo(t, "copy") /\ UNCHANGED sndLock
    /\ UNCHANGED <<sndRing, guestSide, sndRunning, sndInd, handover, sndDev, sndIrq, sndHistory>>

DbufCopies(t) ==
    /\ AudioAt(t, "copy")
    /\ audio' = [audio EXCEPT ![t] = [pc |-> "advance", buf |-> <<sndSrc>>]]
    /\ UNCHANGED <<sndRing, guestSide, sndRunning, sndInd, handover, sndDev, sndIrq, sndLock,
                   sndHistory>>

(* The pointer and the size in one step: a write of the guest in between      *)
(* finds a size that is not 0 and warns, after which the order is not claimed *)
(* any more.  Sizes are counted in whole double buffers.                      *)
DbufAdvances(t) ==
    /\ AudioAt(t, "advance")
    /\ sndSrc' = [sndSrc EXCEPT ![2] = @ + 1] /\ sndSize' = sndSize - 1
    /\ AudioTo(t, "go")
    /\ UNCHANGED <<sndRing, guestSide, sndRunning, sndInd, sndGo, sndDev, sndIrq, sndLock,
                   sndHistory>>

(* Mutant: silence asks for no further buffer. *)
DbufGoesPlaying(t) ==
    /\ AudioAt(t, "go")
    /\ IF sndGo /\ audio[t].buf # <<>> THEN AudioTo(t, "irq") /\ UNCHANGED sndLock
                                       ELSE Play(t, "play")
    /\ UNCHANGED <<sndRing, guestSide, sndRunning, sndInd, handover, sndDev, sndIrq, sndHistory>>

DbufGoes(t) ==
    /\ AudioAt(t, "go")
    /\ IF sndGo THEN AudioTo(t, "irq") /\ UNCHANGED sndLock ELSE Play(t, "play")
    /\ UNCHANGED <<sndRing, guestSide, sndRunning, sndInd, handover, sndDev, sndIrq, sndHistory>>

DbufInterrupts(t) ==
    /\ AudioAt(t, "irq")
    /\ sndGo' = FALSE /\ sndIrq' = 1 /\ Play(t, "play")
    /\ UNCHANGED <<sndRing, guestSide, sndRunning, sndInd, sndSrc, sndSize, sndDev, sndHistory>>

DbufPlayed(t) ==
    /\ AudioAt(t, "play") /\ Unlocked
    /\ sndLock' = t
    /\ sndPlayed' = IF sndWarned THEN sndPlayed ELSE sndPlayed \o audio[t].buf
    /\ audio' = [audio EXCEPT ![t] = [pc |-> "look", buf |-> <<>>]]
    /\ UNCHANGED <<sndRing, guestSide, sndRunning, sndInd, handover, sndDev, sndIrq, sndFrag,
                   sndWritten, sndWarned>>

AudioExits(t) ==
    /\ AudioAt(t, "exit")
    /\ sndDev' = "closed" /\ sndRunning' = 0 /\ sndLock' = NoOwner
    /\ AudioTo(t, "none")
    /\ UNCHANGED <<sndRing, guestSide, sndInd, handover, sndIrq, sndHistory>>

-----------------------------------------------------------------------------
AudioStep(t) ==
    \/ AudioStarts(t) \/ RingPlays(t) \/ RingPlayed(t) \/ DbufLooks(t) \/ DbufCopies(t)
    \/ DbufAdvances(t) \/ DbufGoes(t) \/ DbufInterrupts(t) \/ DbufPlayed(t) \/ AudioExits(t)

SndNext ==
    \/ stop_sound \/ StopLocks \/ start_sound \/ StartLocks \/ ModeSet
    \/ \E f \in SndFormats : set_mode(f)
    \/ \E go \in BOOLEAN : SetGo(go)
    \/ \E len \in BufLens : osip_sound_write(len)
    \/ WriteSize \/ WriteFlag \/ osip_sound_irq_ack
    \/ \E t \in AudioThreads : AudioStep(t)

(* The device plays what it is given, and both threads run.                  *)
SndFairness ==
    /\ \A t \in AudioThreads : WF_sndVars(AudioStep(t))
    /\ WF_sndVars(StopLocks \/ StartLocks \/ ModeSet \/ WriteSize \/ WriteFlag)

SndSpec == SndInit /\ [][SndNext]_sndVars /\ SndFairness

-----------------------------------------------------------------------------
(* However quickly the guest stops and starts, there is at most one audio    *)
(* thread, and outside its locked sections the device is open exactly while  *)
(* there is one.                                                             *)
OneEngine ==
    /\ Cardinality({t \in AudioThreads : ~AudioAt(t, "none")}) <= 1
    /\ Unlocked => /\ sndDev # "closed" <=> sndRunning # 0
                   /\ sndRunning # 0 <=> \E t \in AudioThreads : ~AudioAt(t, "none")

(* A start is not lost to the exit of the thread it was stopped with: once   *)
(* start_sound() has returned the thread goes on until the next stop.        *)
StartedRuns ==
    /\ sndStarted /\ ~MainAt("start") => sndRunning > 0
    /\ ~sndStarted /\ ~MainAt("stop") => sndRunning <= 0

(* After stop_sound() the ring engine raises no interrupt any more.          *)
QuietWhenStopped == sndRing /\ sndIrq = 1 => sndStarted \/ MainAt("stop")

(* The ring is played from its first fragment after each start, in order,    *)
(* and the guest is interrupted after the last fragment only.  (The first    *)
(* fragment is played again when the engine takes note of a restart: twice,  *)
(* if that came before the thread had played at all.)                        *)
RingInOrder ==
    [][ /\ \A t \in AudioThreads :
              AudioAt(t, "ring") /\ audio'[t].pc = "playring" => sndFrag' = (sndFrag + 1) % RingFrags
        /\ sndRing /\ sndIrq = 0 /\ sndIrq' = 1 => sndFrag = RingFrags - 1 ]_sndVars

(* Rate, frame and fragment size never change under a running engine, which  *)
(* uses them without the lock.                                               *)
ModeStable == [][ sndRunning # 0 => sndFormat' = sndFormat ]_sndVars

(* The hand-over without a lock loses and repeats nothing: unless the driver *)
(* warned that a write replaced an unplayed buffer, the device gets what the *)
(* guest wrote, in that order, and all of it before the engine finds no      *)
(* source.                                                                   *)
PlayedInOrder ==
    ~sndWarned => /\ Len(sndPlayed) <= Len(sndWritten)
                  /\ sndPlayed = SubSeq(sndWritten, 1, Len(sndPlayed))
                  /\ \A t \in AudioThreads : AudioAt(t, "look") =>
                        Len(sndWritten) = Len(sndPlayed) + sndSize

(* set_mode() does not wait for ever for a sound that was stopped.           *)
SoundStops == MainAt("wait") ~> ~MainAt("wait")

(* The guest is asked for the next buffer: as long as the sound is on, the   *)
(* interrupt a write or kSoundResume asks for comes, also when the engine    *)
(* took the buffer before it was told to interrupt.                          *)
WriteAnswered == (~sndRing /\ sndGo /\ sndStarted) ~> (~sndGo \/ ~sndStarted)

(* There is one audio thread, which runs while the sound is started and is   *)
(* quiet when it is stopped, and what the guest hands over is played once    *)
(* and in order.                                                             *)
SoundSafe == SndTypeOK /\ OneEngine /\ StartedRuns /\ QuietWhenStopped /\ PlayedInOrder

(* The ring is played in order and the mode does not change under the        *)
(* engine.                                                                   *)
EngineSteps == RingInOrder /\ ModeStable

(* set_mode() comes to its end, and a guest that asked for an interrupt gets *)
(* it.                                                                       *)
SoundLive == SoundStops /\ WriteAnswered
=============================================================================
