------------------------------ MODULE Mainloop ------------------------------
(***************************************************************************)
(* The emulator's main thread, the threads that interrupt it and the host   *)
(* signals it receives.                                                    *)
(*                                                                         *)
(* The main thread alternates between running the guest ("virtual") and    *)
(* running handlers.  Any other thread that has work for it (data on a file *)
(* descriptor, a new first timer, a CPU interrupt line) sets a flag of its  *)
(* own and calls interrupt_emulation().  When the guest puts its CPU to     *)
(* sleep the main thread sleeps in select() inside doze().  Nothing here is *)
(* protected by a lock: every step below is one access to shared memory.    *)
(*                                                                         *)
(* Sources: cpu/mainloop.c, cpu/ppc/mainloop_asm.S (loop), main/timer.c     *)
(* (doze, abort_doze), cpu/molcpu.c (rvec_msr_pow), kmod/Linux/hostirq.c.   *)
(***************************************************************************)
EXTENDS Integers, FiniteSets

CONSTANTS
    Threads,      \* the threads other than the main thread
    Signals,      \* whether SIGINT and host interrupts (SIGHUP) are delivered
    DozeBound     \* bound on ts.dozing and on the bytes in the abort pipe

ASSUME ThreadsAssumption == "main" \notin Threads
ASSUME SignalsAssumption == Signals \in BOOLEAN
ASSUME DozeBoundAssumption == DozeBound \in Nat \ {0}

(* The kinds of work interrupt_emulation() announces, in the order in which *)
(* mainloop_interrupt() looks for them.                                     *)
IO      == "io"        \* __io_is_pending
TIMER   == "timer"     \* __recalc_timer
HOSTIRQ == "hostirq"   \* mregs->hostirq_update
CPUIRQ  == "cpuirq"    \* __cpu_irq_raise, __cpu_irq_lower
Kinds   == {IO, TIMER, HOSTIRQ, CPUIRQ}
Posted  == {IO, TIMER, CPUIRQ}     \* the kinds other threads announce

VARIABLES
    interrupt,    \* mregs->interrupt
    byThread,     \* history: another thread set it since it was cleared
    inVirtual,    \* mregs->in_virtual_mode
    dozing,       \* ts.dozing
    pipe,         \* bytes in ts.abortpipe
    stop,         \* __stop
    work,         \* the kinds whose flag is set
    ipi,          \* an inter-processor interrupt is on its way to the main CPU
    sig,          \* a SIGHUP is pending for the main thread
    r7,           \* register r7: mregs->interrupt as `loop' loaded it
    pc,           \* control point of the main thread
    tpc           \* control point of each other thread

vars == <<interrupt, byThread, inVirtual, dozing, pipe, stop, work, ipi, sig, r7, pc, tpc>>

(* Control points of the main thread.  "io" .. "ret" are the steps of       *)
(* mainloop_interrupt() after it has cleared the flag.                      *)
MainPoints == {"loop", "enter", "virtual", "rvec", "clear", IO, TIMER, HOSTIRQ,
               CPUIRQ, "ret", "doze_dec", "doze_read", "select", "doze_set", "out"}
ThreadPoints == {"idle", "set", "inc", "write", "ipi"}

(* The main thread still has to look for work of kind k in this call of     *)
(* mainloop_interrupt().                                                    *)
Before(k) == CASE k = IO      -> {IO}
               [] k = TIMER   -> {IO, TIMER}
               [] k = HOSTIRQ -> {IO, TIMER, HOSTIRQ}
               [] k = CPUIRQ  -> {IO, TIMER, HOSTIRQ, CPUIRQ}

Bit == {0, 1}

TypeOK ==
    /\ interrupt \in Bit
    /\ byThread \in Bit
    /\ inVirtual \in Bit
    /\ dozing \in Int
    /\ pipe \in Nat
    /\ stop \in {"kGo", "kQuit"}
    /\ work \in SUBSET Kinds
    /\ ipi \in Bit
    /\ sig \in Bit
    /\ r7 \in Bit
    /\ pc \in MainPoints
    /\ tpc \in [Threads -> ThreadPoints]

Init ==
    /\ interrupt = 0
    /\ byThread = 0
    /\ inVirtual = 0
    /\ dozing = 0
    /\ pipe = 0
    /\ stop = "kGo"
    /\ work = {}
    /\ ipi = 0
    /\ sig = 0
    /\ r7 = 0
    /\ pc = "loop"
    /\ tpc = [t \in Threads |-> "idle"]

-----------------------------------------------------------------------------
(* The assembly loop.  The flag is loaded first and in_virtual_mode stored  *)
(* afterwards; the branch that follows is on the loaded value.              *)
LoadInterrupt ==
    /\ pc = "loop"
    /\ r7' = interrupt
    /\ pc' = "enter"
    /\ UNCHANGED <<interrupt, byThread, inVirtual, dozing, pipe, stop, work, ipi, sig, tpc>>

StoreInVirtual ==
    /\ pc = "enter"
    /\ inVirtual' = 1
    /\ pc' = IF r7 = 1 THEN "clear" ELSE "virtual"
    /\ UNCHANGED <<interrupt, byThread, dozing, pipe, stop, work, ipi, sig, r7, tpc>>

(* Virtualization mode is left without a handler to run (RVEC_NOP): an IPI  *)
(* arrived, or the host rescheduled this CPU.  in_virtual_mode stays set.   *)
TakeIpi ==
    /\ ipi = 1
    /\ ipi' = 0
    /\ pc' = IF pc = "virtual" THEN "loop" ELSE pc
    /\ UNCHANGED <<interrupt, byThread, inVirtual, dozing, pipe, stop, work, sig, r7, tpc>>

HostTick ==
    /\ pc = "virtual"
    /\ pc' = "loop"
    /\ UNCHANGED <<interrupt, byThread, inVirtual, dozing, pipe, stop, work, ipi, sig, r7, tpc>>

(* The guest needs a service: do_rvec_jump clears in_virtual_mode.          *)
LeaveVirtual ==
    /\ pc = "virtual"
    /\ inVirtual' = 0
    /\ pc' = "rvec"
    /\ UNCHANGED <<interrupt, byThread, dozing, pipe, stop, work, ipi, sig, r7, tpc>>

-----------------------------------------------------------------------------
(* The return vector's handler.  It may announce work to its own thread     *)
(* (interrupt_emulation() then only sets the flag), quit (osip_exit), or    *)
(* doze (rvec_msr_pow) when the next timer or decrementer is in the future. *)
HandlerReturns ==
    /\ pc = "rvec"
    /\ pc' = "loop"
    /\ UNCHANGED <<interrupt, byThread, inVirtual, dozing, pipe, stop, work, ipi, sig, r7, tpc>>

HandlerPosts(k) ==
    /\ pc = "rvec"
    /\ work' = work \cup {k}
    /\ interrupt' = 1
    /\ pc' = "loop"
    /\ UNCHANGED <<byThread, inVirtual, dozing, pipe, stop, ipi, sig, r7, tpc>>

HandlerQuits ==
    /\ pc = "rvec"
    /\ stop' = "kQuit"
    /\ interrupt' = 1
    /\ pc' = "loop"
    /\ UNCHANGED <<byThread, inVirtual, dozing, pipe, work, ipi, sig, r7, tpc>>

HandlerDozes ==
    /\ pc = "rvec"
    /\ pc' = "doze_dec"
    /\ UNCHANGED <<interrupt, byThread, inVirtual, dozing, pipe, stop, work, ipi, sig, r7, tpc>>

-----------------------------------------------------------------------------
(* doze().                                                                  *)
DozeDec ==
    /\ pc = "doze_dec"
    /\ dozing' = dozing - 1
    /\ pc' = "doze_read"
    /\ UNCHANGED <<interrupt, byThread, inVirtual, pipe, stop, work, ipi, sig, r7, tpc>>

(* Mutant: ts.dozing is not read back before select(). *)
DozeReadUnchecked ==
    /\ pc = "doze_read"
    /\ pc' \in {"select", "doze_set"}
    /\ UNCHANGED <<interrupt, byThread, inVirtual, dozing, pipe, stop, work, ipi, sig, r7, tpc>>

(* Every 256th doze reclaims memory instead of sleeping.                    *)
DozeRead ==
    /\ pc = "doze_read"
    /\ \/ dozing = -1 /\ pc' = "select"
       \/ pc' = "doze_set"
    /\ UNCHANGED <<interrupt, byThread, inVirtual, dozing, pipe, stop, work, ipi, sig, r7, tpc>>

SelectReadable ==
    /\ pc = "select"
    /\ pipe > 0
    /\ pipe' = pipe - 1
    /\ pc' = "doze_set"
    /\ UNCHANGED <<interrupt, byThread, inVirtual, dozing, stop, work, ipi, sig, r7, tpc>>

SelectTimeout ==
    /\ pc = "select"
    /\ pc' = "doze_set"
    /\ UNCHANGED <<interrupt, byThread, inVirtual, dozing, pipe, stop, work, ipi, sig, r7, tpc>>

DozeSet ==
    /\ pc = "doze_set"
    /\ dozing' = 0
    /\ pc' = "loop"
    /\ UNCHANGED <<interrupt, byThread, inVirtual, pipe, stop, work, ipi, sig, r7, tpc>>

-----------------------------------------------------------------------------
(* mainloop_interrupt(): the flag is cleared before any work is looked for. *)
ClearInterrupt ==
    /\ pc = "clear"
    /\ interrupt' = 0 /\ byThread' = 0
    /\ pc' = IO
    /\ UNCHANGED <<inVirtual, dozing, pipe, stop, work, ipi, sig, r7, tpc>>

NextPoint(k) == CASE k = IO -> TIMER [] k = TIMER -> HOSTIRQ
                  [] k = HOSTIRQ -> CPUIRQ [] k = CPUIRQ -> "ret"

TakeWork(k) ==
    /\ pc = k
    /\ work' = work \ {k}
    /\ pc' = NextPoint(k)
    /\ UNCHANGED <<interrupt, byThread, inVirtual, dozing, pipe, stop, ipi, sig, r7, tpc>>

(* Mutant: the flag is cleared when the work is done. *)
ReturnStopClearsLate ==
    /\ pc = "ret"
    /\ interrupt' = 0
    /\ pc' = IF stop = "kQuit" THEN "out" ELSE "loop"
    /\ UNCHANGED <<byThread, inVirtual, dozing, pipe, stop, work, ipi, sig, r7, tpc>>

(* A non-zero __stop ends molcpu_mainloop(), and kQuit mainloop_start().    *)
ReturnStop ==
    /\ pc = "ret"
    /\ pc' = IF stop = "kQuit" THEN "out" ELSE "loop"
    /\ UNCHANGED <<interrupt, byThread, inVirtual, dozing, pipe, stop, work, ipi, sig, r7, tpc>>

-----------------------------------------------------------------------------
(* Another thread sets its flag and runs interrupt_emulation().             *)
Post(t, k) ==
    /\ tpc[t] = "idle"
    /\ dozing < DozeBound /\ pipe < DozeBound
    /\ work' = work \cup {k}
    /\ tpc' = [tpc EXCEPT ![t] = "set"]
    /\ UNCHANGED <<interrupt, byThread, inVirtual, dozing, pipe, stop, ipi, sig, r7, pc>>

SetInterrupt(t) ==
    /\ tpc[t] = "set"
    /\ interrupt' = 1 /\ byThread' = 1
    /\ tpc' = [tpc EXCEPT ![t] = "inc"]
    /\ UNCHANGED <<inVirtual, dozing, pipe, stop, work, ipi, sig, r7, pc>>

(* abort_doze(): atomic_inc_and_test_ returns the new value.                *)
AbortDoze(t) ==
    /\ tpc[t] = "inc"
    /\ dozing' = dozing + 1
    /\ tpc' = [tpc EXCEPT ![t] = IF dozing + 1 = 0 THEN "write" ELSE "ipi"]
    /\ UNCHANGED <<interrupt, byThread, inVirtual, pipe, stop, work, ipi, sig, r7, pc>>

WriteAbortPipe(t) ==
    /\ tpc[t] = "write"
    /\ pipe' = pipe + 1
    /\ tpc' = [tpc EXCEPT ![t] = "ipi"]
    /\ UNCHANGED <<interrupt, byThread, inVirtual, dozing, stop, work, ipi, sig, r7, pc>>

SendIpi(t) ==
    /\ tpc[t] = "ipi"
    /\ ipi' = IF inVirtual = 1 THEN 1 ELSE ipi
    /\ tpc' = [tpc EXCEPT ![t] = "idle"]
    /\ UNCHANGED <<interrupt, byThread, inVirtual, dozing, pipe, stop, work, sig, r7, pc>>

-----------------------------------------------------------------------------
(* A host interrupt: hostirq_handler() sets the flags from interrupt        *)
(* context and sends SIGHUP to the main thread.                             *)
HostIrq ==
    /\ Signals
    /\ pc # "out"
    /\ work' = work \cup {HOSTIRQ}
    /\ interrupt' = 1
    /\ sig' = 1
    /\ UNCHANGED <<byThread, inVirtual, dozing, pipe, stop, ipi, r7, pc, tpc>>

(* A signal handler runs on the main thread: virtualization mode and        *)
(* select() are left, everything else resumes where it was.                 *)
SignalReturn == CASE pc = "virtual" -> "loop"
                  [] pc = "select"  -> "doze_set"
                  [] OTHER          -> pc

Sighup ==
    /\ sig = 1
    /\ pc # "out"
    /\ sig' = 0
    /\ interrupt' = 1
    /\ pc' = SignalReturn
    /\ UNCHANGED <<byThread, inVirtual, dozing, pipe, stop, work, ipi, r7, tpc>>

(* The second SIGINT calls quit_emulation().                                *)
Sigint ==
    /\ Signals
    /\ pc # "out"
    /\ stop' = "kQuit"
    /\ interrupt' = 1
    /\ pc' = SignalReturn
    /\ UNCHANGED <<byThread, inVirtual, dozing, pipe, work, ipi, sig, r7, tpc>>

(* mainloop_start() returned; the process exits.                            *)
Exited ==
    /\ pc = "out"
    /\ UNCHANGED vars

-----------------------------------------------------------------------------
MainStep ==
    \/ LoadInterrupt \/ StoreInVirtual \/ ClearInterrupt \/ ReturnStop
    \/ DozeDec \/ DozeRead \/ SelectReadable \/ SelectTimeout \/ DozeSet
    \/ \E k \in Kinds : TakeWork(k)

Handler ==
    \/ HandlerReturns \/ HandlerQuits \/ HandlerDozes
    \/ \E k \in Posted : HandlerPosts(k)

InterruptEmulation(t) ==
    SetInterrupt(t) \/ AbortDoze(t) \/ WriteAbortPipe(t) \/ SendIpi(t)

Next ==
    \/ MainStep
    \/ Handler
    \/ LeaveVirtual \/ TakeIpi \/ HostTick
    \/ \E t \in Threads : InterruptEmulation(t) \/ \E k \in Posted : Post(t, k)
    \/ HostIrq \/ Sighup \/ Sigint
    \/ Exited

(* The host schedules every thread and its tick ends a stay in              *)
(* virtualization mode (MOL leaves it at every context switch); select()    *)
(* has a finite timeout; handlers return; a pending signal is delivered.    *)
Fairness ==
    /\ WF_vars(MainStep) /\ WF_vars(Handler) /\ WF_vars(HostTick)
    /\ WF_vars(TakeIpi) /\ WF_vars(Sighup)
    /\ \A t \in Threads : WF_vars(InterruptEmulation(t))

Spec == Init /\ [][Next]_vars /\ Fairness

-----------------------------------------------------------------------------
(* No work is lost: whenever the flag of some kind of work is set, either   *)
(* mregs->interrupt is set, or mainloop_interrupt() has yet to look at that *)
(* kind, or a thread that sets mregs->interrupt is still on its way.  This  *)
(* is why mainloop_interrupt() clears the flag before it looks.             *)
WorkIsAnnounced ==
    \A k \in work : \/ interrupt = 1
                    \/ pc \in Before(k)
                    \/ \E t \in Threads : tpc[t] = "set"

(* Something ends the sleep in select() before its timeout: a byte in the    *)
(* pipe, a thread that has not finished abort_doze() and writes one, or a    *)
(* pending SIGHUP, which makes select() return with EINTR.                  *)
WakeupComing ==
    \/ pipe > 0
    \/ \E t \in Threads : tpc[t] \in {"inc", "write"}
    \/ sig = 1

(* doze() never sleeps through the interrupt of another thread, at whatever *)
(* points of doze() and of the loop before it the thread comes.             *)
ThreadsWakeDoze == pc = "select" /\ byThread = 1 => WakeupComing

(* The same for every interrupt: mainloop.c calls abort_doze() "pointless"  *)
(* on the main thread, whose signal handlers also call                      *)
(* interrupt_emulation().                                                   *)
NoSleepThroughInterrupt == pc = "select" /\ interrupt = 1 => WakeupComing

(* All work is eventually taken by the main thread, unless it quits first.  *)
WorkIsTaken == \A k \in Kinds : k \in work ~> (k \notin work \/ pc = "out")

(* quit_emulation() ends the main loop, wherever the main thread was.       *)
QuitEndsLoop == stop = "kQuit" ~> pc = "out"

(* No interrupt is lost: work of a thread, an interrupt handler or a signal  *)
(* handler is announced until the main thread has looked for it              *)
(* (mainloop_interrupt()), and doze() does not sleep through the interrupt   *)
(* of a thread.                                                              *)
NoInterruptLost ==
    /\ TypeOK
    /\ WorkIsAnnounced /\ ThreadsWakeDoze

(* Every interrupt has its effect: work is taken, and a quit ends the loop.  *)
InterruptsServed == WorkIsTaken /\ QuitEndsLoop
=============================================================================
