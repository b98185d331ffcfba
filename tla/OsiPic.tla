------------------------------- MODULE OsiPic -------------------------------
(***************************************************************************)
(* The paravirtual interrupt controller of OS X and Linux guests and the   *)
(* mailbox through which it raises and lowers the interrupt line of the     *)
(* emulated CPU.                                                           *)
(*                                                                         *)
(* Device threads and the main thread drive interrupt lines under the       *)
(* controller's lock.  The line to the CPU is not changed by them: they     *)
(* leave a request in two words, __cpu_irq_raise and __cpu_irq_lower, which *)
(* the main thread picks up in mainloop_interrupt() WITHOUT the lock.  A    *)
(* step below is one access to those words.                                 *)
(*                                                                         *)
(* Sources: drivers/osi_pic.c, include/molcpu.h, cpu/mainloop.c.            *)
(***************************************************************************)
EXTENDS Integers, FiniteSets

CONSTANTS
    Irqs,       \* the interrupt lines in use
    Devices     \* the threads other than the main thread that drive lines

Main == "main"
None == "none"

ASSUME DevicesAssumption == Main \notin Devices /\ None \notin Devices

VARIABLES
    level, mask,    \* ps.level, ps.mask
    cpu_irq,        \* ps.cpu_irq
    lock,           \* owner of ps.lock, kept only while a request is stored
    step,           \* what the owner does next
    irq_raise,      \* __cpu_irq_raise
    irq_lower,      \* __cpu_irq_lower
    interrupt,      \* mregs->interrupt
    irqPending,     \* fb_IRQPending: the CPU's interrupt line
    ee,             \* MSR_EE: the guest accepts interrupts
    pc              \* control point of the main thread

vars == <<level, mask, cpu_irq, lock, step, irq_raise, irq_lower, interrupt,
          irqPending, ee, pc>>
pic  == <<level, mask, cpu_irq>>
cpu  == <<irqPending, ee>>

Bit == {0, 1}
Callers == Devices \cup {Main}
(* Control points of the main thread: it runs the guest and its handlers,  *)
(* or is in mainloop_interrupt(), first for I/O and then at the mailbox.    *)
MainPoints == {"run", "io", "raise", "clr_raise", "lower", "clr_lower"}

TypeOK ==
    /\ level \in SUBSET Irqs
    /\ mask \in SUBSET Irqs
    /\ cpu_irq \in Bit
    /\ lock \in Callers \cup {None}
    /\ step \in {"none", "raise", "lower", "intr"}
    /\ irq_raise \in Bit
    /\ irq_lower \in Bit
    /\ interrupt \in Bit
    /\ irqPending \in Bit
    /\ ee \in Bit
    /\ pc \in MainPoints

Init ==
    /\ level = {} /\ mask = {} /\ cpu_irq = 0
    /\ lock = None /\ step = "none"
    /\ irq_raise = 0 /\ irq_lower = 0
    /\ interrupt = 0
    /\ irqPending = 0 /\ ee = 0
    /\ pc = "run"

-----------------------------------------------------------------------------
(* set_cpu_irq( raise, &ps.cpu_irq ): nothing happens unless the line has   *)
(* to change; then set_cpu_irq_() starts and the lock stays held.           *)
SetCpuIrq(t, raise) ==
    IF cpu_irq = raise
    THEN UNCHANGED <<cpu_irq, lock, step>>
    ELSE cpu_irq' = raise /\ lock' = t /\ step' = "raise"

(* The main thread calls the controller from handlers only.                 *)
MayCall(t) == lock = None /\ (t = Main => pc \in {"run", "io"})

source_hi(t, i) ==
    /\ MayCall(t)
    /\ level' = level \cup {i}
    /\ IF level' \cap mask # {}
       THEN SetCpuIrq(t, 1)
       ELSE UNCHANGED <<cpu_irq, lock, step>>
    /\ UNCHANGED <<mask, irq_raise, irq_lower, interrupt, irqPending, ee, pc>>

source_low(t, i) ==
    /\ MayCall(t)
    /\ level' = level \ {i}
    /\ IF level' \cap mask = {}
       THEN SetCpuIrq(t, 0)
       ELSE UNCHANGED <<cpu_irq, lock, step>>
    /\ UNCHANGED <<mask, irq_raise, irq_lower, interrupt, irqPending, ee, pc>>

(* set_cpu_irq_(): two stores, then interrupt_emulation() and the unlock.   *)
StoreRaise ==
    /\ step = "raise"
    /\ irq_raise' = cpu_irq
    /\ step' = "lower"
    /\ UNCHANGED <<pic, lock, irq_lower, interrupt, cpu, pc>>

(* Mutant: the request to lower is not left when the line is lowered. *)
StoreLowerOnlyClears ==
    /\ step = "lower"
    /\ irq_lower' = 0
    /\ step' = "intr"
    /\ UNCHANGED <<pic, lock, irq_raise, interrupt, cpu, pc>>

StoreLower ==
    /\ step = "lower"
    /\ irq_lower' = 1 - cpu_irq
    /\ step' = "intr"
    /\ UNCHANGED <<pic, lock, irq_raise, interrupt, cpu, pc>>

(* Mutant: the main thread is not told of the request. *)
UnlockOnly ==
    /\ step = "intr"
    /\ lock' = None /\ step' = "none"
    /\ UNCHANGED <<pic, irq_raise, irq_lower, interrupt, cpu, pc>>

InterruptEmulation ==
    /\ step = "intr"
    /\ interrupt' = 1
    /\ lock' = None /\ step' = "none"
    /\ UNCHANGED <<pic, irq_raise, irq_lower, cpu, pc>>

-----------------------------------------------------------------------------
(* set_cpu_irq_private( raise ): a raised line interrupts a guest that       *)
(* accepts interrupts at once, which clears MSR_EE.                         *)
SetCpuIrqPrivate(raise) ==
    /\ irqPending' = raise
    /\ ee' = IF raise = 1 THEN 0 ELSE ee

(* set_cpu_irq_mt(): main thread only; it discards requests and sets the    *)
(* line itself.  All of it happens under the lock.                          *)
SetCpuIrqMt(raise) ==
    IF cpu_irq = raise
    THEN UNCHANGED <<cpu_irq, irq_raise, irq_lower, cpu>>
    ELSE /\ cpu_irq' = raise
         /\ irq_raise' = 0 /\ irq_lower' = 0
         /\ SetCpuIrqPrivate(raise)

(* OSI calls of the guest, made from a return vector's handler.             *)
osip_pic_unmask_irq(i) ==
    /\ lock = None /\ pc = "run"
    /\ mask' = mask \cup {i}
    /\ IF level \cap mask' # {}
       THEN SetCpuIrqMt(1)
       ELSE UNCHANGED <<cpu_irq, irq_raise, irq_lower, cpu>>
    /\ UNCHANGED <<level, lock, step, interrupt, pc>>

(* Mutant: the requests left in the mailbox survive. *)
osip_pic_mask_irq_keeps(i) ==
    /\ lock = None /\ pc = "run"
    /\ mask' = mask \ {i}
    /\ IF level \cap mask' = {} /\ cpu_irq = 1
       THEN cpu_irq' = 0 /\ SetCpuIrqPrivate(0)
       ELSE UNCHANGED <<cpu_irq, cpu>>
    /\ UNCHANGED <<level, lock, step, irq_raise, irq_lower, interrupt, pc>>

osip_pic_mask_irq(i) ==
    /\ lock = None /\ pc = "run"
    /\ mask' = mask \ {i}
    /\ IF level \cap mask' = {}
       THEN SetCpuIrqMt(0)
       ELSE UNCHANGED <<cpu_irq, irq_raise, irq_lower, cpu>>
    /\ UNCHANGED <<level, lock, step, interrupt, pc>>

(* The guest sets MSR_EE: the kernel delivers a pending interrupt at once,  *)
(* which leaves MSR_EE clear.                                               *)
GuestEnables ==
    /\ pc = "run" /\ lock # Main /\ ee = 0
    /\ ee' = IF irqPending = 1 THEN 0 ELSE 1
    /\ UNCHANGED <<pic, lock, step, irq_raise, irq_lower, interrupt, irqPending, pc>>

GuestDisables ==
    /\ pc = "run" /\ lock # Main /\ ee = 1
    /\ ee' = 0
    /\ UNCHANGED <<pic, lock, step, irq_raise, irq_lower, interrupt, irqPending, pc>>

-----------------------------------------------------------------------------
(* mainloop_interrupt().  While the main thread holds the lock it is inside *)
(* a call of the controller.                                                *)
MainFree == lock # Main

Enter ==
    /\ MainFree /\ pc = "run" /\ interrupt = 1
    /\ interrupt' = 0
    /\ pc' = "io"
    /\ UNCHANGED <<pic, lock, step, irq_raise, irq_lower, cpu>>

IoDone ==
    /\ MainFree /\ pc = "io"
    /\ pc' = "raise"
    /\ UNCHANGED <<pic, lock, step, irq_raise, irq_lower, interrupt, cpu>>

TestRaise ==
    /\ pc = "raise"
    /\ pc' = IF irq_raise = 1 THEN "clr_raise" ELSE "lower"
    /\ UNCHANGED <<pic, lock, step, irq_raise, irq_lower, interrupt, cpu>>

ClearRaise ==
    /\ pc = "clr_raise"
    /\ irq_raise' = 0
    /\ SetCpuIrqPrivate(1)
    /\ pc' = "lower"
    /\ UNCHANGED <<pic, lock, step, irq_lower, interrupt>>

TestLower ==
    /\ pc = "lower"
    /\ pc' = IF irq_lower = 1 THEN "clr_lower" ELSE "run"
    /\ UNCHANGED <<pic, lock, step, irq_raise, irq_lower, interrupt, cpu>>

ClearLower ==
    /\ pc = "clr_lower"
    /\ irq_lower' = 0
    /\ SetCpuIrqPrivate(0)
    /\ pc' = "run"
    /\ UNCHANGED <<pic, lock, step, irq_raise, interrupt>>

-----------------------------------------------------------------------------
SetCpuIrqStep == StoreRaise \/ StoreLower \/ InterruptEmulation
MainloopInterrupt ==
    Enter \/ IoDone \/ TestRaise \/ ClearRaise \/ TestLower \/ ClearLower

Next ==
    \/ SetCpuIrqStep
    \/ MainloopInterrupt
    \/ \E t \in Callers, i \in Irqs : source_hi(t, i) \/ source_low(t, i)
    \/ \E i \in Irqs : osip_pic_unmask_irq(i) \/ osip_pic_mask_irq(i)
    \/ GuestEnables \/ GuestDisables

(* The lock's owner is scheduled, and the main thread keeps returning to    *)
(* the test of mregs->interrupt (module Mainloop).                          *)
Spec == Init /\ [][Next]_vars /\ WF_vars(SetCpuIrqStep) /\ WF_vars(MainloopInterrupt)

-----------------------------------------------------------------------------
(* The controller's idea of the CPU line, ps.cpu_irq, is "some line is high *)
(* and not masked" after every operation, although source_hi() and          *)
(* source_low() each only look at one direction of the change.              *)
ControllerAgrees == cpu_irq = 1 <=> level \cap mask # {}

Quiet == lock = None /\ pc = "run" /\ interrupt = 0

(* The guest is never left with a stuck interrupt: when the mailbox has     *)
(* been handled, a raised CPU line means that the controller asked for it.  *)
NoStuckIrq == Quiet /\ irqPending = 1 => cpu_irq = 1

(* mainloop.c calls the mailbox "a race free solution": when it has been    *)
(* handled, the CPU line is what the controller asked for.                  *)
LineAgrees == Quiet => irqPending = cpu_irq

(* A pending interrupt is never held back from a guest that accepts it.     *)
PendingIsTaken == irqPending = 1 => ee = 0

(* A raised line reaches the CPU, unless it is lowered first.               *)
RaiseIsDelivered == cpu_irq = 1 ~> (irqPending = 1 \/ cpu_irq = 0)

(* The controller knows which lines want an interrupt, the mailbox leaves no *)
(* interrupt with the processor that the controller does not ask for, and    *)
(* the guest takes one as soon as it accepts interrupts.                     *)
LineNeverStuck == TypeOK /\ ControllerAgrees /\ NoStuckIrq /\ PendingIsTaken
=============================================================================
