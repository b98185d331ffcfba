---------------------------- MODULE BusesProofs ----------------------------
(***************************************************************************)
(* Proofs about the paravirtual interrupt controller and the CPU interrupt *)
(* mailbox, for any set of lines and of device threads, and about the      *)
(* engine of the SCSI bus and the data it moves, for any number of         *)
(* threads, any commands and any block size.                               *)
(***************************************************************************)
EXTENDS OsiPic, ScsiBus, TLAPS

(* The type invariant holds in every reachable state of the controller.     *)
THEOREM TypeCorrect == Spec => []TypeOK
<1>1. Init => TypeOK
  BY DEF Init, TypeOK, Bit, MainPoints
<1>2. TypeOK /\ [Next]_vars => TypeOK'
  <2> SUFFICES ASSUME TypeOK, [Next]_vars PROVE TypeOK'
    OBVIOUS
  <2> USE DEF TypeOK, Bit, MainPoints, Callers
  <2>1. ASSUME NEW t \in Callers, NEW i \in Irqs, source_hi(t, i)
       PROVE  TypeOK'
    BY <2>1 DEF source_hi, SetCpuIrq, MayCall, pic, cpu
  <2>2. ASSUME NEW t \in Callers, NEW i \in Irqs, source_low(t, i)
       PROVE  TypeOK'
    BY <2>2 DEF source_low, SetCpuIrq, MayCall, pic, cpu
  <2>3. ASSUME NEW i \in Irqs, osip_pic_unmask_irq(i)
       PROVE  TypeOK'
    BY <2>3 DEF osip_pic_unmask_irq, SetCpuIrqMt, SetCpuIrqPrivate, pic, cpu
  <2>4. ASSUME NEW i \in Irqs, osip_pic_mask_irq(i)
       PROVE  TypeOK'
    BY <2>4 DEF osip_pic_mask_irq, SetCpuIrqMt, SetCpuIrqPrivate, pic, cpu
  <2>5. CASE StoreRaise
    BY <2>5 DEF StoreRaise, pic, cpu
  <2>6. CASE StoreLower
    BY <2>6 DEF StoreLower, pic, cpu
  <2>7. CASE InterruptEmulation
    BY <2>7 DEF InterruptEmulation, pic, cpu
  <2>8. CASE GuestEnables
    BY <2>8 DEF GuestEnables, pic, cpu
  <2>9. CASE GuestDisables
    BY <2>9 DEF GuestDisables, pic, cpu
  <2>10. CASE Enter
    BY <2>10 DEF Enter, MainFree, pic, cpu
  <2>11. CASE IoDone
    BY <2>11 DEF IoDone, MainFree, pic, cpu
  <2>12. CASE TestRaise
    BY <2>12 DEF TestRaise, pic, cpu
  <2>13. CASE ClearRaise
    BY <2>13 DEF ClearRaise, SetCpuIrqPrivate, pic, cpu
  <2>14. CASE TestLower
    BY <2>14 DEF TestLower, pic, cpu
  <2>15. CASE ClearLower
    BY <2>15 DEF ClearLower, SetCpuIrqPrivate, pic, cpu
  <2>16. CASE UNCHANGED vars
    BY <2>16 DEF vars
  <2> QED
    BY <2>1, <2>2, <2>3, <2>4, <2>5, <2>6, <2>7, <2>8,
           <2>9, <2>10, <2>11, <2>12, <2>13, <2>14, <2>15, <2>16
    DEF Next, SetCpuIrqStep, MainloopInterrupt
<1> QED BY <1>1, <1>2, PTL DEF Spec

-----------------------------------------------------------------------------
(* For any lines and threads, ps.cpu_irq tells whether some line is high    *)
(* and not masked.                                                          *)
THEOREM ControllerCorrect == Spec => []ControllerAgrees
<1>1. Init => ControllerAgrees
  BY DEF Init, ControllerAgrees
<1>2. TypeOK /\ ControllerAgrees /\ [Next]_vars => ControllerAgrees'
  <2> SUFFICES ASSUME TypeOK, ControllerAgrees, [Next]_vars PROVE ControllerAgrees'
    OBVIOUS
  <2> USE DEF TypeOK, Bit, ControllerAgrees
  <2>1. ASSUME NEW t \in Callers, NEW i \in Irqs, source_hi(t, i)
       PROVE  ControllerAgrees'
    BY <2>1 DEF source_hi, SetCpuIrq, MayCall, pic, cpu
  <2>2. ASSUME NEW t \in Callers, NEW i \in Irqs, source_low(t, i)
       PROVE  ControllerAgrees'
    BY <2>2 DEF source_low, SetCpuIrq, MayCall, pic, cpu
  <2>3. ASSUME NEW i \in Irqs, osip_pic_unmask_irq(i)
       PROVE  ControllerAgrees'
    BY <2>3 DEF osip_pic_unmask_irq, SetCpuIrqMt, SetCpuIrqPrivate, pic, cpu
  <2>4. ASSUME NEW i \in Irqs, osip_pic_mask_irq(i)
       PROVE  ControllerAgrees'
    BY <2>4 DEF osip_pic_mask_irq, SetCpuIrqMt, SetCpuIrqPrivate, pic, cpu
  <2>5. CASE StoreRaise
    BY <2>5 DEF StoreRaise, pic, cpu
  <2>6. CASE StoreLower
    BY <2>6 DEF StoreLower, pic, cpu
  <2>7. CASE InterruptEmulation
    BY <2>7 DEF InterruptEmulation, pic, cpu
  <2>8. CASE GuestEnables
    BY <2>8 DEF GuestEnables, pic, cpu
  <2>9. CASE GuestDisables
    BY <2>9 DEF GuestDisables, pic, cpu
  <2>10. CASE Enter
    BY <2>10 DEF Enter, MainFree, pic, cpu
  <2>11. CASE IoDone
    BY <2>11 DEF IoDone, MainFree, pic, cpu
  <2>12. CASE TestRaise
    BY <2>12 DEF TestRaise, pic, cpu
  <2>13. CASE ClearRaise
    BY <2>13 DEF ClearRaise, SetCpuIrqPrivate, pic, cpu
  <2>14. CASE TestLower
    BY <2>14 DEF TestLower, pic, cpu
  <2>15. CASE ClearLower
    BY <2>15 DEF ClearLower, SetCpuIrqPrivate, pic, cpu
  <2>16. CASE UNCHANGED vars
    BY <2>16 DEF vars
  <2> QED
    BY <2>1, <2>2, <2>3, <2>4, <2>5, <2>6, <2>7, <2>8,
           <2>9, <2>10, <2>11, <2>12, <2>13, <2>14, <2>15, <2>16
    DEF Next, SetCpuIrqStep, MainloopInterrupt
<1> QED BY <1>1, <1>2, TypeCorrect, PTL DEF Spec

-----------------------------------------------------------------------------
(* A guest with MSR_EE set never has an interrupt pending.                  *)
THEOREM PendingTaken == Spec => []PendingIsTaken
<1>1. Init => PendingIsTaken
  BY DEF Init, PendingIsTaken
<1>2. TypeOK /\ PendingIsTaken /\ [Next]_vars => PendingIsTaken'
  <2> SUFFICES ASSUME TypeOK, PendingIsTaken, [Next]_vars PROVE PendingIsTaken'
    OBVIOUS
  <2> USE DEF TypeOK, Bit, PendingIsTaken
  <2>1. ASSUME NEW t \in Callers, NEW i \in Irqs, source_hi(t, i)
       PROVE  PendingIsTaken'
    BY <2>1 DEF source_hi, SetCpuIrq, MayCall, pic, cpu
  <2>2. ASSUME NEW t \in Callers, NEW i \in Irqs, source_low(t, i)
       PROVE  PendingIsTaken'
    BY <2>2 DEF source_low, SetCpuIrq, MayCall, pic, cpu
  <2>3. ASSUME NEW i \in Irqs, osip_pic_unmask_irq(i)
       PROVE  PendingIsTaken'
    BY <2>3 DEF osip_pic_unmask_irq, SetCpuIrqMt, SetCpuIrqPrivate, pic, cpu
  <2>4. ASSUME NEW i \in Irqs, osip_pic_mask_irq(i)
       PROVE  PendingIsTaken'
    BY <2>4 DEF osip_pic_mask_irq, SetCpuIrqMt, SetCpuIrqPrivate, pic, cpu
  <2>5. CASE StoreRaise
    BY <2>5 DEF StoreRaise, pic, cpu
  <2>6. CASE StoreLower
    BY <2>6 DEF StoreLower, pic, cpu
  <2>7. CASE InterruptEmulation
    BY <2>7 DEF InterruptEmulation, pic, cpu
  <2>8. CASE GuestEnables
    BY <2>8 DEF GuestEnables, pic, cpu
  <2>9. CASE GuestDisables
    BY <2>9 DEF GuestDisables, pic, cpu
  <2>10. CASE Enter
    BY <2>10 DEF Enter, MainFree, pic, cpu
  <2>11. CASE IoDone
    BY <2>11 DEF IoDone, MainFree, pic, cpu
  <2>12. CASE TestRaise
    BY <2>12 DEF TestRaise, pic, cpu
  <2>13. CASE ClearRaise
    BY <2>13 DEF ClearRaise, SetCpuIrqPrivate, pic, cpu
  <2>14. CASE TestLower
    BY <2>14 DEF TestLower, pic, cpu
  <2>15. CASE ClearLower
    BY <2>15 DEF ClearLower, SetCpuIrqPrivate, pic, cpu
  <2>16. CASE UNCHANGED vars
    BY <2>16 DEF vars
  <2> QED
    BY <2>1, <2>2, <2>3, <2>4, <2>5, <2>6, <2>7, <2>8,
           <2>9, <2>10, <2>11, <2>12, <2>13, <2>14, <2>15, <2>16
    DEF Next, SetCpuIrqStep, MainloopInterrupt
<1> QED BY <1>1, <1>2, TypeCorrect, PTL DEF Spec

-----------------------------------------------------------------------------
(* The lock is held exactly while a request is being stored.                *)
LockInv == (step = "none") <=> (lock = None)

(* Why an interrupt cannot get stuck.  set_cpu_irq_( 0 ) withdraws a        *)
(* request to raise before it leaves the request to lower, and the main     *)
(* thread looks for the request to lower last: as long as the controller    *)
(* wants the line low and it is (or is about to be) high, a request to      *)
(* lower is present, or is about to be stored; and a request that is        *)
(* present is one the main thread is going to look at.                      *)
StuckInv ==
    /\ LockInv
    /\ cpu_irq = 0 /\ irq_raise = 1 => step = "raise"
    /\ cpu_irq = 0 /\ (irqPending = 1 \/ pc = "clr_raise") =>
          irq_lower = 1 \/ step \in {"raise", "lower"} 
    /\ cpu_irq = 0 /\ irq_lower = 1 =>
          interrupt = 1 \/ step # "none" \/ pc # "run"

(* For any lines and threads: the CPU line never stays raised when the      *)
(* controller wants it low.                                                 *)
THEOREM NeverStuck == Spec => []NoStuckIrq
<1>1. Init => StuckInv
  BY DEF Init, StuckInv, LockInv
<1>2. TypeOK /\ StuckInv /\ [Next]_vars => StuckInv'
  <2> SUFFICES ASSUME TypeOK, StuckInv, [Next]_vars PROVE StuckInv'
    OBVIOUS
  <2> USE DevicesAssumption DEF TypeOK, Bit, MainPoints, Callers, Main, None, StuckInv, LockInv
  <2>1. ASSUME NEW t \in Callers, NEW i \in Irqs, source_hi(t, i)
       PROVE  StuckInv'
    BY <2>1 DEF source_hi, SetCpuIrq, MayCall, pic, cpu
  <2>2. ASSUME NEW t \in Callers, NEW i \in Irqs, source_low(t, i)
       PROVE  StuckInv'
    BY <2>2 DEF source_low, SetCpuIrq, MayCall, pic, cpu
  <2>3. ASSUME NEW i \in Irqs, osip_pic_unmask_irq(i)
       PROVE  StuckInv'
    BY <2>3 DEF osip_pic_unmask_irq, SetCpuIrqMt, SetCpuIrqPrivate, pic, cpu
  <2>4. ASSUME NEW i \in Irqs, osip_pic_mask_irq(i)
       PROVE  StuckInv'
    BY <2>4 DEF osip_pic_mask_irq, SetCpuIrqMt, SetCpuIrqPrivate, pic, cpu
  <2>5. CASE StoreRaise
    BY <2>5 DEF StoreRaise, pic, cpu
  <2>6. CASE StoreLower
    BY <2>6 DEF StoreLower, pic, cpu
  <2>7. CASE InterruptEmulation
    BY <2>7 DEF InterruptEmulation, pic, cpu
  <2>8. CASE GuestEnables
    BY <2>8 DEF GuestEnables, pic, cpu
  <2>9. CASE GuestDisables
    BY <2>9 DEF GuestDisables, pic, cpu
  <2>10. CASE Enter
    BY <2>10 DEF Enter, MainFree, pic, cpu
  <2>11. CASE IoDone
    BY <2>11 DEF IoDone, MainFree, pic, cpu
  <2>12. CASE TestRaise
    BY <2>12 DEF TestRaise, pic, cpu
  <2>13. CASE ClearRaise
    BY <2>13 DEF ClearRaise, SetCpuIrqPrivate, pic, cpu
  <2>14. CASE TestLower
    BY <2>14 DEF TestLower, pic, cpu
  <2>15. CASE ClearLower
    BY <2>15 DEF ClearLower, SetCpuIrqPrivate, pic, cpu
  <2>16. CASE UNCHANGED vars
    BY <2>16 DEF vars
  <2> QED
    BY <2>1, <2>2, <2>3, <2>4, <2>5, <2>6, <2>7, <2>8,
           <2>9, <2>10, <2>11, <2>12, <2>13, <2>14, <2>15, <2>16
    DEF Next, SetCpuIrqStep, MainloopInterrupt
<1>3. TypeOK /\ StuckInv => NoStuckIrq
  BY DEF TypeOK, Bit, StuckInv, LockInv, NoStuckIrq, Quiet
<1> QED BY <1>1, <1>2, <1>3, TypeCorrect, PTL DEF Spec

-----------------------------------------------------------------------------
(* When only the main thread drives lines, the two words are a true         *)
(* mailbox: outside set_cpu_irq_() they hold at most one request, it is the *)
(* current one, and the CPU line is up to date when they hold none.         *)
MailInv ==
    /\ LockInv
    /\ lock = Main => pc \in {"run", "io"}
    /\ step \in {"lower", "intr"} => irq_raise = cpu_irq
    /\ step = "intr" => irq_lower = 1 - cpu_irq
    /\ step = "none" =>
         /\ irq_raise = 1 => cpu_irq = 1 /\ irq_lower = 0
         /\ irq_lower = 1 => cpu_irq = 0
         /\ irq_raise = 0 /\ irq_lower = 0 => irqPending = cpu_irq
         /\ irq_raise = 1 => interrupt = 1 \/ pc \in {"io", "raise", "clr_raise"}
         /\ irq_lower = 1 => interrupt = 1 \/ pc # "run"
    /\ pc = "clr_raise" => irq_raise = 1
    /\ pc = "clr_lower" => irq_lower = 1

(* When only the main thread drives lines, the mailbox is what its comment  *)
(* says: once handled, the CPU line is what the controller asked for.       *)
THEOREM MainThreadLineAgrees ==
    ASSUME Devices = {}
    PROVE  Spec => []LineAgrees
<1>1. Init => MailInv
  BY DEF Init, MailInv, LockInv, Main, None
<1>2. TypeOK /\ MailInv /\ [Next]_vars => MailInv'
  <2> SUFFICES ASSUME TypeOK, MailInv, [Next]_vars PROVE MailInv'
    OBVIOUS
  <2> USE DEF TypeOK, Bit, MainPoints, Callers, Main, None, MailInv, LockInv
  <2>1. ASSUME NEW t \in Callers, NEW i \in Irqs, source_hi(t, i)
       PROVE  MailInv'
    BY <2>1 DEF source_hi, SetCpuIrq, MayCall, pic, cpu
  <2>2. ASSUME NEW t \in Callers, NEW i \in Irqs, source_low(t, i)
       PROVE  MailInv'
    BY <2>2 DEF source_low, SetCpuIrq, MayCall, pic, cpu
  <2>3. ASSUME NEW i \in Irqs, osip_pic_unmask_irq(i)
       PROVE  MailInv'
    BY <2>3 DEF osip_pic_unmask_irq, SetCpuIrqMt, SetCpuIrqPrivate, pic, cpu
  <2>4. ASSUME NEW i \in Irqs, osip_pic_mask_irq(i)
       PROVE  MailInv'
    BY <2>4 DEF osip_pic_mask_irq, SetCpuIrqMt, SetCpuIrqPrivate, pic, cpu
  <2>5. CASE StoreRaise
    BY <2>5 DEF StoreRaise, pic, cpu
  <2>6. CASE StoreLower
    BY <2>6 DEF StoreLower, pic, cpu
  <2>7. CASE InterruptEmulation
    BY <2>7 DEF InterruptEmulation, pic, cpu
  <2>8. CASE GuestEnables
    BY <2>8 DEF GuestEnables, pic, cpu
  <2>9. CASE GuestDisables
    BY <2>9 DEF GuestDisables, pic, cpu
  <2>10. CASE Enter
    BY <2>10 DEF Enter, MainFree, pic, cpu
  <2>11. CASE IoDone
    BY <2>11 DEF IoDone, MainFree, pic, cpu
  <2>12. CASE TestRaise
    BY <2>12 DEF TestRaise, pic, cpu
  <2>13. CASE ClearRaise
    BY <2>13 DEF ClearRaise, SetCpuIrqPrivate, pic, cpu
  <2>14. CASE TestLower
    BY <2>14 DEF TestLower, pic, cpu
  <2>15. CASE ClearLower
    BY <2>15 DEF ClearLower, SetCpuIrqPrivate, pic, cpu
  <2>16. CASE UNCHANGED vars
    BY <2>16 DEF vars
  <2> QED
    BY <2>1, <2>2, <2>3, <2>4, <2>5, <2>6, <2>7, <2>8,
           <2>9, <2>10, <2>11, <2>12, <2>13, <2>14, <2>15, <2>16
    DEF Next, SetCpuIrqStep, MainloopInterrupt
<1>3. TypeOK /\ MailInv => LineAgrees
  BY DEF TypeOK, Bit, MailInv, LockInv, LineAgrees, Quiet
<1> QED BY <1>1, <1>2, <1>3, TypeCorrect, PTL DEF Spec

(* All together: what the controller asks for and what the processor has do    *)
(* not drift apart for good (LineNeverStuck).                                  *)
THEOREM LineFollows == Spec => []LineNeverStuck
BY TypeCorrect, ControllerCorrect, NeverStuck, PendingTaken, PTL DEF LineNeverStuck

-----------------------------------------------------------------------------
(* The engine of the SCSI bus.  Where a thread is, and what a callback is for. *)
PlaceNames == {"out", "loop", "call", "ret", "start", "issue"}
Calls == {"", "sphase", "xfer", "mes", "cmd", "next"}
Hows == {"", "loop", "advance", "status", "freeing", "select", "return", "reset",
         "info", "data"}
Args == Hows \X (Phases \cup {""})
Places == [at : PlaceNames, call : Calls, arg : Args, id : Nat, res : Int]
Xfers == [unit : {"initiator", "target"}, req : Nat, res : Nat, done : States]

(* The kinds of values of the bus.                                           *)
SideTypes ==
    /\ bstate \in States /\ sphase \in Phases /\ xfer \in {"info", "data"}
    /\ saved \in [state : States, sphase : Phases, xfer : {"info", "data"}]
    /\ info \in Xfers /\ data \in Xfers
    /\ atn \in BOOLEAN /\ mesq \in Nat
    /\ initiator \in BOOLEAN /\ target \in BOOLEAN
    /\ dreq \in [count : Nat, in : BOOLEAN] /\ available \in BOOLEAN
    /\ ready \in Nat /\ scmd \in Commands /\ msg \in Messages

BusTypes ==
    /\ identifier \in Nat /\ engine_lock \in Nat
    /\ bpc \in [BusActors -> Places]
    /\ SideTypes

(* Outside scsi_reset() nobody but one thread is in a callback of this       *)
(* identifier.                                                               *)
OneCaller ==
    /\ \A t, u \in BusActors : Calling(t) /\ Calling(u) => t = u
    /\ engine_lock = identifier <=> \E t \in BusActors : Calling(t)

(* Who holds the lock, and who is in a callback.                             *)
EngineInv ==
    /\ identifier > 0 /\ engine_lock <= identifier
    /\ busLock \in BusActors \cup {"free"}
    /\ \A t \in BusActors : bpc[t].id <= identifier
    /\ \A t \in BusActors : bpc[t].at = "loop" <=> busLock = t
    /\ OneCaller

(* A step of one thread, as far as the lock and the callbacks see it.        *)
Others(t) ==
    \A u \in BusActors \ {t} : \/ bpc'[u] = bpc[u]
                               \/ bpc[u].at = "out" /\ bpc'[u] = At("start")
Stays(t) ==
    /\ bpc'[t] = bpc[t] \/ (bpc[t].at = "call" /\ bpc'[t].at = "ret" /\ bpc'[t].id = bpc[t].id)
    /\ engine_lock' = engine_lock /\ busLock' = busLock
CallsUser(t) ==
    /\ engine_lock' = identifier /\ busLock' = "free"
    /\ bpc'[t].at \in {"call", "ret"} /\ bpc'[t].id = identifier
    /\ (busLock = t /\ engine_lock # identifier) \/ (Calling(t) /\ busLock = "free")
Goes(t) ==
    /\ \/ Calling(t) /\ engine_lock' = engine_lock - 1 /\ busLock = "free"
       \/ ~Calling(t) /\ engine_lock' = engine_lock /\ busLock \in {t, "free"}
    /\ \/ busLock' = t /\ bpc'[t] = At("loop")
       \/ busLock' = "free" /\ bpc'[t] = At("out")
ThreadStep(t) == identifier' = identifier /\ Others(t) /\ (Stays(t) \/ CallsUser(t) \/ Goes(t))

(* The fields of a place without a callback.                                  *)
LEMMA AtFields == \A a : At(a).at = a /\ At(a).id = 0 /\ At(a).call = ""
BY DEF At

(* Whatever the callback is for, a step in which one thread calls, comes      *)
(* back, goes on or leaves keeps the lock and the callbacks consistent.       *)
LEMMA ThreadStepKeeps ==
  ASSUME BusTypes, EngineInv, NEW t \in BusActors, ThreadStep(t), bpc' \in [BusActors -> Places],
         engine_lock' \in Int
  PROVE  EngineInv'
<1> USE BusAssumption DEF BusActors
<1>1. t # "free"
  OBVIOUS
<1>a. At("loop").at = "loop" /\ At("out").at = "out" /\ At("start").at = "start"
      /\ At("loop").id = 0 /\ At("out").id = 0 /\ At("start").id = 0
  BY AtFields
<1>2. /\ \A u \in BusActors : bpc'[u].id <= identifier'
      /\ \A u \in BusActors : bpc'[u].at = "loop" <=> busLock' = u
  <2>1. \A u \in BusActors \ {t} : bpc'[u].id <= identifier' /\ (bpc'[u].at = "loop" <=> bpc[u].at = "loop")
    BY <1>a DEF ThreadStep, Others, EngineInv, BusTypes
  <2>2. bpc'[t].id <= identifier' /\ (bpc'[t].at = "loop" <=> busLock' = t)
    BY <1>1, <1>a DEF ThreadStep, Stays, CallsUser, Goes, EngineInv, BusTypes
  <2>3. busLock' = busLock \/ busLock \in {t, "free"}
    BY DEF ThreadStep, Stays, CallsUser, Goes
  <2>4. busLock' = busLock \/ busLock' \in {t, "free"}
    BY DEF ThreadStep, Stays, CallsUser, Goes
  <2>5. \A u \in BusActors : u # "free" /\ (bpc[u].at = "loop" <=> busLock = u)
    BY DEF EngineInv
  <2> QED BY <2>1, <2>2, <2>3, <2>4, <2>5
<1>3. \A u \in BusActors \ {t} : Calling(u)' <=> Calling(u)
  BY <1>a DEF ThreadStep, Others, Calling, EngineInv
<1>4. CASE Stays(t)
  <2>1. Calling(t)' <=> Calling(t)
    BY <1>4 DEF ThreadStep, Stays, Calling
  <2> QED BY <1>2, <1>3, <1>4, <2>1 DEF Stays, EngineInv, OneCaller, ThreadStep
<1>5. CASE CallsUser(t)
  <2>1. Calling(t)' /\ \A u \in BusActors \ {t} : ~Calling(u)
    BY <1>5 DEF ThreadStep, CallsUser, Calling, EngineInv, OneCaller
  <2> QED BY <1>2, <1>3, <1>5, <2>1 DEF CallsUser, EngineInv, OneCaller, ThreadStep
<1>6. CASE Goes(t)
  <2>1. ~Calling(t)'
    BY <1>6, <1>a DEF Goes, Calling
  <2>2. engine_lock' \in Int /\ engine_lock \in Nat /\ identifier \in Nat
    BY DEF BusTypes
  <2>3. CASE Calling(t)
    <3>1. engine_lock = identifier /\ \A u \in BusActors \ {t} : ~Calling(u)
      BY <2>3 DEF EngineInv, OneCaller
    <3> QED BY <1>2, <1>3, <1>6, <2>1, <2>2, <2>3, <3>1 DEF Goes, EngineInv, OneCaller, ThreadStep
  <2>4. CASE ~Calling(t)
    <3> QED BY <1>2, <1>3, <1>6, <2>1, <2>2, <2>4 DEF Goes, EngineInv, OneCaller, ThreadStep
  <2> QED BY <2>3, <2>4
<1> QED BY <1>4, <1>5, <1>6 DEF ThreadStep

-----------------------------------------------------------------------------
(* What a callback that is under way is for, and what it may find.           *)
CallFits(c, how, done, r) ==
    /\ c \in {"sphase", "xfer", "mes", "cmd", "next"}
    /\ c \in {"mes", "next"} => done
    /\ c = "xfer" => /\ bstate = "transfering" /\ how = xfer /\ XferOf(xfer).res < XferOf(xfer).req
                     /\ done => \/ r \in {ERR_MAY_BLOCK, ERR_NO_DATA}
                                \/ 0 <= r /\ r <= XferOf(xfer).req - XferOf(xfer).res
    /\ c = "mes" => bstate = "mes_handling"
    /\ c = "cmd" => bstate = "cmd_handling"
    /\ c = "next" => bstate \in {"advancing", "data_preparing", "cmd_handling"}
    /\ c = "sphase" =>
          /\ how \in {"loop", "advance", "status", "freeing", "select", "return"}
          /\ how = "select" => sphase = "selection"
          /\ how \in {"return", "freeing"} => bstate = "idling"
          /\ how = "freeing" => sphase = "bus_free"

CallInv ==
    \A t \in BusActors : Calling(t) =>
        CallFits(bpc[t].call, bpc[t].arg[1], bpc[t].at = "ret", bpc[t].res)

(* Only the main thread takes the bus.                                       *)
ArbitrationInv == sphase = "arbitration" => \A t \in BusThreads : ~Calling(t)

(* Each state of the engine and the phase it is in, what a transfer is for,  *)
(* and where a message phase goes back to.                                   *)
PhaseInv ==
    /\ sphase \in {"bus_free", "arbitration"} => bstate = "idling"
    /\ bstate = "transfering" =>
          IF xfer = "info"
          THEN \/ info.done = "mes_out_ending" /\ sphase = "mes_out"
               \/ info.done = "mes_in_ending" /\ sphase = "mes_in"
          ELSE \/ data.done = "cmd_read_ending" /\ sphase = "command"
               \/ data.done \in {"data_switching", "data_preparing"} /\ sphase \in DataPhases
               \/ data.done = "advancing" /\ sphase = "status"
    /\ bstate = "mes_out_ending" => xfer = "info" /\ info.done = "mes_out_ending"
    /\ bstate \in {"cmd_read_ending", "data_switching"} => xfer = "data" /\ data.done = bstate
    /\ PhasesExpected

SavedInv ==
    /\ saved.state \in {"idling", "advancing", "cmd_handling", "data_preparing"}
    /\ saved.sphase \notin MesPhases \cup {"arbitration"}
    /\ saved.sphase = "bus_free" => saved.state = "idling"
    /\ saved.state = "cmd_handling" => saved.sphase = "command"

(* How far a transfer has come: what has been moved is never more than was   *)
(* asked for, and the length of a message or command is learnt from its      *)
(* beginning.                                                                *)
LengthInv ==
    /\ info.res <= info.req /\ data.res <= data.req
    /\ bstate = "mes_out_ending" => info.res = info.req
    /\ bstate = "cmd_read_ending" => data.res = data.req
    /\ bstate \in {"transfering", "mes_out_ending"} /\ xfer = "info" /\ info.done = "mes_out_ending" =>
          info.req <= msg.len
    /\ bstate \in {"transfering", "cmd_read_ending"} /\ xfer = "data" /\ data.done = "cmd_read_ending" =>
          data.req <= scmd.len
    /\ scmd.size = 0 \/ scmd \in BusCommands
    /\ dreq.count = 0 \/ \E c \in BusCommands : dreq.count \in 1 .. c.size

StateInv == PhaseInv /\ SavedInv /\ LengthInv

(* The engine runs, waits for data, or rests.                                *)
Waits == bstate = "idling" \/ (bstate = "transfering" /\ ~DataAvailable(xfer))
Running ==
    Waits \/ \E t \in BusActors : bpc[t].at \in {"loop", "start"} \/ Calling(t)

BusInv == BusTypes /\ EngineInv /\ CallInv /\ ArbitrationInv /\ StateInv /\ Running

(* The ways a thread goes on.                                                *)
LEMMA PlaceFields ==
  ASSUME NEW a \in PlaceNames, NEW c \in Calls, NEW g \in Args, NEW i \in Nat, NEW n \in Int,
         NEW r, r = [at |-> a, call |-> c, arg |-> g, id |-> i, res |-> n]
  PROVE  r \in Places /\ r.at = a /\ r.call = c /\ r.arg = g /\ r.id = i /\ r.res = n
BY DEF Places

(* A place without a callback is a place.                                     *)
LEMMA AtIsPlace == \A a \in PlaceNames : At(a) \in Places
<1> TAKE a \in PlaceNames
<1>1. <<"", "">> \in Args /\ "" \in Calls
  BY DEF Args, Hows, Calls
<1> DEFINE g == <<"", "">>
<1> HIDE DEF g
<1>2. g \in Args
  BY <1>1 DEF g
<1> DEFINE c == ""
           r == [at |-> a, call |-> c, arg |-> g, id |-> 0, res |-> 0]
<1>3. At(a) = r
  BY DEF At, g
<1>4. c \in Calls
  BY <1>1
<1> HIDE DEF c
<1>5. r \in Places
  BY <1>2, <1>4, PlaceFields
<1> QED BY <1>3, <1>5, Zenon

(* Where CALL_USER leaves the thread.                                         *)
LEMMA CallFields ==
  ASSUME bpc \in [BusActors -> Places], identifier \in Nat, NEW t \in BusActors,
         NEW c \in Calls, NEW k \in Hows, NEW old \in Phases, CallUser(t, c, k, old)
  PROVE  /\ bpc' \in [BusActors -> Places]
         /\ \A u \in BusActors \ {t} : bpc'[u] = bpc[u]
         /\ bpc'[t].at = IF c \in {"next", "mes"} THEN "ret" ELSE "call"
         /\ bpc'[t].call = c /\ bpc'[t].arg = <<k, old>> /\ bpc'[t].id = identifier
         /\ bpc'[t].res = 0
<1> DEFINE a == IF c \in {"next", "mes"} THEN "ret" ELSE "call"
           g == <<k, old>>
           r == [at |-> a, call |-> c, arg |-> g, id |-> identifier, res |-> 0]
<1>1. a \in PlaceNames
  BY DEF PlaceNames
<1>2. g \in Args
  BY DEF Args
<1> HIDE DEF a, g
<1>3. r \in Places /\ r.at = a /\ r.call = c /\ r.arg = g /\ r.id = identifier /\ r.res = 0
  BY <1>1, <1>2, PlaceFields
<1>4. bpc' = [bpc EXCEPT ![t] = r]
  BY DEF CallUser, a, g
<1> HIDE DEF r
<1>5. /\ bpc' \in [BusActors -> Places] /\ bpc'[t] = r
      /\ \A u \in BusActors \ {t} : bpc'[u] = bpc[u]
  BY <1>3, <1>4
<1> QED BY <1>3, <1>5, Zenon DEF a, g

-----------------------------------------------------------------------------
(* A thread that owns the engine: it runs it, or is back from its callback.   *)
Owner(t) ==
    \/ InEngine(t) /\ engine_lock # identifier
    \/ Calling(t) /\ bpc[t].at = "ret" /\ busLock = "free"

(* Nobody but the owner of the engine is in a valid callback.                 *)
LEMMA Alone ==
  ASSUME EngineInv, NEW t \in BusActors, Owner(t)
  PROVE  \A u \in BusActors \ {t} : ~Calling(u)
BY DEF EngineInv, OneCaller, Owner, InEngine

(* CREATE_THREAD as a step of the thread that calls it.                       *)
LEMMA Created ==
  ASSUME bpc \in [BusActors -> Places], NEW t \in BusActors, bpc[t].at # "out", CreateThread(t)
  PROVE  /\ bpc' \in [BusActors -> Places] /\ Others(t) /\ bpc'[t] = At("out") /\ busLock' = "free"
         /\ \E u \in BusActors \ {t} : bpc'[u] = At("start")
<1> DEFINE n == CHOOSE v \in BusThreads : bpc[v].at = "out"
<1>1. n \in BusThreads /\ bpc[n].at = "out"
  BY DEF CreateThread
<1>2. n \in BusActors /\ n # t
  BY <1>1 DEF BusActors
<1>3. bpc' = [bpc EXCEPT ![n] = At("start"), ![t] = At("out")] /\ busLock' = "free"
  BY DEF CreateThread
<1>4. At("start") \in Places /\ At("out") \in Places
  BY AtIsPlace DEF PlaceNames
<1> HIDE DEF n
<1> QED BY <1>1, <1>2, <1>3, <1>4 DEF Others

(* The owner goes on with the engine, leaves it, or leaves it to a new        *)
(* thread.                                                                    *)
LEMMA OwnGoes ==
  ASSUME BusInv, NEW t \in BusActors, Owner(t), identifier' = identifier,
         engine_lock' = Unlocked(t), SideTypes', StateInv',
         Engine(t) \/ (Leave(t) /\ Waits') \/ CreateThread(t)
  PROVE  BusInv'
<1>1. bpc \in [BusActors -> Places] /\ bpc[t].at # "out" /\ identifier \in Nat /\ engine_lock \in Nat
  BY DEF BusInv, BusTypes, Owner, InEngine, Calling
<1>a. At("loop").at = "loop" /\ At("out").at = "out" /\ At("start").at = "start"
  BY AtFields
<1>b. At("loop") \in Places /\ At("out") \in Places
  BY AtIsPlace DEF PlaceNames
<1>2. /\ bpc' \in [BusActors -> Places] /\ Others(t)
      /\ \/ busLock' = t /\ bpc'[t] = At("loop")
         \/ busLock' = "free" /\ bpc'[t] = At("out")
      /\ Waits' \/ \E u \in BusActors : bpc'[u].at \in {"loop", "start"}
  BY <1>1, <1>a, <1>b, Created DEF Engine, Leave, Others
<1>3. Goes(t) /\ engine_lock' \in Nat
  <2>1. CASE InEngine(t) /\ engine_lock # identifier
    BY <1>1, <1>2, <2>1 DEF Goes, InEngine, Calling, Unlocked
  <2>2. CASE Calling(t) /\ bpc[t].at = "ret" /\ busLock = "free"
    <3>1. engine_lock = identifier /\ identifier > 0
      BY <2>2 DEF BusInv, EngineInv, OneCaller
    <3> QED BY <1>1, <1>2, <2>2, <3>1 DEF Goes, Unlocked
  <2> QED BY <2>1, <2>2 DEF Owner
<1>4. EngineInv'
  BY <1>2, <1>3, ThreadStepKeeps DEF BusInv, ThreadStep
<1>5. \A u \in BusActors : ~Calling(u)'
  <2>1. \A u \in BusActors \ {t} : ~Calling(u)
    BY Alone DEF BusInv
  <2> QED BY <1>a, <1>2, <2>1 DEF Others, Calling
<1>6. CallInv' /\ ArbitrationInv' /\ Running'
  BY <1>2, <1>5 DEF CallInv, ArbitrationInv, Running, BusActors
<1>7. BusTypes'
  BY <1>1, <1>2, <1>3 DEF BusTypes
<1> QED BY <1>4, <1>6, <1>7 DEF BusInv

(* The owner changes the state of the bus and stays in the engine.            *)
LEMMA OwnStays ==
  ASSUME BusInv, NEW t \in BusActors, InEngine(t), engine_lock # identifier, identifier' = identifier,
         UNCHANGED place, SideTypes', StateInv'
  PROVE  BusInv'
<1>1. \A u \in BusActors : ~Calling(u)' /\ ~Calling(u)
  BY DEF BusInv, EngineInv, OneCaller, Calling, place
<1>2. EngineInv' /\ BusTypes'
  BY <1>1 DEF BusInv, EngineInv, OneCaller, BusTypes, place
<1>3. CallInv' /\ ArbitrationInv' /\ Running'
  BY <1>1 DEF CallInv, ArbitrationInv, Running, BusActors, InEngine, place
<1> QED BY <1>2, <1>3 DEF BusInv

(* The owner gives up the lock for a callback.                                *)
LEMMA OwnCalls ==
  ASSUME BusInv, NEW t \in BusActors, Owner(t), identifier' = identifier, SideTypes', StateInv',
         NEW c \in Calls, NEW k \in Hows, NEW old \in Phases, CallUser(t, c, k, old),
         CallFits(c, k, c \in {"mes", "next"}, 0)', t = "main" \/ sphase' # "arbitration"
  PROVE  BusInv'
<1>1. bpc \in [BusActors -> Places] /\ identifier \in Nat /\ engine_lock \in Nat
  BY DEF BusInv, BusTypes
<1>2. /\ bpc' \in [BusActors -> Places]
      /\ \A u \in BusActors \ {t} : bpc'[u] = bpc[u]
      /\ bpc'[t].at = IF c \in {"next", "mes"} THEN "ret" ELSE "call"
      /\ bpc'[t].call = c /\ bpc'[t].arg = <<k, old>> /\ bpc'[t].id = identifier
      /\ bpc'[t].res = 0
  BY <1>1, CallFields
<1>3. engine_lock' = identifier /\ busLock' = "free"
  BY DEF CallUser
<1>4. CallsUser(t) /\ Others(t)
  <2>1. (busLock = t /\ engine_lock # identifier) \/ (Calling(t) /\ busLock = "free")
    BY DEF Owner, InEngine
  <2> QED BY <1>2, <1>3, <2>1 DEF CallsUser, Others
<1>5. EngineInv'
  BY <1>1, <1>2, <1>3, <1>4, ThreadStepKeeps DEF BusInv, ThreadStep
<1>6. /\ \A u \in BusActors \ {t} : ~Calling(u)'
      /\ Calling(t)'
  <2>1. \A u \in BusActors \ {t} : ~Calling(u)
    BY Alone DEF BusInv
  <2> QED BY <1>2, <2>1 DEF Calling
<1>7. CallInv'
  <2>1. bpc'[t].arg[1] = k /\ (bpc'[t].at = "ret" <=> c \in {"mes", "next"})
    BY <1>2
  <2>2. CallFits(bpc[t].call, bpc[t].arg[1], bpc[t].at = "ret", bpc[t].res)'
    BY <1>2, <2>1 DEF CallFits
  <2> QED BY <1>6, <2>2 DEF CallInv
<1>8. ArbitrationInv'
  BY <1>6, BusAssumption DEF ArbitrationInv, BusActors
<1>9. Running' /\ BusTypes'
  BY <1>1, <1>2, <1>3, <1>6 DEF Running, BusTypes
<1> QED BY <1>5, <1>7, <1>8, <1>9 DEF BusInv

(* change_sphase().                                                           *)
LEMMA PhaseChange ==
  ASSUME BusInv, NEW t \in BusActors, Owner(t), identifier' = identifier, SideTypes', StateInv',
         NEW new \in Phases \ {"arbitration"}, NEW k \in {"loop", "advance", "status", "freeing"},
         k = "freeing" => bstate' = "idling" /\ new = "bus_free", ChangeSphase(t, new, k)
  PROVE  BusInv'
<1>1. CASE sphase = new
  BY <1>1, OwnGoes DEF ChangeSphase
<1>2. CASE sphase # new
  <2>1. CallUser(t, "sphase", k, sphase) /\ sphase' = new
    BY <1>2 DEF ChangeSphase
  <2>2. "sphase" \in Calls /\ k \in Hows /\ sphase \in Phases
    BY DEF Calls, Hows, BusInv, BusTypes, SideTypes
  <2>3. CallFits("sphase", k, "sphase" \in {"mes", "next"}, 0)'
    BY <2>1 DEF CallFits
  <2> QED BY <2>1, <2>2, <2>3, OwnCalls
<1> QED BY <1>1, <1>2

-----------------------------------------------------------------------------
(* Transfers.                                                                 *)
LEMMA XferIs ==
  ASSUME NEW u \in {"initiator", "target"}, NEW n \in Nat, NEW d \in States
  PROVE  /\ Xfer(u, n, d) \in Xfers /\ Xfer(u, n, d).unit = u /\ Xfer(u, n, d).req = n
         /\ Xfer(u, n, d).res = 0 /\ Xfer(u, n, d).done = d
BY DEF Xfer, Xfers

(* A message phase interrupts a state it can go back to.                      *)
LEMMA MesPhase ==
  ASSUME BusInv, NEW t \in BusActors, Owner(t), NEW k \in {"loop", "advance"}, ConditionalMesPhase(t, k),
         UNCHANGED <<identifier, units, ready, scmd>>,
         sphase \in MesPhases \/ bstate \in {"advancing", "data_preparing", "cmd_handling"}
  PROVE  BusInv'
<1> USE DEF BusInv, BusTypes
<1>1. SideTypes /\ StateInv /\ sphase \in Phases
  BY DEF SideTypes
<1>2. saved' \in [state : States, sphase : Phases, xfer : {"info", "data"}] /\ SavedInv'
  <2>1. CASE sphase \in MesPhases
    BY <1>1, <2>1 DEF ConditionalMesPhase, SavePhase, StateInv, SavedInv, SideTypes
  <2>2. CASE sphase \notin MesPhases
    <3>1. saved' = [state |-> bstate, sphase |-> sphase, xfer |-> xfer]
      BY <2>2 DEF ConditionalMesPhase, SavePhase
    <3>2. saved'.state = bstate /\ saved'.sphase = sphase
      BY <3>1
    <3>3. sphase \notin {"bus_free", "arbitration"} /\ (bstate = "cmd_handling" => sphase = "command")
      BY <1>1, <2>2 DEF StateInv, PhaseInv, PhasesExpected
    <3>4. SavedInv'
      BY <2>2, <3>2, <3>3 DEF SavedInv
    <3> QED BY <1>1, <3>1, <3>4 DEF SideTypes
  <2> QED BY <2>1, <2>2
<1>3. PICK new \in {"mes_out", "mes_in"} :
        /\ ChangeSphase(t, new, k) /\ sphase' = new
        /\ xfer' = "info" /\ bstate' = "transfering"
        /\ \/ new = "mes_out" /\ info' = Xfer("initiator", 1, "mes_out_ending") /\ msg' \in Messages /\ mesq' = mesq
           \/ new = "mes_in" /\ info' = Xfer("initiator", 1, "mes_in_ending") /\ msg' = msg /\ mesq' \in Nat
  <2>1. CASE atn
    BY <2>1 DEF ConditionalMesPhase, StartMesOut, ChangeSphase
  <2>2. CASE ~atn
    <3>1. mesq \in Nat /\ mesq > 0 /\ mesq' = mesq - 1
      BY <1>1, <2>2 DEF ConditionalMesPhase, MesDue, StartMesIn, SideTypes
    <3> QED BY <2>2, <3>1 DEF ConditionalMesPhase, StartMesIn, ChangeSphase
  <2> QED BY <2>1, <2>2
<1>4. /\ info' \in Xfers /\ info'.req = 1 /\ info'.res = 0
      /\ \/ info'.done = "mes_out_ending" /\ new = "mes_out"
         \/ info'.done = "mes_in_ending" /\ new = "mes_in"
  BY <1>3, XferIs DEF States
<1>5. available' \in BOOLEAN /\ UNCHANGED <<data, atn, dreq>>
  BY DEF ConditionalMesPhase, StartMesOut, StartMesIn, ChangeSphase
<1>6. SideTypes'
  BY <1>1, <1>2, <1>3, <1>4, <1>5 DEF SideTypes, units, States, Phases, MesPhases
<1>7. msg' \in Messages /\ \A m \in Messages : 1 <= m.len
  BY <1>1, <1>3 DEF SideTypes, Messages
<1>8. PhaseInv'
  BY <1>3, <1>4 DEF PhaseInv, PhasesExpected
<1>9. LengthInv'
  BY <1>1, <1>3, <1>4, <1>5, <1>7 DEF StateInv, LengthInv
<1>10. new \in Phases \ {"arbitration"} /\ k # "freeing"
  BY DEF Phases, MesPhases
<1> QED BY <1>2, <1>3, <1>6, <1>8, <1>9, <1>10, PhaseChange DEF StateInv

(* go_next_phase().                                                           *)
LEMMA NextPhase ==
  ASSUME BusInv, NEW t \in BusActors, Owner(t), NEW k \in {"loop", "advance"}, GoNextPhase(t, k),
         UNCHANGED <<identifier, units, ready, scmd>>,
         bstate \in {"advancing", "data_preparing", "cmd_handling"}
  PROVE  BusInv'
<1>1. CASE ConditionalMesPhase(t, k)
  BY <1>1, MesPhase
<1>2. CASE /\ CallUser(t, "next", k, sphase)
           /\ UNCHANGED <<bstate, sphase, xfer, saved, info, data, pending, msg, available>>
  <2>1. "next" \in Calls /\ k \in Hows /\ sphase \in Phases
    BY DEF Calls, Hows, BusInv, BusTypes, SideTypes
  <2>2. CallFits("next", k, "next" \in {"mes", "next"}, 0)'
    BY <1>2 DEF CallFits
  <2>3. sphase' # "arbitration"
    BY <1>2 DEF BusInv, StateInv, PhaseInv
  <2>4. SideTypes' /\ StateInv'
    BY <1>2 DEF BusInv, BusTypes, SideTypes, StateInv, PhaseInv, PhasesExpected, SavedInv, LengthInv, units, pending
  <2> QED BY <1>2, <2>1, <2>2, <2>3, <2>4, OwnCalls
<1> QED BY <1>1, <1>2 DEF GoNextPhase

(* restore_save_phase().                                                      *)
LEMMA RestorePhase ==
  ASSUME BusInv, NEW t \in BusActors, Owner(t), NEW k \in {"loop", "advance"}, RestoreSavePhase(t, k),
         UNCHANGED <<identifier, units, ready, scmd>>, sphase \in MesPhases
  PROVE  BusInv'
<1>1. CASE ConditionalMesPhase(t, k)
  BY <1>1, MesPhase
<1>2. CASE BackToSaved(t, k) /\ UNCHANGED <<saved, info, data, pending, msg>>
  <2>1. SideTypes /\ SavedInv /\ LengthInv
    BY DEF BusInv, BusTypes, StateInv
  <2>2. /\ bstate' = saved.state /\ xfer' = saved.xfer /\ sphase' = saved.sphase
        /\ ChangeSphase(t, saved.sphase, k) /\ available' \in BOOLEAN
    BY <1>2 DEF BackToSaved, ChangeSphase
  <2>3. SideTypes'
    BY <1>2, <2>1, <2>2 DEF SideTypes, units, pending
  <2>4. PhaseInv'
    BY <2>1, <2>2 DEF PhaseInv, PhasesExpected, SavedInv
  <2>5. SavedInv' /\ LengthInv'
    BY <1>2, <2>1, <2>2 DEF SavedInv, LengthInv, pending
  <2>6. saved.sphase \in Phases \ {"arbitration"} /\ k # "freeing"
    BY <2>1 DEF SideTypes, SavedInv
  <2> QED BY <2>2, <2>3, <2>4, <2>5, <2>6, PhaseChange DEF StateInv
<1> QED BY <1>1, <1>2 DEF RestoreSavePhase

(* The length of a block is at most the block size and at most what is left.  *)
LEMMA MinOfTwo == \A a, b \in Nat : Min({a, b}) \in {a, b} /\ Min({a, b}) <= a /\ Min({a, b}) <= b
<1> TAKE a, b \in Nat
<1>1. \E x \in {a, b} : \A y \in {a, b} : x <= y
  OBVIOUS
<1>2. Min({a, b}) \in {a, b} /\ \A y \in {a, b} : Min({a, b}) <= y
  BY <1>1 DEF Min
<1> QED BY <1>2

-----------------------------------------------------------------------------
(* The engine's own steps, one per state.                                     *)
LEMMA EngineStates ==
  ASSUME BusInv, NEW t \in BusActors,
         \/ DoTransfer(t) \/ EndMesOut(t) \/ DoMesHandling(t) \/ EndMesIn(t) \/ StartCmdRead(t)
         \/ EndCmdRead(t) \/ DoCmdHandling(t) \/ StartDataTransfer(t) \/ DoDataSwitching(t)
         \/ StartStatusTransfer(t) \/ Advance(t) \/ BusFreeing(t)
  PROVE  BusInv'
<1>1. SideTypes /\ StateInv /\ PhaseInv /\ SavedInv /\ LengthInv /\ PhasesExpected
  BY DEF BusInv, BusTypes, StateInv, PhaseInv
<1>2. \A s : Iterate(t, s) => Owner(t) /\ InEngine(t) /\ engine_lock # identifier /\ bstate = s
  BY DEF Iterate, Owner
<1>3. bstate # "idling" => sphase \notin {"bus_free", "arbitration"}
  BY <1>1 DEF PhaseInv
<1>4. CASE DoTransfer(t)
  <2> DEFINE x == XferOf(xfer)
  <2>1. /\ Owner(t) /\ InEngine(t) /\ engine_lock # identifier /\ bstate = "transfering"
        /\ UNCHANGED <<identifier, sphase, xfer, saved, info, data, pending, units,
                        available, guestSide, msg>>
    BY <1>2, <1>4 DEF DoTransfer
  <2>2. bpc[t].at = "loop"
    BY <2>1 DEF InEngine
  <2>3. CASE ~DataAvailable(xfer) /\ Leave(t) /\ UNCHANGED <<bstate, engine_lock>>
    <3>1. SideTypes' /\ StateInv'
      BY <1>1, <2>1, <2>3 DEF SideTypes, StateInv, PhaseInv, PhasesExpected, SavedInv, LengthInv, units, pending, guestSide
    <3>2. engine_lock' = Unlocked(t)
      BY <2>2, <2>3 DEF Unlocked
    <3>3. Waits'
      BY <2>1, <2>3 DEF Waits, DataAvailable, XferOf
    <3> QED BY <2>1, <2>3, <3>1, <3>2, <3>3, OwnGoes
  <2>4. CASE x.res < x.req /\ CallUser(t, "xfer", xfer, sphase) /\ UNCHANGED bstate
    <3>1. SideTypes' /\ StateInv'
      <4>1. SideTypes' /\ PhaseInv' /\ SavedInv'
        BY <1>1, <2>1, <2>4 DEF SideTypes, PhaseInv, PhasesExpected, SavedInv, units, pending, guestSide
      <4>2. LengthInv'
        BY <1>1, <2>1, <2>4 DEF LengthInv, pending, guestSide
      <4> QED BY <4>1, <4>2 DEF StateInv
    <3>2. CallFits("xfer", xfer, "xfer" \in {"mes", "next"}, 0)'
      BY <2>1, <2>4 DEF CallFits, XferOf
    <3>3. "xfer" \in Calls /\ xfer \in Hows /\ sphase \in Phases /\ sphase' # "arbitration"
      BY <1>1, <1>3, <2>1 DEF Calls, Hows, SideTypes
    <3>4. PICK k \in Hows : k = xfer
      BY <3>3
    <3>5. PICK old \in Phases : old = sphase
      BY <3>3
    <3>6. CallUser(t, "xfer", k, old) /\ CallFits("xfer", k, "xfer" \in {"mes", "next"}, 0)'
      BY <2>1, <2>4, <3>2, <3>4, <3>5 DEF CallFits
    <3> QED BY <2>1, <3>1, <3>3, <3>6, OwnCalls
  <2>5. CASE x.res = x.req /\ bstate' = x.done /\ UNCHANGED place
    <3>1. x \in Xfers /\ x.done \in States
      BY <1>1 DEF XferOf, SideTypes, Xfers
    <3>2. SideTypes'
      BY <1>1, <2>1, <2>5, <3>1 DEF SideTypes, units, pending, guestSide
    <3>3. PhaseInv'
      BY <1>1, <2>1, <2>5 DEF PhaseInv, PhasesExpected, XferOf, SideTypes, MesPhases, DataPhases
    <3>4. SavedInv' /\ LengthInv'
      BY <1>1, <2>1, <2>5 DEF SavedInv, LengthInv, PhaseInv, XferOf, SideTypes, guestSide, pending
    <3> QED BY <2>1, <2>5, <3>2, <3>3, <3>4, OwnStays DEF StateInv
  <2> QED BY <1>4, <2>3, <2>4, <2>5 DEF DoTransfer
<1>5. CASE EndMesOut(t)
  <2>1. /\ InEngine(t) /\ engine_lock # identifier /\ bstate = "mes_out_ending"
        /\ UNCHANGED <<identifier, sphase, xfer, saved, data, pending, units, available, place, guestSide, msg>>
    BY <1>2, <1>5 DEF EndMesOut
  <2>2. /\ info \in Xfers /\ info.res \in Nat /\ info.req \in Nat /\ info.res = info.req
        /\ xfer = "info" /\ info.done = "mes_out_ending" /\ sphase = "mes_out" /\ info.req <= msg.len
        /\ msg.len \in {1, 3}
    BY <1>1, <2>1 DEF PhaseInv, LengthInv, PhasesExpected, SideTypes, Xfers, Messages
  <2> DEFINE len == GetMesLen(info.req)
  <2>3. len \in Nat /\ info.req <= len /\ len <= msg.len
    BY <2>2 DEF GetMesLen
  <2> HIDE DEF len
  <2>4. \/ bstate' = "mes_handling" /\ info' = info
        \/ bstate' = "transfering" /\ info' = [info EXCEPT !.req = len]
    BY <1>5 DEF EndMesOut, len
  <2>5. info' \in Xfers /\ info'.done = "mes_out_ending" /\ info'.res <= info'.req /\ info'.req <= msg.len
    BY <2>2, <2>3, <2>4 DEF Xfers
  <2>6. SideTypes'
    BY <1>1, <2>1, <2>4, <2>5 DEF SideTypes, States, units, pending, guestSide
  <2>7. PhaseInv'
    BY <2>1, <2>2, <2>4, <2>5 DEF PhaseInv, PhasesExpected
  <2>8. SavedInv' /\ LengthInv'
    BY <1>1, <2>1, <2>2, <2>4, <2>5 DEF SavedInv, LengthInv, guestSide, pending
  <2> QED BY <2>1, <2>6, <2>7, <2>8, OwnStays DEF StateInv
<1>6. CASE DoMesHandling(t) \/ DoCmdHandling(t)
  <2>1. PICK c \in {"mes", "cmd"}, k \in {"advance", "loop"} :
          /\ CallUser(t, c, k, sphase)
          /\ c = "mes" => bstate = "mes_handling"
          /\ c = "cmd" => bstate = "cmd_handling"
    BY <1>2, <1>6 DEF DoMesHandling, DoCmdHandling
  <2>2. /\ Owner(t) /\ bstate # "idling"
        /\ UNCHANGED <<identifier, bstate, sphase, xfer, saved, info, data, pending, units,
                        available, guestSide, msg>>
    BY <1>2, <1>6 DEF DoMesHandling, DoCmdHandling
  <2>3. c \in Calls /\ k \in Hows /\ sphase \in Phases /\ sphase' # "arbitration"
    BY <1>1, <1>3, <2>2 DEF Calls, Hows, SideTypes
  <2>4. CallFits(c, k, c \in {"mes", "next"}, 0)'
    BY <2>1, <2>2 DEF CallFits
  <2>5. SideTypes' /\ StateInv'
    BY <1>1, <2>2 DEF SideTypes, StateInv, PhaseInv, PhasesExpected, SavedInv, LengthInv, units, pending, guestSide
  <2> QED BY <2>1, <2>2, <2>3, <2>4, <2>5, OwnCalls
<1>7. CASE EndMesIn(t)
  <2>1. Owner(t) /\ bstate = "mes_in_ending" /\ RestoreSavePhase(t, "loop") /\ UNCHANGED <<identifier, units, ready, scmd>>
    BY <1>2, <1>7 DEF EndMesIn, guestSide
  <2>2. sphase \in MesPhases
    BY <1>1, <2>1 DEF PhasesExpected, MesPhases
  <2> QED BY <2>1, <2>2, RestorePhase
<1>8. CASE StartDataTransfer(t) /\ StartBlock(t)
  <2>1. /\ Owner(t) /\ bstate = "data_preparing"
        /\ UNCHANGED <<identifier, units, guestSide, saved, info, atn, mesq, msg>>
        /\ xfer' = "data" /\ bstate' = "transfering" /\ available' \in BOOLEAN
    BY <1>2, <1>8 DEF StartDataTransfer, StartBlock, ChangeSphase
  <2> DEFINE n == NextBlock
  <2>2. n \in Nat /\ n <= dreq.count /\ dreq.count \in Nat
    BY <1>1, MinOfTwo, BusAssumption DEF NextBlock, SideTypes
  <2> HIDE DEF n
  <2>3. dreq' = [dreq EXCEPT !.count = @ - n]
    BY <1>8 DEF StartBlock, n
  <2>4. dreq' \in [count : Nat, in : BOOLEAN] /\ dreq'.count \in 0 .. dreq.count
    BY <1>1, <2>2, <2>3 DEF SideTypes
  <2>5. PICK new \in DataPhases, u \in {"initiator", "target"} :
          data' = Xfer(u, n, "data_switching") /\ ChangeSphase(t, new, "loop") /\ sphase' = new
    BY <1>8 DEF StartBlock, DataPhases, ChangeSphase, n
  <2>6. data' \in Xfers /\ data'.done = "data_switching" /\ data'.res = 0 /\ data'.req = n
    BY <2>2, <2>5, XferIs DEF States
  <2>7. new \in Phases \ {"arbitration"} /\ new \notin MesPhases \cup {"bus_free"}
    BY DEF Phases, DataPhases, MesPhases
  <2>8. SideTypes'
    BY <1>1, <2>1, <2>4, <2>5, <2>6, <2>7 DEF SideTypes, States, units, guestSide
  <2>9. PhaseInv' /\ SavedInv'
    BY <1>1, <2>1, <2>5, <2>6, <2>7 DEF PhaseInv, PhasesExpected, SavedInv
  <2>10. dreq'.count = 0 \/ \E c \in BusCommands : dreq'.count \in 1 .. c.size
    <3>1. CASE dreq.count = 0
      BY <2>4, <3>1
    <3>2. CASE dreq.count # 0
      <4>1. PICK c \in BusCommands : dreq.count \in 1 .. c.size
        BY <1>1, <3>2 DEF LengthInv
      <4>2. c.size \in Nat
        BY BusAssumption DEF Commands
      <4> QED BY <2>2, <2>4, <4>1, <4>2
    <3> QED BY <3>1, <3>2
  <2>11. LengthInv'
    BY <1>1, <2>1, <2>2, <2>6, <2>10 DEF LengthInv, guestSide
  <2> QED BY <2>1, <2>5, <2>7, <2>8, <2>9, <2>11, PhaseChange DEF StateInv
<1>9. CASE (StartDataTransfer(t) \/ Advance(t)) /\ \E k \in {"loop", "advance"} : GoNextPhase(t, k)
  <2>1. Owner(t) /\ bstate \in {"advancing", "data_preparing"} /\ UNCHANGED <<identifier, units, ready, scmd>>
    BY <1>2, <1>9 DEF StartDataTransfer, Advance, guestSide
  <2> QED BY <1>9, <2>1, NextPhase
<1>10. CASE StartCmdRead(t) \/ StartStatusTransfer(t)
  <2>1. PICK d \in {"cmd_read_ending", "advancing"}, new \in {"command", "status"}, k \in {"loop", "status"} :
          /\ data' = Xfer("initiator", 1, d) /\ ChangeSphase(t, new, k) /\ sphase' = new
          /\ d = "cmd_read_ending" <=> new = "command"
    BY <1>10 DEF StartCmdRead, StartStatusTransfer, ChangeSphase
  <2>2. /\ Owner(t) /\ xfer' = "data" /\ bstate' = "transfering" /\ available' \in BOOLEAN
        /\ UNCHANGED <<identifier, saved, info, pending, units, guestSide, msg>>
    BY <1>2, <1>10 DEF StartCmdRead, StartStatusTransfer, ChangeSphase
  <2>3. data' \in Xfers /\ data'.done = d /\ data'.res = 0 /\ data'.req = 1
    BY <2>1, XferIs DEF States
  <2>4. new \in Phases \ {"arbitration"} /\ new \notin MesPhases \cup {"bus_free"} /\ scmd.len >= 1
    BY <1>1 DEF Phases, MesPhases, SideTypes, Commands
  <2>5. SideTypes'
    BY <1>1, <2>1, <2>2, <2>3, <2>4 DEF SideTypes, States, units, guestSide, pending
  <2>6. PhaseInv' /\ SavedInv'
    BY <1>1, <2>1, <2>2, <2>3, <2>4 DEF PhaseInv, PhasesExpected, SavedInv
  <2>7. LengthInv'
    BY <1>1, <2>2, <2>3, <2>4 DEF LengthInv, guestSide, pending
  <2> QED BY <2>1, <2>2, <2>4, <2>5, <2>6, <2>7, PhaseChange DEF StateInv
<1>11. CASE EndCmdRead(t)
  <2>1. /\ InEngine(t) /\ engine_lock # identifier /\ bstate = "cmd_read_ending"
        /\ UNCHANGED <<identifier, sphase, xfer, saved, info, pending, units, available, place, guestSide, msg>>
    BY <1>2, <1>11 DEF EndCmdRead
  <2>2. /\ data \in Xfers /\ data.res \in Nat /\ data.req \in Nat /\ data.res = data.req
        /\ xfer = "data" /\ data.done = "cmd_read_ending" /\ sphase = "command" /\ data.req <= scmd.len
        /\ scmd.len \in Nat
    BY <1>1, <2>1 DEF PhaseInv, LengthInv, PhasesExpected, SideTypes, Xfers, Commands
  <2>3. \/ bstate' = "cmd_handling" /\ data' = data
        \/ bstate' = "transfering" /\ data' = [data EXCEPT !.req = scmd.len]
    BY <1>11 DEF EndCmdRead
  <2>4. data' \in Xfers /\ data'.done = "cmd_read_ending" /\ data'.res <= data'.req /\ data'.req <= scmd.len
    BY <2>2, <2>3 DEF Xfers
  <2>5. SideTypes'
    BY <1>1, <2>1, <2>3, <2>4 DEF SideTypes, States, units, pending, guestSide
  <2>6. PhaseInv'
    BY <2>1, <2>2, <2>3, <2>4 DEF PhaseInv, PhasesExpected
  <2>7. SavedInv' /\ LengthInv'
    BY <1>1, <2>1, <2>2, <2>3, <2>4 DEF SavedInv, LengthInv, guestSide, pending
  <2> QED BY <2>1, <2>5, <2>6, <2>7, OwnStays DEF StateInv
<1>12. CASE DoDataSwitching(t)
  <2>1. /\ InEngine(t) /\ engine_lock # identifier /\ bstate = "data_switching" /\ bstate' = "transfering"
        /\ UNCHANGED <<identifier, sphase, xfer, saved, info, pending, units, available, place, guestSide, msg>>
    BY <1>2, <1>12 DEF DoDataSwitching
  <2>2. PICK u \in {"initiator", "target"} : data' = Xfer(u, data.req, "data_preparing")
    BY <1>12 DEF DoDataSwitching
  <2>3. data.req \in Nat /\ xfer = "data" /\ sphase \in DataPhases
    BY <1>1, <2>1 DEF SideTypes, Xfers, PhaseInv, PhasesExpected
  <2>4. data' \in Xfers /\ data'.done = "data_preparing" /\ data'.res = 0 /\ data'.req \in Nat
    BY <2>2, <2>3, XferIs DEF States
  <2>5. SideTypes'
    BY <1>1, <2>1, <2>4 DEF SideTypes, States, units, pending, guestSide
  <2>6. PhaseInv' /\ SavedInv'
    BY <1>1, <2>1, <2>3, <2>4 DEF PhaseInv, PhasesExpected, SavedInv, DataPhases, MesPhases
  <2>7. LengthInv'
    BY <1>1, <2>1, <2>3, <2>4 DEF LengthInv, guestSide, pending
  <2> QED BY <2>1, <2>5, <2>6, <2>7, OwnStays DEF StateInv
<1>13. CASE BusFreeing(t)
  <2>1. /\ Owner(t) /\ bstate' = "idling" /\ ChangeSphase(t, "bus_free", "freeing") /\ sphase' = "bus_free"
        /\ available' \in BOOLEAN
        /\ UNCHANGED <<identifier, xfer, saved, info, data, pending, units, guestSide, msg>>
    BY <1>2, <1>13 DEF BusFreeing, ChangeSphase
  <2>2. "bus_free" \in Phases \ {"arbitration"}
    BY DEF Phases
  <2>3. SideTypes'
    BY <1>1, <2>1, <2>2 DEF SideTypes, States, units, pending, guestSide
  <2>4. StateInv'
    <3>1. PhaseInv' /\ SavedInv'
      BY <1>1, <2>1 DEF PhaseInv, PhasesExpected, SavedInv
    <3>2. LengthInv'
      BY <1>1, <2>1 DEF LengthInv, guestSide, pending
    <3> QED BY <3>1, <3>2 DEF StateInv
  <2> QED BY <2>1, <2>2, <2>3, <2>4, PhaseChange
<1> QED BY <1>4, <1>5, <1>6, <1>7, <1>8, <1>9, <1>10, <1>11, <1>12, <1>13 DEF StartDataTransfer, Advance

-----------------------------------------------------------------------------
(* A callback comes to its end, that of an earlier identifier too.            *)
LEMMA DoneFields ==
  ASSUME bpc \in [BusActors -> Places], NEW t \in BusActors, NEW r \in Int, CallbackDone(t, r)
  PROVE  /\ bpc' \in [BusActors -> Places]
         /\ \A u \in BusActors \ {t} : bpc'[u] = bpc[u]
         /\ bpc'[t].at = "ret" /\ bpc'[t].res = r
         /\ bpc'[t].call = bpc[t].call /\ bpc'[t].arg = bpc[t].arg /\ bpc'[t].id = bpc[t].id
<1> DEFINE p == bpc[t]
           q == [p EXCEPT !.at = "ret", !.res = r]
<1>1. p \in Places /\ "ret" \in PlaceNames
  BY DEF PlaceNames
<1>2. bpc' = [bpc EXCEPT ![t] = q]
  BY DEF CallbackDone
<1> HIDE DEF p
<1>3. q \in Places /\ q.at = "ret" /\ q.res = r /\ q.call = p.call /\ q.arg = p.arg /\ q.id = p.id
  BY <1>1 DEF Places
<1> HIDE DEF q
<1>4. /\ bpc' \in [BusActors -> Places] /\ bpc'[t] = q
      /\ \A u \in BusActors \ {t} : bpc'[u] = bpc[u]
  BY <1>2, <1>3
<1> QED BY <1>3, <1>4 DEF p

(* A callback ends: its thread has a result and still has to take the lock.   *)
LEMMA CallbackKeeps ==
  ASSUME BusInv, NEW t \in BusActors, bpc[t].at = "call", NEW r \in Int, CallbackDone(t, r),
         UNCHANGED <<busLock, identifier, engine_lock, bstate, sphase, xfer, saved, info, data>>,
         SideTypes', LengthInv', available' => available,
         Calling(t) /\ bpc[t].call = "xfer" =>
            \/ r \in {ERR_MAY_BLOCK, ERR_NO_DATA}
            \/ 0 <= r /\ r <= XferOf(xfer).req - XferOf(xfer).res
  PROVE  BusInv'
<1>1. bpc \in [BusActors -> Places] /\ identifier \in Nat /\ engine_lock \in Nat
  BY DEF BusInv, BusTypes
<1>2. /\ bpc' \in [BusActors -> Places]
      /\ \A u \in BusActors \ {t} : bpc'[u] = bpc[u]
      /\ bpc'[t].at = "ret" /\ bpc'[t].res = r
      /\ bpc'[t].call = bpc[t].call /\ bpc'[t].arg = bpc[t].arg /\ bpc'[t].id = bpc[t].id
  BY <1>1, DoneFields
<1>3. EngineInv'
  BY <1>1, <1>2, ThreadStepKeeps DEF BusInv, ThreadStep, Others, Stays
<1>4. \A u \in BusActors : Calling(u)' <=> Calling(u)
  BY <1>2 DEF Calling
<1>5. CallInv'
  <2> SUFFICES ASSUME NEW u \in BusActors, Calling(u)
               PROVE  CallFits(bpc[u].call, bpc[u].arg[1], bpc[u].at = "ret", bpc[u].res)'
    BY <1>4 DEF CallInv
  <2>1. CallFits(bpc[u].call, bpc[u].arg[1], bpc[u].at = "ret", bpc[u].res)
    BY DEF BusInv, CallInv
  <2>2. XferOf(xfer)' = XferOf(xfer)
    BY DEF XferOf
  <2>3. CASE u = t
    BY <1>2, <2>1, <2>2, <2>3 DEF CallFits
  <2>4. CASE u # t
    BY <1>2, <2>1, <2>2, <2>4 DEF CallFits
  <2> QED BY <2>3, <2>4
<1>6. ArbitrationInv'
  BY <1>4 DEF BusInv, ArbitrationInv, BusActors
<1>7. Running'
  <2>1. Waits => Waits'
    BY DEF Waits, DataAvailable, XferOf
  <2>2. \A u \in BusActors : bpc[u].at \in {"loop", "start"} => bpc'[u].at \in {"loop", "start"}
    BY <1>2
  <2> QED BY <1>4, <2>1, <2>2 DEF BusInv, Running
<1>8. PhaseInv' /\ SavedInv'
  BY DEF BusInv, StateInv, PhaseInv, PhasesExpected, SavedInv
<1>9. BusTypes'
  BY <1>1, <1>2 DEF BusTypes
<1> QED BY <1>3, <1>5, <1>6, <1>7, <1>8, <1>9 DEF BusInv, StateInv

(* The callbacks of the chip and the disk: what they give back, and what they *)
(* may change.                                                                *)
LEMMA CallbackIs ==
  ASSUME SideTypes, LengthInv, NEW t \in BusActors, SphaseChanged(t) \/ XferProc(t) \/ HandleCmd(t)
  PROVE  /\ bpc[t].at = "call" /\ SideTypes' /\ LengthInv' /\ (available' => available)
         /\ UNCHANGED <<busLock, identifier, engine_lock, bstate, sphase, xfer, saved, info, data,
                         initiator, target>>
         /\ \E r \in Int :
               /\ CallbackDone(t, r)
               /\ bpc[t].call = "xfer" =>
                    \/ r \in {ERR_MAY_BLOCK, ERR_NO_DATA}
                    \/ 0 <= r /\ r <= XferOf(bpc[t].arg[1]).req - XferOf(bpc[t].arg[1]).res
<1>2. CASE SphaseChanged(t)
  <2>1. /\ bpc[t].at = "call" /\ bpc[t].call = "sphase" /\ CallbackDone(t, 0) /\ (available' => available)
        /\ available' \in BOOLEAN /\ ready' \in {ready, 0}
        /\ UNCHANGED <<busLock, identifier, engine_lock, bstate, sphase, xfer, saved, info, data,
                        pending, units, scmd, msg>>
    BY <1>2 DEF SphaseChanged, InCall, SideTypes
  <2>2. SideTypes' /\ LengthInv'
    BY <2>1 DEF SideTypes, LengthInv, pending, units
  <2> QED BY <2>1, <2>2 DEF units
<1>3. CASE HandleCmd(t)
  <2>1. PICK r \in {0, ERR_MAY_BLOCK} : CallbackDone(t, r)
    BY <1>3 DEF HandleCmd
  <2>2. /\ bpc[t].at = "call" /\ bpc[t].call = "cmd"
        /\ dreq' = dreq \/ (scmd.size # 0 /\ dreq' = [count |-> scmd.size, in |-> scmd.in])
        /\ UNCHANGED <<busLock, identifier, engine_lock, bstate, sphase, xfer, saved, info, data,
                        atn, mesq, units, available, guestSide, msg>>
    BY <1>3 DEF HandleCmd, InCall
  <2>3. scmd.size \in Nat /\ scmd.in \in BOOLEAN /\ (scmd.size # 0 => scmd \in BusCommands)
    BY DEF SideTypes, Commands, LengthInv
  <2>4. /\ dreq' \in [count : Nat, in : BOOLEAN]
        /\ dreq'.count = 0 \/ \E c \in BusCommands : dreq'.count \in 1 .. c.size
    BY <2>2, <2>3 DEF SideTypes, LengthInv
  <2>5. SideTypes'
    BY <2>2, <2>4 DEF SideTypes, units, guestSide
  <2>6. LengthInv'
    BY <2>2, <2>4 DEF LengthInv, guestSide
  <2>7. r \in Int /\ CallbackDone(t, r)
    BY <2>1 DEF ERR_MAY_BLOCK
  <2> QED BY <2>2, <2>5, <2>6, <2>7 DEF units
<1>4. CASE XferProc(t)
  <2> DEFINE x == XferOf(bpc[t].arg[1])
  <2>1. /\ bpc[t].at = "call" /\ bpc[t].call = "xfer"
        /\ UNCHANGED <<busLock, identifier, engine_lock, bstate, sphase, xfer, saved, info, data,
                        pending, units, scmd, msg>>
    BY <1>4 DEF XferProc, InCall
  <2>2. x.req \in Nat /\ x.res \in Nat /\ x.res <= x.req /\ ready \in Nat /\ available \in BOOLEAN
    BY DEF XferOf, SideTypes, Xfers, LengthInv
  <2> HIDE DEF x
  <2> DEFINE d == x.req - x.res
  <2>3. d \in Nat
    BY <2>2
  <2>4. PICK r \in Int :
          /\ CallbackDone(t, r)
          /\ r \in {ERR_MAY_BLOCK, ERR_NO_DATA} \/ (0 <= r /\ r <= d)
          /\ ready' \in Nat /\ available' \in BOOLEAN /\ (available' => available)
    <3>1. CASE InitiatorXfer(t, x)
      <4>1. CASE ready = 0 /\ available' = FALSE /\ CallbackDone(t, ERR_NO_DATA) /\ UNCHANGED ready
        <5>1. ERR_NO_DATA \in Int
          BY DEF ERR_NO_DATA
        <5> QED BY <2>2, <4>1, <5>1, Zenon
      <4>2. CASE CallbackDone(t, ERR_MAY_BLOCK) /\ UNCHANGED <<ready, available>>
        BY <2>2, <4>2 DEF ERR_MAY_BLOCK
      <4>3. ASSUME NEW n \in 0 .. Min({ready, x.req - x.res}), NEW hold \in BOOLEAN,
                   CallbackDone(t, n), ready' = ready - n, available' = (available /\ ~hold)
            PROVE  \E r \in Int :
                     /\ CallbackDone(t, r)
                     /\ r \in {ERR_MAY_BLOCK, ERR_NO_DATA} \/ (0 <= r /\ r <= d)
                     /\ ready' \in Nat /\ available' \in BOOLEAN /\ (available' => available)
        <5> DEFINE m == Min({ready, d})
        <5>1. n \in 0 .. m
          BY <4>3
        <5> HIDE DEF d
        <5>2. m \in Nat /\ m <= ready /\ m <= d
          BY <2>2, <2>3, MinOfTwo
        <5> HIDE DEF m
        <5>4. n \in Int /\ 0 <= n /\ n <= d /\ ready' \in Nat
          BY <2>2, <2>3, <4>3, <5>1, <5>2
        <5> QED BY <2>2, <4>3, <5>4
      <4> QED BY <3>1, <4>1, <4>2, <4>3 DEF InitiatorXfer
    <3>2. CASE TargetXfer(t, x)
      <4>1. d \in Int /\ 0 <= d /\ d <= d /\ ERR_MAY_BLOCK \in Int /\ ready' = ready /\ available' = available
        BY <2>3, <3>2 DEF ERR_MAY_BLOCK, TargetXfer
      <4>2. \/ CallbackDone(t, d) \/ CallbackDone(t, ERR_MAY_BLOCK)
            \/ \E n \in 0 .. d : CallbackDone(t, n)
        BY <3>2 DEF TargetXfer
      <4> HIDE DEF d
      <4> QED BY <2>2, <2>3, <4>1, <4>2
    <3>3. InitiatorXfer(t, x) \/ TargetXfer(t, x)
      BY <1>4 DEF XferProc, x
    <3> QED BY <3>1, <3>2, <3>3
  <2>5. SideTypes' /\ LengthInv'
    BY <2>1, <2>4 DEF SideTypes, LengthInv, pending, units
  <2> QED BY <2>1, <2>4, <2>5 DEF x, units
<1> QED BY <1>2, <1>3, <1>4

(* They keep the invariant.                                                   *)
LEMMA Callbacks ==
  ASSUME BusInv, NEW t \in BusActors, SphaseChanged(t) \/ XferProc(t) \/ HandleCmd(t)
  PROVE  BusInv'
<1>1. SideTypes /\ LengthInv
  BY DEF BusInv, BusTypes, StateInv
<1>2. /\ bpc[t].at = "call" /\ SideTypes' /\ LengthInv' /\ (available' => available)
      /\ UNCHANGED <<busLock, identifier, engine_lock, bstate, sphase, xfer, saved, info, data>>
      /\ \E r \in Int :
            /\ CallbackDone(t, r)
            /\ bpc[t].call = "xfer" =>
                 \/ r \in {ERR_MAY_BLOCK, ERR_NO_DATA}
                 \/ 0 <= r /\ r <= XferOf(bpc[t].arg[1]).req - XferOf(bpc[t].arg[1]).res
  BY <1>1, CallbackIs
<1>3. PICK r \in Int :
        /\ CallbackDone(t, r)
        /\ bpc[t].call = "xfer" =>
             \/ r \in {ERR_MAY_BLOCK, ERR_NO_DATA}
             \/ 0 <= r /\ r <= XferOf(bpc[t].arg[1]).req - XferOf(bpc[t].arg[1]).res
  BY <1>2
<1>4. Calling(t) /\ bpc[t].call = "xfer" => bpc[t].arg[1] = xfer
  BY DEF BusInv, CallInv, CallFits
<1>5. Calling(t) /\ bpc[t].call = "xfer" =>
            \/ r \in {ERR_MAY_BLOCK, ERR_NO_DATA}
            \/ 0 <= r /\ r <= XferOf(xfer).req - XferOf(xfer).res
  BY <1>3, <1>4
<1> QED BY <1>2, <1>3, <1>5, CallbackKeeps

-----------------------------------------------------------------------------
(* Back from a callback that was not broken off.                              *)
LEMMA BackSteps ==
  ASSUME BusInv, NEW t \in BusActors,
         BackFromSphase(t) \/ BackFromXfer(t) \/ BackFromMes(t) \/ BackFromCmd(t) \/ BackFromNext(t)
  PROVE  BusInv'
<1>1. /\ SideTypes /\ StateInv /\ PhaseInv /\ SavedInv /\ LengthInv /\ PhasesExpected
      /\ bpc \in [BusActors -> Places]
  BY DEF BusInv, BusTypes, StateInv, PhaseInv
<1>2. bpc[t].at = "ret" /\ busLock = "free" /\ Calling(t) /\ Owner(t)
  BY DEF BackFromSphase, BackFromXfer, BackFromMes, BackFromCmd, BackFromNext, Back, Valid, Aborted, Calling, Owner
<1>3. CallFits(bpc[t].call, How(t), TRUE, bpc[t].res)
  <2>1. CallFits(bpc[t].call, bpc[t].arg[1], bpc[t].at = "ret", bpc[t].res)
    BY <1>2 DEF BusInv, CallInv
  <2> QED BY <1>2, <2>1 DEF CallFits, How
<1>4. bstate # "idling" => sphase \notin {"bus_free", "arbitration"}
  BY <1>1 DEF PhaseInv
<1>5. CASE BackFromSphase(t)
  <2>1. /\ engine_lock' = Unlocked(t)
        /\ UNCHANGED <<identifier, sphase, xfer, saved, info, data, atn, dreq, available, guestSide, msg>>
    BY <1>5 DEF BackFromSphase, Valid
  <2>2. /\ How(t) \in {"loop", "advance", "status", "freeing", "select", "return"}
        /\ How(t) = "select" => sphase = "selection"
        /\ How(t) \in {"return", "freeing"} => bstate = "idling"
        /\ How(t) = "freeing" => sphase = "bus_free"
    BY <1>3, <1>5 DEF CallFits, BackFromSphase, Back
  <2>3. /\ mesq' \in {mesq, mesq + 1} /\ initiator' \in {initiator, FALSE} /\ target' \in {target, TRUE, FALSE}
        /\ bstate' = IF How(t) = "select" THEN "advancing" ELSE bstate
        /\ Engine(t) \/ (Leave(t) /\ bstate' = "idling")
    <3>1. CASE How(t) \in {"loop", "advance"}
      BY <1>5, <3>1 DEF BackFromSphase, units
    <3>2. CASE How(t) = "status"
      BY <1>5, <3>2 DEF BackFromSphase, units
    <3>3. CASE How(t) \in {"freeing", "return"}
      BY <1>5, <2>2, <3>3 DEF BackFromSphase, units
    <3>4. CASE How(t) = "select"
      BY <1>5, <3>4 DEF BackFromSphase, units
    <3> QED BY <2>2, <3>1, <3>2, <3>3, <3>4
  <2>4. SideTypes'
    <3>1. /\ UNCHANGED <<sphase, xfer, saved, info, data, atn, dreq, available, msg>>
          /\ ready' = ready /\ scmd' = scmd
      BY <2>1 DEF guestSide
    <3>2. mesq' \in Nat /\ initiator' \in BOOLEAN /\ target' \in BOOLEAN
      <4>1. mesq \in Nat /\ initiator \in BOOLEAN /\ target \in BOOLEAN
        BY <1>1 DEF SideTypes
      <4>2. mesq' \in Nat
        BY <2>3, <4>1
      <4>3. initiator' \in BOOLEAN /\ target' \in BOOLEAN
        <5>1. /\ initiator' = initiator \/ initiator' = FALSE
              /\ target' = target \/ target' = TRUE \/ target' = FALSE
          BY <2>3, Zenon
        <5> QED BY <4>1, <5>1, Zenon
      <4> QED BY <4>2, <4>3
    <3>3. bstate' \in States
      BY <1>1, <2>3 DEF SideTypes, States
    <3> QED BY <1>1, <3>1, <3>2, <3>3 DEF SideTypes
  <2>5. PhaseInv' /\ SavedInv'
    BY <1>1, <2>1, <2>2, <2>3 DEF PhaseInv, PhasesExpected, SavedInv, MesPhases
  <2>6. LengthInv'
    BY <1>1, <2>1, <2>3 DEF LengthInv, guestSide
  <2>7. Engine(t) \/ (Leave(t) /\ Waits')
    BY <2>3 DEF Waits
  <2> QED BY <1>2, <2>1, <2>4, <2>5, <2>6, <2>7, OwnGoes DEF StateInv
<1>6. CASE BackFromXfer(t)
  <2> DEFINE x == XferOf(xfer)
             n == bpc[t].res
  <2>1. /\ bstate = "transfering" /\ How(t) = xfer /\ x.res < x.req
        /\ n \in {ERR_MAY_BLOCK, ERR_NO_DATA} \/ (0 <= n /\ n <= x.req - x.res)
    BY <1>3, <1>6 DEF CallFits, BackFromXfer, Back
  <2>2. /\ engine_lock' = Unlocked(t)
        /\ UNCHANGED <<identifier, sphase, xfer, saved, pending, units, available, guestSide, msg>>
    BY <1>6 DEF BackFromXfer, Valid
  <2>3. CASE n \in {ERR_MAY_BLOCK, ERR_NO_DATA}
    <3>1. /\ UNCHANGED <<info, data, bstate>>
          /\ CreateThread(t) \/ NoData(t)
      BY <1>6, <2>3 DEF BackFromXfer
    <3>2. Engine(t) \/ (Leave(t) /\ Waits') \/ CreateThread(t)
      BY <2>1, <2>2, <3>1 DEF NoData, Waits, DataAvailable, XferOf
    <3>3. SideTypes' /\ PhaseInv' /\ SavedInv'
      BY <1>1, <2>2, <3>1 DEF SideTypes, PhaseInv, PhasesExpected, SavedInv, units, pending, guestSide
    <3>4. LengthInv'
      BY <1>1, <2>2, <3>1 DEF LengthInv, pending, guestSide
    <3> QED BY <1>2, <2>2, <3>2, <3>3, <3>4, OwnGoes DEF StateInv
  <2>4. CASE n \notin {ERR_MAY_BLOCK, ERR_NO_DATA}
    <3>1. x \in Xfers /\ x.req \in Nat /\ x.res \in Nat /\ x.done \in States /\ n \in Int /\ xfer \in {"info", "data"}
      BY <1>1 DEF XferOf, SideTypes, Xfers, Places
    <3>2. 0 <= n /\ n <= x.req - x.res /\ x.res + n \in Nat /\ x.res + n <= x.req
      BY <2>1, <2>4, <3>1
    <3>3. /\ IF xfer = "info" THEN info' = [x EXCEPT !.res = @ + n] /\ UNCHANGED data
             ELSE data' = [x EXCEPT !.res = @ + n] /\ UNCHANGED info
          /\ \/ /\ x.res + n = x.req
                /\ \/ bstate' = x.done /\ Engine(t)
                   \/ ~DataAvailable(xfer) /\ Leave(t) /\ UNCHANGED bstate
             \/ Engine(t) /\ UNCHANGED bstate
      BY <1>6, <2>1, <2>4 DEF BackFromXfer, MovedAll
    <3> DEFINE y == [x EXCEPT !.res = @ + n]
    <3>4. y \in Xfers /\ y.res = x.res + n /\ y.req = x.req /\ y.done = x.done /\ y.unit = x.unit
      BY <3>1, <3>2 DEF Xfers
    <3>5. IF xfer = "info" THEN info' = y /\ data' = data /\ x = info ELSE data' = y /\ info' = info /\ x = data
      BY <3>3 DEF XferOf
    <3> HIDE DEF x, y, n
    <3>6. SideTypes'
      BY <1>1, <2>2, <3>1, <3>3, <3>4, <3>5 DEF SideTypes, units, pending, guestSide
    <3>7. PhaseInv'
      BY <1>1, <2>1, <2>2, <3>1, <3>3, <3>4, <3>5 DEF PhaseInv, PhasesExpected, MesPhases, DataPhases
    <3>8. SavedInv'
      BY <1>1, <2>2 DEF SavedInv
    <3>9. LengthInv'
      BY <1>1, <2>1, <2>2, <3>1, <3>2, <3>3, <3>4, <3>5 DEF LengthInv, PhaseInv, pending, guestSide
    <3>10. Engine(t) \/ (Leave(t) /\ Waits')
      BY <2>1, <2>2, <3>1, <3>3, <3>4, <3>5 DEF Waits, DataAvailable, XferOf
    <3> QED BY <1>2, <2>2, <3>6, <3>7, <3>8, <3>9, <3>10, OwnGoes DEF StateInv
  <2> QED BY <2>3, <2>4
<1>7. CASE BackFromMes(t)
  <2>1. bstate = "mes_handling" /\ sphase = "mes_out" /\ UNCHANGED <<identifier, units, ready, scmd>>
    BY <1>1, <1>3, <1>7 DEF CallFits, BackFromMes, Back, PhasesExpected
  <2>2. CASE RestoreSavePhase(t, "advance")
    BY <1>2, <2>1, <2>2, RestorePhase DEF MesPhases
  <2>3. CASE /\ bstate' = "bus_freeing" /\ engine_lock' = Unlocked(t) /\ Engine(t)
             /\ UNCHANGED <<sphase, xfer, saved, info, data, pending, available, msg>>
    <3>1. SideTypes'
      BY <1>1, <2>1, <2>3 DEF SideTypes, States, units, pending
    <3>2. PhaseInv' /\ SavedInv'
      BY <1>1, <2>1, <2>3 DEF PhaseInv, PhasesExpected, SavedInv
    <3>3. LengthInv'
      BY <1>1, <2>1, <2>3 DEF LengthInv, pending
    <3> QED BY <1>2, <2>1, <2>3, <3>1, <3>2, <3>3, OwnGoes DEF StateInv
  <2> QED BY <1>7, <2>2, <2>3 DEF BackFromMes
<1>8. CASE BackFromCmd(t)
  <2>1. bstate = "cmd_handling" /\ UNCHANGED <<identifier, units, ready, scmd>>
    BY <1>3, <1>8 DEF CallFits, BackFromCmd, Back, guestSide
  <2>2. CASE GoNextPhase(t, "loop")
    BY <1>2, <2>1, <2>2, NextPhase
  <2>3. CASE /\ engine_lock' = Unlocked(t) /\ CreateThread(t)
             /\ UNCHANGED <<bstate, sphase, xfer, saved, info, data, pending, available, msg>>
    <3>1. SideTypes' /\ PhaseInv' /\ SavedInv'
      BY <1>1, <2>1, <2>3 DEF SideTypes, PhaseInv, PhasesExpected, SavedInv, units, pending
    <3>2. LengthInv'
      BY <1>1, <2>1, <2>3 DEF LengthInv, pending
    <3> QED BY <1>2, <2>1, <2>3, <3>1, <3>2, OwnGoes DEF StateInv
  <2> QED BY <1>8, <2>2, <2>3 DEF BackFromCmd
<1>9. CASE BackFromNext(t)
  <2> DEFINE p == DefaultNextSphase(bpc[t].arg[2])
  <2>1. /\ bstate \in {"advancing", "data_preparing", "cmd_handling"} /\ bstate' = StateFor(p)
        /\ UNCHANGED <<identifier, sphase, xfer, saved, info, data, pending, units, available, guestSide, msg>>
    BY <1>3, <1>9 DEF CallFits, BackFromNext, Back
  <2>2. p \in {"command", "data_in", "status", "bus_free"}
    BY DEF DefaultNextSphase
  <2>3. /\ bstate' \in {"cmd_preparing", "data_preparing", "status_preparing", "bus_freeing"}
        /\ p = "data_in" => bstate' = "data_preparing"
    BY <2>1, <2>2 DEF StateFor
  <2>4. How(t) \in Hows
    BY <1>1 DEF How, Places, Args
  <2>5. \/ p = "data_in" /\ CallUser(t, "next", How(t), p)
        \/ Engine(t) /\ engine_lock' = Unlocked(t)
    BY <1>9 DEF BackFromNext
  <2> HIDE DEF p
  <2>6. SideTypes'
    BY <1>1, <2>1, <2>3 DEF SideTypes, States, units, pending, guestSide
  <2>7. PhaseInv' /\ SavedInv'
    BY <1>1, <2>1, <2>3 DEF PhaseInv, PhasesExpected, SavedInv
  <2>8. LengthInv'
    BY <1>1, <2>1, <2>3 DEF LengthInv, pending, guestSide
  <2>9. CASE p = "data_in" /\ CallUser(t, "next", How(t), p)
    <3>1. PICK k \in Hows : CallUser(t, "next", k, "data_in")
      BY <2>4, <2>9
    <3>2. "next" \in Calls /\ "data_in" \in Phases /\ sphase' # "arbitration"
      BY <1>4, <2>1 DEF Calls, Phases, DataPhases
    <3>3. CallFits("next", k, "next" \in {"mes", "next"}, 0)'
      BY <2>3, <2>9 DEF CallFits
    <3> QED BY <1>2, <2>1, <2>6, <2>7, <2>8, <3>1, <3>2, <3>3, OwnCalls DEF StateInv
  <2>10. CASE Engine(t) /\ engine_lock' = Unlocked(t)
    BY <1>2, <2>1, <2>6, <2>7, <2>8, <2>10, OwnGoes DEF StateInv
  <2> QED BY <2>5, <2>9, <2>10
<1> QED BY <1>5, <1>6, <1>7, <1>8, <1>9

-----------------------------------------------------------------------------
(* A thread that does not own the engine enters it or leaves the bus.         *)
LEMMA ForeignGoes ==
  ASSUME BusInv, NEW t \in BusActors, ~Calling(t), busLock \in {t, "free"},
         UNCHANGED <<identifier, engine_lock, bstate, sphase, xfer, saved, info, data,
                     pending, units, guestSide, msg>>,
         available' \in {available, TRUE}, Engine(t) \/ Leave(t),
         \/ Waits' \/ Engine(t)
         \/ \E u \in BusActors \ {t} : bpc[u].at \in {"loop", "start"} \/ Calling(u)
  PROVE  BusInv'
<1>1. bpc \in [BusActors -> Places] /\ engine_lock \in Nat /\ identifier \in Nat
  BY DEF BusInv, BusTypes
<1>a. At("loop").at = "loop" /\ At("out").at = "out"
  BY AtFields
<1>b. At("loop") \in Places /\ At("out") \in Places
  BY AtIsPlace DEF PlaceNames
<1>2. /\ bpc' \in [BusActors -> Places]
      /\ \A u \in BusActors \ {t} : bpc'[u] = bpc[u]
      /\ \/ busLock' = t /\ bpc'[t] = At("loop")
         \/ busLock' = "free" /\ bpc'[t] = At("out")
      /\ Engine(t) => bpc'[t].at = "loop"
  BY <1>1, <1>a, <1>b DEF Engine, Leave
<1>3. Goes(t) /\ Others(t)
  BY <1>2 DEF Goes, Others
<1>4. EngineInv'
  BY <1>1, <1>2, <1>3, ThreadStepKeeps DEF BusInv, ThreadStep
<1>5. ~Calling(t)' /\ \A u \in BusActors \ {t} : Calling(u)' <=> Calling(u)
  BY <1>a, <1>2 DEF Calling
<1>6. BusTypes'
  <2>1. SideTypes
    BY DEF BusInv, BusTypes
  <2>2. UNCHANGED <<bstate, sphase, xfer, saved, info, data, atn, mesq, dreq, initiator, target,
                    ready, scmd, msg>>
    BY DEF pending, units, guestSide
  <2>3. available' \in BOOLEAN
    BY <2>1 DEF SideTypes
  <2>4. SideTypes'
    BY <2>1, <2>2, <2>3 DEF SideTypes
  <2> QED BY <1>1, <1>2, <2>4 DEF BusTypes
<1>7. StateInv'
  <2>1. PhaseInv /\ SavedInv /\ LengthInv
    BY DEF BusInv, StateInv
  <2>2. PhaseInv' /\ SavedInv'
    BY <2>1 DEF PhaseInv, PhasesExpected, SavedInv
  <2>3. LengthInv'
    BY <2>1 DEF LengthInv, pending, guestSide
  <2> QED BY <2>2, <2>3 DEF StateInv
<1>8. CallInv'
  <2> SUFFICES ASSUME NEW u \in BusActors, Calling(u)'
               PROVE  CallFits(bpc[u].call, bpc[u].arg[1], bpc[u].at = "ret", bpc[u].res)'
    BY DEF CallInv
  <2>1. u # t /\ bpc'[u] = bpc[u] /\ Calling(u)
    BY <1>2, <1>5
  <2>2. CallFits(bpc[u].call, bpc[u].arg[1], bpc[u].at = "ret", bpc[u].res)
    BY <2>1 DEF BusInv, CallInv
  <2> QED BY <2>1, <2>2 DEF CallFits, XferOf
<1>9. ArbitrationInv'
  BY <1>5 DEF BusInv, ArbitrationInv, BusActors
<1>10. Running'
  BY <1>2, <1>5 DEF Running
<1> QED BY <1>4, <1>6, <1>7, <1>8, <1>9, <1>10 DEF BusInv

(* The engine ends or is entered by a thread that does not own it: after an   *)
(* abort, from create_thread(), or by scsi_xfer_status().                     *)
LEMMA ForeignSteps ==
  ASSUME BusInv, NEW t \in BusActors,
         EngineEnds(t) \/ BackAborted(t) \/ EngineEntry(t) \/ (t = "main" /\ XferStatus)
  PROVE  BusInv'
<1>1. OneCaller /\ Running
  BY DEF BusInv, EngineInv
<1>2. CASE EngineEnds(t)
  <2>1. ~Calling(t) /\ busLock = t /\ Leave(t) /\ available' = available /\ bstate' = bstate
    BY <1>2 DEF EngineEnds, InEngine, Calling
  <2>2. Waits' \/ \E u \in BusActors \ {t} : Calling(u)
    <3>1. CASE bstate = "idling"
      BY <2>1, <3>1 DEF Waits
    <3>2. CASE engine_lock = identifier
      BY <1>1, <2>1, <3>2 DEF OneCaller
    <3> QED BY <1>2, <3>1, <3>2 DEF EngineEnds
  <2> QED BY <1>2, <2>1, <2>2, ForeignGoes DEF EngineEnds
<1>3. CASE BackAborted(t)
  <2>1. ~Calling(t) /\ bpc[t].at = "ret" /\ busLock = "free" /\ (Engine(t) \/ Leave(t))
    BY <1>3 DEF BackAborted, Aborted, Calling
  <2>2. UNCHANGED <<bstate, xfer, info, data, available>>
    BY <1>3 DEF BackAborted
  <2>3. Waits' \/ \E u \in BusActors \ {t} : bpc[u].at \in {"loop", "start"} \/ Calling(u)
    BY <1>1, <2>1, <2>2 DEF Running, Waits, DataAvailable, XferOf
  <2> QED BY <1>3, <2>1, <2>2, <2>3, ForeignGoes DEF BackAborted
<1>4. CASE EngineEntry(t)
  <2>1. ~Calling(t) /\ busLock = "free" /\ Engine(t) /\ available' = available
    BY <1>4 DEF EngineEntry, Calling
  <2> QED BY <1>4, <2>1, ForeignGoes DEF EngineEntry
<1>5. CASE t = "main" /\ XferStatus
  <2>1. ~Calling(t) /\ bpc[t].at = "issue" /\ busLock = "free" /\ available' = TRUE
    BY <1>5 DEF XferStatus, Calling
  <2>2. Engine(t) \/ (Leave(t) /\ (available \/ bstate # "transfering"))
    BY <1>5 DEF XferStatus
  <2>3. UNCHANGED <<bstate, xfer, info, data>> /\ available \in BOOLEAN
    BY <1>5 DEF XferStatus, BusInv, BusTypes, SideTypes
  <2>4. \/ Waits' \/ Engine(t)
        \/ \E u \in BusActors \ {t} : bpc[u].at \in {"loop", "start"} \/ Calling(u)
    BY <1>1, <2>1, <2>2, <2>3 DEF Running, Waits, DataAvailable, XferOf
  <2> QED BY <1>5, <2>1, <2>2, <2>4, ForeignGoes DEF XferStatus
<1> QED BY <1>2, <1>3, <1>4, <1>5

-----------------------------------------------------------------------------
(* The guest, on the main thread.                                             *)
LEMMA MainIsActor == "main" \in BusActors /\ "main" # "free"
BY DEF BusActors

(* It calls the chip for a change of phase while nobody else is in a callback. *)
LEMMA MainCalls ==
  ASSUME BusInv, MainIdle, engine_lock # identifier, identifier' = identifier, SideTypes', StateInv',
         NEW k \in Hows, NEW old \in Phases, CallUser("main", "sphase", k, old),
         CallFits("sphase", k, FALSE, 0)'
  PROVE  BusInv'
<1> DEFINE t == "main"
<1>a. t \in BusActors
  BY MainIsActor
<1>1. bpc \in [BusActors -> Places] /\ identifier \in Nat /\ engine_lock \in Nat
      /\ "sphase" \in Calls /\ t \in BusActors
  BY MainIsActor DEF BusInv, BusTypes, Calls
<1> HIDE DEF t
<1>2. /\ bpc' \in [BusActors -> Places]
      /\ \A u \in BusActors \ {t} : bpc'[u] = bpc[u]
      /\ bpc'[t].at = "call"
      /\ bpc'[t].call = "sphase" /\ bpc'[t].arg = <<k, old>> /\ bpc'[t].id = identifier
      /\ bpc'[t].res = 0
  <2>1. CallUser(t, "sphase", k, old)
    BY DEF t
  <2> QED BY <1>1, <2>1, CallFields
<1>3. engine_lock' = identifier /\ busLock' = "free" /\ busLock = "free"
  BY DEF CallUser, MainIdle
<1>4. Calling(t)' /\ \A u \in BusActors \ {t} : ~Calling(u)' /\ bpc'[u].at # "loop"
  <2>1. \A u \in BusActors : ~Calling(u) /\ bpc[u].at # "loop"
    <3>1. \A u \in BusActors : u # "free"
      BY BusAssumption, MainIsActor DEF BusActors
    <3> QED BY <1>3, <3>1 DEF BusInv, EngineInv, OneCaller
  <2> QED BY <1>2, <2>1 DEF Calling
<1>5. EngineInv'
  <2>1. \A u \in BusActors : u # "free"
    BY BusAssumption, MainIsActor DEF BusActors
  <2>2. identifier > 0 /\ \A u \in BusActors : bpc[u].id <= identifier
    BY DEF BusInv, EngineInv
  <2>3. \A u \in BusActors : bpc'[u].id <= identifier /\ (bpc'[u].at = "loop" <=> busLock' = u)
    BY <1>1, <1>2, <1>3, <1>4, <2>1, <2>2
  <2>4. OneCaller'
    BY <1>1, <1>3, <1>4 DEF OneCaller
  <2> QED BY <1>1, <1>3, <2>2, <2>3, <2>4 DEF EngineInv
<1>6. CallInv'
  <2>1. bpc'[t].arg[1] = k /\ bpc'[t].at # "ret"
    BY <1>2
  <2>2. CallFits(bpc[t].call, bpc[t].arg[1], bpc[t].at = "ret", bpc[t].res)'
    BY <1>2, <2>1 DEF CallFits
  <2> QED BY <1>4, <2>2 DEF CallInv
<1>7. ArbitrationInv'
  BY <1>4, BusAssumption DEF ArbitrationInv, BusActors, t
<1>8. Running' /\ BusTypes'
  BY <1>1, <1>2, <1>3, <1>4 DEF Running, BusTypes
<1> QED BY <1>5, <1>6, <1>7, <1>8 DEF BusInv

(* scsi_arbitration() and scsi_selection().                                   *)
LEMMA GuestSteps ==
  ASSUME BusInv, (Arbitrate /\ engine_lock # identifier) \/ Select
  PROVE  BusInv'
<1>1. /\ SideTypes /\ PhaseInv /\ SavedInv /\ LengthInv /\ ArbitrationInv /\ OneCaller
  BY DEF BusInv, BusTypes, StateInv, EngineInv
<1>2. CASE Arbitrate /\ engine_lock # identifier
  <2>1. /\ MainIdle /\ engine_lock # identifier /\ sphase = "bus_free" /\ sphase' = "arbitration"
        /\ identifier' = identifier /\ CallUser("main", "sphase", "return", sphase)
        /\ UNCHANGED <<bstate, xfer, saved, info, data, atn, mesq, dreq, target, ready, scmd, msg>>
        /\ initiator' = TRUE /\ available' = TRUE
    BY <1>2 DEF Arbitrate, pending, guestSide
  <2>2. bstate = "idling" /\ "return" \in Hows /\ sphase \in Phases
    BY <1>1, <2>1 DEF PhaseInv, Hows, SideTypes
  <2>3. SideTypes'
    <3>1. sphase' \in Phases /\ initiator' \in BOOLEAN /\ available' \in BOOLEAN
      BY <2>1 DEF Phases
    <3> QED BY <1>1, <2>1, <3>1 DEF SideTypes
  <2>4. PhaseInv' /\ SavedInv'
    BY <1>1, <2>1, <2>2 DEF PhaseInv, SavedInv, PhasesExpected
  <2>5. LengthInv'
    BY <1>1, <2>1 DEF LengthInv
  <2>6. CallFits("sphase", "return", FALSE, 0)'
    BY <2>1, <2>2 DEF CallFits
  <2> QED BY <2>1, <2>2, <2>3, <2>4, <2>5, <2>6, MainCalls DEF StateInv
<1>3. CASE Select
  <2>1. /\ MainIdle /\ sphase = "arbitration"
        /\ identifier' = identifier
        /\ UNCHANGED <<bstate, xfer, saved, info, data, mesq, dreq, initiator, target, msg>>
        /\ ready' = 0
    BY <1>3 DEF Select, units
  <2>2. PICK exists \in BOOLEAN :
          /\ scmd' \in BusCommands /\ atn' \in BOOLEAN
          /\ ChangeSphase("main", IF exists THEN "selection" ELSE "bus_free",
                          IF exists THEN "select" ELSE "return")
    BY <1>3 DEF Select
  <2>3. bstate = "idling" /\ sphase \in Phases
    BY <1>1, <2>1 DEF PhaseInv, SideTypes
  <2>4. engine_lock # identifier
    BY <1>1, <2>1 DEF ArbitrationInv, OneCaller, BusActors, MainIdle, Calling
  <2>5. PICK k \in {"select", "return"} :
          /\ CallUser("main", "sphase", k, sphase)
          /\ sphase' = IF k = "select" THEN "selection" ELSE "bus_free"
          /\ available' = (available \/ initiator)
    BY <2>1, <2>2 DEF ChangeSphase
  <2>6. SideTypes'
    <3>1. sphase' \in Phases /\ scmd' \in Commands /\ ready' \in Nat
      BY <2>1, <2>2, <2>5, BusAssumption DEF Phases
    <3>2. available' \in BOOLEAN
      BY <2>5, Zenon
    <3> QED BY <1>1, <2>1, <2>2, <3>1, <3>2 DEF SideTypes
  <2>7. PhaseInv' /\ SavedInv'
    BY <1>1, <2>1, <2>3 DEF PhaseInv, SavedInv, PhasesExpected
  <2>8. LengthInv'
    BY <1>1, <2>1, <2>2, <2>3 DEF LengthInv
  <2>9. k \in Hows /\ CallFits("sphase", k, FALSE, 0)'
    BY <2>1, <2>3, <2>5 DEF CallFits, Hows
  <2> QED BY <2>1, <2>3, <2>4, <2>5, <2>6, <2>7, <2>8, <2>9, MainCalls DEF StateInv
<1> QED BY <1>2, <1>3

(* A write to the sequence register, up to scsi_xfer_status().                *)
LEMMA IssueStep ==
  ASSUME BusInv, Issue
  PROVE  BusInv'
<1> DEFINE t == "main"
<1>1. bpc \in [BusActors -> Places] /\ t \in BusActors /\ At("issue") \in Places
      /\ At("issue").at = "issue" /\ At("issue").id = 0
  BY MainIsActor, AtIsPlace, AtFields DEF BusInv, BusTypes, PlaceNames
<1> HIDE DEF t
<1>2. /\ bpc' \in [BusActors -> Places] /\ bpc'[t] = At("issue") /\ bpc[t].at = "out"
      /\ \A u \in BusActors \ {t} : bpc'[u] = bpc[u]
  BY <1>1 DEF Issue, MainIdle, t
<1>3. /\ UNCHANGED <<busLock, identifier, engine_lock, bstate, sphase, xfer, saved, info, data,
                     mesq, dreq, initiator, target, available, scmd, msg>>
      /\ atn' \in BOOLEAN /\ ready' \in XferCounts
  BY DEF Issue, units
<1>4. \A u \in BusActors : Calling(u)' <=> Calling(u)
  BY <1>1, <1>2, <1>3 DEF Calling
<1>5. EngineInv'
  <2>1. /\ \A u \in BusActors : bpc'[u].id <= identifier
        /\ \A u \in BusActors : bpc'[u].at = "loop" <=> bpc[u].at = "loop"
    BY <1>1, <1>2 DEF BusInv, EngineInv, BusTypes
  <2>2. OneCaller'
    BY <1>3, <1>4 DEF BusInv, EngineInv, OneCaller
  <2> QED BY <1>3, <2>1, <2>2 DEF BusInv, EngineInv
<1>6. BusTypes'
  <2>1. SideTypes'
    BY <1>3, BusAssumption DEF BusInv, BusTypes, SideTypes
  <2> QED BY <1>2, <1>3, <2>1 DEF BusInv, BusTypes
<1>7. StateInv'
  <2>1. PhaseInv' /\ SavedInv'
    BY <1>3 DEF BusInv, StateInv, PhaseInv, PhasesExpected, SavedInv
  <2>2. LengthInv'
    BY <1>3 DEF BusInv, StateInv, LengthInv
  <2> QED BY <2>1, <2>2 DEF StateInv
<1>8. CallInv'
  <2> SUFFICES ASSUME NEW u \in BusActors, Calling(u)'
               PROVE  CallFits(bpc[u].call, bpc[u].arg[1], bpc[u].at = "ret", bpc[u].res)'
    BY DEF CallInv
  <2>1. Calling(u) /\ bpc'[u] = bpc[u]
    BY <1>1, <1>2, <1>4 DEF Calling
  <2>2. CallFits(bpc[u].call, bpc[u].arg[1], bpc[u].at = "ret", bpc[u].res)
    BY <2>1 DEF BusInv, CallInv
  <2> QED BY <1>3, <2>1, <2>2 DEF CallFits, XferOf
<1>9. ArbitrationInv'
  BY <1>3, <1>4 DEF BusInv, ArbitrationInv, BusActors
<1>10. Running'
  <2>1. Waits' <=> Waits
    BY <1>3 DEF Waits, DataAvailable, XferOf
  <2>2. \A u \in BusActors : bpc[u].at \in {"loop", "start"} => bpc'[u].at \in {"loop", "start"}
    BY <1>2
  <2> QED BY <1>4, <2>1, <2>2 DEF BusInv, Running
<1> QED BY <1>5, <1>6, <1>7, <1>8, <1>9, <1>10 DEF BusInv

(* While scsi_reset() is in its callback the bus is as it will be, but for    *)
(* the units and the identifier.  Callbacks of any identifier may be under    *)
(* way, and a thread enters the engine only to leave it.                      *)
ResetInv ==
    /\ BusTypes /\ StateInv /\ Resetting
    /\ bstate = "idling" /\ sphase = "bus_free" /\ broken
    /\ identifier > 0 /\ engine_lock = identifier
    /\ busLock \in BusActors \cup {"free"}
    /\ \A t \in BusActors : bpc[t].id <= identifier
    /\ \A t \in BusActors : bpc[t].at = "loop" <=> busLock = t

(* scsi_reset() of a bus in use calls the chip; of a free one it is done at   *)
(* once, and no callback that is under way is one of the new identifier.      *)
LEMMA ResetStep ==
  ASSUME BusInv, ResetBus
  PROVE  BusInv' \/ ResetInv'
<1>1. /\ identifier \in Nat /\ engine_lock \in Nat /\ identifier > 0 /\ engine_lock <= identifier
      /\ \A u \in BusActors : bpc[u].id <= identifier /\ bpc[u].id \in Nat
      /\ \A u \in BusActors : u # "free" /\ (bpc[u].at = "loop" <=> busLock = u)
      /\ bpc \in [BusActors -> Places] /\ SideTypes /\ sphase \in Phases
  BY BusAssumption, MainIsActor DEF BusInv, BusTypes, EngineInv, Places, SideTypes, BusActors
<1>2. /\ UNCHANGED <<xfer, saved, info, data, mesq, dreq, ready, scmd, msg>>
      /\ bstate' = "idling" /\ sphase' = "bus_free" /\ atn' = FALSE /\ broken'
      /\ available' = (available \/ initiator)
  BY DEF ResetBus
<1>3. StateInv'
  <2>1. PhaseInv' /\ SavedInv'
    BY <1>2 DEF BusInv, StateInv, PhaseInv, PhasesExpected, SavedInv
  <2>2. LengthInv'
    BY <1>2 DEF BusInv, StateInv, LengthInv
  <2> QED BY <2>1, <2>2 DEF StateInv
<1>4. initiator' \in BOOLEAN /\ target' \in BOOLEAN => SideTypes'
  <2>1. available' \in BOOLEAN
    BY <1>2, Zenon
  <2>2. bstate' \in States /\ sphase' \in Phases /\ atn' \in BOOLEAN
    BY <1>2 DEF States, Phases
  <2> QED BY <1>1, <1>2, <2>1, <2>2 DEF SideTypes
<1>5. CASE sphase = "bus_free"
  <2>1. /\ identifier' = identifier + 1 /\ initiator' = FALSE /\ target' = FALSE
        /\ UNCHANGED <<busLock, engine_lock, bpc>>
    BY <1>5 DEF ResetBus, ClearBus, place
  <2>2. /\ identifier' \in Nat /\ engine_lock' < identifier'
        /\ \A u \in BusActors : ~Calling(u)' /\ bpc'[u].id <= identifier'
    BY <1>1, <2>1 DEF Calling
  <2>3. EngineInv'
    BY <1>1, <2>1, <2>2 DEF BusInv, EngineInv, OneCaller
  <2>4. BusTypes'
    BY <1>1, <1>4, <2>1, <2>2 DEF BusTypes
  <2>5. CallInv' /\ ArbitrationInv' /\ Running'
    BY <1>2, <2>2 DEF CallInv, ArbitrationInv, Running, Waits
  <2> QED BY <1>3, <2>3, <2>4, <2>5 DEF BusInv
<1>6. CASE sphase # "bus_free"
  <2> DEFINE m == "main"
             how == "reset"
  <2>1. /\ CallUser(m, "sphase", how, sphase) /\ UNCHANGED <<identifier, initiator, target>>
        /\ m \in BusActors /\ "sphase" \in Calls /\ how \in Hows /\ busLock = "free"
        /\ bpc[m].at = "out"
    BY <1>6, MainIsActor DEF ResetBus, units, Calls, Hows, MainIdle
  <2> HIDE DEF m, how
  <2>2. /\ bpc' \in [BusActors -> Places]
        /\ \A u \in BusActors \ {m} : bpc'[u] = bpc[u]
        /\ bpc'[m].at = "call" /\ bpc'[m].call = "sphase" /\ bpc'[m].arg = <<how, sphase>>
        /\ bpc'[m].id = identifier
    BY <1>1, <2>1, CallFields
  <2>3. engine_lock' = identifier /\ busLock' = "free"
    BY <2>1 DEF CallUser
  <2>4. bpc'[m].arg[1] = how
    BY <2>2
  <2>5. Resetting'
    BY <2>1, <2>2, <2>4 DEF Resetting, Calling, m, how
  <2>6. \A u \in BusActors : bpc'[u].id <= identifier' /\ (bpc'[u].at = "loop" <=> busLock' = u)
    BY <1>1, <2>1, <2>2, <2>3
  <2>7. BusTypes'
    BY <1>1, <1>4, <2>1, <2>2, <2>3 DEF BusTypes, SideTypes
  <2> QED BY <1>1, <1>2, <1>3, <2>1, <2>3, <2>5, <2>6, <2>7 DEF ResetInv
<1> QED BY <1>5, <1>6

(* Its callback is over: now the others under way are disowned.               *)
LEMMA ResetEnds ==
  ASSUME ResetInv, BackFromReset
  PROVE  BusInv'
<1> DEFINE m == "main"
<1>1. /\ identifier \in Nat /\ identifier > 0 /\ engine_lock = identifier
      /\ \A u \in BusActors : bpc[u].id <= identifier /\ bpc[u].id \in Nat
      /\ \A u \in BusActors : u # "free" /\ (bpc[u].at = "loop" <=> busLock = u)
      /\ bpc \in [BusActors -> Places] /\ SideTypes /\ m \in BusActors
  BY BusAssumption, MainIsActor DEF ResetInv, BusTypes, Places, BusActors
<1>2. /\ UNCHANGED <<bstate, sphase, xfer, saved, info, data, atn, mesq, dreq, available, ready, scmd, msg>>
      /\ identifier' = identifier + 1 /\ initiator' = FALSE /\ target' = FALSE
      /\ busLock = "free" /\ busLock' = "free" /\ bpc' = [bpc EXCEPT ![m] = At("out")]
      /\ engine_lock' = engine_lock - 1
  BY DEF BackFromReset, ClearBus, Leave, Back, Valid, Unlocked, pending, guestSide
<1>3. At("out") \in Places /\ At("out").at = "out" /\ At("out").id = 0
  BY AtIsPlace, AtFields DEF PlaceNames
<1> HIDE DEF m
<1>4. /\ bpc' \in [BusActors -> Places] /\ bpc'[m] = At("out")
      /\ \A u \in BusActors \ {m} : bpc'[u] = bpc[u]
  BY <1>1, <1>2, <1>3
<1>5. \A u \in BusActors : bpc'[u].id <= identifier /\ bpc'[u].at # "loop"
  BY <1>1, <1>2, <1>3, <1>4
<1>6. \A u \in BusActors : ~Calling(u)' /\ bpc'[u].id <= identifier'
  BY <1>1, <1>2, <1>4, <1>5 DEF Calling, Places
<1>7. EngineInv'
  BY <1>1, <1>2, <1>5, <1>6 DEF EngineInv, OneCaller
<1>8. BusTypes'
  <2>1. SideTypes'
    BY <1>1, <1>2 DEF SideTypes
  <2>2. engine_lock' \in Nat /\ identifier' \in Nat
    BY <1>1, <1>2
  <2> QED BY <1>4, <2>1, <2>2 DEF BusTypes
<1>9. StateInv'
  <2>1. PhaseInv' /\ SavedInv'
    BY <1>2 DEF ResetInv, StateInv, PhaseInv, PhasesExpected, SavedInv
  <2>2. LengthInv'
    BY <1>2 DEF ResetInv, StateInv, LengthInv
  <2> QED BY <2>1, <2>2 DEF StateInv
<1>10. CallInv' /\ ArbitrationInv' /\ Running'
  BY <1>2, <1>6 DEF ResetInv, CallInv, ArbitrationInv, Running, Waits
<1> QED BY <1>7, <1>8, <1>9, <1>10 DEF BusInv

(* Until then no thread runs the engine, unless it slips in.                  *)
LEMMA ResetWindow ==
  ASSUME ResetInv, NEW t \in BusActors, EngineStep(t), ~SlipsIn(t)
  PROVE  ResetInv'
<1>1. /\ \A u \in BusActors : u # "free" /\ (bpc[u].at = "loop" <=> busLock = u) /\ bpc[u].id <= identifier
      /\ bpc \in [BusActors -> Places] /\ SideTypes /\ PhaseInv /\ SavedInv /\ LengthInv
      /\ "main" \in BusActors /\ identifier \in Nat
  BY BusAssumption, MainIsActor DEF ResetInv, BusTypes, StateInv, BusActors
<1>2. CASE \/ DoTransfer(t) \/ EndMesOut(t) \/ DoMesHandling(t) \/ EndMesIn(t) \/ StartCmdRead(t)
           \/ EndCmdRead(t) \/ DoCmdHandling(t) \/ StartDataTransfer(t) \/ DoDataSwitching(t)
           \/ StartStatusTransfer(t) \/ Advance(t) \/ BusFreeing(t)
  <2>1. engine_lock # identifier
    BY <1>2 DEF DoTransfer, EndMesOut, DoMesHandling, EndMesIn, StartCmdRead, EndCmdRead, DoCmdHandling,
                StartDataTransfer, DoDataSwitching, StartStatusTransfer, Advance, BusFreeing, Iterate
  <2> QED BY <2>1 DEF ResetInv
<1>3. CASE BackFromSphase(t) \/ BackFromXfer(t) \/ BackFromMes(t) \/ BackFromCmd(t) \/ BackFromNext(t)
  <2>1. /\ bpc[t].at = "ret" /\ Calling(t)
        /\ bpc[t].call = "sphase" => bpc[t].arg[1] # "reset"
    BY <1>3 DEF BackFromSphase, BackFromXfer, BackFromMes, BackFromCmd, BackFromNext, Back, Valid, Aborted,
                Calling, How
  <2> QED BY <2>1 DEF ResetInv, SlipsIn, Resetting
<1>4. CASE SphaseChanged(t) \/ XferProc(t) \/ HandleCmd(t)
  <2>1. /\ bpc[t].at = "call" /\ SideTypes' /\ LengthInv'
        /\ UNCHANGED <<busLock, identifier, engine_lock, bstate, sphase, xfer, saved, info, data>>
        /\ \E r \in Int : CallbackDone(t, r)
    BY <1>1, <1>4, CallbackIs
  <2>2. PICK r \in Int : CallbackDone(t, r)
    BY <2>1
  <2>3. /\ bpc' \in [BusActors -> Places]
        /\ \A u \in BusActors \ {t} : bpc'[u] = bpc[u]
        /\ bpc'[t].at = "ret"
        /\ bpc'[t].call = bpc[t].call /\ bpc'[t].arg = bpc[t].arg /\ bpc'[t].id = bpc[t].id
    BY <1>1, <2>2, DoneFields
  <2>4. Resetting'
    BY <1>1, <2>1, <2>3 DEF ResetInv, Resetting, Calling
  <2>5. broken'
    BY <1>4 DEF ResetInv, SphaseChanged, XferProc, HandleCmd, guestSide
  <2>6. StateInv'
    BY <1>1, <2>1 DEF StateInv, PhaseInv, PhasesExpected, SavedInv
  <2>7. \A u \in BusActors : bpc'[u].id <= identifier' /\ (bpc'[u].at = "loop" <=> busLock' = u)
    BY <1>1, <2>1, <2>3
  <2>8. BusTypes'
    BY <2>1, <2>3 DEF ResetInv, BusTypes
  <2> QED BY <2>1, <2>4, <2>5, <2>6, <2>7, <2>8 DEF ResetInv
<1>5. CASE EngineEnds(t) \/ BackAborted(t) \/ EngineEntry(t)
  <2>1. /\ ~Calling(t) /\ (Engine(t) \/ Leave(t)) /\ busLock \in {t, "free"}
        /\ UNCHANGED <<identifier, engine_lock, bstate, sphase, xfer, saved, info, data, atn, mesq, dreq,
                        initiator, target, available, ready, scmd, broken, msg>>
    BY <1>5 DEF EngineEnds, BackAborted, EngineEntry, InEngine, Aborted, Calling, pending, guestSide, units
  <2>a. At("loop").at = "loop" /\ At("out").at = "out" /\ At("loop").id = 0 /\ At("out").id = 0
    BY AtFields
  <2>b. At("loop") \in Places /\ At("out") \in Places
    BY AtIsPlace DEF PlaceNames
  <2>2. /\ bpc' \in [BusActors -> Places] /\ \A u \in BusActors \ {t} : bpc'[u] = bpc[u]
        /\ \/ busLock' = t /\ bpc'[t] = At("loop")
           \/ busLock' = "free" /\ bpc'[t] = At("out")
    BY <1>1, <2>1, <2>b DEF Engine, Leave
  <2>3. t # "main"
    BY <2>1 DEF ResetInv, Resetting
  <2>4. Resetting'
    BY <1>1, <2>1, <2>2, <2>3 DEF ResetInv, Resetting, Calling
  <2>5. \A u \in BusActors : bpc'[u].id <= identifier' /\ (bpc'[u].at = "loop" <=> busLock' = u)
    BY <1>1, <2>1, <2>2, <2>a
  <2>6. StateInv'
    <3>1. PhaseInv' /\ SavedInv'
      BY <1>1, <2>1 DEF PhaseInv, PhasesExpected, SavedInv
    <3>2. LengthInv'
      BY <1>1, <2>1 DEF LengthInv
    <3> QED BY <3>1, <3>2 DEF StateInv
  <2>7. BusTypes'
    <3>1. SideTypes'
      BY <1>1, <2>1 DEF SideTypes
    <3> QED BY <2>1, <2>2, <3>1 DEF ResetInv, BusTypes
  <2>8. busLock' \in BusActors \cup {"free"}
    BY <2>2
  <2> QED BY <2>1, <2>4, <2>5, <2>6, <2>7, <2>8 DEF ResetInv
<1> QED BY <1>2, <1>3, <1>4, <1>5 DEF EngineStep

(* The invariant holds of the bus as it is set up.                            *)
LEMMA BusStarts == BusInit => BusInv
<1> SUFFICES ASSUME BusInit PROVE BusInv
  OBVIOUS
<1>1. At("out") \in Places /\ At("out").at = "out" /\ At("out").id = 0
  BY AtIsPlace, AtFields DEF PlaceNames
<1>2. bpc \in [BusActors -> Places] /\ \A u \in BusActors : bpc[u] = At("out")
  BY <1>1 DEF BusInit
<1>3. \A u \in BusActors : ~Calling(u) /\ bpc[u].at = "out" /\ bpc[u].id = 0 /\ u # "free"
  BY <1>1, <1>2, BusAssumption, MainIsActor DEF Calling, BusActors
<1>4. EngineInv
  BY <1>3 DEF BusInit, EngineInv, OneCaller
<1>5. info \in Xfers /\ data \in Xfers /\ info.res = 0 /\ info.req = 0 /\ data.res = 0 /\ data.req = 0
  BY XferIs DEF BusInit, States
<1>6. SideTypes
  <2>1. /\ saved \in [state : States, sphase : Phases, xfer : {"info", "data"}]
        /\ bstate \in States /\ sphase \in Phases
    BY DEF BusInit, States, Phases
  <2>2. dreq \in [count : Nat, in : BOOLEAN]
    BY DEF BusInit
  <2>3. scmd \in Commands
    BY DEF BusInit, Commands
  <2>4. msg \in Messages
    BY DEF BusInit, Messages
  <2> QED BY <1>5, <2>1, <2>2, <2>3, <2>4 DEF BusInit, SideTypes
<1>7. PhaseInv /\ SavedInv
  BY DEF BusInit, PhaseInv, PhasesExpected, SavedInv, MesPhases
<1>8. LengthInv
  <2>1. bstate = "idling" /\ scmd.size = 0 /\ dreq.count = 0
    BY DEF BusInit
  <2> QED BY <1>5, <2>1 DEF LengthInv
<1>9. CallInv /\ ArbitrationInv /\ Running
  BY <1>3 DEF BusInit, CallInv, ArbitrationInv, Running, Waits
<1>10. BusTypes
  BY <1>2, <1>6 DEF BusInit, BusTypes
<1> QED BY <1>4, <1>7, <1>8, <1>9, <1>10 DEF BusInv, StateInv

-----------------------------------------------------------------------------
(* The steps that neither begin a reset nor race.                             *)
LEMMA BusSteps ==
  ASSUME BusInv,
         \/ \E t \in BusActors : EngineStep(t)
         \/ (Arbitrate /\ engine_lock # identifier) \/ Select \/ Issue \/ XferStatus
  PROVE  BusInv'
<1>1. ASSUME NEW t \in BusActors, EngineStep(t)
      PROVE  BusInv'
  <2>1. CASE EngineEnds(t) \/ BackAborted(t) \/ EngineEntry(t)
    BY <2>1, ForeignSteps
  <2>2. CASE \/ DoTransfer(t) \/ EndMesOut(t) \/ DoMesHandling(t) \/ EndMesIn(t) \/ StartCmdRead(t)
             \/ EndCmdRead(t) \/ DoCmdHandling(t) \/ StartDataTransfer(t) \/ DoDataSwitching(t)
             \/ StartStatusTransfer(t) \/ Advance(t) \/ BusFreeing(t)
    BY <2>2, EngineStates
  <2>3. CASE SphaseChanged(t) \/ XferProc(t) \/ HandleCmd(t)
    BY <2>3, Callbacks
  <2>4. CASE BackFromSphase(t) \/ BackFromXfer(t) \/ BackFromMes(t) \/ BackFromCmd(t) \/ BackFromNext(t)
    BY <2>4, BackSteps
  <2> QED BY <1>1, <2>1, <2>2, <2>3, <2>4 DEF EngineStep
<1>2. CASE (Arbitrate /\ engine_lock # identifier) \/ Select
  BY <1>2, GuestSteps
<1>3. CASE Issue
  BY <1>3, IssueStep
<1>4. CASE XferStatus
  <2>1. "main" \in BusActors
    BY MainIsActor
  <2> QED BY <1>4, <2>1, ForeignSteps
<1> QED BY <1>1, <1>2, <1>3, <1>4

(* The units: an engine that runs has both, and only a thread that finds the  *)
(* bus still free takes them away.                                            *)
LEMMA UnitsStay ==
  ASSUME BusInv, UnitsThere, NEW t \in BusActors, EngineStep(t)
  PROVE  UnitsThere'
<1>1. bstate # "idling" => sphase \notin {"bus_free", "arbitration"}
  BY DEF BusInv, StateInv, PhaseInv
<1>2. CASE \/ DoTransfer(t) \/ EndMesOut(t) \/ DoMesHandling(t) \/ EndMesIn(t) \/ StartCmdRead(t)
           \/ EndCmdRead(t) \/ DoCmdHandling(t) \/ StartDataTransfer(t) \/ DoDataSwitching(t)
           \/ StartStatusTransfer(t) \/ Advance(t) \/ BusFreeing(t)
  <2>1. bstate # "idling" /\ initiator' = initiator /\ target' = target
    BY <1>2 DEF DoTransfer, EndMesOut, DoMesHandling, EndMesIn, StartCmdRead, EndCmdRead, DoCmdHandling,
                StartDataTransfer, DoDataSwitching, StartStatusTransfer, Advance, BusFreeing, Iterate, units
  <2> QED BY <1>1, <2>1 DEF UnitsThere
<1>3. CASE \/ EngineEnds(t) \/ BackAborted(t) \/ EngineEntry(t)
           \/ SphaseChanged(t) \/ XferProc(t) \/ HandleCmd(t)
  <2>1. UNCHANGED <<bstate, sphase, initiator, target>>
    BY <1>3 DEF EngineEnds, BackAborted, EngineEntry, SphaseChanged, XferProc, HandleCmd, units
  <2> QED BY <2>1 DEF UnitsThere
<1>4. ASSUME BackFromSphase(t) \/ BackFromXfer(t) \/ BackFromMes(t) \/ BackFromCmd(t) \/ BackFromNext(t)
      PROVE  CallFits(bpc[t].call, How(t), TRUE, bpc[t].res)
  <2>1. Calling(t) /\ bpc[t].at = "ret"
    BY <1>4 DEF BackFromSphase, BackFromXfer, BackFromMes, BackFromCmd, BackFromNext, Back, Valid, Aborted, Calling
  <2>2. CallFits(bpc[t].call, bpc[t].arg[1], bpc[t].at = "ret", bpc[t].res)
    BY <2>1 DEF BusInv, CallInv
  <2> QED BY <2>1, <2>2 DEF CallFits, How
<1>5. CASE BackFromXfer(t) \/ BackFromMes(t) \/ BackFromCmd(t) \/ BackFromNext(t)
  <2>1. bstate # "idling"
    BY <1>4, <1>5 DEF CallFits, BackFromXfer, BackFromMes, BackFromCmd, BackFromNext, Back
  <2>2. initiator' = initiator /\ target' = target
    BY <1>5 DEF BackFromXfer, BackFromMes, BackFromCmd, BackFromNext, units
  <2> QED BY <1>1, <2>1, <2>2 DEF UnitsThere
<1>6. CASE BackFromSphase(t)
  <2>1. /\ How(t) \in {"loop", "advance", "status", "freeing", "select", "return"}
        /\ How(t) = "select" => sphase = "selection"
        /\ How(t) = "freeing" => sphase = "bus_free" /\ bstate = "idling"
        /\ sphase' = sphase
    BY <1>4, <1>6 DEF CallFits, BackFromSphase, Back
  <2>2. CASE How(t) \in {"loop", "advance", "status", "return"}
    <3>1. bstate' = bstate /\ initiator' = initiator /\ target' = target
      BY <1>6, <2>2 DEF BackFromSphase, units
    <3> QED BY <2>1, <3>1 DEF UnitsThere
  <2>3. CASE How(t) = "freeing"
    <3>1. bstate' = bstate
      BY <1>6, <2>3 DEF BackFromSphase
    <3> QED BY <2>1, <2>3, <3>1 DEF UnitsThere
  <2>4. CASE How(t) = "select"
    <3>1. target' = TRUE /\ initiator' = initiator
      BY <1>6, <2>4 DEF BackFromSphase
    <3> QED BY <2>1, <2>4, <3>1 DEF UnitsThere
  <2> QED BY <2>1, <2>2, <2>3, <2>4
<1> QED BY <1>2, <1>3, <1>5, <1>6 DEF EngineStep

(* What holds of the bus until it races: the invariant of the engine, or that *)
(* of a reset.                                                                *)
BusKept == raced \in BOOLEAN /\ (~raced => (BusInv \/ ResetInv) /\ UnitsThere)

(* Every step keeps it.                                                       *)
LEMMA BusKeeps ==
  ASSUME BusKept, [BusNext]_busVars
  PROVE  BusKept'
<1>1. CASE UNCHANGED busVars
  <2>1. /\ UNCHANGED <<busLock, identifier, engine_lock, bstate, sphase, xfer, saved, info, data, atn,
                       mesq, initiator, target, dreq, available, bpc, ready, scmd, msg, broken, raced>>
    BY <1>1 DEF busVars
  <2>2. BusInv => BusInv'
    <3> SUFFICES ASSUME BusInv PROVE BusInv'
      OBVIOUS
    <3>2. BusTypes' /\ EngineInv'
      BY <2>1 DEF BusInv, BusTypes, SideTypes, EngineInv, OneCaller, Calling
    <3>3. CallInv' /\ ArbitrationInv' /\ Running'
      BY <2>1 DEF BusInv, CallInv, CallFits, XferOf, Calling, ArbitrationInv, Running, Waits, DataAvailable
    <3>4. PhaseInv' /\ SavedInv' /\ LengthInv'
      BY <2>1 DEF BusInv, StateInv, PhaseInv, PhasesExpected, SavedInv, LengthInv
    <3> QED BY <3>2, <3>3, <3>4 DEF BusInv, StateInv
  <2>3. ResetInv => ResetInv'
    <3> SUFFICES ASSUME ResetInv PROVE ResetInv'
      OBVIOUS
    <3>1. BusTypes'
      BY <2>1 DEF ResetInv, BusTypes, SideTypes
    <3>2. StateInv'
      BY <2>1 DEF ResetInv, StateInv, PhaseInv, PhasesExpected, SavedInv, LengthInv
    <3>3. Resetting'
      BY <2>1 DEF ResetInv, Resetting, Calling
    <3> QED BY <2>1, <3>1, <3>2, <3>3 DEF ResetInv
  <2> QED BY <2>1, <2>2, <2>3 DEF BusKept, UnitsThere
<1>2. CASE BusNext /\ BusInv /\ ~raced
  <2>1. UnitsThere
    BY <1>2 DEF BusKept
  <2>2. ASSUME NEW t \in BusActors, EngineStep(t), raced' = SlipsIn(t)
        PROVE  BusKept'
    <3>1. BusInv' /\ UnitsThere'
      BY <1>2, <2>1, <2>2, BusSteps, UnitsStay
    <3>2. raced' \in BOOLEAN
      BY <2>2, Zenon DEF SlipsIn
    <3> QED BY <3>1, <3>2 DEF BusKept
  <2>3. CASE (Select \/ Issue \/ XferStatus) /\ raced' = raced
    <3>1. BusInv'
      BY <1>2, <2>3, BusSteps
    <3>2. UnitsThere'
      <4>1. CASE Select
        <5>1. sphase = "arbitration" /\ bstate = "idling" /\ bstate' = bstate /\ initiator' = initiator
          BY <1>2, <4>1 DEF Select, BusInv, StateInv, PhaseInv, units
        <5> QED BY <2>1, <5>1 DEF UnitsThere
      <4>2. CASE Issue \/ XferStatus
        <5>1. UNCHANGED <<bstate, sphase, initiator, target>>
          BY <4>2 DEF Issue, XferStatus, units
        <5> QED BY <2>1, <5>1 DEF UnitsThere
      <4> QED BY <2>3, <4>1, <4>2
    <3> QED BY <1>2, <2>3, <3>1, <3>2 DEF BusKept
  <2>4. CASE BackFromReset
    <3>1. bpc["main"].at = "ret" /\ bpc["main"].id = identifier /\ bpc["main"].call = "sphase"
          /\ bpc["main"].arg[1] = "reset"
      BY <2>4 DEF BackFromReset, Back, Valid, Aborted, How
    <3>2. CallFits("sphase", "reset", TRUE, bpc["main"].res)
      <4>1. CallFits(bpc["main"].call, bpc["main"].arg[1], bpc["main"].at = "ret", bpc["main"].res)
        BY <1>2, <3>1, MainIsActor DEF BusInv, CallInv, Calling
      <4> QED BY <3>1, <4>1 DEF CallFits
    <3> QED BY <3>2 DEF CallFits
  <2>5. CASE Arbitrate /\ raced' = (engine_lock = identifier)
    <3>1. engine_lock # identifier => BusInv'
      BY <1>2, <2>5, BusSteps
    <3>2. UnitsThere'
      <4>1. initiator' = TRUE /\ bstate' = "idling"
        BY <1>2, <2>5 DEF Arbitrate, BusInv, StateInv, PhaseInv
      <4> QED BY <4>1 DEF UnitsThere
    <3> QED BY <2>5, <3>1, <3>2 DEF BusKept
  <2>6. CASE ResetBus /\ raced' = raced
    <3>1. bstate' = "idling" /\ sphase' = "bus_free"
      BY <2>6 DEF ResetBus
    <3>2. BusInv' \/ ResetInv'
      BY <1>2, <2>6, ResetStep
    <3> QED BY <1>2, <2>6, <3>1, <3>2 DEF BusKept, UnitsThere
  <2> QED BY <1>2, <2>2, <2>3, <2>4, <2>5, <2>6 DEF BusNext, BusGoesOn
<1>3. CASE BusNext /\ ResetInv /\ ~raced
  <2>1. bpc["main"].at \in {"call", "ret"}
    BY <1>3 DEF ResetInv, Resetting, Calling
  <2>2. ~(Select \/ Issue \/ XferStatus \/ Arbitrate \/ ResetBus)
    BY <2>1 DEF Select, Issue, XferStatus, Arbitrate, ResetBus, MainIdle
  <2>3. ASSUME NEW t \in BusActors, EngineStep(t), raced' = SlipsIn(t)
        PROVE  BusKept'
    <3>1. raced' \in BOOLEAN
      BY <2>3, Zenon DEF SlipsIn
    <3>2. ~raced' => ResetInv'
      BY <1>3, <2>3, ResetWindow
    <3>3. ResetInv' => UnitsThere'
      BY DEF ResetInv, UnitsThere
    <3> QED BY <3>1, <3>2, <3>3 DEF BusKept
  <2>4. CASE BackFromReset /\ raced' = raced
    <3>1. BusInv'
      BY <1>3, <2>4, ResetEnds
    <3>2. UnitsThere'
      BY <1>3, <2>4 DEF ResetInv, BackFromReset, UnitsThere
    <3> QED BY <1>3, <2>4, <3>1, <3>2 DEF BusKept
  <2> QED BY <1>3, <2>2, <2>3, <2>4 DEF BusNext, BusGoesOn
<1>4. BusNext => ~raced
  BY DEF BusNext, BusGoesOn
<1> QED BY <1>1, <1>2, <1>3, <1>4 DEF BusKept

(* BusKept holds however the threads of the bus, the guest and resets         *)
(* interleave: it is the inductive invariant of the engine.                   *)
THEOREM BusInvariant == BusSpec => []BusKept
<1>1. BusInit => BusKept
  BY BusStarts DEF BusInit, BusKept, UnitsThere
<1>2. BusKept /\ [BusNext]_busVars => BusKept'
  BY BusKeeps
<1> QED BY <1>1, <1>2, PTL DEF BusSpec

(* Until one of the two races happens the engine is safe, with any number of  *)
(* pool threads, any commands and any block size: one thread at a time runs   *)
(* it, although scsi_engine() gives up the lock in every callback, it never   *)
(* stops while it could go on, the units it uses are there, and each state of *)
(* it finds the phase it checks for.                                          *)
THEOREM BusEngineSafe == BusSpec => []EngineSafe
<1>1. BusKept => EngineSafe
  <2> SUFFICES ASSUME BusInv \/ ResetInv, UnitsThere PROVE EngineSafe
    BY DEF BusKept, EngineSafe
  <2>a. BusTypes /\ StateInv
    BY DEF BusInv, ResetInv
  <2>1. PhasesExpected
    BY <2>a DEF StateInv, PhaseInv
  <2>2. EngineExclusive
    <3>1. CASE BusInv
      BY <3>1 DEF BusInv, EngineInv, OneCaller, EngineExclusive
    <3>2. CASE ResetInv
      BY <3>2, MainIsActor DEF ResetInv, Resetting, EngineExclusive
    <3> QED BY <3>1, <3>2
  <2>3. BusNeverStalls
    BY DEF BusInv, ResetInv, Running, Waits, BusNeverStalls
  <2>4. BusTypeOK
    <3>1. SideTypes /\ LengthInv /\ identifier \in Nat /\ engine_lock \in Nat
      BY <2>a DEF BusTypes, StateInv
    <3>2. \A x \in {info, data} : x.res \in 0 .. x.req
      BY <3>1 DEF SideTypes, LengthInv, Xfers
    <3>3. engine_lock \in 0 .. identifier /\ busLock \in BusActors \cup {"free"}
      BY <3>1 DEF BusInv, EngineInv, ResetInv
    <3> QED BY <3>1, <3>2, <3>3 DEF SideTypes, LengthInv, BusTypeOK
  <2> QED BY <2>1, <2>2, <2>3, <2>4 DEF EngineSafe
<1> QED BY <1>1, BusInvariant, PTL

-----------------------------------------------------------------------------
(* A command moves its data whole.  How far it has come, while none has been *)
(* broken off: nothing yet, whole blocks of it, or all of it.                *)
Untold == trace.told = 0 /\ mesq = 0
Fresh == trace.sent = 0 /\ trace.got = 0 /\ Untold
Even == trace.sent = trace.got /\ trace.sent + dreq.count = scmd.size /\ Untold
Whole == trace.sent = scmd.size /\ trace.got = scmd.size /\ dreq.count = 0

(* The ending message: still to be queued by the thread that has told the    *)
(* chip of the status phase, queued, under way, or received.                 *)
Telling == \E t \in BusActors : Calling(t) /\ bpc[t].call = "sphase" /\ bpc[t].arg[1] = "status"
ToldOnce ==
    trace.told + mesq + (IF sphase = "mes_in" THEN 1 ELSE 0) + (IF Telling THEN 1 ELSE 0) = 1

(* The command in state st and phase ph, message phases left out.  A message *)
(* may interrupt the handling of a command after it has set the request.     *)
Position(st, ph) ==
    /\ st = "idling" => dreq.count = 0 /\ mesq = 0 /\ (ph = "selection" => Fresh)
    /\ st = "advancing" => \/ ph = "selection" /\ Fresh /\ dreq.count = 0
                           \/ ph = "status" /\ Whole
    /\ st = "cmd_preparing" => Fresh /\ dreq.count = 0 /\ ph = "selection"
    /\ st = "cmd_read_ending" => Fresh /\ dreq.count = 0
    /\ st = "cmd_handling" => Fresh /\ dreq.count \in {0, scmd.size}
    /\ st = "data_preparing" => Even /\ ph \in DataPhases \cup {"command"}
    /\ st = "status_preparing" => Whole /\ Untold /\ ph \in DataPhases \cup {"command"}
    /\ st = "bus_freeing" => Whole /\ trace.told = 1 /\ mesq = 0 /\ ph = "status"

(* A transfer that ends in state d: of the command, of a block from its      *)
(* sender, of that block to its receiver, or of the status.                  *)
Moving(d) ==
    /\ d = "cmd_read_ending" => Fresh /\ dreq.count = 0
    /\ d = "data_switching" =>
          trace.sent = trace.got + data.res /\ trace.got + data.req + dreq.count = scmd.size /\ Untold
    /\ d = "data_preparing" =>
          trace.sent + dreq.count = scmd.size /\ trace.got + (data.req - data.res) = trace.sent /\ Untold
    /\ d = "advancing" => Whole

Progress ==
    /\ trace \in [sent : Nat, got : Nat, told : Nat]
    /\ IF sphase \in MesPhases THEN Position(saved.state, saved.sphase) ELSE Position(bstate, sphase)
    /\ sphase \in MesPhases => bstate \in {"transfering", "mes_out_ending", "mes_handling", "mes_in_ending"}
    /\ bstate = "transfering" /\ xfer = "data" => Moving(data.done)
    /\ bstate = "data_switching" => Moving("data_switching") /\ data.res = data.req
    /\ sphase = "status" /\ bstate # "bus_freeing" => ToldOnce
    /\ sphase \in MesPhases /\ saved.sphase = "status" => ToldOnce
    /\ sphase = "mes_in" => saved.sphase = "status"

(* What the callback c leads to, which is done if `ended'.                   *)
CallLeads(c, how, old, ended, r) ==
    /\ c = "cmd" /\ ended /\ r # ERR_MAY_BLOCK => dreq.count = scmd.size
    /\ c = "next" => /\ bstate = "advancing" => old = sphase /\ mesq = 0
                     /\ bstate = "cmd_handling" => old = "command" /\ dreq.count = scmd.size
                     /\ bstate = "data_preparing" =>
                           old = "command" \/ (old \in DataPhases /\ dreq.count = 0)
    /\ c = "sphase" /\ how = "select" => bstate = "idling"
    /\ c = "sphase" /\ how = "status" =>
          bstate = "transfering" /\ xfer = "data" /\ data.done = "advancing" /\ sphase = "status"

CallsLead ==
    \A t \in BusActors : Calling(t) =>
        CallLeads(bpc[t].call, bpc[t].arg[1], bpc[t].arg[2], bpc[t].at = "ret", bpc[t].res)

(* Only a reset leaves a thread in a callback of an earlier identifier.      *)
NoStale == \A t \in BusActors : bpc[t].at \in {"call", "ret"} => bpc[t].id = identifier

TransferInv == ~broken => Progress /\ CallsLead /\ NoStale

-----------------------------------------------------------------------------
(* Of the owner's step, what it does to callbacks: it goes on or leaves, and  *)
(* then nobody is in a callback of this identifier.                           *)
LEMMA QuietAfter ==
  ASSUME BusInv, NoStale, NEW t \in BusActors, Owner(t), identifier' = identifier,
         Engine(t) \/ Leave(t) \/ CreateThread(t) \/ (InEngine(t) /\ UNCHANGED place)
  PROVE  CallsLead' /\ NoStale' /\ ~Telling'
<1>1. bpc \in [BusActors -> Places] /\ bpc[t].at # "out"
  BY DEF BusInv, BusTypes, Owner, InEngine, Calling
<1>2. At("loop").at = "loop" /\ At("out").at = "out" /\ At("start").at = "start"
  BY AtFields
<1>3. bpc'[t].at \notin {"call", "ret"}
  BY <1>1, <1>2, Created DEF Engine, Leave, InEngine, place
<1>4. \A u \in BusActors \ {t} : bpc'[u] = bpc[u] \/ bpc'[u].at \notin {"call", "ret"}
  BY <1>1, <1>2, Created DEF Engine, Leave, Others, place
<1>5. \A u \in BusActors \ {t} : ~Calling(u)
  BY Alone DEF BusInv
<1>6. \A u \in BusActors : ~Calling(u)'
  BY <1>3, <1>4, <1>5 DEF Calling
<1>7. NoStale'
  BY <1>3, <1>4 DEF NoStale
<1> QED BY <1>6, <1>7 DEF CallsLead, Telling

(* Or it calls, and then nobody else does.                                    *)
LEMMA CallAfter ==
  ASSUME BusInv, NoStale, NEW t \in BusActors, \A u \in BusActors \ {t} : ~Calling(u),
         identifier' = identifier,
         NEW c \in Calls, NEW k \in Hows, NEW old \in Phases, CallUser(t, c, k, old),
         CallLeads(c, k, old, c \in {"mes", "next"}, 0)'
  PROVE  CallsLead' /\ NoStale' /\ (Telling' <=> c = "sphase" /\ k = "status")
<1>1. bpc \in [BusActors -> Places] /\ identifier \in Nat
  BY DEF BusInv, BusTypes
<1>2. /\ \A u \in BusActors \ {t} : bpc'[u] = bpc[u]
      /\ bpc'[t].at = IF c \in {"next", "mes"} THEN "ret" ELSE "call"
      /\ bpc'[t].call = c /\ bpc'[t].arg = <<k, old>> /\ bpc'[t].id = identifier
      /\ bpc'[t].res = 0
  BY <1>1, CallFields
<1>3. bpc'[t].arg[1] = k /\ bpc'[t].arg[2] = old /\ (bpc'[t].at = "ret" <=> c \in {"mes", "next"})
  BY <1>2
<1>4. Calling(t)' /\ \A u \in BusActors \ {t} : ~Calling(u)'
  BY <1>2 DEF Calling
<1>5. CallLeads(bpc[t].call, bpc[t].arg[1], bpc[t].arg[2], bpc[t].at = "ret", bpc[t].res)'
  BY <1>2, <1>3 DEF CallLeads
<1>6. CallsLead'
  BY <1>4, <1>5 DEF CallsLead
<1>7. NoStale'
  BY <1>2 DEF NoStale
<1>8. Telling' <=> c = "sphase" /\ k = "status"
  BY <1>2, <1>3, <1>4 DEF Telling
<1> QED BY <1>6, <1>7, <1>8

(* change_sphase() does one or the other.                                     *)
LEMMA PhaseAfter ==
  ASSUME BusInv, NoStale, NEW t \in BusActors, Owner(t), identifier' = identifier,
         NEW new \in Phases, NEW k \in {"loop", "advance", "status", "freeing"}, ChangeSphase(t, new, k),
         k = "status" => /\ sphase # new /\ new = "status"
                         /\ bstate' = "transfering" /\ xfer' = "data" /\ data'.done = "advancing"
  PROVE  CallsLead' /\ NoStale' /\ (Telling' <=> k = "status") /\ sphase' = new
<1>1. sphase' = new
  BY DEF ChangeSphase
<1>2. CASE sphase = new
  BY <1>1, <1>2, QuietAfter DEF ChangeSphase
<1>3. CASE sphase # new
  <2>1. CallUser(t, "sphase", k, sphase)
    BY <1>3 DEF ChangeSphase
  <2>2. "sphase" \in Calls /\ k \in Hows /\ sphase \in Phases
    BY DEF Calls, Hows, BusInv, BusTypes, SideTypes
  <2>3. PICK old \in Phases : old = sphase
    BY <2>2
  <2>4. CallLeads("sphase", k, old, "sphase" \in {"mes", "next"}, 0)'
    BY <1>1 DEF CallLeads
  <2>5. \A u \in BusActors \ {t} : ~Calling(u)
    BY Alone DEF BusInv
  <2> QED BY <1>1, <2>1, <2>2, <2>3, <2>4, <2>5, CallAfter
<1> QED BY <1>2, <1>3

(* The owner knows whether the ending message is still to be queued.          *)
LEMMA OwnerTells ==
  ASSUME BusInv, NEW t \in BusActors, Owner(t)
  PROVE  Telling <=> Calling(t) /\ bpc[t].call = "sphase" /\ bpc[t].arg[1] = "status"
BY Alone DEF BusInv, Telling

(* Whoever runs the engine is not in a callback.                              *)
LEMMA EngineQuiet ==
  ASSUME BusInv, NEW t \in BusActors, InEngine(t), engine_lock # identifier
  PROVE  ~Telling
BY DEF BusInv, EngineInv, OneCaller, Telling

-----------------------------------------------------------------------------
(* A message phase: the position that is saved is the one of the command, and *)
(* only a status phase has a message to be sent to the initiator.             *)
LEMMA MesProgress ==
  ASSUME BusInv, Progress, NoStale, ~Telling, NEW t \in BusActors, Owner(t), NEW k \in {"loop", "advance"},
         ConditionalMesPhase(t, k), UNCHANGED <<identifier, scmd, trace>>,
         sphase \in MesPhases \/ bstate \in {"advancing", "data_preparing", "cmd_handling"},
         sphase # "mes_in"
  PROVE  Progress' /\ CallsLead' /\ NoStale'
<1>1. /\ SideTypes /\ SavedInv /\ PhaseInv
  BY DEF BusInv, BusTypes, StateInv
<1>2. PICK st \in States, ph \in Phases :
        /\ st = (IF sphase \in MesPhases THEN saved.state ELSE bstate)
        /\ ph = (IF sphase \in MesPhases THEN saved.sphase ELSE sphase)
  BY <1>1 DEF SideTypes
<1>3. /\ Position(st, ph) /\ (ph = "status" => ToldOnce)
      /\ st \in {"idling", "advancing", "data_preparing", "cmd_handling"}
      /\ st = "cmd_handling" => ph = "command"
      /\ saved'.state = st /\ saved'.sphase = ph
  BY <1>1, <1>2 DEF Progress, SavedInv, PhaseInv, PhasesExpected, ConditionalMesPhase, SavePhase
<1>4. mesq \in Nat /\ dreq' = dreq /\ trace.told \in Nat
  BY <1>1 DEF SideTypes, ConditionalMesPhase, Progress
<1>5. PICK new \in MesPhases :
        /\ ChangeSphase(t, new, k) /\ xfer' = "info" /\ bstate' = "transfering"
        /\ \/ new = "mes_out" /\ mesq' = mesq
           \/ new = "mes_in" /\ mesq > 0 /\ mesq' = mesq - 1
  <2>1. CASE atn
    BY <2>1 DEF ConditionalMesPhase, StartMesOut, MesPhases
  <2>2. CASE ~atn
    BY <2>2, <1>4 DEF ConditionalMesPhase, MesDue, StartMesIn, MesPhases
  <2> QED BY <2>1, <2>2
<1>6. CallsLead' /\ NoStale' /\ ~Telling' /\ sphase' = new
  BY <1>5, PhaseAfter DEF MesPhases, Phases
<1>7. new = "mes_in" => ph = "status"
  BY <1>3, <1>4, <1>5 DEF Position, Fresh, Even, Untold
<1>8. Position(saved.state, saved.sphase)'
  BY <1>3, <1>4, <1>5, <1>7 DEF Position, Fresh, Even, Untold, Whole, DataPhases
<1>9. ph = "status" => ToldOnce'
  BY <1>3, <1>4, <1>5, <1>6 DEF ToldOnce, MesPhases
<1>10. trace' \in [sent : Nat, got : Nat, told : Nat]
  BY DEF Progress
<1> QED BY <1>3, <1>5, <1>6, <1>7, <1>8, <1>9, <1>10 DEF Progress

(* go_next_phase(): the phase that ends is named in the call for the next.    *)
LEMMA NextProgress ==
  ASSUME BusInv, Progress, NoStale, ~Telling, NEW t \in BusActors, Owner(t), NEW k \in {"loop", "advance"},
         GoNextPhase(t, k), UNCHANGED <<identifier, scmd, trace>>,
         bstate \in {"advancing", "data_preparing", "cmd_handling"},
         bstate = "data_preparing" => MesDue \/ dreq.count = 0,
         bstate = "cmd_handling" => dreq.count = scmd.size
  PROVE  Progress' /\ CallsLead' /\ NoStale'
<1>1. sphase \notin MesPhases /\ SideTypes /\ PhasesExpected
  BY DEF Progress, BusInv, BusTypes, StateInv, PhaseInv
<1>2. CASE ConditionalMesPhase(t, k)
  BY <1>1, <1>2, MesProgress DEF MesPhases
<1>3. CASE /\ ~MesDue /\ CallUser(t, "next", k, sphase)
           /\ UNCHANGED <<bstate, sphase, xfer, saved, info, data, pending, msg, available>>
  <2>1. "next" \in Calls /\ k \in Hows /\ sphase \in Phases
    BY <1>1 DEF Calls, Hows, SideTypes
  <2>2. PICK old \in Phases : old = sphase
    BY <2>1
  <2>3. /\ bstate = "cmd_handling" => sphase = "command"
        /\ bstate = "data_preparing" => sphase \in DataPhases \cup {"command"}
        /\ mesq = 0
    BY <1>1, <1>3 DEF Progress, Position, PhasesExpected, MesDue, SideTypes
  <2>4. CallLeads("next", k, old, "next" \in {"mes", "next"}, 0)'
    BY <1>3, <2>2, <2>3 DEF CallLeads, MesDue, pending
  <2>5. \A u \in BusActors \ {t} : ~Calling(u)
    BY Alone DEF BusInv
  <2>6. CallsLead' /\ NoStale' /\ ~Telling'
    BY <1>3, <2>1, <2>2, <2>4, <2>5, CallAfter
  <2>7. Progress'
    BY <1>1, <1>3, <2>6 DEF Progress, Position, Fresh, Even, Untold, Whole, ToldOnce, pending
  <2> QED BY <2>6, <2>7
<1> QED BY <1>2, <1>3 DEF GoNextPhase

(* restore_save_phase(), after a message to the target.                       *)
LEMMA RestoreProgress ==
  ASSUME BusInv, Progress, NoStale, ~Telling, NEW t \in BusActors, Owner(t), RestoreSavePhase(t, "advance"),
         UNCHANGED <<identifier, scmd, trace>>, sphase = "mes_out"
  PROVE  Progress' /\ CallsLead' /\ NoStale'
<1>1. CASE ConditionalMesPhase(t, "advance")
  BY <1>1, MesProgress DEF MesPhases
<1>2. CASE BackToSaved(t, "advance") /\ UNCHANGED <<saved, info, data, pending, msg>>
  <2>1. SideTypes /\ SavedInv
    BY DEF BusInv, BusTypes, StateInv
  <2>2. PICK new \in Phases : new = saved.sphase
    BY <2>1 DEF SideTypes
  <2>3. /\ bstate' = saved.state /\ xfer' = saved.xfer /\ ChangeSphase(t, new, "advance")
    BY <1>2, <2>2 DEF BackToSaved
  <2>4. CallsLead' /\ NoStale' /\ ~Telling' /\ sphase' = saved.sphase
    BY <2>2, <2>3, PhaseAfter
  <2>5. Position(bstate, sphase)'
    BY <1>2, <2>3, <2>4 DEF Progress, Position, Fresh, Even, Untold, Whole, pending, MesPhases
  <2>6. ToldOnce => ToldOnce'
    BY <1>2, <2>1, <2>4 DEF ToldOnce, pending, SavedInv, MesPhases
  <2>7. sphase' \notin MesPhases /\ bstate' \notin {"transfering", "data_switching"}
    BY <2>1, <2>3, <2>4 DEF SavedInv
  <2> QED BY <2>3, <2>4, <2>5, <2>6, <2>7 DEF Progress, MesPhases
<1> QED BY <1>1, <1>2 DEF RestoreSavePhase

(* The engine's own steps.                                                    *)
LEMMA EngineProgress ==
  ASSUME BusInv, Progress, CallsLead, NoStale, NEW t \in BusActors,
         \/ DoTransfer(t) \/ EndMesOut(t) \/ DoMesHandling(t) \/ EndMesIn(t) \/ StartCmdRead(t)
         \/ EndCmdRead(t) \/ DoCmdHandling(t) \/ StartDataTransfer(t) \/ DoDataSwitching(t)
         \/ StartStatusTransfer(t) \/ Advance(t) \/ BusFreeing(t)
  PROVE  Progress' /\ CallsLead' /\ NoStale'
<1>1. SideTypes /\ PhaseInv /\ SavedInv /\ LengthInv /\ PhasesExpected
  BY DEF BusInv, BusTypes, StateInv, PhaseInv
<1>2. \A s : Iterate(t, s) => /\ Owner(t) /\ InEngine(t) /\ engine_lock # identifier /\ bstate = s
                              /\ ~Telling
  BY EngineQuiet DEF Iterate, Owner
<1>3. sphase \in Phases /\ mesq \in Nat /\ dreq.count \in Nat /\ scmd.size \in Nat
      /\ data.req \in Nat /\ data.res \in Nat /\ bstate \in States /\ xfer \in {"info", "data"}
      /\ trace.sent \in Nat /\ trace.got \in Nat /\ trace.told \in Nat
  BY <1>1 DEF SideTypes, Xfers, Commands, Progress
<1>4. CASE DoTransfer(t)
  <2> DEFINE x == XferOf(xfer)
  <2>1. /\ Owner(t) /\ InEngine(t) /\ bstate = "transfering" /\ ~Telling
        /\ UNCHANGED <<identifier, sphase, xfer, saved, data, pending, guestSide, trace>>
    BY <1>2, <1>4 DEF DoTransfer
  <2>2. CASE Leave(t) /\ UNCHANGED bstate
    <3>1. CallsLead' /\ NoStale' /\ ~Telling'
      BY <2>1, <2>2, QuietAfter
    <3> QED BY <2>1, <2>2, <3>1 DEF Progress, Position, Moving, Fresh, Even, Untold, Whole, ToldOnce, pending, guestSide
  <2>3. CASE CallUser(t, "xfer", xfer, sphase) /\ UNCHANGED bstate
    <3>1. PICK k \in Hows, old \in Phases : k = xfer /\ old = sphase
      BY <1>3 DEF Hows
    <3>2. "xfer" \in Calls /\ CallLeads("xfer", k, old, "xfer" \in {"mes", "next"}, 0)'
      BY DEF Calls, CallLeads
    <3>3. \A u \in BusActors \ {t} : ~Calling(u)
      BY <2>1, Alone DEF BusInv
    <3>4. CallsLead' /\ NoStale' /\ ~Telling'
      BY <2>1, <2>3, <3>1, <3>2, <3>3, CallAfter
    <3> QED BY <2>1, <2>3, <3>4 DEF Progress, Position, Moving, Fresh, Even, Untold, Whole, ToldOnce, pending, guestSide
  <2>4. CASE x.res = x.req /\ bstate' = x.done /\ UNCHANGED place
    <3>1. CallsLead' /\ NoStale' /\ ~Telling'
      BY <2>1, <2>4, QuietAfter
    <3>2. CASE xfer = "info"
      <4>1. bstate' \in {"mes_out_ending", "mes_in_ending"} /\ sphase \in MesPhases
        BY <1>1, <2>1, <2>4, <3>2 DEF PhaseInv, XferOf, MesPhases
      <4> QED BY <2>1, <3>1, <4>1 DEF Progress, Position, Fresh, Even, Untold, Whole, ToldOnce, pending, guestSide
    <3>3. CASE xfer = "data"
      <4>1. /\ Moving(data.done) /\ data.res = data.req /\ bstate' = data.done /\ sphase \notin MesPhases
            /\ \/ data.done = "cmd_read_ending" /\ sphase = "command"
               \/ data.done \in {"data_switching", "data_preparing"} /\ sphase \in DataPhases
               \/ data.done = "advancing" /\ sphase = "status"
        BY <1>1, <2>1, <2>4, <3>3 DEF PhaseInv, XferOf, Progress, MesPhases, DataPhases
      <4>2. Position(bstate, sphase)'
        BY <1>3, <2>1, <4>1 DEF Position, Moving, Fresh, Even, Untold, Whole, pending, guestSide
      <4>3. bstate' = "data_switching" => Moving("data_switching")' /\ data'.res = data'.req
        BY <2>1, <4>1 DEF Moving, Untold, pending, guestSide
      <4>4. ToldOnce => ToldOnce'
        BY <2>1, <3>1 DEF ToldOnce, pending
      <4>5. sphase' \notin MesPhases /\ trace' = trace /\ bstate' # "transfering"
        BY <2>1, <4>1
      <4> QED BY <2>1, <3>1, <4>2, <4>3, <4>4, <4>5 DEF Progress, MesPhases
    <3> QED BY <1>3, <3>2, <3>3
  <2> QED BY <1>4, <2>2, <2>3, <2>4 DEF DoTransfer
<1>5. CASE EndMesOut(t)
  <2>1. /\ Owner(t) /\ InEngine(t) /\ bstate = "mes_out_ending" /\ ~Telling
        /\ UNCHANGED <<identifier, sphase, xfer, saved, data, pending, guestSide, trace, place>>
        /\ bstate' \in {"mes_handling", "transfering"}
    BY <1>2, <1>5 DEF EndMesOut
  <2>2. CallsLead' /\ NoStale' /\ ~Telling'
    BY <2>1, QuietAfter
  <2>3. sphase = "mes_out" /\ xfer = "info"
    BY <1>1, <2>1 DEF PhaseInv, PhasesExpected
  <2> QED BY <2>1, <2>2, <2>3 DEF Progress, Position, Fresh, Even, Untold, Whole, ToldOnce, pending, guestSide, MesPhases
<1>6. CASE DoMesHandling(t) \/ DoCmdHandling(t)
  <2>1. PICK c \in {"mes", "cmd"}, k \in {"advance", "loop"} : CallUser(t, c, k, sphase)
    BY <1>6 DEF DoMesHandling, DoCmdHandling
  <2>2. /\ Owner(t) /\ ~Telling
        /\ UNCHANGED <<identifier, bstate, sphase, xfer, saved, data, pending, guestSide, trace>>
    BY <1>2, <1>6 DEF DoMesHandling, DoCmdHandling
  <2>3. PICK old \in Phases : old = sphase
    BY <1>3
  <2>4. c \in Calls /\ k \in Hows /\ CallLeads(c, k, old, c \in {"mes", "next"}, 0)'
    BY DEF Calls, Hows, CallLeads
  <2>5. \A u \in BusActors \ {t} : ~Calling(u)
    BY <2>2, Alone DEF BusInv
  <2>6. CallsLead' /\ NoStale' /\ ~Telling'
    BY <2>1, <2>2, <2>3, <2>4, <2>5, CallAfter
  <2> QED BY <2>2, <2>6 DEF Progress, Position, Moving, Fresh, Even, Untold, Whole, ToldOnce, pending, guestSide
<1>7. CASE EndMesIn(t)
  <2>1. /\ Owner(t) /\ bstate = "mes_in_ending" /\ ~Telling /\ sphase = "mes_in"
        /\ RestoreSavePhase(t, "loop") /\ UNCHANGED <<identifier, guestSide>>
        /\ trace' = [trace EXCEPT !.told = @ + 1]
    BY <1>1, <1>2, <1>7 DEF EndMesIn, PhasesExpected
  <2>2. /\ saved.sphase = "status" /\ Position(saved.state, saved.sphase) /\ ToldOnce
    BY <2>1 DEF Progress, MesPhases
  <2>3. trace.told = 0 /\ mesq = 0
    BY <1>3, <2>1, <2>2 DEF ToldOnce
  <2>4. /\ trace' \in [sent : Nat, got : Nat, told : Nat]
        /\ trace'.told = 1 /\ trace'.sent = trace.sent /\ trace'.got = trace.got
    BY <2>1, <2>3 DEF Progress
  <2>5. /\ saved.state \in {"idling", "advancing"}
        /\ saved.state = "idling" => dreq.count = 0
        /\ saved.state = "advancing" => Whole
    BY <1>1, <2>2 DEF SavedInv, Position, DataPhases
  <2>6. CASE ConditionalMesPhase(t, "loop")
    <3>1. /\ ChangeSphase(t, "mes_out", "loop") /\ xfer' = "info" /\ bstate' = "transfering"
          /\ UNCHANGED <<saved, mesq, dreq>>
      BY <2>1, <2>3, <2>6 DEF ConditionalMesPhase, MesDue, StartMesOut, SavePhase, MesPhases
    <3>2. "mes_out" \in Phases
      BY DEF Phases, MesPhases
    <3>3. CallsLead' /\ NoStale' /\ ~Telling' /\ sphase' = "mes_out"
      BY <2>1, <3>1, <3>2, PhaseAfter
    <3>4. Position(saved.state, saved.sphase)' /\ ToldOnce'
      BY <2>1, <2>2, <2>3, <2>4, <2>5, <3>1, <3>3 DEF Position, Whole, ToldOnce, guestSide
    <3> QED BY <2>4, <3>1, <3>3, <3>4 DEF Progress, MesPhases
  <2>7. CASE BackToSaved(t, "loop") /\ UNCHANGED <<saved, info, data, pending, msg>>
    <3>1. /\ ChangeSphase(t, "status", "loop") /\ bstate' = saved.state
          /\ UNCHANGED <<saved, mesq, dreq>>
      BY <2>2, <2>7 DEF BackToSaved, pending
    <3>2. "status" \in Phases
      BY DEF Phases
    <3>3. CallsLead' /\ NoStale' /\ ~Telling' /\ sphase' = "status"
      BY <2>1, <3>1, <3>2, PhaseAfter
    <3>4. Position(bstate, sphase)' /\ ToldOnce'
      BY <2>1, <2>2, <2>3, <2>4, <2>5, <3>1, <3>3 DEF Position, Whole, ToldOnce, guestSide
    <3> QED BY <2>4, <2>5, <3>1, <3>3, <3>4 DEF Progress, MesPhases
  <2> QED BY <2>1, <2>6, <2>7 DEF RestoreSavePhase
<1>8. CASE StartDataTransfer(t) /\ StartBlock(t)
  <2>1. /\ Owner(t) /\ bstate = "data_preparing" /\ sphase \notin MesPhases
        /\ UNCHANGED <<identifier, guestSide, saved, mesq, trace>>
        /\ xfer' = "data" /\ bstate' = "transfering"
    BY <1>2, <1>8 DEF StartDataTransfer, StartBlock, Progress
  <2> DEFINE n == NextBlock
  <2>2. n \in Nat /\ n <= dreq.count
    BY <1>3, MinOfTwo, BusAssumption DEF NextBlock
  <2> HIDE DEF n
  <2>3. PICK new \in DataPhases, u \in {"initiator", "target"} :
          data' = Xfer(u, n, "data_switching") /\ ChangeSphase(t, new, "loop")
    BY <1>8 DEF StartBlock, DataPhases, n
  <2>4. data'.done = "data_switching" /\ data'.res = 0 /\ data'.req = n
    BY <2>2, <2>3, XferIs DEF States
  <2>5. dreq' = [dreq EXCEPT !.count = @ - n]
    BY <1>8 DEF StartBlock, n
  <2>6. dreq'.count = dreq.count - n
    BY <1>1, <2>5 DEF SideTypes
  <2>7. new \in Phases /\ new \notin MesPhases \cup {"status"}
    BY DEF Phases, DataPhases, MesPhases
  <2>8. CallsLead' /\ NoStale' /\ sphase' = new
    BY <2>1, <2>3, <2>7, PhaseAfter
  <2>9. Moving(data.done)'
    BY <1>3, <2>1, <2>2, <2>4, <2>6 DEF Progress, Position, Even, Moving, Untold, guestSide
  <2>10. Position(bstate, sphase)' /\ trace' \in [sent : Nat, got : Nat, told : Nat]
    BY <2>1 DEF Position, Progress
  <2> QED BY <2>1, <2>7, <2>8, <2>9, <2>10 DEF Progress, MesPhases
<1>9. CASE Advance(t) \/ (StartDataTransfer(t) /\ ~StartBlock(t))
  <2>1. /\ Owner(t) /\ ~Telling /\ UNCHANGED <<identifier, scmd, trace>>
        /\ \/ bstate = "advancing"
           \/ bstate = "data_preparing" /\ (MesDue \/ dreq.count = 0)
    BY <1>2, <1>9 DEF StartDataTransfer, Advance, guestSide
  <2>2. PICK k \in {"loop", "advance"} : GoNextPhase(t, k)
    BY <1>9 DEF StartDataTransfer, Advance
  <2> QED BY <2>1, <2>2, NextProgress
<1>10. CASE StartCmdRead(t)
  <2>1. /\ Owner(t) /\ bstate = "cmd_preparing" /\ bstate' = "transfering" /\ xfer' = "data"
        /\ ChangeSphase(t, "command", "loop") /\ data' = Xfer("initiator", 1, "cmd_read_ending")
        /\ UNCHANGED <<identifier, pending, guestSide, trace>>
    BY <1>2, <1>10 DEF StartCmdRead
  <2>2. data'.done = "cmd_read_ending" /\ "command" \in Phases
    BY <2>1, XferIs DEF States, Phases
  <2>3. CallsLead' /\ NoStale' /\ sphase' = "command"
    BY <2>1, <2>2, PhaseAfter
  <2>4. Moving(data.done)' /\ Position(bstate, sphase)' /\ trace' \in [sent : Nat, got : Nat, told : Nat]
    BY <2>1, <2>2 DEF Progress, Position, Fresh, Moving, Untold, pending, MesPhases
  <2> QED BY <2>1, <2>3, <2>4 DEF Progress, MesPhases
<1>11. CASE EndCmdRead(t)
  <2>1. /\ Owner(t) /\ InEngine(t) /\ bstate = "cmd_read_ending" /\ sphase = "command"
        /\ UNCHANGED <<identifier, sphase, xfer, saved, pending, guestSide, trace, place>>
        /\ \/ bstate' = "cmd_handling" /\ data' = data
           \/ bstate' = "transfering" /\ data' = [data EXCEPT !.req = scmd.len]
    BY <1>1, <1>2, <1>11 DEF EndCmdRead, PhasesExpected
  <2>2. data'.done = "cmd_read_ending"
    BY <1>1, <2>1 DEF PhaseInv, SideTypes, Xfers
  <2>3. CallsLead' /\ NoStale'
    BY <2>1, QuietAfter
  <2>4. Fresh' /\ dreq'.count = 0
    BY <2>1 DEF Progress, Position, Fresh, Untold, pending, MesPhases
  <2>5. Position(bstate, sphase)' /\ Moving(data.done)' /\ trace' \in [sent : Nat, got : Nat, told : Nat]
    BY <2>1, <2>2, <2>4 DEF Position, Moving, Progress
  <2> QED BY <2>1, <2>3, <2>5 DEF Progress, MesPhases
<1>12. CASE DoDataSwitching(t)
  <2>1. /\ Owner(t) /\ InEngine(t) /\ bstate = "data_switching" /\ bstate' = "transfering"
        /\ sphase \in DataPhases /\ data.res = data.req /\ Moving("data_switching")
        /\ UNCHANGED <<identifier, sphase, xfer, saved, pending, guestSide, trace, place>>
    BY <1>1, <1>2, <1>12 DEF DoDataSwitching, PhasesExpected, Progress
  <2>2. PICK u \in {"initiator", "target"} : data' = Xfer(u, data.req, "data_preparing")
    BY <1>12 DEF DoDataSwitching
  <2>3. data'.done = "data_preparing" /\ data'.res = 0 /\ data'.req = data.req
    BY <1>3, <2>2, XferIs DEF States
  <2>4. CallsLead' /\ NoStale'
    BY <2>1, QuietAfter
  <2>5. Moving(data.done)'
    BY <1>3, <2>1, <2>3 DEF Moving, Untold, pending, guestSide
  <2>6. Position(bstate, sphase)' /\ trace' \in [sent : Nat, got : Nat, told : Nat]
    BY <2>1 DEF Position, Progress
  <2> QED BY <2>1, <2>4, <2>5, <2>6 DEF Progress, MesPhases, DataPhases
<1>13. CASE StartStatusTransfer(t)
  <2>1. /\ Owner(t) /\ bstate = "status_preparing" /\ bstate' = "transfering" /\ xfer' = "data"
        /\ ChangeSphase(t, "status", "status") /\ data' = Xfer("initiator", 1, "advancing")
        /\ UNCHANGED <<identifier, pending, guestSide, trace>>
    BY <1>2, <1>13 DEF StartStatusTransfer
  <2>2. data'.done = "advancing" /\ "status" \in Phases
    BY <2>1, XferIs DEF States, Phases
  <2>3. Whole /\ Untold /\ sphase # "status"
    BY <2>1 DEF Progress, Position, DataPhases, MesPhases
  <2>4. CallsLead' /\ NoStale' /\ Telling' /\ sphase' = "status"
    BY <2>1, <2>2, <2>3, PhaseAfter
  <2>5. Moving(data.done)' /\ Position(bstate, sphase)' /\ trace' \in [sent : Nat, got : Nat, told : Nat]
    BY <2>1, <2>2, <2>3 DEF Progress, Position, Whole, Moving, pending, guestSide
  <2>6. ToldOnce'
    BY <2>1, <2>3, <2>4 DEF ToldOnce, Untold, pending
  <2> QED BY <2>1, <2>4, <2>5, <2>6 DEF Progress, MesPhases
<1>14. CASE BusFreeing(t)
  <2>1. /\ Owner(t) /\ bstate = "bus_freeing" /\ bstate' = "idling" /\ ChangeSphase(t, "bus_free", "freeing")
        /\ UNCHANGED <<identifier, pending, guestSide, trace>>
    BY <1>2, <1>14 DEF BusFreeing
  <2>2. "bus_free" \in Phases
    BY DEF Phases
  <2>3. CallsLead' /\ NoStale' /\ sphase' = "bus_free"
    BY <2>1, <2>2, PhaseAfter
  <2>4. Position(bstate, sphase)' /\ trace' \in [sent : Nat, got : Nat, told : Nat]
    BY <2>1, <2>3 DEF Progress, Position, Whole, pending, MesPhases
  <2> QED BY <2>1, <2>3, <2>4 DEF Progress, MesPhases
<1> QED BY <1>4, <1>5, <1>6, <1>7, <1>8, <1>9, <1>10, <1>11, <1>12, <1>13, <1>14

-----------------------------------------------------------------------------
(* The callbacks: only that for a command touches the request.                *)
LEMMA CallbackProgress ==
  ASSUME BusInv, Progress, CallsLead, NoStale, NEW t \in BusActors,
         SphaseChanged(t) \/ XferProc(t) \/ HandleCmd(t)
  PROVE  Progress' /\ CallsLead' /\ NoStale'
<1>1. /\ bpc \in [BusActors -> Places] /\ bpc[t].at = "call"
      /\ UNCHANGED <<identifier, bstate, sphase, xfer, saved, data, mesq, scmd, trace>>
  BY DEF SphaseChanged, XferProc, HandleCmd, InCall, BusInv, BusTypes, pending, guestSide
<1>2. Calling(t) /\ \A u \in BusActors \ {t} : ~Calling(u)
  BY <1>1 DEF NoStale, Calling, BusInv, EngineInv, OneCaller
<1>3. CallFits(bpc[t].call, bpc[t].arg[1], FALSE, bpc[t].res)
      /\ CallLeads(bpc[t].call, bpc[t].arg[1], bpc[t].arg[2], FALSE, bpc[t].res)
  <2>1. /\ CallFits(bpc[t].call, bpc[t].arg[1], bpc[t].at = "ret", bpc[t].res)
        /\ CallLeads(bpc[t].call, bpc[t].arg[1], bpc[t].arg[2], bpc[t].at = "ret", bpc[t].res)
    BY <1>2 DEF BusInv, CallInv, CallsLead
  <2> QED BY <1>1, <2>1 DEF CallFits, CallLeads
<1>4. PICK r \in Int : CallbackDone(t, r)
                       /\ (HandleCmd(t) /\ r # ERR_MAY_BLOCK =>
                             dreq' = IF scmd.size = 0 THEN dreq ELSE [count |-> scmd.size, in |-> scmd.in])
                       /\ (~HandleCmd(t) \/ r = ERR_MAY_BLOCK => dreq' = dreq)
  <2>1. ERR_MAY_BLOCK \in Int /\ ERR_NO_DATA \in Int /\ ERR_MAY_BLOCK # 0
    BY DEF ERR_MAY_BLOCK, ERR_NO_DATA
  <2>2. CASE HandleCmd(t)
    BY <2>1, <2>2 DEF HandleCmd
  <2>3. CASE SphaseChanged(t)
    BY <2>3 DEF SphaseChanged, InCall, HandleCmd, pending
  <2>4. CASE XferProc(t)
    <3>1. dreq' = dreq /\ ~HandleCmd(t)
      BY <2>4 DEF XferProc, InCall, HandleCmd, pending
    <3> DEFINE x == XferOf(bpc[t].arg[1])
    <3>2. x.req \in Nat /\ x.res \in Nat
      BY DEF XferOf, BusInv, BusTypes, SideTypes, Xfers
    <3> HIDE DEF x
    <3>3. CASE InitiatorXfer(t, x)
      <4>1. \E n \in Int : CallbackDone(t, n)
        BY <2>1, <3>3 DEF InitiatorXfer
      <4> QED BY <3>1, <4>1
    <3>4. CASE TargetXfer(t, x)
      BY <2>1, <3>1, <3>2, <3>4 DEF TargetXfer
    <3> QED BY <2>4, <3>3, <3>4 DEF XferProc, x
  <2> QED BY <2>2, <2>3, <2>4
<1>5. /\ \A u \in BusActors \ {t} : bpc'[u] = bpc[u]
      /\ bpc'[t].at = "ret" /\ bpc'[t].res = r
      /\ bpc'[t].call = bpc[t].call /\ bpc'[t].arg = bpc[t].arg /\ bpc'[t].id = bpc[t].id
  BY <1>1, <1>4, DoneFields
<1>6. Calling(t)' /\ \A u \in BusActors \ {t} : ~Calling(u)'
  BY <1>1, <1>2, <1>5 DEF Calling
<1>7. NoStale'
  BY <1>1, <1>5 DEF NoStale
<1>8. Telling' <=> Telling
  BY <1>2, <1>5, <1>6 DEF Telling
<1>9. CASE HandleCmd(t) /\ r # ERR_MAY_BLOCK
  <2>1. bpc[t].call = "cmd" /\ bstate = "cmd_handling" /\ sphase = "command"
    BY <1>3, <1>9 DEF HandleCmd, InCall, CallFits, BusInv, StateInv, PhaseInv, PhasesExpected
  <2>2. Fresh /\ dreq.count \in {0, scmd.size}
    BY <2>1 DEF Progress, Position, MesPhases
  <2>3. dreq'.count = scmd.size
    BY <1>4, <1>9, <2>2
  <2>4. CallsLead'
    BY <1>1, <1>5, <1>6, <2>1, <2>3 DEF CallsLead, CallLeads
  <2>5. Position(bstate, sphase)' /\ trace' \in [sent : Nat, got : Nat, told : Nat]
    BY <1>1, <2>1, <2>2, <2>3 DEF Position, Fresh, Untold, Progress
  <2> QED BY <1>1, <1>7, <2>1, <2>4, <2>5 DEF Progress, MesPhases
<1>10. CASE dreq' = dreq /\ (bpc[t].call = "cmd" => r = ERR_MAY_BLOCK)
  <2>1. CallsLead'
    <3>1. CallLeads(bpc[t].call, bpc[t].arg[1], bpc[t].arg[2], bpc[t].at = "ret", bpc[t].res)'
      BY <1>1, <1>3, <1>5, <1>10 DEF CallLeads
    <3> QED BY <1>6, <3>1 DEF CallsLead
  <2>2. Progress'
    BY <1>1, <1>8, <1>10 DEF Progress, Position, Moving, Fresh, Even, Untold, Whole, ToldOnce
  <2> QED BY <1>7, <2>1, <2>2
<1> QED BY <1>4, <1>9, <1>10 DEF HandleCmd, SphaseChanged, XferProc, InCall

(* Back from a callback.                                                      *)
LEMMA BackProgress ==
  ASSUME BusInv, Progress, CallsLead, NoStale, NEW t \in BusActors, ~broken',
         BackFromSphase(t) \/ BackFromXfer(t) \/ BackFromMes(t) \/ BackFromCmd(t) \/ BackFromNext(t)
  PROVE  Progress' /\ CallsLead' /\ NoStale'
<1>1. /\ SideTypes /\ PhaseInv /\ SavedInv /\ LengthInv /\ PhasesExpected
      /\ bpc \in [BusActors -> Places]
  BY DEF BusInv, BusTypes, StateInv, PhaseInv
<1>2. bpc[t].at = "ret" /\ busLock = "free" /\ Calling(t) /\ Owner(t)
  BY DEF BackFromSphase, BackFromXfer, BackFromMes, BackFromCmd, BackFromNext, Back, Valid, Aborted, Calling, Owner
<1>3. /\ CallFits(bpc[t].call, How(t), TRUE, bpc[t].res)
      /\ CallLeads(bpc[t].call, How(t), bpc[t].arg[2], TRUE, bpc[t].res)
  <2>1. /\ CallFits(bpc[t].call, bpc[t].arg[1], bpc[t].at = "ret", bpc[t].res)
        /\ CallLeads(bpc[t].call, bpc[t].arg[1], bpc[t].arg[2], bpc[t].at = "ret", bpc[t].res)
    BY <1>2 DEF BusInv, CallInv, CallsLead
  <2> QED BY <1>2, <2>1 DEF CallFits, CallLeads, How
<1>4. Telling <=> bpc[t].call = "sphase" /\ How(t) = "status"
  BY <1>2, OwnerTells DEF How
<1>5. sphase \in Phases /\ mesq \in Nat /\ dreq.count \in Nat /\ scmd.size \in Nat
      /\ data.req \in Nat /\ data.res \in Nat /\ bstate \in States /\ xfer \in {"info", "data"}
      /\ trace.sent \in Nat /\ trace.got \in Nat /\ trace.told \in Nat
  BY <1>1 DEF SideTypes, Xfers, Commands, Progress
<1>6. CASE BackFromSphase(t)
  <2>1. /\ UNCHANGED <<identifier, sphase, xfer, saved, data, dreq, scmd, trace>>
        /\ bpc[t].call = "sphase"
    BY <1>6 DEF BackFromSphase, guestSide, Back
  <2>2. /\ How(t) \in {"loop", "advance", "status", "freeing", "select", "return"}
        /\ How(t) = "select" => sphase = "selection" /\ bstate = "idling"
        /\ How(t) = "status" => bstate = "transfering" /\ xfer = "data" /\ data.done = "advancing" /\ sphase = "status"
    BY <1>3, <2>1 DEF CallFits, CallLeads
  <2>3. CASE How(t) \in {"loop", "advance", "freeing", "return"}
    <3>1. mesq' = mesq /\ bstate' = bstate /\ (Engine(t) \/ Leave(t))
      BY <1>6, <2>3 DEF BackFromSphase
    <3>2. CallsLead' /\ NoStale' /\ ~Telling' /\ ~Telling
      BY <1>2, <1>4, <2>1, <2>3, <3>1, QuietAfter
    <3> QED BY <2>1, <3>1, <3>2 DEF Progress, Position, Moving, Fresh, Even, Untold, Whole, ToldOnce
  <2>4. CASE How(t) = "status"
    <3>1. mesq' = mesq + 1 /\ bstate' = bstate /\ Engine(t)
      BY <1>6, <2>4 DEF BackFromSphase
    <3>2. CallsLead' /\ NoStale' /\ ~Telling' /\ Telling
      BY <1>2, <1>4, <2>1, <2>4, <3>1, QuietAfter
    <3>3. ToldOnce'
      BY <1>5, <2>1, <2>2, <2>4, <3>1, <3>2 DEF Progress, ToldOnce
    <3>4. Moving(data.done)' /\ Position(bstate, sphase)' /\ trace' \in [sent : Nat, got : Nat, told : Nat]
      BY <2>1, <2>2, <2>4, <3>1 DEF Progress, Moving, Whole, Position
    <3> QED BY <2>1, <2>2, <2>4, <3>1, <3>2, <3>3, <3>4 DEF Progress, MesPhases
  <2>5. CASE How(t) = "select"
    <3>1. mesq' = mesq /\ bstate' = "advancing" /\ Engine(t)
      BY <1>6, <2>5 DEF BackFromSphase
    <3>2. CallsLead' /\ NoStale'
      BY <1>2, <2>1, <3>1, QuietAfter
    <3>3. Position(bstate, sphase)' /\ trace' \in [sent : Nat, got : Nat, told : Nat]
      BY <2>1, <2>2, <2>5, <3>1 DEF Progress, Position, Fresh, Untold, MesPhases
    <3> QED BY <2>1, <2>2, <2>5, <3>1, <3>2, <3>3 DEF Progress, MesPhases
  <2> QED BY <2>2, <2>3, <2>4, <2>5
<1>7. CASE BackFromXfer(t)
  <2> DEFINE x == XferOf(xfer)
             n == bpc[t].res
  <2>1. /\ bstate = "transfering" /\ How(t) = xfer /\ x.res < x.req /\ ~Telling
        /\ n \in {ERR_MAY_BLOCK, ERR_NO_DATA} \/ (0 <= n /\ n <= x.req - x.res)
    BY <1>3, <1>4, <1>7 DEF CallFits, BackFromXfer, Back
  <2>2. UNCHANGED <<identifier, sphase, xfer, saved, mesq, dreq, scmd>>
    BY <1>7 DEF BackFromXfer, pending, guestSide
  <2>3. CASE n \in {ERR_MAY_BLOCK, ERR_NO_DATA}
    <3>1. /\ UNCHANGED <<data, bstate, trace>> /\ (Engine(t) \/ Leave(t) \/ CreateThread(t))
      BY <1>7, <2>3 DEF BackFromXfer, NoData
    <3>2. CallsLead' /\ NoStale' /\ ~Telling'
      BY <1>2, <2>2, <3>1, QuietAfter
    <3> QED BY <2>1, <2>2, <3>1, <3>2 DEF Progress, Position, Moving, Fresh, Even, Untold, Whole, ToldOnce
  <2>4. CASE n \notin {ERR_MAY_BLOCK, ERR_NO_DATA}
    <3>1. /\ IF xfer = "info" THEN UNCHANGED data ELSE data' = [x EXCEPT !.res = @ + n]
          /\ Counted(x, n)
          /\ \/ x.res + n = x.req /\ bstate' = x.done
             \/ UNCHANGED bstate
          /\ Engine(t) \/ Leave(t)
      BY <1>7, <2>1, <2>4 DEF BackFromXfer, MovedAll
    <3>2. CallsLead' /\ NoStale' /\ ~Telling'
      BY <1>2, <2>2, <3>1, QuietAfter
    <3>3. n \in Nat
      <4>1. n \in Int
        BY <1>1 DEF Places
      <4> QED BY <2>1, <2>4, <4>1
    <3>4. CASE xfer = "info"
      <4>1. x = info /\ x.done \in {"mes_out_ending", "mes_in_ending"} /\ sphase \in MesPhases
        BY <1>1, <2>1, <3>4 DEF PhaseInv, XferOf, MesPhases
      <4>2. trace' = trace
        BY <3>1, <4>1 DEF Counted, Progress
      <4> QED BY <2>1, <2>2, <3>1, <3>2, <3>4, <4>1, <4>2 DEF Progress, Position, Fresh, Even, Untold, Whole, ToldOnce
    <3>5. CASE xfer = "data"
      <4>1. /\ x = data /\ sphase \notin MesPhases /\ Moving(data.done)
            /\ \/ data.done = "cmd_read_ending" /\ sphase = "command"
               \/ data.done \in {"data_switching", "data_preparing"} /\ sphase \in DataPhases
               \/ data.done = "advancing" /\ sphase = "status"
        BY <1>1, <2>1, <3>5 DEF PhaseInv, XferOf, MesPhases, DataPhases, Progress
      <4>2. /\ data'.res = data.res + n /\ data'.req = data.req /\ data'.done = data.done
            /\ bstate' = "transfering" \/ (data'.res = data.req /\ bstate' = data.done)
        <5>1. data \in Xfers /\ data' = [data EXCEPT !.res = @ + n]
          BY <1>1, <3>1, <3>5, <4>1 DEF SideTypes
        <5>2. /\ data'.res = data.res + n /\ data'.req = data.req /\ data'.done = data.done
          BY <5>1 DEF Xfers
        <5> QED BY <2>1, <3>1, <4>1, <5>2
      <4> HIDE DEF n, x
      <4>3. /\ trace' \in [sent : Nat, got : Nat, told : Nat] /\ trace'.told = trace.told
            /\ trace'.sent = IF data.done = "data_switching" THEN trace.sent + n ELSE trace.sent
            /\ trace'.got = IF data.done = "data_preparing" THEN trace.got + n ELSE trace.got
        <5>1. trace \in [sent : Nat, got : Nat, told : Nat]
          BY DEF Progress
        <5> DEFINE s == IF data.done = "data_switching" THEN trace.sent + n ELSE trace.sent
                   g == IF data.done = "data_preparing" THEN trace.got + n ELSE trace.got
        <5>2. s \in Nat /\ g \in Nat
          BY <1>5, <3>3
        <5>3. trace' = [trace EXCEPT !.sent = s, !.got = g]
          BY <3>1, <4>1 DEF Counted
        <5> HIDE DEF s, g
        <5>4. trace' \in [sent : Nat, got : Nat, told : Nat] /\ trace'.told = trace.told
              /\ trace'.sent = s /\ trace'.got = g
          BY <5>1, <5>2, <5>3
        <5> QED BY <5>4 DEF s, g
      <4>4. Moving(data.done)'
        <5>1. CASE data.done = "data_switching"
          BY <1>5, <2>2, <3>3, <4>1, <4>2, <4>3, <5>1 DEF Moving, Untold
        <5>2. CASE data.done = "data_preparing"
          BY <1>5, <2>2, <3>3, <4>1, <4>2, <4>3, <5>2 DEF Moving, Untold
        <5>3. CASE data.done \in {"cmd_read_ending", "advancing"}
          BY <2>2, <4>1, <4>2, <4>3, <5>3 DEF Moving, Fresh, Untold, Whole
        <5> QED BY <4>1, <5>1, <5>2, <5>3
      <4>5. Position(bstate, sphase)'
        BY <1>5, <2>2, <3>3, <4>1, <4>2, <4>3, <4>4 DEF Moving, Position, Fresh, Even, Untold, Whole
      <4>6. bstate' = "data_switching" => Moving("data_switching")' /\ data'.res = data'.req
        BY <4>2, <4>4 DEF Moving
      <4>7. sphase = "status" => ToldOnce'
        BY <2>1, <2>2, <3>2, <4>3 DEF Progress, ToldOnce
      <4> QED BY <2>2, <3>2, <4>1, <4>3, <4>4, <4>5, <4>6, <4>7 DEF Progress, MesPhases
    <3> QED BY <1>5, <3>4, <3>5
  <2> QED BY <2>3, <2>4
<1>8. CASE BackFromMes(t)
  <2>1. /\ bstate = "mes_handling" /\ sphase = "mes_out" /\ ~Telling /\ UNCHANGED <<identifier, scmd, trace>>
        /\ RestoreSavePhase(t, "advance")
    BY <1>1, <1>3, <1>4, <1>8 DEF CallFits, BackFromMes, Back, PhasesExpected
  <2> QED BY <1>2, <2>1, RestoreProgress
<1>9. CASE BackFromCmd(t)
  <2>1. /\ bstate = "cmd_handling" /\ ~Telling /\ UNCHANGED <<identifier, scmd, trace>>
        /\ bpc[t].res # ERR_MAY_BLOCK => dreq.count = scmd.size
    BY <1>3, <1>4, <1>9 DEF CallFits, CallLeads, BackFromCmd, Back, guestSide
  <2>2. CASE bpc[t].res # ERR_MAY_BLOCK
    BY <1>2, <1>9, <2>1, <2>2, NextProgress DEF BackFromCmd
  <2>3. CASE bpc[t].res = ERR_MAY_BLOCK
    <3>1. CreateThread(t) /\ UNCHANGED <<bstate, sphase, xfer, saved, data, pending>>
      BY <1>9, <2>3 DEF BackFromCmd
    <3>2. CallsLead' /\ NoStale' /\ ~Telling'
      BY <1>2, <2>1, <3>1, QuietAfter
    <3> QED BY <2>1, <3>1, <3>2 DEF Progress, Position, Moving, Fresh, Even, Untold, Whole, ToldOnce, pending
  <2> QED BY <2>2, <2>3
<1>10. CASE BackFromNext(t)
  <2>1. /\ UNCHANGED <<identifier, sphase, xfer, saved, data, mesq, dreq, scmd, trace>>
        /\ ~Telling /\ bpc[t].call = "next"
    BY <1>4, <1>10 DEF BackFromNext, Back, pending, guestSide
  <2>2. PICK old : old = bpc[t].arg[2]
    OBVIOUS
  <2>3. /\ bstate \in {"advancing", "data_preparing", "cmd_handling"}
        /\ bstate = "advancing" => old = sphase /\ mesq = 0
        /\ bstate = "cmd_handling" => old = "command" /\ dreq.count = scmd.size
        /\ bstate = "data_preparing" => old = "command" \/ (old \in DataPhases /\ dreq.count = 0)
    BY <1>3, <2>1, <2>2 DEF CallFits, CallLeads
  <2>4. /\ sphase \notin MesPhases /\ Position(bstate, sphase)
        /\ sphase = "status" => ToldOnce
        /\ bstate = "cmd_handling" => sphase = "command"
    BY <1>1, <2>3 DEF Progress, PhasesExpected
  <2>5. /\ old = "selection" => bstate' = "cmd_preparing"
        /\ old = "command" => bstate' = "data_preparing"
        /\ old \in DataPhases => bstate' = "status_preparing"
        /\ old = "status" => bstate' = "bus_freeing"
        /\ \/ Engine(t)
           \/ old = "command" /\ dreq.count = 0 /\ CallUser(t, "next", How(t), "data_in")
    BY <1>10, <2>2 DEF BackFromNext, DefaultNextSphase, StateFor, DataPhases
  <2>6. old \in {"selection", "command", "status"} \cup DataPhases
    BY <2>3, <2>4 DEF Position
  <2>7. CallsLead' /\ NoStale' /\ ~Telling'
    <3>1. CASE Engine(t)
      BY <1>2, <2>1, <3>1, QuietAfter
    <3>2. CASE old = "command" /\ dreq.count = 0 /\ CallUser(t, "next", How(t), "data_in")
      <4>1. PICK k \in Hows : k = How(t)
        BY <1>1 DEF How, Places, Args
      <4>2. "next" \in Calls /\ "data_in" \in Phases
        BY DEF Calls, Phases, DataPhases
      <4>3. CallLeads("next", k, "data_in", "next" \in {"mes", "next"}, 0)'
        BY <2>1, <2>5, <3>2 DEF CallLeads, DataPhases
      <4>4. \A u \in BusActors \ {t} : ~Calling(u)
        BY <1>2, Alone DEF BusInv
      <4> QED BY <2>1, <3>2, <4>1, <4>2, <4>3, <4>4, CallAfter
    <3> QED BY <2>5, <3>1, <3>2
  <2>8. Position(bstate, sphase)'
    <3>1. CASE bstate = "advancing" /\ sphase = "selection"
      BY <2>1, <2>3, <2>4, <2>5, <3>1 DEF Position, Fresh, Untold
    <3>2. CASE bstate = "advancing" /\ sphase = "status"
      <4>1. trace.told = 1 /\ mesq = 0 /\ Whole
        BY <1>5, <2>1, <2>3, <2>4, <3>2 DEF Position, ToldOnce
      <4> QED BY <2>1, <2>3, <2>5, <3>2, <4>1 DEF Position, Whole
    <3>3. CASE bstate = "cmd_handling"
      BY <1>5, <2>1, <2>3, <2>4, <2>5, <3>3 DEF Position, Fresh, Even, Untold
    <3>4. CASE bstate = "data_preparing" /\ old = "command"
      BY <2>1, <2>4, <2>5, <3>4 DEF Position, Even, Untold
    <3>5. CASE bstate = "data_preparing" /\ old \in DataPhases
      <4>1. Even /\ sphase \in DataPhases \cup {"command"}
        BY <2>4, <3>5 DEF Position
      <4>2. dreq.count = 0 /\ bstate' = "status_preparing"
        BY <2>3, <2>5, <3>5 DEF DataPhases
      <4>3. Whole /\ Untold
        BY <1>5, <4>1, <4>2 DEF Whole, Even, Untold
      <4> QED BY <2>1, <4>1, <4>2, <4>3 DEF Position, Whole, Untold
    <3>6. bstate = "advancing" => sphase \in {"selection", "status"}
      BY <2>4 DEF Position
    <3> QED BY <2>3, <3>1, <3>2, <3>3, <3>4, <3>5, <3>6
  <2>9. bstate' \notin {"transfering", "data_switching"}
    BY <2>5, <2>6 DEF DataPhases
  <2>10. ToldOnce => ToldOnce'
    BY <2>1, <2>7 DEF ToldOnce
  <2>11. trace' \in [sent : Nat, got : Nat, told : Nat]
    BY <2>1 DEF Progress
  <2> QED BY <2>1, <2>4, <2>7, <2>8, <2>9, <2>10, <2>11 DEF Progress, MesPhases
<1> QED BY <1>6, <1>7, <1>8, <1>9, <1>10

-----------------------------------------------------------------------------
(* A step of a thread that is not in a callback, and that leaves the command  *)
(* alone.                                                                     *)
LEMMA Aside ==
  ASSUME Progress, CallsLead, NoStale, bpc \in [BusActors -> Places], NEW t \in BusActors, ~Calling(t),
         NEW a \in {"loop", "out", "issue"}, bpc' = [bpc EXCEPT ![t] = At(a)],
         UNCHANGED <<identifier, bstate, sphase, xfer, saved, data, mesq, dreq, scmd, trace>>
  PROVE  Progress' /\ CallsLead' /\ NoStale'
<1>1. At(a).at = a /\ \A u \in BusActors \ {t} : bpc'[u] = bpc[u]
  BY AtFields
<1>2. ~Calling(t)' /\ bpc'[t].at \notin {"call", "ret"}
  BY <1>1 DEF Calling
<1>3. NoStale' /\ (Telling' <=> Telling)
  BY <1>1, <1>2 DEF NoStale, Telling, Calling
<1>4. CallsLead'
  <2> SUFFICES ASSUME NEW u \in BusActors, Calling(u)'
               PROVE  CallLeads(bpc[u].call, bpc[u].arg[1], bpc[u].arg[2], bpc[u].at = "ret", bpc[u].res)'
    BY DEF CallsLead
  <2>1. bpc'[u] = bpc[u] /\ Calling(u)
    BY <1>1, <1>2 DEF Calling
  <2>2. CallLeads(bpc[u].call, bpc[u].arg[1], bpc[u].arg[2], bpc[u].at = "ret", bpc[u].res)
    BY <2>1 DEF CallsLead
  <2> QED BY <2>1, <2>2 DEF CallLeads
<1>5. Progress'
  BY <1>3 DEF Progress, Position, Moving, Fresh, Even, Untold, Whole, ToldOnce
<1> QED BY <1>3, <1>4, <1>5

(* The guest takes the bus and selects the disk: a command begins afresh.     *)
LEMMA GuestProgress ==
  ASSUME BusInv, Progress, CallsLead, NoStale, (Arbitrate /\ engine_lock # identifier) \/ Select
  PROVE  Progress' /\ CallsLead' /\ NoStale'
<1>1. /\ "main" \in BusActors /\ bstate = "idling" /\ sphase \in Phases /\ engine_lock # identifier
      /\ sphase \in {"bus_free", "arbitration"}
  BY MainIsActor DEF BusInv, BusTypes, SideTypes, EngineInv, StateInv, PhaseInv, ArbitrationInv, OneCaller,
                     BusActors, Arbitrate, Select, MainIdle, Calling
<1>2. \A u \in BusActors : ~Calling(u)
  BY <1>1 DEF BusInv, EngineInv, OneCaller
<1>3. PICK k \in {"select", "return"}, old \in Phases :
        /\ CallUser("main", "sphase", k, old)
        /\ sphase' = IF k = "select" THEN "selection" ELSE IF Select THEN "bus_free" ELSE "arbitration"
        /\ k = "select" => Select
  BY <1>1 DEF Arbitrate, Select, ChangeSphase
<1>4. /\ UNCHANGED <<identifier, bstate, xfer, saved, data, mesq, dreq>>
      /\ IF Select THEN trace' = [sent |-> 0, got |-> 0, told |-> 0] ELSE trace' = trace
  BY DEF Arbitrate, Select, pending
<1>5. "sphase" \in Calls /\ k \in Hows /\ CallLeads("sphase", k, old, "sphase" \in {"mes", "next"}, 0)'
  BY <1>1, <1>4 DEF Calls, Hows, CallLeads
<1>6. CallsLead' /\ NoStale'
  BY <1>1, <1>2, <1>3, <1>4, <1>5, CallAfter
<1>7. trace' \in [sent : Nat, got : Nat, told : Nat]
  BY <1>4 DEF Progress
<1>8. dreq.count = 0 /\ mesq = 0
  BY <1>1 DEF Progress, Position, MesPhases
<1>9. Position(bstate, sphase)'
  BY <1>1, <1>3, <1>4, <1>8 DEF Position, Fresh, Untold
<1> QED BY <1>1, <1>3, <1>4, <1>6, <1>7, <1>9 DEF Progress, MesPhases

(* What has been broken off stays so.                                         *)
LEMMA BrokenStays ==
  ASSUME broken, NEW t \in BusActors, EngineStep(t)
  PROVE  broken'
<1>1. CASE \/ EngineEnds(t) \/ DoTransfer(t) \/ EndMesOut(t) \/ DoMesHandling(t) \/ EndMesIn(t)
           \/ StartCmdRead(t) \/ EndCmdRead(t) \/ DoCmdHandling(t)
  BY <1>1 DEF EngineEnds, DoTransfer, EndMesOut, DoMesHandling, EndMesIn, StartCmdRead, EndCmdRead,
              DoCmdHandling, guestSide
<1>2. CASE \/ StartDataTransfer(t) \/ DoDataSwitching(t) \/ StartStatusTransfer(t) \/ Advance(t)
           \/ BusFreeing(t) \/ SphaseChanged(t) \/ XferProc(t) \/ HandleCmd(t)
  BY <1>2 DEF StartDataTransfer, DoDataSwitching, StartStatusTransfer, Advance, BusFreeing,
              SphaseChanged, XferProc, HandleCmd, guestSide
<1>3. CASE \/ BackAborted(t) \/ BackFromSphase(t) \/ BackFromXfer(t) \/ BackFromMes(t)
           \/ BackFromCmd(t) \/ BackFromNext(t) \/ EngineEntry(t)
  BY <1>3 DEF BackAborted, BackFromSphase, BackFromXfer, BackFromMes, BackFromCmd, BackFromNext,
              EngineEntry, guestSide
<1> QED BY <1>1, <1>2, <1>3 DEF EngineStep

(* Every step keeps the invariant, until a command is broken off.             *)
LEMMA TransferSteps ==
  ASSUME BusInv, TransferInv,
         \/ \E t \in BusActors : EngineStep(t)
         \/ (Arbitrate /\ engine_lock # identifier) \/ Select \/ Issue \/ XferStatus
  PROVE  TransferInv'
<1> SUFFICES ASSUME ~broken' PROVE Progress' /\ CallsLead' /\ NoStale'
  BY DEF TransferInv
<1>1. ~broken
  <2>1. CASE \E t \in BusActors : EngineStep(t)
    BY <2>1, BrokenStays
  <2>2. CASE Arbitrate \/ Select \/ Issue \/ XferStatus
    BY <2>2 DEF Arbitrate, Select, Issue, XferStatus, guestSide
  <2> QED BY <2>1, <2>2
<1>2. Progress /\ CallsLead /\ NoStale /\ bpc \in [BusActors -> Places] /\ "main" \in BusActors
  BY <1>1, MainIsActor DEF TransferInv, BusInv, BusTypes
<1>3. ASSUME NEW t \in BusActors, EngineStep(t)
      PROVE  Progress' /\ CallsLead' /\ NoStale'
  <2>1. CASE EngineEnds(t) \/ BackAborted(t) \/ EngineEntry(t)
    <3>1. /\ ~Calling(t) /\ (Engine(t) \/ Leave(t))
          /\ UNCHANGED <<identifier, bstate, sphase, xfer, saved, data, mesq, dreq, scmd, trace>>
      BY <2>1 DEF EngineEnds, BackAborted, EngineEntry, InEngine, Aborted, Calling, pending, guestSide
    <3>2. PICK a \in {"loop", "out", "issue"} : bpc' = [bpc EXCEPT ![t] = At(a)]
      BY <3>1 DEF Engine, Leave
    <3> QED BY <1>2, <3>1, <3>2, Aside
  <2>2. CASE \/ DoTransfer(t) \/ EndMesOut(t) \/ DoMesHandling(t) \/ EndMesIn(t) \/ StartCmdRead(t)
             \/ EndCmdRead(t) \/ DoCmdHandling(t) \/ StartDataTransfer(t) \/ DoDataSwitching(t)
             \/ StartStatusTransfer(t) \/ Advance(t) \/ BusFreeing(t)
    BY <1>2, <2>2, EngineProgress
  <2>3. CASE SphaseChanged(t) \/ XferProc(t) \/ HandleCmd(t)
    BY <1>2, <2>3, CallbackProgress
  <2>4. CASE BackFromSphase(t) \/ BackFromXfer(t) \/ BackFromMes(t) \/ BackFromCmd(t) \/ BackFromNext(t)
    BY <1>2, <2>4, BackProgress
  <2> QED BY <1>3, <2>1, <2>2, <2>3, <2>4 DEF EngineStep
<1>4. CASE (Arbitrate /\ engine_lock # identifier) \/ Select
  BY <1>2, <1>4, GuestProgress
<1>5. CASE Issue \/ XferStatus
  <2>1. /\ ~Calling("main")
        /\ UNCHANGED <<identifier, bstate, sphase, xfer, saved, data, mesq, dreq, scmd, trace>>
    BY <1>5 DEF Issue, XferStatus, MainIdle, Calling, pending, guestSide
  <2>2. PICK a \in {"loop", "out", "issue"} : bpc' = [bpc EXCEPT !["main"] = At(a)]
    BY <1>5 DEF Issue, XferStatus, Engine, Leave
  <2> QED BY <1>2, <2>1, <2>2, Aside
<1> QED BY <1>3, <1>4, <1>5

(* The invariant holds of the bus as it is set up.                            *)
LEMMA TransferStarts == BusInit => TransferInv
<1> SUFFICES ASSUME BusInit PROVE Progress /\ CallsLead /\ NoStale
  BY DEF TransferInv
<1>1. At("out").at = "out" /\ \A u \in BusActors : bpc[u] = At("out")
  BY AtFields DEF BusInit
<1>2. CallsLead /\ NoStale
  BY <1>1 DEF CallsLead, NoStale, Calling
<1>3. trace \in [sent : Nat, got : Nat, told : Nat] /\ Position(bstate, sphase)
  BY DEF BusInit, Position
<1> QED BY <1>2, <1>3 DEF BusInit, Progress, MesPhases

(* After a race the engine has not yet moved on, or the bus is being reset.   *)
TransferKept == IF raced THEN bstate = "idling" \/ broken ELSE TransferInv

(* Every step keeps this.                                                     *)
LEMMA TransferKeeps ==
  ASSUME BusKept, TransferKept, [BusNext]_busVars
  PROVE  TransferKept'
<1>1. CASE UNCHANGED busVars
  <2>1. UNCHANGED <<identifier, bpc, bstate, sphase, xfer, saved, data, mesq, dreq, scmd, trace, broken, raced>>
    BY <1>1 DEF busVars
  <2>2. TransferInv => TransferInv'
    <3> SUFFICES ASSUME Progress, CallsLead, NoStale PROVE Progress' /\ CallsLead' /\ NoStale'
      BY <2>1 DEF TransferInv
    <3>2. NoStale' /\ (Telling' <=> Telling)
      BY <2>1 DEF NoStale, Telling, Calling
    <3>3. CallsLead'
      BY <2>1 DEF CallsLead, CallLeads, Calling
    <3>4. Progress'
      BY <2>1, <3>2 DEF Progress, Position, Moving, Fresh, Even, Untold, Whole, ToldOnce
    <3> QED BY <3>2, <3>3, <3>4
  <2> QED BY <2>1, <2>2 DEF TransferKept
<1>2. CASE BusNext /\ ~raced
  <2>1. TransferInv /\ (BusInv \/ ResetInv)
    BY <1>2 DEF TransferKept, BusKept
  <2>2. CASE ResetInv
    <3>1. broken'
      <4>1. broken
        BY <2>2 DEF ResetInv
      <4>2. ASSUME NEW t \in BusActors, EngineStep(t) PROVE broken'
        BY <4>1, <4>2, BrokenStays
      <4>3. CASE Arbitrate \/ Select \/ Issue \/ XferStatus \/ BackFromReset \/ ResetBus
        BY <4>1, <4>3 DEF Arbitrate, Select, Issue, XferStatus, BackFromReset, ResetBus, guestSide
      <4> QED BY <1>2, <4>2, <4>3 DEF BusNext, BusGoesOn
    <3> QED BY <3>1 DEF TransferKept, TransferInv
  <2>3. CASE BusInv
    <3>1. ASSUME NEW t \in BusActors, EngineStep(t), raced' = SlipsIn(t)
          PROVE  TransferKept'
      <4>1. ~SlipsIn(t)
        <5>1. ASSUME Resetting PROVE FALSE
          <6>1. CallFits(bpc["main"].call, bpc["main"].arg[1], bpc["main"].at = "ret", bpc["main"].res)
            BY <2>3, <5>1, MainIsActor DEF BusInv, CallInv, Resetting
          <6> QED BY <5>1, <6>1 DEF Resetting, CallFits
        <5> QED BY <5>1 DEF SlipsIn
      <4> QED BY <2>1, <2>3, <3>1, <4>1, TransferSteps DEF TransferKept
    <3>2. CASE (Select \/ Issue \/ XferStatus) /\ raced' = raced
      BY <1>2, <2>1, <2>3, <3>2, TransferSteps DEF TransferKept
    <3>3. CASE Arbitrate /\ raced' = (engine_lock = identifier)
      <4>1. bstate' = "idling"
        BY <2>3, <3>3 DEF Arbitrate, BusInv, StateInv, PhaseInv
      <4>2. engine_lock # identifier => TransferInv'
        BY <2>1, <2>3, <3>3, TransferSteps
      <4> QED BY <3>3, <4>1, <4>2 DEF TransferKept
    <3>4. CASE ResetBus
      BY <3>4 DEF ResetBus, TransferKept, TransferInv
    <3>5. CASE BackFromReset
      <4>1. bpc["main"].at = "ret" /\ bpc["main"].id = identifier /\ bpc["main"].call = "sphase"
            /\ bpc["main"].arg[1] = "reset"
        BY <3>5 DEF BackFromReset, Back, Valid, Aborted, How
      <4>2. CallFits(bpc["main"].call, bpc["main"].arg[1], bpc["main"].at = "ret", bpc["main"].res)
        BY <2>3, <4>1, MainIsActor DEF BusInv, CallInv, Calling
      <4> QED BY <4>1, <4>2 DEF CallFits
    <3> QED BY <1>2, <3>1, <3>2, <3>3, <3>4, <3>5 DEF BusNext, BusGoesOn
  <2> QED BY <2>1, <2>2, <2>3
<1>3. BusNext => ~raced
  BY DEF BusNext, BusGoesOn
<1> QED BY <1>1, <1>2, <1>3

(* Whatever messages, changes of thread and partial transfers come between,   *)
(* a command that reaches its regular end before anything has been broken off *)
(* has moved all of its data and no more, block by block, for every block     *)
(* size, and has told the initiator so exactly once.                          *)
THEOREM TransferIsWhole == BusSpec => []TransferWhole
<1>1. TransferKept => TransferWhole
  BY DEF TransferKept, TransferInv, Progress, Position, Whole, TransferWhole, MesPhases
<1>2. BusInit => TransferKept
  BY TransferStarts DEF BusInit, TransferKept
<1>3. BusKept /\ TransferKept /\ [BusNext]_busVars => TransferKept'
  BY TransferKeeps
<1> QED BY <1>1, <1>2, <1>3, BusInvariant, PTL DEF BusSpec
=============================================================================
