--------------------------- MODULE MainloopProofs ---------------------------
(***************************************************************************)
(* Proofs about the main loop for any number of interrupting threads:      *)
(* no announced work is lost, and doze() does not sleep through an          *)
(* interrupt unless it is a signal that brings it.                          *)
(***************************************************************************)
EXTENDS Mainloop, TLAPS

(* The type invariant holds in every reachable state of the main loop.      *)
THEOREM TypeCorrect == Spec => []TypeOK
<1>1. Init => TypeOK
  BY DEF Init, TypeOK, Bit, MainPoints, ThreadPoints, Kinds
<1>2. TypeOK /\ [Next]_vars => TypeOK'
  <2> SUFFICES ASSUME TypeOK, [Next]_vars PROVE TypeOK'
    OBVIOUS
  <2> USE DEF TypeOK, Bit, MainPoints, ThreadPoints
  <2>1. CASE MainStep
    <3>1. CASE \E k \in Kinds : TakeWork(k)
      BY <3>1 DEF TakeWork, NextPoint, Kinds, IO, TIMER, HOSTIRQ, CPUIRQ
    <3>2. CASE LoadInterrupt \/ StoreInVirtual \/ ClearInterrupt \/ ReturnStop
      BY <3>2 DEF LoadInterrupt, StoreInVirtual, ClearInterrupt, ReturnStop
    <3>3. CASE DozeDec \/ DozeRead \/ SelectReadable \/ SelectTimeout \/ DozeSet
      BY <3>3 DEF DozeDec, DozeRead, SelectReadable, SelectTimeout, DozeSet
    <3> QED BY <2>1, <3>1, <3>2, <3>3 DEF MainStep
  <2>2. CASE Handler
    BY <2>2 DEF Handler, HandlerReturns, HandlerQuits, HandlerDozes, HandlerPosts,
                Posted, Kinds
  <2>3. CASE LeaveVirtual \/ TakeIpi \/ HostTick
    BY <2>3 DEF LeaveVirtual, TakeIpi, HostTick
  <2>4. ASSUME NEW t \in Threads, InterruptEmulation(t) PROVE TypeOK'
    <3>1. CASE SetInterrupt(t)
      BY <3>1 DEF SetInterrupt
    <3>2. CASE AbortDoze(t)
      BY <3>2 DEF AbortDoze
    <3>3. CASE WriteAbortPipe(t)
      BY <3>3 DEF WriteAbortPipe
    <3>4. CASE SendIpi(t)
      BY <3>4 DEF SendIpi
    <3> QED BY <2>4, <3>1, <3>2, <3>3, <3>4 DEF InterruptEmulation
  <2>5. ASSUME NEW t \in Threads, NEW k \in Posted, Post(t, k) PROVE TypeOK'
    BY <2>5 DEF Post, Posted, Kinds
  <2>6. CASE HostIrq \/ Sighup \/ Sigint
    BY <2>6 DEF HostIrq, Sighup, Sigint, SignalReturn, Kinds
  <2>7. CASE Exited \/ UNCHANGED vars
    BY <2>7 DEF Exited, vars
  <2> QED BY <2>1, <2>2, <2>3, <2>4, <2>5, <2>6, <2>7 DEF Next
<1> QED BY <1>1, <1>2, PTL DEF Spec

-----------------------------------------------------------------------------
(* No announced work is lost, whatever the number of threads that announce  *)
(* it: clearing mregs->interrupt before looking for work is enough.         *)
THEOREM NoWorkLost == Spec => []WorkIsAnnounced
<1>1. Init => WorkIsAnnounced
  BY DEF Init, WorkIsAnnounced
<1>2. TypeOK /\ WorkIsAnnounced /\ [Next]_vars => WorkIsAnnounced'
  <2> SUFFICES ASSUME TypeOK, WorkIsAnnounced, [Next]_vars,
                      NEW k \in work'
               PROVE  \/ interrupt' = 1
                      \/ pc' \in Before(k)
                      \/ \E t \in Threads : tpc'[t] = "set"
    BY DEF WorkIsAnnounced, Before
  <2> USE DEF TypeOK, Kinds, IO, TIMER, HOSTIRQ, CPUIRQ, WorkIsAnnounced, Before
  <2>1. CASE MainStep
    <3>1. CASE \E j \in Kinds : TakeWork(j)
      BY <3>1 DEF TakeWork, NextPoint
    <3>2. CASE LoadInterrupt \/ StoreInVirtual \/ ReturnStop
      BY <3>2 DEF LoadInterrupt, StoreInVirtual, ReturnStop
    <3>3. CASE ClearInterrupt
      BY <3>3 DEF ClearInterrupt
    <3>4. CASE DozeDec \/ DozeRead \/ SelectReadable \/ SelectTimeout \/ DozeSet
      BY <3>4 DEF DozeDec, DozeRead, SelectReadable, SelectTimeout, DozeSet
    <3> QED BY <2>1, <3>1, <3>2, <3>3, <3>4 DEF MainStep
  <2>2. CASE Handler
    BY <2>2 DEF Handler, HandlerReturns, HandlerQuits, HandlerDozes, HandlerPosts
  <2>3. CASE LeaveVirtual \/ TakeIpi \/ HostTick
    BY <2>3 DEF LeaveVirtual, TakeIpi, HostTick
  <2>4. ASSUME NEW t \in Threads, InterruptEmulation(t)
        PROVE  \/ interrupt' = 1
               \/ pc' \in Before(k)
               \/ \E u \in Threads : tpc'[u] = "set"
    <3>1. CASE SetInterrupt(t)
      BY <3>1 DEF SetInterrupt
    <3>2. CASE AbortDoze(t)
      BY <3>2 DEF AbortDoze
    <3>3. CASE WriteAbortPipe(t)
      BY <3>3 DEF WriteAbortPipe
    <3>4. CASE SendIpi(t)
      BY <3>4 DEF SendIpi
    <3> QED BY <2>4, <3>1, <3>2, <3>3, <3>4 DEF InterruptEmulation
  <2>5. ASSUME NEW t \in Threads, NEW j \in Posted, Post(t, j)
        PROVE  \E u \in Threads : tpc'[u] = "set"
    BY <2>5 DEF Post
  <2>6. CASE HostIrq \/ Sighup \/ Sigint
    BY <2>6 DEF HostIrq, Sighup, Sigint
  <2>7. CASE Exited \/ UNCHANGED vars
    BY <2>7 DEF Exited, vars
  <2> QED BY <2>1, <2>2, <2>3, <2>4, <2>5, <2>6, <2>7 DEF Next
<1> QED BY <1>1, <1>2, TypeCorrect, PTL DEF Spec

-----------------------------------------------------------------------------
(* What the counter ts.dozing says about interrupters.  Between the test of *)
(* mregs->interrupt and the end of doze(), every interrupt is either        *)
(* counted in ts.dozing or about to be; in select() a counted interrupt has *)
(* written the pipe or is about to.                                         *)
Counting(t) == tpc[t] = "inc"
Writing(t)  == tpc[t] = "write"
SleepInv ==
    /\ byThread = 1 => interrupt = 1
    /\ dozing >= -1
    /\ pc \notin {"doze_read", "select", "doze_set"} => dozing >= 0
    /\ /\ pc \in {"enter", "virtual", "rvec", "doze_dec"}
       /\ pc = "enter" => r7 = 0
       /\ byThread = 1
       => dozing >= 1 \/ \E t \in Threads : Counting(t)
    /\ pc = "doze_read" /\ byThread = 1 =>
         dozing >= 0 \/ \E t \in Threads : Counting(t)
    /\ pc = "select" /\ byThread = 1 =>
         pipe > 0 \/ \E t \in Threads : Counting(t) \/ Writing(t)
    /\ pc = "select" /\ dozing >= 0 =>
         pipe > 0 \/ \E t \in Threads : Writing(t)

(* doze() never sleeps through the interrupt of another thread, whatever    *)
(* the number of threads that interrupt and whether or not signals do too.  *)
THEOREM DozeIsSafe == Spec => []ThreadsWakeDoze
<1>1. Init => SleepInv
  BY DEF Init, SleepInv
<1>2. TypeOK /\ SleepInv /\ [Next]_vars => SleepInv'
  <2> SUFFICES ASSUME TypeOK, SleepInv, [Next]_vars PROVE SleepInv'
    OBVIOUS
  <2> USE DEF TypeOK, Bit, ThreadPoints, SleepInv, Counting, Writing
  <2>1. CASE MainStep
    <3>1. CASE \E j \in Kinds : TakeWork(j)
      BY <3>1 DEF TakeWork, NextPoint, Kinds, IO, TIMER, HOSTIRQ, CPUIRQ
    <3>2. CASE LoadInterrupt
      BY <3>2 DEF LoadInterrupt
    <3>3. CASE StoreInVirtual
      BY <3>3 DEF StoreInVirtual
    <3>4. CASE ClearInterrupt
      BY <3>4 DEF ClearInterrupt, IO
    <3>5. CASE ReturnStop
      BY <3>5 DEF ReturnStop
    <3>6. CASE DozeDec
      BY <3>6 DEF DozeDec
    <3>7. CASE DozeRead
      BY <3>7 DEF DozeRead
    <3>8. CASE SelectReadable \/ SelectTimeout
      BY <3>8 DEF SelectReadable, SelectTimeout
    <3>9. CASE DozeSet
      BY <3>9 DEF DozeSet
    <3> QED BY <2>1, <3>1, <3>2, <3>3, <3>4, <3>5, <3>6, <3>7, <3>8, <3>9 DEF MainStep
  <2>2. CASE Handler
    BY <2>2 DEF Handler, HandlerReturns, HandlerQuits, HandlerDozes, HandlerPosts
  <2>3. CASE LeaveVirtual \/ TakeIpi \/ HostTick
    BY <2>3 DEF LeaveVirtual, TakeIpi, HostTick
  <2>4. ASSUME NEW t \in Threads, InterruptEmulation(t) PROVE SleepInv'
    <3>1. CASE SetInterrupt(t)
      <4>1. tpc'[t] = "inc" /\ \A u \in Threads : Writing(u) => Writing(u)'
        BY <3>1 DEF SetInterrupt
      <4> QED BY <3>1, <4>1 DEF SetInterrupt
    <3>2. CASE AbortDoze(t)
      <4>1. \A u \in Threads \ {t} : tpc'[u] = tpc[u]
        BY <3>2 DEF AbortDoze
      <4>2. /\ dozing' = dozing + 1
            /\ dozing = -1 => tpc'[t] = "write"
            /\ UNCHANGED <<interrupt, byThread, pipe, r7, pc>>
        BY <3>2 DEF AbortDoze
      <4>3. \A u \in Threads : Writing(u) => Writing(u)'
        BY <3>2, <4>1 DEF AbortDoze
      <4> QED BY <4>2, <4>3
    <3>3. CASE WriteAbortPipe(t)
      <4>1. \A u \in Threads : Counting(u) => Counting(u)'
        BY <3>3 DEF WriteAbortPipe
      <4> QED BY <3>3, <4>1 DEF WriteAbortPipe
    <3>4. CASE SendIpi(t)
      <4>1. \A u \in Threads : /\ Counting(u) => Counting(u)'
                               /\ Writing(u) => Writing(u)'
        BY <3>4 DEF SendIpi
      <4> QED BY <3>4, <4>1 DEF SendIpi
    <3> QED BY <2>4, <3>1, <3>2, <3>3, <3>4 DEF InterruptEmulation
  <2>5. ASSUME NEW t \in Threads, NEW k \in Posted, Post(t, k) PROVE SleepInv'
    <3>1. \A u \in Threads : /\ Counting(u) => Counting(u)'
                             /\ Writing(u) => Writing(u)'
      BY <2>5 DEF Post
    <3> QED BY <2>5, <3>1 DEF Post
  <2>6. CASE HostIrq \/ Sighup \/ Sigint
    BY <2>6 DEF HostIrq, Sighup, Sigint, SignalReturn
  <2>7. CASE Exited \/ UNCHANGED vars
    BY <2>7 DEF Exited, vars
  <2> QED BY <2>1, <2>2, <2>3, <2>4, <2>5, <2>6, <2>7 DEF Next
<1>3. SleepInv => ThreadsWakeDoze
  BY DEF SleepInv, ThreadsWakeDoze, WakeupComing, Counting, Writing
<1> QED BY <1>1, <1>2, <1>3, TypeCorrect, PTL DEF Spec

(* All together: no interrupt is lost between the threads, the handlers and   *)
(* the main thread, whether it runs the guest or dozes (NoInterruptLost).      *)
THEOREM InterruptsKept == Spec => []NoInterruptLost
BY TypeCorrect, NoWorkLost, DozeIsSafe, PTL DEF NoInterruptLost
=============================================================================
