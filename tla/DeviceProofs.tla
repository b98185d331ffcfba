---------------------------- MODULE DeviceProofs ----------------------------
(***************************************************************************)
(* Proofs about the services the devices rest on: host interrupts (module    *)
(* HostIrq), for any set of interrupts, the pool of threads (module          *)
(* ThreadPool), for any number of threads, callers and jobs, the Grand       *)
(* Central interrupt controller (module Pic), for any set of devices and any *)
(* routing of their interrupts, the network device (module Enet), for rings  *)
(* of any size, and the CUDA handshake (module Cuda), for packets, replies    *)
(* and buffers of any length.                                                *)
(***************************************************************************)
EXTENDS HostIrq, ThreadPool, Pic, Enet, Cuda, FiniteSetTheorems, SequenceTheorems, TLAPS

-----------------------------------------------------------------------------
(* Host interrupts.                                                          *)

(* Who may hold an interrupt disabled: a handler runs only for an interrupt   *)
(* that is mapped; the active bit, a handler that is about to set it and the  *)
(* main thread that has just cleared it exclude each other; an interrupt that *)
(* was never mapped has left no trace.                                       *)
Claims ==
    /\ \A i \in HostIrqs : handler[i] # "idle" => i \in mapped
    /\ \A i \in HostIrqs : handler[i] = "set" => i \notin activeIrqs
    /\ host.pc \in {"dec", "enable"} =>
          host.at \in mapped /\ host.at \notin activeIrqs /\ handler[host.at] # "set"
    /\ host.pc = "walk" => host.at \in HostIrqs
    /\ host.pc \in {"get", "dec", "enable"} => update = 1
    /\ host.todo \cap (mapped \cup activeIrqs) = {}

HostCore == HostTypeOK /\ Claims /\ DisabledIsActive

(* A jump of the main thread sets two fields and keeps the third.             *)
MainPcs == {"run", "get", "dec", "enable", "poll", "walk", "done"}

LEMMA GotoFields ==
  ASSUME HostTypeOK, NEW pc \in MainPcs, NEW at \in Int, Goto(pc, at)
  PROVE  /\ host' \in [pc : MainPcs, at : Int, todo : SUBSET HostIrqs]
         /\ host'.pc = pc /\ host'.at = at /\ host'.todo = host.todo
<1> USE DEF HostTypeOK, MainPcs
<1>1. host = [pc |-> host.pc, at |-> host.at, todo |-> host.todo]
  OBVIOUS
<1>2. host' = [pc |-> pc, at |-> at, todo |-> host.todo]
  BY <1>1 DEF Goto
<1> QED BY <1>2

(* The initial state, and every step of a handler, of a device and of the     *)
(* main thread, keep them.                                                    *)
THEOREM HostCoreHolds == HostSpec => []HostCore
<1>1. HostInit => HostCore
  BY DEF HostInit, HostCore, HostTypeOK, Claims, DisabledIsActive, End
<1>2. HostCore /\ [HostNext]_hostVars => HostCore'
  <2> SUFFICES ASSUME HostCore, [HostNext]_hostVars PROVE HostCore'
    OBVIOUS
  <2> USE HostIrqsAssumption, NoisyAssumption DEF HostCore, HostTypeOK, Claims, DisabledIsActive, End
  <2>1. ASSUME NEW i \in HostIrqs, HandlerEnters(i) PROVE HostCore'
    BY <2>1 DEF HandlerEnters, shared, table
  <2>2. ASSUME NEW i \in HostIrqs, HandlerSets(i) PROVE HostCore'
    BY <2>2 DEF HandlerSets, table
  <2>3. ASSUME NEW i \in HostIrqs, HandlerCounts(i) PROVE HostCore'
    BY <2>3 DEF HandlerCounts, table
  <2>4. ASSUME NEW i \in HostIrqs, HandlerFlags(i) PROVE HostCore'
    BY <2>4 DEF HandlerFlags, table
  <2>5. ASSUME NEW i \in HostIrqs, DeviceToggles(i) PROVE HostCore'
    BY <2>5 DEF DeviceToggles, shared, table
  <2>6. ASSUME NEW i \in HostIrqs, hostirq_map(i) PROVE HostCore'
    BY <2>6 DEF hostirq_map, table
  <2>7. ASSUME NEW i \in HostIrqs, hostirq_unmap(i) PROVE HostCore'
    <3>1. HostTypeOK'
      BY <2>7 DEF hostirq_unmap, Unlink, Before
    <3>2. Claims'
      BY <2>7 DEF hostirq_unmap, Unlink, Before
    <3>3. DisabledIsActive'
      BY <2>7 DEF hostirq_unmap, Unlink, Before
    <3> QED BY <3>1, <3>2, <3>3
  <2>8. CASE GetClears
    <3>0. host' \in [pc : MainPcs, at : Int, todo : SUBSET HostIrqs]
      BY <2>8, GotoFields DEF GetClears, Wanted, Ahead, MainPcs
    <3>1. HostTypeOK'
      BY <2>8, <3>0 DEF MainPcs, GetClears, Wanted, Ahead, Goto, table
    <3>2. Claims'
      BY <2>8, ZenonT(60) DEF GetClears, Wanted, Ahead, Goto, table
    <3>3. DisabledIsActive'
      BY <2>8, ZenonT(60) DEF GetClears, Wanted, Ahead, Goto, table
    <3> QED BY <3>1, <3>2, <3>3
  <2>9. CASE GetCounts
    <3>0. host' \in [pc : MainPcs, at : Int, todo : SUBSET HostIrqs]
      BY <2>9, GotoFields DEF GetCounts, MainPcs
    <3>1. HostTypeOK'
      BY <2>9, <3>0 DEF MainPcs, GetCounts, Goto, table
    <3>2. Claims'
      BY <2>9 DEF GetCounts, Goto, table
    <3>3. DisabledIsActive'
      BY <2>9 DEF GetCounts, Goto, table
    <3> QED BY <3>1, <3>2, <3>3
  <2>10. CASE GetEnables
    <3>0. host' \in [pc : MainPcs, at : Int, todo : SUBSET HostIrqs]
      BY <2>10, GotoFields DEF GetEnables, MainPcs
    <3>1. HostTypeOK'
      BY <2>10, <3>0 DEF MainPcs, GetEnables, Goto, table, shared
    <3>2. Claims'
      BY <2>10 DEF GetEnables, Goto, table, shared
    <3>3. DisabledIsActive'
      BY <2>10 DEF GetEnables, Goto, table, shared
    <3> QED BY <3>1, <3>2, <3>3
  <2>11. CASE UpdateEnters
    <3>0. host' \in [pc : MainPcs, at : Int, todo : SUBSET HostIrqs]
      BY <2>11, GotoFields DEF UpdateEnters, MainPcs
    <3>1. HostTypeOK'
      BY <2>11, <3>0 DEF MainPcs, UpdateEnters, Goto, table
    <3>2. Claims'
      BY <2>11 DEF UpdateEnters, Goto, table
    <3>3. DisabledIsActive'
      BY <2>11 DEF UpdateEnters, Goto, table
    <3> QED BY <3>1, <3>2, <3>3
  <2>12. CASE UpdateWalks
    <3>0. host' \in [pc : MainPcs, at : Int, todo : SUBSET HostIrqs]
      <4>1. next[host.at] \in Int /\ (IF next[host.at] = End THEN "run" ELSE "walk") \in MainPcs
        <5>1. next[host.at] \in HostIrqs \cup {End}
          BY <2>12 DEF UpdateWalks
        <5>2. HostIrqs \cup {End} \subseteq Int
          OBVIOUS
        <5>3. (IF next[host.at] = End THEN "run" ELSE "walk") \in MainPcs
          BY DEF MainPcs
        <5> QED BY <5>1, <5>2, <5>3, Zenon
      <4> QED BY <2>12, <4>1, GotoFields DEF UpdateWalks
    <3>1. HostTypeOK'
      BY <2>12, <3>0 DEF MainPcs, UpdateWalks, Goto, table, shared
    <3>2. Claims'
      BY <2>12 DEF UpdateWalks, Goto, table, shared
    <3>3. DisabledIsActive'
      BY <2>12 DEF UpdateWalks, Goto, table, shared
    <3> QED BY <3>1, <3>2, <3>3
  <2>13. CASE hostirq_check_irqs
    <3>0. host' \in [pc : MainPcs, at : Int, todo : SUBSET HostIrqs]
      BY <2>13, GotoFields DEF hostirq_check_irqs, MainPcs
    <3>1. HostTypeOK'
      BY <2>13, <3>0 DEF MainPcs, hostirq_check_irqs, Goto, table
    <3>2. Claims'
      BY <2>13 DEF hostirq_check_irqs, Goto, table
    <3>3. DisabledIsActive'
      BY <2>13 DEF hostirq_check_irqs, Goto, table
    <3> QED BY <3>1, <3>2, <3>3
  <2>14. CASE hostirq_cleanup
    BY <2>14 DEF hostirq_cleanup
  <2>15. CASE cleanup_host_irqs
    BY <2>15 DEF cleanup_host_irqs, table
  <2>16. CASE UNCHANGED hostVars
    BY <2>16 DEF hostVars
  <2> QED
    BY <2>1, <2>2, <2>3, <2>4, <2>5, <2>6, <2>7, <2>8, <2>9, <2>10, <2>11, <2>12, <2>13,
       <2>14, <2>15, <2>16 DEF HostNext, HandlerStep, MainStep
<1> QED BY <1>1, <1>2, PTL DEF HostSpec

(* HostTypeOK holds in every reachable state; in particular no interrupt is   *)
(* enabled more often than it was disabled (depth stays a natural number).    *)
THEOREM HostTypeCorrect == HostSpec => []HostTypeOK
BY HostCoreHolds, PTL DEF HostCore

(* No interrupt is lost by being left disabled, and none is enabled twice     *)
(* (DisabledIsActive): hostirq_handler() disables and get_irqs() enables, with *)
(* the active bit between them.                                               *)
THEOREM NoIrqLost == HostSpec => []DisabledIsActive
BY HostCoreHolds, PTL DEF HostCore

(* The count of active interrupts differs from the size of the set by the     *)
(* increments and the decrement that are under way (CountIsSize): the fast     *)
(* path of hostirq_check_irqs() overlooks no interrupt for long.              *)
THEOREM CountCorrect == HostSpec => []CountIsSize
<1> DEFINE Incs == {i \in HostIrqs : handler[i] = "inc"}
<1>1. HostInit => CountIsSize
  BY FS_EmptySet DEF HostInit, CountIsSize
<1>2. HostCore /\ CountIsSize /\ [HostNext]_hostVars => CountIsSize'
  <2> SUFFICES ASSUME HostCore, CountIsSize, [HostNext]_hostVars PROVE CountIsSize'
    OBVIOUS
  <2> USE HostIrqsAssumption DEF HostCore, HostTypeOK
  <2>0. /\ IsFiniteSet(activeIrqs) /\ IsFiniteSet(Incs)
        /\ Cardinality(activeIrqs) \in Nat /\ Cardinality(Incs) \in Nat
    BY FS_Subset, FS_CardinalityType
  <2>1. activeCnt = Cardinality(activeIrqs) - Cardinality(Incs) + (IF host.pc = "dec" THEN 1 ELSE 0)
    BY DEF CountIsSize
  <2>2. activeCnt' = Cardinality(activeIrqs') - Cardinality(Incs') + (IF host'.pc = "dec" THEN 1 ELSE 0)
          => CountIsSize'
    BY DEF CountIsSize
  <2>3. ASSUME NEW i \in HostIrqs, HandlerSets(i) PROVE CountIsSize'
    <3>1. CASE i \in activeIrqs
      <4>1. activeIrqs' = activeIrqs /\ Incs' = Incs /\ activeCnt' = activeCnt /\ host' = host
        BY <2>3, <3>1 DEF HandlerSets
      <4> QED BY <2>1, <4>1 DEF CountIsSize
    <3>2. CASE i \notin activeIrqs
      <4>1. /\ activeIrqs' = activeIrqs \cup {i} /\ Incs' = Incs \cup {i} /\ i \notin Incs
            /\ activeCnt' = activeCnt /\ host' = host
        BY <2>3, <3>2 DEF HandlerSets
      <4>2. Cardinality(activeIrqs') = Cardinality(activeIrqs) + 1
        BY <2>0, <3>2, <4>1, FS_AddElement
      <4>3. Cardinality(Incs') = Cardinality(Incs) + 1
        BY <2>0, <4>1, FS_AddElement
      <4> HIDE DEF Incs
      <4> QED BY <2>0, <2>1, <2>2, <4>1, <4>2, <4>3
    <3> QED BY <3>1, <3>2
  <2>4. ASSUME NEW i \in HostIrqs, HandlerCounts(i) PROVE CountIsSize'
    <3>0. handler[i] = "inc" /\ handler' = [handler EXCEPT ![i] = "flag"]
      BY <2>4 DEF HandlerCounts
    <3>1. /\ activeIrqs' = activeIrqs /\ Incs' = Incs \ {i} /\ i \in Incs
          /\ activeCnt' = activeCnt + 1 /\ host' = host
      <4>1. Incs' = Incs \ {i} /\ i \in Incs
        BY <3>0
      <4> QED BY <2>4, <4>1 DEF HandlerCounts
    <3> HIDE DEF Incs
    <3>2. Cardinality(Incs') = Cardinality(Incs) - 1
      BY <2>0, <3>1, FS_RemoveElement
    <3> QED BY <2>0, <2>1, <2>2, <3>1, <3>2
  <2>5. CASE GetClears
    <3>1. CASE Wanted(host.at) = {} /\ Goto("poll", End) /\ UNCHANGED activeIrqs
      <4>1. /\ activeIrqs' = activeIrqs /\ Incs' = Incs /\ activeCnt' = activeCnt
            /\ host.pc = "get" /\ host'.pc = "poll"
        BY <2>5, <3>1 DEF GetClears, Goto
      <4> HIDE DEF Incs
      <4> QED BY <2>0, <2>1, <2>2, <4>1
    <3>2. ASSUME NEW i \in Wanted(host.at), activeIrqs' = activeIrqs \ {i}, Goto("dec", i)
          PROVE  CountIsSize'
      <4>1. /\ i \in activeIrqs /\ Incs' = Incs /\ activeCnt' = activeCnt
            /\ host.pc = "get" /\ host'.pc = "dec"
        BY <2>5, <3>2 DEF GetClears, Goto, Wanted
      <4>2. Cardinality(activeIrqs') = Cardinality(activeIrqs) - 1
        BY <2>0, <3>2, <4>1, FS_RemoveElement
      <4> HIDE DEF Incs
      <4> QED BY <2>0, <2>1, <2>2, <4>1, <4>2
    <3> QED BY <2>5, <3>1, <3>2 DEF GetClears
  <2>6. CASE GetCounts
    <3>1. /\ activeIrqs' = activeIrqs /\ Incs' = Incs /\ activeCnt' = activeCnt - 1
          /\ host.pc = "dec" /\ host'.pc = "enable"
      BY <2>6 DEF GetCounts, Goto
    <3> HIDE DEF Incs
    <3> QED BY <2>0, <2>1, <2>2, <3>1
  <2>7. ASSUME activeIrqs' = activeIrqs, Incs' = Incs, activeCnt' = activeCnt,
               (host'.pc = "dec") = (host.pc = "dec")
        PROVE  CountIsSize'
    BY <2>1, <2>7 DEF CountIsSize
  <2>8. ASSUME \/ \E i \in HostIrqs : \/ HandlerEnters(i) \/ HandlerFlags(i) \/ DeviceToggles(i)
                                     \/ hostirq_map(i) \/ hostirq_unmap(i)
               \/ GetEnables \/ UpdateEnters \/ UpdateWalks \/ hostirq_check_irqs
               \/ hostirq_cleanup \/ cleanup_host_irqs \/ UNCHANGED hostVars
        PROVE  CountIsSize'
    <3>1. activeIrqs' = activeIrqs /\ activeCnt' = activeCnt
      BY <2>8 DEF HandlerEnters, HandlerFlags, DeviceToggles, hostirq_map, hostirq_unmap, GetEnables,
         UpdateEnters, UpdateWalks, hostirq_check_irqs, hostirq_cleanup, cleanup_host_irqs, hostVars, shared
    <3>2. Incs' = Incs
      BY <2>8 DEF HandlerEnters, HandlerFlags, DeviceToggles, hostirq_map, hostirq_unmap, GetEnables,
         UpdateEnters, UpdateWalks, hostirq_check_irqs, hostirq_cleanup, cleanup_host_irqs, hostVars
    <3>3. (host'.pc = "dec") = (host.pc = "dec")
      BY <2>8 DEF HandlerEnters, HandlerFlags, DeviceToggles, hostirq_map, hostirq_unmap, GetEnables,
         UpdateEnters, UpdateWalks, hostirq_check_irqs, hostirq_cleanup, cleanup_host_irqs, hostVars, Goto
    <3> QED BY <2>7, <3>1, <3>2, <3>3
  <2> QED BY <2>3, <2>4, <2>5, <2>6, <2>8 DEF HostNext, HandlerStep, MainStep
<1> QED BY <1>1, <1>2, HostCoreHolds, PTL DEF HostSpec

(* The walk is at a mapped interrupt, and a line that does not show the       *)
(* active bit will be visited: an update is due, the handler is going to ask  *)
(* for one, or the walk has not reached the entry.                            *)
LinesFollow ==
    /\ host.pc = "walk" => host.at \in mapped
    /\ \A i \in host.todo : vmLine[i] = 0
    /\ host.pc # "done" =>
          \A i \in mapped :
             \/ vmLine[i] = IF i \in activeIrqs THEN 1 ELSE 0
             \/ update = 1 \/ handler[i] \in {"inc", "flag"}
             \/ host.pc = "walk" /\ ReachedFrom(host.at, next, i)

(* Appending to the list, and taking out its head or another entry.           *)
LEMMA MapKeepsShape ==
  ASSUME HostCore, ListShape, NEW i \in HostIrqs, hostirq_map(i)
  PROVE  ListShape'
<1> USE HostIrqsAssumption DEF HostCore, HostTypeOK, End
<1>1. /\ host.pc = "run" /\ i \notin mapped /\ mapped' = mapped \cup {i} /\ i # End
      /\ next[i] = End /\ last' = i /\ first' = (IF first = End THEN i ELSE first)
      /\ next' = (IF last = End THEN next ELSE [next EXCEPT ![last] = i])
  BY DEF hostirq_map, ListShape
<1>2. CASE mapped = {}
  <2>1. first = End /\ last = End
    BY <1>1, <1>2 DEF ListShape
  <2>2. mapped' = {i} /\ first' = i /\ last' = i /\ next' = next
    BY <1>1, <1>2, <2>1
  <2>3. ReachedFrom(i, next, i)
    BY <1>1 DEF ReachedFrom
  <2> QED BY <1>1, <1>2, <2>1, <2>2, <2>3 DEF ListShape
<1>3. CASE mapped # {}
  <2>1. first \in mapped /\ last \in mapped /\ first # End /\ last # End /\ next[last] = End
    BY <1>1, <1>3 DEF ListShape
  <2>2. first' = first /\ last' = i /\ next' = [next EXCEPT ![last] = i]
    BY <1>1, <2>1
  <2>3. ASSUME NEW j \in mapped' PROVE ReachedFrom(first, next', j)
    <3> SUFFICES ASSUME NEW S \in SUBSET HostIrqs, first \in S, Closed(S, next') PROVE j \in S
      BY <2>1 DEF ReachedFrom
    <3>1. Closed(S, next)
      BY <2>1, <2>2 DEF Closed
    <3>2. mapped \subseteq S
      BY <1>1, <3>1 DEF ListShape, ReachedFrom
    <3>3. i \in S
      BY <1>1, <2>1, <2>2, <3>2 DEF Closed
    <3> QED BY <1>1, <3>2, <3>3
  <2>4. \A j \in HostIrqs \ mapped' : next'[j] = End
    BY <1>1, <2>1, <2>2 DEF ListShape
  <2>5. \A j \in mapped' : next'[j] \in (mapped' \ {first'}) \cup {End}
    BY <1>1, <2>1, <2>2 DEF ListShape
  <2>6. \A j \in mapped' : next'[j] = End <=> j = last'
    BY <1>1, <2>1, <2>2 DEF ListShape
  <2>7. \A j, k \in mapped' : next'[j] = next'[k] => j = k
    BY <1>1, <2>1, <2>2 DEF ListShape
  <2>8. \A j \in mapped' : ReachedFrom(first', next', j)
    BY <2>2, <2>3
  <2>9. mapped' # {} /\ first' \in mapped' /\ last' \in mapped'
    BY <1>1, <2>1, <2>2
  <2> QED BY <2>4, <2>5, <2>6, <2>7, <2>8, <2>9 DEF ListShape
<1> QED BY <1>2, <1>3

LEMMA UnmapHeadKeepsShape ==
  ASSUME HostCore, ListShape, NEW i \in HostIrqs, hostirq_unmap(i), i = first
  PROVE  ListShape'
<1> USE HostIrqsAssumption DEF HostCore, HostTypeOK, End
<1>1. /\ host.pc = "run" /\ host' = host /\ i \in mapped /\ mapped' = mapped \ {i} /\ i # End
      /\ first' = next[i] /\ last' = (IF i = last THEN End ELSE last)
      /\ next' = [next EXCEPT ![i] = End]
  BY DEF hostirq_unmap, Unlink
<1>2. /\ last \in mapped /\ next[i] # i /\ next[i] \in mapped \cup {End}
      /\ next[i] = End <=> i = last
  BY <1>1 DEF ListShape
<1>3. ASSUME NEW S \in SUBSET HostIrqs, next[i] = End \/ next[i] \in S, Closed(S, next')
      PROVE  mapped' \subseteq S
  <2>1. Closed(S \cup {i}, next)
    BY <1>1, <1>3 DEF Closed
  <2>2. ASSUME NEW j \in mapped PROVE j \in S \cup {i}
    <3>1. S \cup {i} \in SUBSET HostIrqs /\ first \in S \cup {i} /\ ReachedFrom(first, next, j)
      BY <1>1 DEF ListShape
    <3> QED BY <2>1, <3>1 DEF ReachedFrom
  <2> QED BY <1>1, <2>2
<1>4. ASSUME NEW j \in mapped' PROVE ReachedFrom(first', next', j)
  BY <1>1, <1>3 DEF ReachedFrom
<1>5. mapped' = {} <=> i = last
  <2>1. CASE i = last
    <3>1. next[i] = End /\ Closed({}, next')
      BY <1>2, <2>1 DEF Closed
    <3>2. mapped' \subseteq {}
      BY <1>3, <3>1
    <3> QED BY <2>1, <3>2
  <2>2. CASE i # last
    BY <1>1, <1>2, <2>2
  <2> QED BY <2>1, <2>2
<1>6. \A j \in HostIrqs \ mapped' : next'[j] = End
  BY <1>1 DEF ListShape
<1>7. \A j \in mapped' : next'[j] \in (mapped' \ {first'}) \cup {End}
  BY <1>1, <1>2 DEF ListShape
<1>8. \A j \in mapped' : next'[j] = End <=> j = last'
  BY <1>1, <1>2 DEF ListShape
<1>9. \A j, k \in mapped' : next'[j] = next'[k] => j = k
  BY <1>1 DEF ListShape
<1> QED BY <1>1, <1>2, <1>4, <1>5, <1>6, <1>7, <1>8, <1>9 DEF ListShape

LEMMA UnmapOtherKeepsShape ==
  ASSUME HostCore, ListShape, NEW i \in HostIrqs, hostirq_unmap(i), i # first
  PROVE  ListShape'
<1> USE HostIrqsAssumption DEF HostCore, HostTypeOK, End
<1>1. /\ host.pc = "run" /\ host' = host /\ i \in mapped /\ mapped' = mapped \ {i} /\ i # End
      /\ first' = first
      /\ last' = (IF i = last /\ Before(i) # {} THEN CHOOSE p \in Before(i) : TRUE ELSE last)
      /\ next' = [p \in HostIrqs |-> IF p = i THEN End
                                      ELSE IF next[p] = i THEN next[i] ELSE next[p]]
  BY DEF hostirq_unmap, Unlink
<1>2. first \in mapped /\ last \in mapped /\ first # End
  BY <1>1 DEF ListShape
<1>3. ASSUME NEW S \in SUBSET HostIrqs, first \in S, Closed(S, next)
      PROVE  mapped \subseteq S
  BY <1>1, <1>3 DEF ListShape, ReachedFrom
<1>4. PICK p \in Before(i) : TRUE
  <2> SUFFICES ASSUME Before(i) = {} PROVE FALSE
    OBVIOUS
  <2>1. Closed(HostIrqs \ {i}, next)
    BY DEF Closed, Before
  <2> QED BY <1>1, <1>2, <1>3, <2>1
<1>5. /\ p \in mapped /\ next[p] = i /\ p # i
      /\ \A q \in HostIrqs : next[q] = i => q = p
  <2>1. next[p] = i /\ p \in HostIrqs
    BY DEF Before
  <2>2. \A q \in HostIrqs : next[q] = i => q \in mapped
    BY <1>1 DEF ListShape
  <2>3. \A q \in HostIrqs : next[q] = i => q = p
    BY <1>1, <2>1, <2>2 DEF ListShape
  <2>4. ASSUME p = i PROVE FALSE
    <3>1. Closed(HostIrqs \ {i}, next)
      BY <2>3, <2>4 DEF Closed
    <3> QED BY <1>1, <1>2, <1>3, <3>1
  <2> QED BY <2>1, <2>2, <2>3, <2>4
<1>6. last' = IF i = last THEN p ELSE last
  <2>1. Before(i) = {p}
    BY <1>5 DEF Before
  <2> QED BY <1>1, <2>1
<1>7. next' = [next EXCEPT ![i] = End, ![p] = next[i]]
  BY <1>1, <1>5
<1>8. next[i] # i /\ next[i] \in (mapped \ {first}) \cup {End} /\ (next[i] = End <=> i = last)
  BY <1>1, <1>5 DEF ListShape
<1>9. ASSUME NEW S \in SUBSET HostIrqs, first \in S, Closed(S, next')
      PROVE  mapped' \subseteq S
  <2>1. CASE p \in S
    <3>1. next[i] \in S \cup {End}
      BY <1>5, <1>7, <1>9, <2>1 DEF Closed
    <3>2. Closed(S \cup {i}, next)
      BY <1>1, <1>5, <1>7, <1>9, <3>1 DEF Closed
    <3> QED BY <1>1, <1>3, <1>9, <3>2
  <2>2. CASE p \notin S
    <3>1. Closed(S \ {i}, next)
      BY <1>1, <1>5, <1>7, <1>9, <2>2 DEF Closed
    <3> QED BY <1>1, <1>3, <1>9, <3>1
  <2> QED BY <2>1, <2>2
<1>10. ASSUME NEW j \in mapped' PROVE ReachedFrom(first', next', j)
  BY <1>1, <1>2, <1>9 DEF ReachedFrom
<1>11. \A j \in HostIrqs \ mapped' : next'[j] = End
  BY <1>1, <1>5, <1>7 DEF ListShape
<1>12. \A j \in mapped' : next'[j] \in (mapped' \ {first'}) \cup {End}
  <2> SUFFICES ASSUME NEW j \in mapped' PROVE next'[j] \in (mapped' \ {first'}) \cup {End}
    OBVIOUS
  <2>1. j \in mapped /\ j # i /\ j \in HostIrqs
    BY <1>1
  <2>2. CASE j = p
    <3>1. next'[j] = next[i]
      BY <1>5, <1>7, <2>2
    <3> QED BY <1>1, <1>8, <3>1
  <2>3. CASE j # p
    <3>1. next'[j] = next[j] /\ next[j] # i
      BY <1>5, <1>7, <2>1, <2>3
    <3> QED BY <1>1, <2>1, <3>1 DEF ListShape
  <2> QED BY <2>2, <2>3
<1>13. \A j \in mapped' : next'[j] = End <=> j = last'
  <2> SUFFICES ASSUME NEW j \in mapped' PROVE next'[j] = End <=> j = last'
    OBVIOUS
  <2>1. j \in mapped /\ j # i /\ j \in HostIrqs
    BY <1>1
  <2>2. CASE j = p
    <3>1. next'[j] = next[i] /\ last # p
      BY <1>1, <1>5, <1>7, <2>2 DEF ListShape
    <3> QED BY <1>6, <1>8, <2>2, <3>1
  <2>3. CASE j # p
    <3>1. next'[j] = next[j] /\ (next[j] = End <=> j = last)
      BY <1>1, <1>5, <1>7, <2>1, <2>3 DEF ListShape
    <3> QED BY <1>6, <2>1, <2>3, <3>1
  <2> QED BY <2>2, <2>3
<1>14. \A j, k \in mapped' : next'[j] = next'[k] => j = k
  BY <1>1, <1>5, <1>7, <1>8 DEF ListShape
<1>15. mapped' # {} /\ first' \in mapped' /\ last' \in mapped'
  BY <1>1, <1>2, <1>5, <1>6
<1> QED BY <1>10, <1>11, <1>12, <1>13, <1>14, <1>15 DEF ListShape

(* The mapping table keeps its shape as long as the emulator runs.            *)
THEOREM MappingTableShape == HostSpec => []ListShape
<1>1. HostInit => ListShape
  BY DEF HostInit, ListShape
<1>2. HostCore /\ ListShape /\ [HostNext]_hostVars => ListShape'
  <2> SUFFICES ASSUME HostCore, ListShape, [HostNext]_hostVars PROVE ListShape'
    OBVIOUS
  <2>1. ASSUME NEW i \in HostIrqs, hostirq_map(i) PROVE ListShape'
    BY <2>1, MapKeepsShape
  <2>2. ASSUME NEW i \in HostIrqs, hostirq_unmap(i) PROVE ListShape'
    BY <2>2, UnmapHeadKeepsShape, UnmapOtherKeepsShape
  <2>3. ASSUME host'.pc = "done" PROVE ListShape'
    BY <2>3 DEF ListShape
  <2>4. CASE hostirq_cleanup \/ cleanup_host_irqs
    BY <2>3, <2>4 DEF hostirq_cleanup, cleanup_host_irqs, HostCore, HostTypeOK
  <2>5. ASSUME UNCHANGED <<mapped, next, first, last>>, host'.pc # "done" => host.pc # "done"
        PROVE  ListShape'
    BY <2>5 DEF ListShape
  <2>6. CASE \E i \in HostIrqs : HandlerStep(i) \/ DeviceToggles(i)
    BY <2>5, <2>6 DEF HandlerStep, HandlerEnters, HandlerSets, HandlerCounts, HandlerFlags,
       DeviceToggles, shared, table
  <2>7. CASE MainStep \/ hostirq_check_irqs
    BY <2>5, <2>7 DEF MainStep, GetClears, GetCounts, GetEnables, UpdateEnters, UpdateWalks,
       hostirq_check_irqs, Goto, shared, table
  <2>8. CASE UNCHANGED hostVars
    BY <2>5, <2>8 DEF hostVars
  <2> QED BY <2>1, <2>2, <2>4, <2>6, <2>7, <2>8 DEF HostNext
<1> QED BY <1>1, <1>2, HostCoreHolds, PTL DEF HostSpec

(* No change of the active set is missed by the virtual lines                 *)
(* (LinesShowActive), although hostirq_update_irqs() reads the set while      *)
(* handlers change it: mainloop_interrupt() resets the request first.         *)
THEOREM LinesCorrect == HostSpec => []LinesShowActive
<1>1. HostInit => LinesFollow
  BY DEF HostInit, LinesFollow
<1>2. HostCore /\ ListShape /\ LinesFollow /\ [HostNext]_hostVars => LinesFollow'
  <2> SUFFICES ASSUME HostCore, ListShape, LinesFollow, [HostNext]_hostVars PROVE LinesFollow'
    OBVIOUS
  <2> USE HostIrqsAssumption DEF HostCore, HostTypeOK, End
  <2>1. ASSUME NEW i \in HostIrqs, HandlerEnters(i) PROVE LinesFollow'
    BY <2>1 DEF HandlerEnters, LinesFollow, shared, table
  <2>2. ASSUME NEW i \in HostIrqs, HandlerSets(i) PROVE LinesFollow'
    BY <2>2 DEF HandlerSets, LinesFollow, table
  <2>3. ASSUME NEW i \in HostIrqs, HandlerCounts(i) PROVE LinesFollow'
    BY <2>3 DEF HandlerCounts, LinesFollow, table
  <2>4. ASSUME NEW i \in HostIrqs, HandlerFlags(i) PROVE LinesFollow'
    BY <2>4 DEF HandlerFlags, LinesFollow, table
  <2>5. ASSUME NEW i \in HostIrqs, DeviceToggles(i) PROVE LinesFollow'
    BY <2>5 DEF DeviceToggles, LinesFollow, shared, table
  <2>6. ASSUME NEW i \in HostIrqs, hostirq_map(i) PROVE LinesFollow'
    BY <2>6 DEF hostirq_map, LinesFollow, Claims
  <2>7. ASSUME NEW i \in HostIrqs, hostirq_unmap(i) PROVE LinesFollow'
    BY <2>7 DEF hostirq_unmap, LinesFollow
  <2>8. CASE GetClears
    <3>1. host.pc = "get" /\ update' = 1 /\ mapped' = mapped /\ vmLine' = vmLine
      BY <2>8 DEF GetClears, Claims
    <3>2. host'.pc # "walk" /\ host'.todo = host.todo
      BY <2>8 DEF GetClears, Goto
    <3> QED BY <3>1, <3>2 DEF LinesFollow
  <2>9. CASE GetCounts \/ GetEnables \/ hostirq_check_irqs
    <3>1. update' = 1 /\ mapped' = mapped /\ vmLine' = vmLine
      BY <2>9 DEF GetCounts, GetEnables, hostirq_check_irqs, shared, Claims
    <3>2. host'.pc # "walk" /\ host'.todo = host.todo
      BY <2>9 DEF GetCounts, GetEnables, hostirq_check_irqs, Goto
    <3> QED BY <3>1, <3>2 DEF LinesFollow
  <2>10. CASE UpdateEnters
    <3>0. host.pc \in {"run", "poll"} /\ UNCHANGED <<handler, mapped, activeIrqs, next, vmLine>>
      BY <2>10 DEF UpdateEnters, table
    <3>1. host'.todo = host.todo
      BY <2>10 DEF UpdateEnters, Goto
    <3>2. CASE update = 1 /\ first # End
      <4>1. host'.pc = "walk" /\ host'.at = first
        BY <2>10, <3>2 DEF UpdateEnters, Goto
      <4>2. first \in mapped /\ \A i \in mapped : ReachedFrom(first, next, i)
        BY <3>0, <3>2 DEF ListShape
      <4> QED BY <3>0, <3>1, <4>1, <4>2 DEF LinesFollow
    <3>3. CASE first = End
      <4>1. host'.pc = "run" /\ mapped = {}
        BY <2>10, <3>3, <3>0 DEF UpdateEnters, Goto, ListShape
      <4> QED BY <3>0, <3>1, <4>1 DEF LinesFollow
    <3>4. CASE update # 1
      <4>1. host'.pc = "run"
        BY <2>10, <3>4 DEF UpdateEnters, Goto
      <4> QED BY <3>0, <3>1, <3>4, <4>1 DEF LinesFollow
    <3> QED BY <3>2, <3>3, <3>4
  <2>11. CASE UpdateWalks
    <3> DEFINE a == host.at
    <3>1. /\ host.pc = "walk" /\ a \in mapped
          /\ UNCHANGED <<handler, mapped, activeIrqs, next, update>>
          /\ vmLine' = [vmLine EXCEPT ![a] = IF a \in activeIrqs THEN 1 ELSE 0]
      BY <2>11 DEF UpdateWalks, LinesFollow, table, shared
    <3>2. /\ host'.todo = host.todo /\ host'.at = next[a]
          /\ host'.pc = (IF next[a] = End THEN "run" ELSE "walk")
      BY <2>11 DEF UpdateWalks, Goto
    <3>3. a \notin host.todo /\ next[a] \in mapped \cup {End}
      BY <3>1 DEF Claims, ListShape
    <3>4. ASSUME NEW i \in mapped, i # a, ReachedFrom(a, next, i)
          PROVE  next[a] # End /\ ReachedFrom(next[a], next, i)
      <4>1. ASSUME NEW S \in SUBSET HostIrqs, next[a] = End \/ next[a] \in S, Closed(S, next)
            PROVE  i \in S
        <5>1. S \cup {a} \in SUBSET HostIrqs /\ Closed(S \cup {a}, next)
          BY <3>1, <4>1 DEF Closed
        <5> QED BY <3>4, <5>1 DEF ReachedFrom
      <4>2. next[a] # End
        <5> SUFFICES ASSUME next[a] = End PROVE FALSE
          OBVIOUS
        <5>1. {} \in SUBSET HostIrqs /\ Closed({}, next)
          BY DEF Closed
        <5> QED BY <4>1, <5>1
      <4> QED BY <4>1, <4>2 DEF ReachedFrom
    <3>5. ASSUME NEW i \in mapped
          PROVE  \/ vmLine'[i] = IF i \in activeIrqs THEN 1 ELSE 0
                 \/ update = 1 \/ handler[i] \in {"inc", "flag"}
                 \/ next[a] # End /\ ReachedFrom(next[a], next, i)
      <4>1. CASE i = a
        BY <3>1, <4>1
      <4>2. CASE i # a
        <5>1. vmLine'[i] = vmLine[i]
          BY <3>1, <4>2
        <5>2. \/ vmLine[i] = IF i \in activeIrqs THEN 1 ELSE 0
              \/ update = 1 \/ handler[i] \in {"inc", "flag"}
              \/ ReachedFrom(a, next, i)
          BY <3>1 DEF LinesFollow
        <5> QED BY <3>4, <4>2, <5>1, <5>2
      <4> QED BY <4>1, <4>2
    <3>6. \A i \in host.todo : vmLine'[i] = 0
      BY <3>1, <3>3 DEF LinesFollow
    <3> HIDE DEF a
    <3> QED BY <3>1, <3>2, <3>3, <3>5, <3>6 DEF LinesFollow
  <2>12. CASE hostirq_cleanup \/ cleanup_host_irqs
    BY <2>12 DEF hostirq_cleanup, cleanup_host_irqs, LinesFollow
  <2>13. CASE UNCHANGED hostVars
    BY <2>13 DEF hostVars, LinesFollow
  <2> QED BY <2>1, <2>2, <2>3, <2>4, <2>5, <2>6, <2>7, <2>8, <2>9, <2>10, <2>11, <2>12, <2>13
          DEF HostNext, HandlerStep, MainStep
<1>3. HostCore /\ LinesFollow => LinesShowActive
  BY DEF HostCore, HostTypeOK, LinesFollow, LinesShowActive
<1> QED BY <1>1, <1>2, <1>3, HostCoreHolds, MappingTableShape, PTL DEF HostSpec

-----------------------------------------------------------------------------
(* The pool of threads.                                                      *)

(* Putting an element in front of a list, and taking the head off.            *)
Distinct(s) == \A k, l \in 1 .. Len(s) : s[k] = s[l] => k = l

LEMMA PushElems ==
  ASSUME NEW S, NEW s \in Seq(S), NEW r \in S
  PROVE  /\ <<r>> \o s \in Seq(S) /\ Len(<<r>> \o s) = Len(s) + 1
         /\ Elems(<<r>> \o s) = {r} \cup Elems(s)
         /\ Distinct(s) /\ r \notin Elems(s) => Distinct(<<r>> \o s)
<1>1. /\ <<r>> \o s \in Seq(S) /\ Len(<<r>> \o s) = Len(s) + 1 /\ Len(s) \in Nat
      /\ (<<r>> \o s)[1] = r /\ \A k \in 1 .. Len(s) : (<<r>> \o s)[k + 1] = s[k]
  OBVIOUS
<1> DEFINE t == <<r>> \o s
<1> HIDE DEF t
<1>2. Len(t) = Len(s) + 1 /\ t[1] = r /\ \A k \in 1 .. Len(s) : t[k + 1] = s[k]
  BY <1>1 DEF t
<1>3. \A k \in 1 .. Len(t) : k = 1 \/ (k - 1 \in 1 .. Len(s) /\ t[k] = s[k - 1])
  BY <1>1, <1>2
<1>4. Elems(t) = {r} \cup Elems(s)
  <2>1. Elems(t) \subseteq {r} \cup Elems(s)
    BY <1>2, <1>3 DEF Elems
  <2>2. r \in Elems(t)
    BY <1>1, <1>2 DEF Elems
  <2>3. ASSUME NEW k \in 1 .. Len(s) PROVE s[k] \in Elems(t)
    <3>1. k + 1 \in 1 .. Len(t) /\ t[k + 1] = s[k]
      BY <1>1, <1>2
    <3> QED BY <3>1 DEF Elems
  <2> QED BY <2>1, <2>2, <2>3 DEF Elems
<1>5. ASSUME Distinct(s), r \notin Elems(s) PROVE Distinct(t)
  <2> SUFFICES ASSUME NEW k \in 1 .. Len(t), NEW l \in 1 .. Len(t), t[k] = t[l] PROVE k = l
    BY DEF Distinct
  <2>1. CASE k = 1 /\ l = 1
    BY <2>1
  <2>2. CASE k = 1 /\ l # 1
    BY <1>2, <1>3, <1>5, <2>2 DEF Elems
  <2>3. CASE k # 1 /\ l = 1
    BY <1>2, <1>3, <1>5, <2>3 DEF Elems
  <2>4. CASE k # 1 /\ l # 1
    <3>1. k - 1 = l - 1
      BY <1>3, <1>5, <2>4 DEF Distinct
    <3> QED BY <3>1
  <2> QED BY <2>1, <2>2, <2>3, <2>4
<1> QED BY <1>1, <1>4, <1>5 DEF t

LEMMA PopElems ==
  ASSUME NEW S, NEW s \in Seq(S), s # <<>>
  PROVE  /\ Head(s) \in S /\ Tail(s) \in Seq(S) /\ Len(Tail(s)) = Len(s) - 1 /\ Len(s) > 0
         /\ Elems(s) = {Head(s)} \cup Elems(Tail(s))
         /\ Distinct(s) => Distinct(Tail(s)) /\ Head(s) \notin Elems(Tail(s))
<1> DEFINE t == Tail(s)
<1>1. /\ Head(s) = s[1] /\ Head(s) \in S /\ t \in Seq(S) /\ Len(t) = Len(s) - 1
      /\ \A k \in 1 .. Len(t) : t[k] = s[k + 1]
  BY HeadTailProperties
<1>2. Len(s) \in Nat /\ Len(s) > 0 /\ 1 \in 1 .. Len(s)
  OBVIOUS
<1> HIDE DEF t
<1>3. Elems(s) = {Head(s)} \cup Elems(t)
  <2>1. ASSUME NEW k \in 1 .. Len(s) PROVE s[k] \in {Head(s)} \cup Elems(t)
    <3>1. CASE k = 1
      BY <1>1, <3>1
    <3>2. CASE k # 1
      <4>1. k - 1 \in 1 .. Len(t) /\ (k - 1) + 1 = k
        BY <1>1, <1>2, <3>2
      <4>2. t[k - 1] = s[k]
        BY <1>1, <4>1
      <4> QED BY <4>1, <4>2 DEF Elems
    <3> QED BY <3>1, <3>2
  <2>2. Head(s) \in Elems(s)
    BY <1>1, <1>2 DEF Elems
  <2>3. ASSUME NEW k \in 1 .. Len(t) PROVE t[k] \in Elems(s)
    <3>1. k + 1 \in 1 .. Len(s) /\ t[k] = s[k + 1]
      BY <1>1, <1>2
    <3> QED BY <3>1 DEF Elems
  <2> QED BY <2>1, <2>2, <2>3 DEF Elems
<1>4. ASSUME Distinct(s) PROVE Distinct(t) /\ Head(s) \notin Elems(t)
  <2>1. ASSUME NEW k \in 1 .. Len(t), NEW l \in 1 .. Len(t), t[k] = t[l] PROVE k = l
    <3>1. k + 1 \in 1 .. Len(s) /\ l + 1 \in 1 .. Len(s) /\ s[k + 1] = s[l + 1]
      BY <1>1, <1>2, <2>1
    <3>2. k + 1 = l + 1
      BY <1>4, <3>1 DEF Distinct
    <3> QED BY <3>2
  <2>2. ASSUME NEW k \in 1 .. Len(t), t[k] = Head(s) PROVE FALSE
    <3>1. k + 1 \in 1 .. Len(s) /\ s[k + 1] = s[1] /\ k + 1 # 1
      BY <1>1, <1>2, <2>2
    <3> QED BY <1>2, <1>4, <3>1 DEF Distinct
  <2> QED BY <2>1, <2>2 DEF Distinct, Elems
<1> QED BY <1>1, <1>2, <1>3, <1>4 DEF t

(* The ones among the bytes in the pipe: writing a one, reading a byte, and   *)
(* writing zeros.                                                             *)
OnesAt(s) == {k \in 1 .. Len(s) : s[k] = 1}

LEMMA OnesFinite ==
  ASSUME NEW s \in Seq({0, 1})
  PROVE  IsFiniteSet(OnesAt(s)) /\ Cardinality(OnesAt(s)) \in Nat
<1>1. Len(s) \in Nat /\ OnesAt(s) \in SUBSET (1 .. Len(s))
  BY DEF OnesAt
<1>2. IsFiniteSet(1 .. Len(s))
  BY <1>1, FS_Interval
<1> QED BY <1>1, <1>2, FS_Subset, FS_CardinalityType

LEMMA OnesAppend ==
  ASSUME NEW s \in Seq({0, 1})
  PROVE  Append(s, 1) \in Seq({0, 1}) /\ Cardinality(OnesAt(Append(s, 1))) = Cardinality(OnesAt(s)) + 1
<1> DEFINE t == Append(s, 1)
           n == Len(s) + 1
<1>1. /\ t \in Seq({0, 1}) /\ Len(s) \in Nat /\ Len(t) = n /\ t[n] = 1
      /\ \A k \in 1 .. Len(s) : t[k] = s[k]
  OBVIOUS
<1> HIDE DEF t
<1>2. OnesAt(t) = OnesAt(s) \cup {n} /\ n \notin OnesAt(s)
  BY <1>1 DEF OnesAt
<1>3. Cardinality(OnesAt(s) \cup {n}) = Cardinality(OnesAt(s)) + 1
  BY <1>2, OnesFinite, FS_AddElement
<1> QED BY <1>1, <1>2, <1>3 DEF t

LEMMA OnesTail ==
  ASSUME NEW s \in Seq({0, 1}), s # <<>>
  PROVE  /\ Tail(s) \in Seq({0, 1}) /\ Head(s) \in {0, 1}
         /\ Cardinality(OnesAt(s)) = Cardinality(OnesAt(Tail(s))) + (IF Head(s) = 1 THEN 1 ELSE 0)
<1> DEFINE t == Tail(s)
           U == OnesAt(s) \ {1}
           f == [k \in OnesAt(t) |-> k + 1]
<1>1. /\ Head(s) = s[1] /\ Head(s) \in {0, 1} /\ t \in Seq({0, 1}) /\ Len(t) = Len(s) - 1
      /\ \A k \in 1 .. Len(t) : t[k] = s[k + 1]
  BY HeadTailProperties
<1>2. Len(s) \in Nat /\ Len(s) > 0 /\ 1 \in 1 .. Len(s)
  OBVIOUS
<1> HIDE DEF t
<1>3. f \in [OnesAt(t) -> U]
  <2> SUFFICES ASSUME NEW k \in OnesAt(t) PROVE k + 1 \in U
    OBVIOUS
  <2>1. k \in 1 .. Len(t) /\ t[k] = 1
    BY DEF OnesAt
  <2>2. k + 1 \in 1 .. Len(s) /\ s[k + 1] = 1 /\ k + 1 # 1
    BY <1>1, <1>2, <2>1
  <2> QED BY <2>2 DEF OnesAt
<1>4. \A k, l \in OnesAt(t) : f[k] = f[l] => k = l
  BY DEF OnesAt
<1>5. ASSUME NEW m \in U PROVE \E k \in OnesAt(t) : f[k] = m
  <2>1. m \in 1 .. Len(s) /\ s[m] = 1 /\ m # 1
    BY <1>5 DEF OnesAt
  <2>2. m - 1 \in 1 .. Len(t) /\ (m - 1) + 1 = m
    BY <1>1, <1>2, <2>1
  <2>3. t[m - 1] = 1
    BY <1>1, <2>1, <2>2
  <2>4. m - 1 \in OnesAt(t)
    BY <2>2, <2>3 DEF OnesAt
  <2> QED BY <2>2, <2>4
<1>6. f \in Bijection(OnesAt(t), U)
  <2> HIDE DEF f, U
  <2> QED BY <1>3, <1>4, <1>5 DEF Bijection, Injection, Surjection, IsInjective
<1>7. Cardinality(U) = Cardinality(OnesAt(t))
  <2> HIDE DEF f, U
  <2>1. ExistsBijection(OnesAt(t), U)
    BY <1>6 DEF ExistsBijection
  <2> QED BY <1>1, <2>1, OnesFinite, FS_Bijection
<1>8. Cardinality(U) = IF 1 \in OnesAt(s) THEN Cardinality(OnesAt(s)) - 1 ELSE Cardinality(OnesAt(s))
  BY OnesFinite, FS_RemoveElement
<1>9. 1 \in OnesAt(s) <=> Head(s) = 1
  BY <1>1, <1>2 DEF OnesAt
<1>10. Cardinality(OnesAt(s)) \in Nat /\ Cardinality(OnesAt(t)) \in Nat
  BY <1>1, OnesFinite
<1> HIDE DEF U
<1>11. Cardinality(OnesAt(s)) = Cardinality(OnesAt(t)) + (IF Head(s) = 1 THEN 1 ELSE 0)
  BY <1>7, <1>8, <1>9, <1>10
<1> QED BY <1>1, <1>11 DEF t

LEMMA OnesZeros ==
  ASSUME NEW s \in Seq({0, 1}), NEW n \in Nat
  PROVE  /\ s \o [k \in 1 .. n |-> 0] \in Seq({0, 1})
         /\ OnesAt(s \o [k \in 1 .. n |-> 0]) = OnesAt(s)
<1> DEFINE z == [k \in 1 .. n |-> 0]
           t == s \o z
<1>1. z \in Seq({0, 1}) /\ Len(z) = n /\ \A k \in 1 .. n : z[k] = 0
  OBVIOUS
<1> HIDE DEF z
<1>2. /\ t \in Seq({0, 1}) /\ Len(s) \in Nat /\ Len(t) = Len(s) + n
      /\ \A k \in 1 .. Len(t) : t[k] = IF k <= Len(s) THEN s[k] ELSE z[k - Len(s)]
  <2>1. t \in Seq({0, 1}) /\ Len(t) = Len(s) + Len(z) /\ Len(s) \in Nat
    BY <1>1
  <2>2. \A k \in 1 .. Len(s) + Len(z) : t[k] = IF k <= Len(s) THEN s[k] ELSE z[k - Len(s)]
    BY <1>1, ConcatProperties, Zenon
  <2> QED BY <1>1, <2>1, <2>2
<1> HIDE DEF t
<1>3. ASSUME NEW k \in 1 .. Len(t), k > Len(s) PROVE t[k] = 0
  BY <1>1, <1>2, <1>3
<1>4. ASSUME NEW k \in 1 .. Len(s) PROVE k \in 1 .. Len(t) /\ t[k] = s[k]
  BY <1>2
<1>5. OnesAt(t) = OnesAt(s)
  BY <1>2, <1>3, <1>4 DEF OnesAt
<1> QED BY <1>2, <1>5 DEF t, z

(* A record is in one place: once on one of the lists, or with one thread.    *)
Exclusive ==
    /\ Distinct(startList) /\ Distinct(freeList)
    /\ Elems(startList) \cap Elems(freeList) = {}
    /\ Elems(startList) \cup Elems(freeList) \subseteq 1 .. records
    /\ \A t \in Threads : worker[t].pc = "run" =>
          worker[t].rec \in (1 .. records) \ (Elems(startList) \cup Elems(freeList))
    /\ \A t, u \in Threads :
          worker[t].pc = "run" /\ worker[u].pc = "run" /\ worker[t].rec = worker[u].rec => t = u

(* The jobs on the start list are different ones that have not been run.      *)
FreshJobs ==
    /\ \A r \in Elems(startList) : func[r] \in 1 .. jobs /\ runs[func[r]] = 0
    /\ \A r, q \in Elems(startList) : func[r] = func[q] => r = q
    /\ \A j \in Jobs : runs[j] <= (IF j <= jobs THEN 1 ELSE 0)

PoolCore == PoolTypeOK /\ Exclusive /\ FreshJobs

(* Queueing a record that is in no other place.                               *)
LEMMA QueueKeeps ==
  ASSUME PoolCore, NEW c \in Callers, MayCreate(c), NEW r \in Recs, r \notin Elems(startList),
         Queue(c, r)
  PROVE  /\ startList' \in Seq(Recs) /\ Len(startList') = Len(startList) + 1
         /\ Elems(startList') = {r} \cup Elems(startList) /\ Distinct(startList')
         /\ func' \in [Recs -> Jobs \cup {NoJob}] /\ jobs' \in 0 .. MaxJobs
         /\ caller' \in [Callers -> BOOLEAN]
         /\ FreshJobs'
<1> USE PoolAssumption DEF PoolCore, PoolTypeOK
<1>1. startList' = <<r>> \o startList /\ func' = [func EXCEPT ![r] = jobs + 1] /\ jobs' = jobs + 1
      /\ caller' = [caller EXCEPT ![c] = TRUE] /\ runs' = runs /\ jobs < MaxJobs
  BY DEF Queue, MayCreate
<1>2. /\ startList' \in Seq(Recs) /\ Len(startList') = Len(startList) + 1
      /\ Elems(startList') = {r} \cup Elems(startList) /\ Distinct(startList')
  BY <1>1, PushElems DEF Exclusive
<1>3. jobs + 1 \in Jobs /\ jobs \in Nat
  BY <1>1 DEF Jobs
<1>4. func' \in [Recs -> Jobs \cup {NoJob}] /\ jobs' \in 0 .. MaxJobs /\ caller' \in [Callers -> BOOLEAN]
  BY <1>1, <1>3
<1>5. Elems(startList) \subseteq Recs
  BY DEF Elems
<1>6. \A q \in Elems(startList) : func'[q] = func[q] /\ func[q] \in 1 .. jobs /\ func[q] # jobs + 1
  BY <1>1, <1>3, <1>5 DEF FreshJobs
<1>7. func'[r] = jobs + 1 /\ runs[jobs + 1] = 0
  BY <1>1, <1>3 DEF FreshJobs, Jobs
<1>8. FreshJobs'
  <2>1. \A q \in Elems(startList') : func'[q] \in 1 .. jobs' /\ runs'[func'[q]] = 0
    <3> SUFFICES ASSUME NEW q \in Elems(startList') PROVE func'[q] \in 1 .. jobs' /\ runs'[func'[q]] = 0
      OBVIOUS
    <3>1. CASE q = r
      BY <1>1, <1>3, <1>7, <3>1
    <3>2. CASE q \in Elems(startList)
      BY <1>1, <1>3, <1>6, <3>2 DEF FreshJobs
    <3> QED BY <1>2, <3>1, <3>2
  <2>2. \A p, q \in Elems(startList') : func'[p] = func'[q] => p = q
    BY <1>2, <1>6, <1>7 DEF FreshJobs
  <2>3. \A j \in Jobs : runs'[j] <= (IF j <= jobs' THEN 1 ELSE 0)
    BY <1>1, <1>3 DEF FreshJobs, Jobs
  <2> QED BY <2>1, <2>2, <2>3 DEF FreshJobs
<1> QED BY <1>2, <1>4, <1>8

(* The places of the records and the state of the jobs are kept.              *)
THEOREM PoolCoreHolds == PoolSpec => []PoolCore
<1> USE PoolAssumption
<1>0. Cardinality(Threads) \in Nat
  BY FS_CardinalityType
<1>1. PoolInit => PoolCore
  <2> SUFFICES ASSUME PoolInit PROVE PoolCore
    OBVIOUS
  <2>1. Elems(<<>>) = {} /\ Distinct(<<>>)
    BY DEF Elems, Distinct
  <2>2. PoolTypeOK
    <3>1. <<>> \in Seq(Recs) /\ <<>> \in Seq({0, 1}) /\ 0 \in 0 .. Cardinality(Threads) /\ 0 \in 0 .. MaxJobs
      BY <1>0
    <3>2. [j \in Jobs |-> 0] \in [Jobs -> Nat] /\ [c \in Callers |-> FALSE] \in [Callers -> BOOLEAN]
      OBVIOUS
    <3>3. /\ [r \in Recs |-> NoJob] \in [Recs -> Jobs \cup {NoJob}]
          /\ [t \in Threads |-> [pc |-> "none", rec |-> NoRec]]
               \in [Threads -> [pc : {"none", "read", "pop", "run", "dead"}, rec : Recs \cup {NoRec}]]
      OBVIOUS
    <3> QED BY <3>1, <3>2, <3>3 DEF PoolInit, PoolTypeOK
  <2> QED BY <1>0, <2>1, <2>2 DEF PoolInit, PoolCore, Exclusive, FreshJobs, Jobs
<1>2. PoolCore /\ [PoolNext]_poolVars => PoolCore'
  <2> SUFFICES ASSUME PoolCore, [PoolNext]_poolVars PROVE PoolCore'
    OBVIOUS
  <2>0. PoolTypeOK /\ Exclusive /\ FreshJobs
    BY DEF PoolCore
  <2>1. ASSUME NEW c \in Callers, CreateNew(c) PROVE PoolCore'
    <3> DEFINE r == records + 1
    <3>1. /\ MayCreate(c) /\ records' = r /\ Queue(c, r) /\ freeList' = freeList
          /\ UNCHANGED <<bytes, runs, closing>> /\ r \in Recs /\ records \in Nat
      BY <1>0, <2>0, <2>1 DEF CreateNew, Queue, Recs, PoolTypeOK
    <3>2. r \notin Elems(startList) /\ 1 .. records \subseteq 1 .. r
      BY <2>0, <3>1 DEF Exclusive
    <3>3. PICK t \in Threads : worker[t].pc = "none" /\ worker' = [worker EXCEPT ![t].pc = "read"]
      BY <2>1 DEF CreateNew, In
    <3>4. /\ worker' \in [Threads -> [pc : {"none", "read", "pop", "run", "dead"}, rec : Recs \cup {NoRec}]]
          /\ \A u \in Threads : worker'[u].pc = "run" => worker[u].pc = "run" /\ worker'[u] = worker[u]
      BY <2>0, <3>3 DEF PoolTypeOK
    <3> HIDE DEF r
    <3>5. /\ startList' \in Seq(Recs) /\ Elems(startList') = {r} \cup Elems(startList) /\ Distinct(startList')
          /\ func' \in [Recs -> Jobs \cup {NoJob}] /\ jobs' \in 0 .. MaxJobs
          /\ caller' \in [Callers -> BOOLEAN] /\ FreshJobs'
      BY <3>1, <3>2, QueueKeeps
    <3>6. records' \in 0 .. Cardinality(Threads) /\ r \in 1 .. r /\ r \notin 1 .. records
      BY <1>0, <3>1 DEF r, Recs
    <3>7. PoolTypeOK'
      BY <2>0, <3>1, <3>4, <3>5, <3>6 DEF PoolTypeOK
    <3>8. Exclusive'
      BY <2>0, <3>1, <3>2, <3>4, <3>5, <3>6 DEF Exclusive
    <3> QED BY <3>5, <3>7, <3>8 DEF PoolCore
  <2>2. ASSUME NEW c \in Callers, CreateReuse(c) PROVE PoolCore'
    <3> DEFINE r == Head(freeList)
    <3>1. /\ MayCreate(c) /\ records' = records /\ Queue(c, r) /\ freeList' = Tail(freeList)
          /\ UNCHANGED <<bytes, runs, closing, worker>> /\ freeList # <<>>
      BY <2>2 DEF CreateReuse, Queue
    <3>2. /\ r \in Recs /\ freeList' \in Seq(Recs) /\ Elems(freeList) = {r} \cup Elems(freeList')
          /\ Distinct(freeList') /\ r \notin Elems(freeList')
      BY <2>0, <3>1, PopElems DEF PoolTypeOK, Exclusive
    <3>3. r \notin Elems(startList)
      BY <2>0, <3>2 DEF Exclusive
    <3> HIDE DEF r
    <3>4. /\ startList' \in Seq(Recs) /\ Elems(startList') = {r} \cup Elems(startList) /\ Distinct(startList')
          /\ func' \in [Recs -> Jobs \cup {NoJob}] /\ jobs' \in 0 .. MaxJobs
          /\ caller' \in [Callers -> BOOLEAN] /\ FreshJobs'
      BY <3>1, <3>2, <3>3, QueueKeeps
    <3>5. PoolTypeOK'
      BY <2>0, <3>1, <3>2, <3>4 DEF PoolTypeOK
    <3>6. Exclusive'
      BY <2>0, <3>1, <3>2, <3>4 DEF Exclusive
    <3> QED BY <3>4, <3>5, <3>6 DEF PoolCore
  <2>3. ASSUME NEW c \in Callers, CreateWrites(c) PROVE PoolCore'
    <3>1. PoolTypeOK'
      BY <2>0, <2>3, OnesAppend DEF PoolTypeOK, CreateWrites
    <3>2. Exclusive' /\ FreshJobs'
      BY <2>0, <2>3 DEF CreateWrites, Exclusive, FreshJobs
    <3> QED BY <3>1, <3>2 DEF PoolCore
  <2>4. ASSUME NEW t \in Threads, WorkerReads(t) PROVE PoolCore'
    <3>1. /\ bytes' \in Seq({0, 1})
          /\ \E pc \in {"dead", "pop"} : worker' = [worker EXCEPT ![t].pc = pc]
      BY <2>0, <2>4, OnesTail DEF PoolTypeOK, WorkerReads
    <3>2. /\ worker' \in [Threads -> [pc : {"none", "read", "pop", "run", "dead"}, rec : Recs \cup {NoRec}]]
          /\ \A u \in Threads : worker'[u].pc = "run" => worker[u].pc = "run" /\ worker'[u] = worker[u]
      BY <2>0, <3>1 DEF PoolTypeOK
    <3>3. UNCHANGED <<records, startList, freeList, func, jobs, runs, caller, closing>>
      BY <2>4 DEF WorkerReads
    <3>4. PoolTypeOK'
      BY <2>0, <3>1, <3>2, <3>3 DEF PoolTypeOK
    <3>5. Exclusive'
      BY <2>0, <3>2, <3>3 DEF Exclusive
    <3>6. FreshJobs'
      BY <2>0, <3>3 DEF FreshJobs
    <3> QED BY <3>4, <3>5, <3>6 DEF PoolCore
  <2>5. ASSUME NEW t \in Threads, WorkerPops(t) PROVE PoolCore'
    <3> DEFINE r == Head(startList)
    <3>1. /\ worker[t].pc = "pop" /\ startList # <<>> /\ startList' = Tail(startList)
          /\ worker' = [worker EXCEPT ![t] = [pc |-> "run", rec |-> r]]
          /\ runs' = [runs EXCEPT ![func[r]] = @ + 1]
          /\ UNCHANGED <<records, freeList, bytes, func, jobs, caller, closing>>
      BY <2>5 DEF WorkerPops
    <3>2. /\ r \in Recs /\ startList' \in Seq(Recs) /\ Elems(startList) = {r} \cup Elems(startList')
          /\ Distinct(startList') /\ r \notin Elems(startList')
      BY <2>0, <3>1, PopElems DEF PoolTypeOK, Exclusive
    <3> HIDE DEF r
    <3>3. /\ worker' \in [Threads -> [pc : {"none", "read", "pop", "run", "dead"}, rec : Recs \cup {NoRec}]]
          /\ worker'[t].pc = "run" /\ worker'[t].rec = r
          /\ \A u \in Threads : u # t => worker'[u] = worker[u]
      BY <2>0, <3>1, <3>2 DEF PoolTypeOK
    <3>4. /\ func[r] \in 1 .. jobs /\ runs[func[r]] = 0 /\ func[r] \in Jobs /\ jobs \in Nat
          /\ runs' \in [Jobs -> Nat] /\ runs'[func[r]] = 1
          /\ \A j \in Jobs : j # func[r] => runs'[j] = runs[j]
      BY <2>0, <3>1, <3>2 DEF PoolTypeOK, FreshJobs, Jobs
    <3>5. PoolTypeOK'
      BY <2>0, <3>1, <3>2, <3>3, <3>4 DEF PoolTypeOK
    <3>6. Exclusive'
      BY <2>0, <3>1, <3>2, <3>3 DEF Exclusive
    <3>7. FreshJobs'
      <4>1. \A q \in Elems(startList') : func[q] \in 1 .. jobs /\ func[q] \in Jobs /\ runs'[func[q]] = 0
        <5> SUFFICES ASSUME NEW q \in Elems(startList')
                     PROVE  func[q] \in 1 .. jobs /\ func[q] \in Jobs /\ runs'[func[q]] = 0
          OBVIOUS
        <5>1. q \in Elems(startList) /\ r \in Elems(startList) /\ q # r
          BY <3>2
        <5>2. func[q] \in 1 .. jobs /\ runs[func[q]] = 0 /\ func[q] # func[r]
          BY <2>0, <5>1 DEF FreshJobs
        <5>3. func[q] \in Jobs
          BY <2>0, <5>2 DEF PoolTypeOK, Jobs
        <5> QED BY <3>4, <5>2, <5>3
      <4>2. \A j \in Jobs : runs'[j] <= (IF j <= jobs THEN 1 ELSE 0)
        BY <2>0, <3>4 DEF FreshJobs
      <4> QED BY <2>0, <3>1, <3>2, <4>1, <4>2 DEF FreshJobs
    <3> QED BY <3>5, <3>6, <3>7 DEF PoolCore
  <2>6. ASSUME NEW t \in Threads, WorkerEnds(t) PROVE PoolCore'
    <3> DEFINE r == worker[t].rec
    <3>1. /\ worker[t].pc = "run" /\ freeList' = <<r>> \o freeList
          /\ worker' = [worker EXCEPT ![t] = [pc |-> "read", rec |-> NoRec]]
          /\ UNCHANGED <<records, startList, bytes, func, jobs, runs, caller, closing>>
      BY <2>6 DEF WorkerEnds
    <3>2. r \in (1 .. records) \ (Elems(startList) \cup Elems(freeList)) /\ r \in Recs
      BY <1>0, <2>0, <3>1 DEF Exclusive, PoolTypeOK, Recs
    <3>3. \A u \in Threads : u # t /\ worker[u].pc = "run" => worker[u].rec # r
      BY <2>0, <3>1 DEF Exclusive
    <3> HIDE DEF r
    <3>4. freeList' \in Seq(Recs) /\ Elems(freeList') = {r} \cup Elems(freeList) /\ Distinct(freeList')
      BY <2>0, <3>1, <3>2, PushElems DEF PoolTypeOK, Exclusive
    <3>5. /\ worker' \in [Threads -> [pc : {"none", "read", "pop", "run", "dead"}, rec : Recs \cup {NoRec}]]
          /\ worker'[t].pc = "read" /\ \A u \in Threads : u # t => worker'[u] = worker[u]
      BY <2>0, <3>1 DEF PoolTypeOK
    <3>6. PoolTypeOK'
      BY <2>0, <3>1, <3>4, <3>5 DEF PoolTypeOK
    <3>7. Exclusive'
      BY <2>0, <3>1, <3>2, <3>3, <3>4, <3>5 DEF Exclusive
    <3>8. FreshJobs'
      BY <2>0, <3>1 DEF FreshJobs
    <3> QED BY <3>6, <3>7, <3>8 DEF PoolCore
  <2>7. CASE threadpool_cleanup
    <3>1. PoolTypeOK'
      BY <1>0, <2>0, <2>7, OnesZeros DEF PoolTypeOK, threadpool_cleanup
    <3>2. Exclusive' /\ FreshJobs'
      BY <2>0, <2>7 DEF threadpool_cleanup, Exclusive, FreshJobs
    <3> QED BY <3>1, <3>2 DEF PoolCore
  <2>8. CASE UNCHANGED poolVars
    BY <2>0, <2>8 DEF poolVars, PoolCore, PoolTypeOK, Exclusive, FreshJobs
  <2> QED BY <2>1, <2>2, <2>3, <2>4, <2>5, <2>6, <2>7, <2>8 DEF PoolNext
<1> QED BY <1>1, <1>2, PTL DEF PoolSpec

(* PoolTypeOK holds in every reachable state: a record that is put back is a  *)
(* record.                                                                    *)
THEOREM PoolTypeCorrect == PoolSpec => []PoolTypeOK
BY PoolCoreHolds, PTL DEF PoolCore

(* No job is run twice or before create_thread() was called for it            *)
(* (RunAtMostOnce), although any thread may take any record.                  *)
THEOREM NoJobTwice == PoolSpec => []RunAtMostOnce
<1>1. PoolCore => RunAtMostOnce
  BY DEF PoolCore, FreshJobs, RunAtMostOnce
<1> QED BY <1>1, PoolCoreHolds, PTL

(* The sets of threads and of callers that the counts are about.              *)
LEMMA ThreadSets ==
  /\ \A pc : IsFiniteSet(In(pc)) /\ Cardinality(In(pc)) \in Nat
  /\ IsFiniteSet({c \in Callers : caller[c]}) /\ Cardinality({c \in Callers : caller[c]}) \in Nat
<1>1. \A pc : In(pc) \in SUBSET Threads
  BY DEF In
<1>2. {c \in Callers : caller[c]} \in SUBSET Callers
  OBVIOUS
<1> QED BY <1>1, <1>2, PoolAssumption, FS_Subset, FS_CardinalityType

(* A thread that goes from one point to another leaves the one set and joins  *)
(* the other.                                                                 *)
LEMMA ThreadMoves ==
  ASSUME NEW t \in Threads, NEW A, NEW B, PoolTypeOK, PoolTypeOK',
         worker[t].pc \in A \ B, worker'[t].pc \in B \ A,
         \A u \in Threads : u # t => worker'[u] = worker[u]
  PROVE  /\ Cardinality(In(A)') = Cardinality(In(A)) - 1
         /\ Cardinality(In(B)') = Cardinality(In(B)) + 1
         /\ In(A)' = In(A) \ {t} /\ t \in In(A) /\ In(B)' = In(B) \cup {t} /\ t \notin In(B)
<1>1. In(A)' = In(A) \ {t} /\ t \in In(A) /\ In(B)' = In(B) \cup {t} /\ t \notin In(B)
  BY DEF In
<1>2. Cardinality(In(A) \ {t}) = Cardinality(In(A)) - 1
  BY <1>1, ThreadSets, FS_RemoveElement
<1>3. Cardinality(In(B) \cup {t}) = Cardinality(In(B)) + 1
  BY <1>1, ThreadSets, FS_AddElement
<1> QED BY <1>1, <1>2, <1>3

(* Steps that move no thread into a set or out of it.                          *)
LEMMA ThreadStays ==
  ASSUME NEW A, \A u \in Threads : (worker'[u].pc \in A) = (worker[u].pc \in A)
  PROVE  In(A)' = In(A)
BY DEF In

(* Callers that still have to write their byte: one more, or one less.        *)
LEMMA CallerSets ==
  ASSUME NEW c \in Callers, PoolTypeOK
  PROVE  /\ ~caller[c] /\ caller' = [caller EXCEPT ![c] = TRUE] =>
              Cardinality({d \in Callers : caller'[d]}) = Cardinality({d \in Callers : caller[d]}) + 1
         /\ caller[c] /\ caller' = [caller EXCEPT ![c] = FALSE] =>
              Cardinality({d \in Callers : caller'[d]}) = Cardinality({d \in Callers : caller[d]}) - 1
<1> DEFINE D == {d \in Callers : caller[d]}
<1>0. IsFiniteSet(D)
  BY ThreadSets
<1>1. ASSUME ~caller[c], caller' = [caller EXCEPT ![c] = TRUE]
      PROVE  Cardinality({d \in Callers : caller'[d]}) = Cardinality(D) + 1
  <2>1. {d \in Callers : caller'[d]} = D \cup {c} /\ c \notin D
    BY <1>1 DEF PoolTypeOK
  <2> HIDE DEF D
  <2> QED BY <1>0, <2>1, FS_AddElement
<1>2. ASSUME caller[c], caller' = [caller EXCEPT ![c] = FALSE]
      PROVE  Cardinality({d \in Callers : caller'[d]}) = Cardinality(D) - 1
  <2>1. {d \in Callers : caller'[d]} = D \ {c} /\ c \in D
    BY <1>2 DEF PoolTypeOK
  <2> HIDE DEF D
  <2> QED BY <1>0, <2>1, FS_RemoveElement
<1> QED BY <1>1, <1>2

(* A thread that has read a byte finds a record on the start list             *)
(* (ByteHasRecord): thread_entry() takes the head without a test.             *)
THEOREM RecordForEveryByte == PoolSpec => []ByteHasRecord
<1> DEFINE P == Cardinality(In({"pop"}))
           C == Cardinality({c \in Callers : caller[c]})
           N == Cardinality(OnesAt(bytes))
           L == Len(startList)
<1>0. ByteHasRecord <=> L = N + P + C
  BY DEF ByteHasRecord, Ones, OnesAt
<1>1. PoolInit => ByteHasRecord
  <2> SUFFICES ASSUME PoolInit PROVE ByteHasRecord
    OBVIOUS
  <2>1. In({"pop"}) = {} /\ {c \in Callers : caller[c]} = {} /\ {k \in 1 .. Len(bytes) : bytes[k] = 1} = {}
    BY DEF PoolInit, In
  <2>2. Ones = 0 /\ Cardinality(In({"pop"})) = 0 /\ Cardinality({c \in Callers : caller[c]}) = 0
    BY <2>1, FS_EmptySet, Zenon DEF Ones
  <2> QED BY <2>2 DEF PoolInit, ByteHasRecord
<1>2. PoolCore /\ PoolCore' /\ ByteHasRecord /\ [PoolNext]_poolVars => ByteHasRecord'
  <2> SUFFICES ASSUME PoolCore, PoolCore', ByteHasRecord, [PoolNext]_poolVars PROVE ByteHasRecord'
    OBVIOUS
  <2>1. PoolTypeOK /\ PoolTypeOK' /\ L = N + P + C
    BY <1>0 DEF PoolCore
  <2>2. L \in Nat /\ N \in Nat /\ P \in Nat /\ C \in Nat
    BY <2>1, ThreadSets, OnesFinite DEF PoolTypeOK
  <2>3. L' = N' + P' + C' => ByteHasRecord'
    BY DEF ByteHasRecord, Ones, OnesAt
  <2>4. ASSUME UNCHANGED worker PROVE P' = P
    BY <2>4 DEF In
  <2>5. ASSUME NEW c \in Callers, NEW r, Queue(c, r), MayCreate(c), L' = L + 1, P' = P PROVE ByteHasRecord'
    <3>1. C' = C + 1
      BY <2>1, <2>5, CallerSets DEF Queue, MayCreate
    <3>2. N' = N
      BY <2>5 DEF Queue
    <3> HIDE DEF C, N, L, P
    <3> QED BY <2>1, <2>2, <2>3, <2>5, <3>1, <3>2
  <2>6. ASSUME NEW c \in Callers, CreateNew(c) PROVE ByteHasRecord'
    <3>1. MayCreate(c) /\ Queue(c, records + 1)
      BY <2>6 DEF CreateNew
    <3>2. records + 1 \in Recs /\ startList' = <<records + 1>> \o startList
      BY <2>1, <2>6, FS_CardinalityType, PoolAssumption DEF CreateNew, Queue, Recs, PoolTypeOK
    <3>3. L' = L + 1
      BY <2>1, <3>2, PushElems DEF PoolTypeOK
    <3>4. P' = P
      <4>1. PICK t \in Threads : worker[t].pc = "none" /\ worker' = [worker EXCEPT ![t].pc = "read"]
        BY <2>6 DEF CreateNew, In
      <4>2. In({"pop"})' = In({"pop"})
        BY <2>1, <4>1, ThreadStays DEF PoolTypeOK
      <4> QED BY <4>2
    <3> QED BY <2>5, <3>1, <3>3, <3>4
  <2>7. ASSUME NEW c \in Callers, CreateReuse(c) PROVE ByteHasRecord'
    <3>1. MayCreate(c) /\ Queue(c, Head(freeList)) /\ UNCHANGED worker /\ freeList # <<>>
      BY <2>7 DEF CreateReuse
    <3>2. Head(freeList) \in Recs /\ startList' = <<Head(freeList)>> \o startList
      BY <2>1, <3>1 DEF Queue, PoolTypeOK
    <3>3. L' = L + 1
      BY <2>1, <3>2, PushElems DEF PoolTypeOK
    <3> QED BY <2>4, <2>5, <3>1, <3>3
  <2>8. ASSUME NEW c \in Callers, CreateWrites(c) PROVE ByteHasRecord'
    <3>1. P' = P /\ L' = L
      BY <2>4, <2>8 DEF CreateWrites
    <3>2. C' = C - 1
      BY <2>1, <2>8, CallerSets DEF CreateWrites
    <3>3. N' = N + 1
      BY <2>1, <2>8, OnesAppend DEF CreateWrites, PoolTypeOK
    <3> HIDE DEF C, N, L, P
    <3> QED BY <2>1, <2>2, <2>3, <3>1, <3>2, <3>3
  <2>9. ASSUME NEW t \in Threads, WorkerReads(t) PROVE ByteHasRecord'
    <3>0. /\ worker[t].pc = "read" /\ bytes # <<>> /\ bytes' = Tail(bytes)
          /\ worker' = [worker EXCEPT ![t].pc = IF Head(bytes) = 0 THEN "dead" ELSE "pop"]
      BY <2>9 DEF WorkerReads
    <3>1. C' = C /\ L' = L
      BY <2>9 DEF WorkerReads
    <3>2. Head(bytes) \in {0, 1} /\ N = N' + (IF Head(bytes) = 1 THEN 1 ELSE 0) /\ N' \in Nat
      BY <2>1, <3>0, OnesTail, OnesFinite DEF PoolTypeOK
    <3>3. CASE Head(bytes) = 0
      <4>1. In({"pop"})' = In({"pop"})
        BY <2>1, <3>0, <3>3, ThreadStays DEF PoolTypeOK
      <4>2. P' = P
        BY <4>1
      <4> HIDE DEF C, N, L, P
      <4> QED BY <2>1, <2>2, <2>3, <3>1, <3>2, <3>3, <4>2
    <3>4. CASE Head(bytes) = 1
      <4>1. /\ worker[t].pc \in {"read"} \ {"pop"} /\ worker'[t].pc \in {"pop"} \ {"read"}
            /\ \A u \in Threads : u # t => worker'[u] = worker[u]
        BY <2>1, <3>0, <3>4 DEF PoolTypeOK
      <4>2. P' = P + 1
        BY <2>1, <4>1, ThreadMoves, Zenon
      <4> HIDE DEF C, N, L, P
      <4> QED BY <2>1, <2>2, <2>3, <3>1, <3>2, <3>4, <4>2
    <3> QED BY <3>2, <3>3, <3>4
  <2>10. ASSUME NEW t \in Threads, WorkerPops(t) PROVE ByteHasRecord'
    <3>1. C' = C /\ N' = N
      BY <2>10 DEF WorkerPops
    <3>2. L' = L - 1
      BY <2>1, <2>10, PopElems DEF WorkerPops, PoolTypeOK
    <3>3. /\ worker[t].pc \in {"pop"} \ {"run"} /\ worker'[t].pc \in {"run"} \ {"pop"}
          /\ \A u \in Threads : u # t => worker'[u] = worker[u]
      BY <2>1, <2>10 DEF WorkerPops, PoolTypeOK
    <3>4. P' = P - 1
      BY <2>1, <3>3, ThreadMoves, Zenon
    <3> HIDE DEF C, N, L, P
    <3> QED BY <2>1, <2>2, <2>3, <3>1, <3>2, <3>4
  <2>11. ASSUME NEW t \in Threads, WorkerEnds(t) PROVE ByteHasRecord'
    <3>1. C' = C /\ N' = N /\ L' = L
      BY <2>11 DEF WorkerEnds
    <3>2. In({"pop"})' = In({"pop"})
      BY <2>1, <2>11, ThreadStays DEF WorkerEnds, PoolTypeOK
    <3>3. P' = P
      BY <3>2
    <3> HIDE DEF C, N, L, P
    <3> QED BY <2>1, <2>3, <3>1, <3>3
  <2>12. CASE threadpool_cleanup
    <3>1. C' = C /\ L' = L /\ P' = P
      BY <2>4, <2>12 DEF threadpool_cleanup
    <3>2. N' = N
      <4>1. Cardinality(Threads) \in Nat
        BY PoolAssumption, FS_CardinalityType
      <4>2. OnesAt(bytes') = OnesAt(bytes)
        BY <2>1, <2>12, <4>1, OnesZeros DEF threadpool_cleanup, PoolTypeOK
      <4> QED BY <4>2
    <3> HIDE DEF C, N, L, P
    <3> QED BY <2>1, <2>3, <3>1, <3>2
  <2>13. CASE UNCHANGED poolVars
    BY <2>13 DEF poolVars, ByteHasRecord, Ones, In
  <2> QED BY <2>6, <2>7, <2>8, <2>9, <2>10, <2>11, <2>12, <2>13 DEF PoolNext
<1> QED BY <1>1, <1>2, PoolCoreHolds, PTL DEF PoolSpec

(* The records that the threads run.                                          *)
Held == {worker[t].rec : t \in In({"run"})}

(* Every record that was allocated is in one place (OneOwner): none is lost   *)
(* between the lists and the threads, whatever the order of their steps.      *)
THEOREM RecordsAccounted == PoolSpec => []OneOwner
<1> DEFINE L == Len(startList)
           F == Len(freeList)
           R == Cardinality(In({"run"}))
<1>0. OneOwner <=> L + F + R = records /\ Elems(startList) \cup Elems(freeList) \cup Held = 1 .. records
  BY DEF OneOwner, Held
<1>1. PoolInit => OneOwner
  <2> SUFFICES ASSUME PoolInit PROVE OneOwner
    OBVIOUS
  <2>1. In({"run"}) = {}
    BY DEF PoolInit, In
  <2>2. R = 0 /\ Held = {}
    BY <2>1, FS_EmptySet, Zenon DEF Held
  <2>3. L = 0 /\ F = 0 /\ records = 0 /\ Elems(startList) = {} /\ Elems(freeList) = {}
    BY DEF PoolInit, Elems
  <2> HIDE DEF L, F, R
  <2> QED BY <1>0, <2>2, <2>3
<1>2. PoolCore /\ PoolCore' /\ OneOwner /\ [PoolNext]_poolVars => OneOwner'
  <2> SUFFICES ASSUME PoolCore, PoolCore', OneOwner, [PoolNext]_poolVars PROVE OneOwner'
    OBVIOUS
  <2>1. /\ PoolTypeOK /\ PoolTypeOK' /\ Exclusive /\ L + F + R = records
        /\ Elems(startList) \cup Elems(freeList) \cup Held = 1 .. records
    BY <1>0 DEF PoolCore
  <2>2. L \in Nat /\ F \in Nat /\ R \in Nat /\ records \in Nat
    BY <2>1, ThreadSets, FS_CardinalityType, PoolAssumption DEF PoolTypeOK
  <2>3. L' + F' + R' = records' /\ Elems(startList') \cup Elems(freeList') \cup Held' = 1 .. records'
        => OneOwner'
    BY DEF OneOwner, Held
  <2>4. ASSUME NEW c \in Callers, CreateNew(c) PROVE OneOwner'
    <3>1. /\ records + 1 \in Recs /\ startList' = <<records + 1>> \o startList
          /\ freeList' = freeList /\ records' = records + 1
      BY <2>1, <2>4, FS_CardinalityType, PoolAssumption DEF CreateNew, Queue, Recs, PoolTypeOK
    <3>2. L' = L + 1 /\ Elems(startList') = {records + 1} \cup Elems(startList)
      BY <2>1, <3>1, PushElems DEF PoolTypeOK
    <3>3. PICK t \in Threads : worker[t].pc = "none" /\ worker' = [worker EXCEPT ![t].pc = "read"]
      BY <2>4 DEF CreateNew, In
    <3>4. In({"run"})' = In({"run"}) /\ \A u \in In({"run"}) : worker'[u] = worker[u]
      BY <2>1, <3>3 DEF PoolTypeOK, In
    <3>5. R' = R /\ Held' = Held
      BY <3>4 DEF Held
    <3>6. 1 .. (records + 1) = {records + 1} \cup (1 .. records)
      BY <2>2
    <3> HIDE DEF L, R
    <3>7. L' + F' + R' = records'
      BY <2>1, <2>2, <3>1, <3>2, <3>5
    <3>8. Elems(startList') \cup Elems(freeList') \cup Held' = 1 .. records'
      BY <2>1, <3>1, <3>2, <3>5, <3>6
    <3> QED BY <2>3, <3>7, <3>8
  <2>5. ASSUME NEW c \in Callers, CreateReuse(c) PROVE OneOwner'
    <3> DEFINE r == Head(freeList)
    <3>1. /\ startList' = <<r>> \o startList /\ freeList' = Tail(freeList) /\ records' = records
          /\ worker' = worker /\ freeList # <<>>
      BY <2>5 DEF CreateReuse, Queue
    <3>2. r \in Recs /\ F' = F - 1 /\ Elems(freeList) = {r} \cup Elems(freeList')
      BY <2>1, <3>1, PopElems DEF PoolTypeOK
    <3>3. L' = L + 1 /\ Elems(startList') = {r} \cup Elems(startList)
      BY <2>1, <3>1, <3>2, PushElems DEF PoolTypeOK
    <3>4. R' = R /\ Held' = Held
      BY <3>1 DEF In, Held
    <3> HIDE DEF L, F, R, r
    <3>5. L' + F' + R' = records'
      BY <2>1, <2>2, <3>1, <3>2, <3>3, <3>4
    <3>6. Elems(startList') \cup Elems(freeList') \cup Held' = 1 .. records'
      BY <2>1, <3>1, <3>2, <3>3, <3>4
    <3> QED BY <2>3, <3>5, <3>6
  <2>6. ASSUME NEW t \in Threads, WorkerPops(t) PROVE OneOwner'
    <3> DEFINE r == Head(startList)
    <3>1. /\ worker[t].pc = "pop" /\ startList' = Tail(startList) /\ freeList' = freeList
          /\ records' = records /\ startList # <<>>
          /\ worker' = [worker EXCEPT ![t] = [pc |-> "run", rec |-> r]]
      BY <2>6 DEF WorkerPops
    <3>2. L' = L - 1 /\ Elems(startList) = {r} \cup Elems(startList')
      BY <2>1, <3>1, PopElems DEF PoolTypeOK
    <3>3. /\ worker[t].pc \in {"pop"} \ {"run"} /\ worker'[t].pc \in {"run"} \ {"pop"}
          /\ worker'[t].rec = r /\ \A u \in Threads : u # t => worker'[u] = worker[u]
      BY <2>1, <3>1 DEF PoolTypeOK
    <3>4. R' = R + 1
      BY <2>1, <3>3, ThreadMoves, Zenon
    <3>5. In({"run"})' = In({"run"}) \cup {t} /\ t \notin In({"run"}) /\ In({"run"}) \subseteq Threads
      BY <3>3 DEF In
    <3> HIDE DEF r
    <3>6. Held' = Held \cup {r}
      BY <3>3, <3>5 DEF Held
    <3> HIDE DEF L, R
    <3>7. L' + F' + R' = records'
      BY <2>1, <2>2, <3>1, <3>2, <3>4
    <3>8. Elems(startList') \cup Elems(freeList') \cup Held' = 1 .. records'
      BY <2>1, <3>1, <3>2, <3>6
    <3> QED BY <2>3, <3>7, <3>8
  <2>7. ASSUME NEW t \in Threads, WorkerEnds(t) PROVE OneOwner'
    <3> DEFINE r == worker[t].rec
    <3>1. /\ worker[t].pc = "run" /\ freeList' = <<r>> \o freeList /\ startList' = startList
          /\ records' = records /\ worker' = [worker EXCEPT ![t] = [pc |-> "read", rec |-> NoRec]]
      BY <2>7 DEF WorkerEnds
    <3>2. r \in Recs
      <4>1. r \in 1 .. records /\ records <= Cardinality(Threads) /\ Cardinality(Threads) \in Nat
        BY <2>1, <3>1, FS_CardinalityType, PoolAssumption DEF Exclusive, PoolTypeOK
      <4> QED BY <2>2, <4>1 DEF Recs
    <3>3. F' = F + 1 /\ Elems(freeList') = {r} \cup Elems(freeList)
      BY <2>1, <3>1, <3>2, PushElems DEF PoolTypeOK
    <3>4. /\ worker[t].pc \in {"run"} \ {"read"} /\ worker'[t].pc \in {"read"} \ {"run"}
          /\ \A u \in Threads : u # t => worker'[u] = worker[u]
      BY <2>1, <3>1 DEF PoolTypeOK
    <3>5. R' = R - 1
      BY <2>1, <3>4, ThreadMoves, Zenon
    <3>6. In({"run"})' = In({"run"}) \ {t} /\ t \in In({"run"}) /\ In({"run"}) \subseteq Threads
      BY <3>4 DEF In
    <3>7. Held = Held' \cup {r}
      BY <3>4, <3>6 DEF Held
    <3> HIDE DEF L, F, R, r
    <3>8. L' + F' + R' = records'
      <4>1. L' = L
        BY <3>1 DEF L
      <4> QED BY <2>1, <2>2, <3>1, <3>3, <3>5, <4>1
    <3>9. Elems(startList') \cup Elems(freeList') \cup Held' = 1 .. records'
      BY <2>1, <3>1, <3>3, <3>7
    <3> QED BY <2>3, <3>8, <3>9
  <2>8. ASSUME UNCHANGED <<records, startList, freeList>>, In({"run"})' = In({"run"}),
               \A u \in In({"run"}) : worker'[u] = worker[u]
        PROVE  OneOwner'
    <3>1. Held' = Held /\ R' = R
      BY <2>8 DEF Held
    <3> QED BY <2>1, <2>3, <2>8, <3>1
  <2>9. ASSUME NEW t \in Threads, WorkerReads(t) PROVE OneOwner'
    <3>1. In({"run"})' = In({"run"}) /\ \A u \in In({"run"}) : worker'[u] = worker[u]
      BY <2>1, <2>9 DEF WorkerReads, PoolTypeOK, In
    <3> QED BY <2>8, <2>9, <3>1 DEF WorkerReads
  <2>10. CASE threadpool_cleanup \/ (\E c \in Callers : CreateWrites(c)) \/ UNCHANGED poolVars
    BY <2>8, <2>10 DEF threadpool_cleanup, CreateWrites, poolVars, In
  <2> QED BY <2>4, <2>5, <2>6, <2>7, <2>9, <2>10 DEF PoolNext
<1> QED BY <1>1, <1>2, PoolCoreHolds, PTL DEF PoolSpec

(* While the emulator runs no thread has ended, and there are as many threads *)
(* as records.                                                                *)
AllAlive ==
    ~closing => /\ \A k \in 1 .. Len(bytes) : bytes[k] = 1
                /\ \A t \in Threads : worker[t].pc # "dead"
                /\ Cardinality(In({"read", "pop", "run"})) = records

LEMMA OnlyOnes ==
  ASSUME NEW s \in Seq({0, 1}), \A k \in 1 .. Len(s) : s[k] = 1
  PROVE  /\ \A k \in 1 .. Len(Append(s, 1)) : Append(s, 1)[k] = 1
         /\ s # <<>> => Head(s) = 1 /\ \A k \in 1 .. Len(Tail(s)) : Tail(s)[k] = 1
<1>1. /\ Len(s) \in Nat /\ Len(Append(s, 1)) = Len(s) + 1 /\ Append(s, 1)[Len(s) + 1] = 1
      /\ \A k \in 1 .. Len(s) : Append(s, 1)[k] = s[k]
  OBVIOUS
<1>2. \A k \in 1 .. Len(Append(s, 1)) : Append(s, 1)[k] = 1
  <2> SUFFICES ASSUME NEW k \in 1 .. Len(s) + 1 PROVE Append(s, 1)[k] = 1
    BY <1>1
  <2> QED BY <1>1
<1>3. ASSUME s # <<>> PROVE Head(s) = 1 /\ \A k \in 1 .. Len(Tail(s)) : Tail(s)[k] = 1
  <2>1. Head(s) = s[1] /\ 1 \in 1 .. Len(s)
    BY <1>3
  <2>2. Len(Tail(s)) = Len(s) - 1 /\ \A k \in 1 .. Len(Tail(s)) : Tail(s)[k] = s[k + 1]
    BY <1>3, HeadTailProperties
  <2>3. ASSUME NEW k \in 1 .. Len(Tail(s)) PROVE Tail(s)[k] = 1
    <3>1. k + 1 \in 1 .. Len(s)
      BY <1>1, <2>2
    <3> QED BY <2>2, <3>1
  <2> QED BY <2>1, <2>3
<1> QED BY <1>2, <1>3

(* No job waits for another one to end (NoJobWaits): threads and records are  *)
(* not tied to each other, but there are always as many idle threads as       *)
(* records on the start list.                                                 *)
THEOREM ThreadForEveryJob == PoolSpec => []NoJobWaits
<1> DEFINE W == {"read", "pop", "run"}
<1>1. PoolInit => AllAlive
  <2> SUFFICES ASSUME PoolInit PROVE AllAlive
    OBVIOUS
  <2>1. In(W) = {}
    BY DEF PoolInit, In
  <2>2. Cardinality(In(W)) = 0
    BY <2>1, FS_EmptySet, Zenon
  <2> QED BY <2>2 DEF PoolInit, AllAlive
<1>2. PoolCore /\ PoolCore' /\ AllAlive /\ [PoolNext]_poolVars => AllAlive'
  <2> SUFFICES ASSUME PoolCore, PoolCore', AllAlive, ~closing', [PoolNext]_poolVars
               PROVE  /\ \A k \in 1 .. Len(bytes') : bytes'[k] = 1
                      /\ \A t \in Threads : worker'[t].pc # "dead"
                      /\ Cardinality(In(W)') = records'
    BY DEF AllAlive
  <2>1. PoolTypeOK /\ PoolTypeOK'
    BY DEF PoolCore
  <2>2. ~closing
    BY DEF PoolNext, CreateNew, CreateReuse, CreateWrites, WorkerReads, WorkerPops, WorkerEnds,
       threadpool_cleanup, Queue, poolVars
  <2>3. /\ \A k \in 1 .. Len(bytes) : bytes[k] = 1
        /\ \A t \in Threads : worker[t].pc # "dead"
        /\ Cardinality(In(W)) = records
    BY <2>2 DEF AllAlive
  <2>4. ASSUME NEW c \in Callers, CreateNew(c)
        PROVE  bytes' = bytes /\ (\A t \in Threads : worker'[t].pc # "dead") /\ Cardinality(In(W)') = records'
    <3>1. PICK t \in Threads : worker[t].pc = "none" /\ worker' = [worker EXCEPT ![t].pc = "read"]
      BY <2>4 DEF CreateNew, In
    <3>2. /\ worker[t].pc \in {"none"} \ W /\ worker'[t].pc \in W \ {"none"} /\ worker'[t].pc # "dead"
          /\ \A u \in Threads : u # t => worker'[u] = worker[u]
      BY <2>1, <3>1 DEF PoolTypeOK
    <3> HIDE DEF W
    <3>3. Cardinality(In(W)') = Cardinality(In(W)) + 1
      BY <2>1, <3>2, ThreadMoves, Zenon
    <3> QED BY <2>3, <2>4, <3>2, <3>3 DEF CreateNew, Queue
  <2>5. ASSUME NEW c \in Callers, CreateReuse(c) \/ CreateWrites(c)
        PROVE  worker' = worker /\ records' = records /\ \A k \in 1 .. Len(bytes') : bytes'[k] = 1
    <3>1. worker' = worker /\ records' = records /\ (bytes' = bytes \/ bytes' = Append(bytes, 1))
      BY <2>5 DEF CreateReuse, CreateWrites, Queue
    <3>2. bytes \in Seq({0, 1})
      BY <2>1 DEF PoolTypeOK
    <3> QED BY <2>3, <3>1, <3>2, OnlyOnes
  <2>6. ASSUME NEW t \in Threads, WorkerReads(t)
        PROVE  /\ \A k \in 1 .. Len(bytes') : bytes'[k] = 1
               /\ \A u \in Threads : worker'[u].pc # "dead"
               /\ \A u \in Threads : (worker'[u].pc \in W) = (worker[u].pc \in W)
               /\ records' = records
    <3>1. /\ worker[t].pc = "read" /\ bytes # <<>> /\ bytes' = Tail(bytes) /\ records' = records
          /\ worker' = [worker EXCEPT ![t].pc = IF Head(bytes) = 0 THEN "dead" ELSE "pop"]
      BY <2>6 DEF WorkerReads
    <3>2. bytes \in Seq({0, 1})
      BY <2>1 DEF PoolTypeOK
    <3>3. Head(bytes) = 1 /\ \A k \in 1 .. Len(bytes') : bytes'[k] = 1
      BY <2>3, <3>1, <3>2, OnlyOnes
    <3>4. worker'[t].pc = "pop" /\ \A u \in Threads : u # t => worker'[u] = worker[u]
      BY <2>1, <3>1, <3>3 DEF PoolTypeOK
    <3> QED BY <2>3, <3>1, <3>3, <3>4
  <2>7. ASSUME NEW t \in Threads, WorkerPops(t) \/ WorkerEnds(t)
        PROVE  /\ bytes' = bytes /\ records' = records
               /\ \A u \in Threads : worker'[u].pc # "dead"
               /\ \A u \in Threads : (worker'[u].pc \in W) = (worker[u].pc \in W)
    <3>1. /\ bytes' = bytes /\ records' = records /\ worker[t].pc \in {"pop", "run"}
          /\ \E w \in [pc : {"run", "read"}, rec : {Head(startList), NoRec}] :
                worker' = [worker EXCEPT ![t] = w]
      BY <2>7 DEF WorkerPops, WorkerEnds
    <3>2. worker'[t].pc \in {"run", "read"} /\ \A u \in Threads : u # t => worker'[u] = worker[u]
      BY <2>1, <3>1 DEF PoolTypeOK
    <3> QED BY <2>3, <3>1, <3>2
  <2>8. CASE UNCHANGED poolVars
    BY <2>3, <2>8 DEF poolVars, In
  <2>9. ASSUME \A u \in Threads : (worker'[u].pc \in W) = (worker[u].pc \in W), records' = records
        PROVE  Cardinality(In(W)') = records'
    BY <2>3, <2>9, ThreadStays
  <2>10. ~threadpool_cleanup
    BY DEF threadpool_cleanup
  <2> HIDE DEF W
  <2> QED BY <2>3, <2>4, <2>5, <2>6, <2>7, <2>8, <2>9, <2>10 DEF PoolNext
<1>3. PoolCore /\ OneOwner /\ AllAlive => NoJobWaits
  <2> SUFFICES ASSUME PoolCore, OneOwner, AllAlive, ~closing
               PROVE  Cardinality(In({"read", "pop"})) >= Len(startList)
    BY DEF NoJobWaits
  <2>1. In(W) = In({"read", "pop"}) \cup In({"run"}) /\ In({"read", "pop"}) \cap In({"run"}) = {}
    BY DEF In
  <2>2. Cardinality(In(W)) = Cardinality(In({"read", "pop"})) + Cardinality(In({"run"})) - Cardinality({})
    BY <2>1, ThreadSets, FS_Union
  <2>3. Len(startList) \in Nat /\ Len(freeList) \in Nat
    BY DEF PoolCore, PoolTypeOK
  <2>4. Cardinality(In(W)) = Len(startList) + Len(freeList) + Cardinality(In({"run"}))
    BY DEF AllAlive, OneOwner
  <2> QED BY <2>2, <2>3, <2>4, ThreadSets, FS_EmptySet
<1> QED BY <1>1, <1>2, <1>3, PoolCoreHolds, RecordsAccounted, PTL DEF PoolSpec

(* All together: list, active set, count, nesting of disabling and the virtual *)
(* lines agree (HostIrqsAccounted).                                            *)
THEOREM HostIrqsCorrect == HostSpec => []HostIrqsAccounted
BY HostTypeCorrect, MappingTableShape, NoIrqLost, CountCorrect, LinesCorrect, PTL
   DEF HostIrqsAccounted

(* All together: bytes, records, threads and jobs of the pool agree (PoolSafe). *)
THEOREM PoolCorrect == PoolSpec => []PoolSafe
BY PoolTypeCorrect, RecordForEveryByte, RecordsAccounted, ThreadForEveryJob, NoJobTwice, PTL
   DEF PoolSafe

-----------------------------------------------------------------------------
(* The Grand Central interrupt controller.                                   *)

(* The type invariant holds in every reachable state of the controller.     *)
THEOREM TypeCorrect == Spec => []TypeOK
<1>1. Init => TypeOK
  BY DEF Init, TypeOK, Registers, Sources, Cells, Inds
<1>2. TypeOK /\ [Next]_vars => TypeOK'
  <2> SUFFICES ASSUME TypeOK, [Next]_vars PROVE TypeOK'
    OBVIOUS
  <2> USE LineAssumption DEF TypeOK, Registers, Sources, Cells, Inds, NotRouted, IntLine
  <2>1. ASSUME NEW d \in Devices, source_register(d)
       PROVE  TypeOK'
    BY <2>1 DEF source_register
  <2>2. ASSUME NEW d \in Devices, source_hi(d)
       PROVE  TypeOK'
    BY <2>2 DEF source_hi, intline_upd
  <2>3. ASSUME NEW d \in Devices, source_low(d)
       PROVE  TypeOK'
    BY <2>3 DEF source_low, intline_upd
  <2>4. ASSUME NEW c \in Cells, NEW data \in SUBSET Bits, WriteEnable(c, data)
       PROVE  TypeOK'
    BY <2>4 DEF WriteEnable, intline_upd
  <2>5. ASSUME NEW c \in Cells, NEW data \in SUBSET Bits, WriteAck(c, data)
       PROVE  TypeOK'
    BY <2>5 DEF WriteAck, intline_upd
  <2>6. CASE UNCHANGED vars
    BY <2>6 DEF vars
  <2> QED
    BY <2>1, <2>2, <2>3, <2>4, <2>5, <2>6 DEF Next
<1> QED BY <1>1, <1>2, PTL DEF Spec

-----------------------------------------------------------------------------
(* For any devices and routing, a line is high exactly while one of its     *)
(* sharers drives it.                                                       *)
THEOREM LevelCorrect == Spec => []LevelIsSources
<1>1. Init => LevelIsSources
  BY DEF Init, LevelIsSources, Cells, Inds
<1>2. TypeOK /\ LevelIsSources /\ [Next]_vars => LevelIsSources'
  <2> SUFFICES ASSUME TypeOK, LevelIsSources, [Next]_vars PROVE LevelIsSources'
    OBVIOUS
  <2> USE LineAssumption DEF TypeOK, Registers, Sources, Cells, Inds, NotRouted, LevelIsSources
  <2>1. ASSUME NEW d \in Devices, source_register(d)
       PROVE  LevelIsSources'
    BY <2>1 DEF source_register
  <2>2. ASSUME NEW d \in Devices, source_hi(d)
       PROVE  LevelIsSources'
    BY <2>2 DEF source_hi, intline_upd
  <2>3. ASSUME NEW d \in Devices, source_low(d)
       PROVE  LevelIsSources'
    BY <2>3 DEF source_low, intline_upd
  <2>4. ASSUME NEW c \in Cells, NEW data \in SUBSET Bits, WriteEnable(c, data)
       PROVE  LevelIsSources'
    BY <2>4 DEF WriteEnable, intline_upd
  <2>5. ASSUME NEW c \in Cells, NEW data \in SUBSET Bits, WriteAck(c, data)
       PROVE  LevelIsSources'
    BY <2>5 DEF WriteAck, intline_upd
  <2>6. CASE UNCHANGED vars
    BY <2>6 DEF vars
  <2> QED
    BY <2>1, <2>2, <2>3, <2>4, <2>5, <2>6 DEF Next
<1> QED BY <1>1, <1>2, TypeCorrect, PTL DEF Spec

-----------------------------------------------------------------------------
(* For any devices and routing, pic.cpu_irq tells whether an enabled event  *)
(* is recorded.                                                             *)
THEOREM LineCorrect == Spec => []LineFollowsEvents
<1>1. Init => LineFollowsEvents
  BY DEF Init, LineFollowsEvents, IntLine, Cells
<1>2. TypeOK /\ LineFollowsEvents /\ [Next]_vars => LineFollowsEvents'
  <2> SUFFICES ASSUME TypeOK, LineFollowsEvents, [Next]_vars PROVE LineFollowsEvents'
    OBVIOUS
  <2> USE DEF LineFollowsEvents
  <2>1. ASSUME NEW d \in Devices, source_register(d)
       PROVE  LineFollowsEvents'
    BY <2>1 DEF source_register
  <2>2. ASSUME NEW d \in Devices, source_hi(d)
       PROVE  LineFollowsEvents'
    BY <2>2 DEF source_hi, intline_upd
  <2>3. ASSUME NEW d \in Devices, source_low(d)
       PROVE  LineFollowsEvents'
    BY <2>3 DEF source_low, intline_upd
  <2>4. ASSUME NEW c \in Cells, NEW data \in SUBSET Bits, WriteEnable(c, data)
       PROVE  LineFollowsEvents'
    BY <2>4 DEF WriteEnable, intline_upd
  <2>5. ASSUME NEW c \in Cells, NEW data \in SUBSET Bits, WriteAck(c, data)
       PROVE  LineFollowsEvents'
    BY <2>5 DEF WriteAck, intline_upd
  <2>6. CASE UNCHANGED vars
    BY <2>6 DEF vars
  <2> QED
    BY <2>1, <2>2, <2>3, <2>4, <2>5, <2>6 DEF Next
<1> QED BY <1>1, <1>2, TypeCorrect, PTL DEF Spec

-----------------------------------------------------------------------------
(* A routed device's bit is in use under its sharer number.                 *)
RoutedInUse == \A d \in Devices :
    ind[d] # NotRouted => BitOf[d] \in in_use[CellOf[d]][ind[d]]

(* In the newworld setting, devices that share an irq are different         *)
(* sources, so that an irq has at most two.                                 *)
THEOREM NewworldSources == Spec => []NewworldSharing
<1> DEFINE Inv == RoutedInUse /\ NewworldSharing
<1>1. Init => Inv
  BY DEF Init, RoutedInUse, NewworldSharing, AtMostTwoSources
<1>2. TypeOK /\ Inv /\ [Next]_vars => Inv'
  <2> SUFFICES ASSUME TypeOK, Inv, [Next]_vars PROVE Inv'
    OBVIOUS
  <2> USE LineAssumption DEF TypeOK, Registers, Sources, Cells, Inds, NotRouted, RoutedInUse,
          NewworldSharing, AtMostTwoSources
  <2>1. ASSUME NEW d \in Devices, source_register(d)
       PROVE  Inv'
    BY <2>1 DEF source_register
  <2>2. ASSUME NEW d \in Devices, source_hi(d)
       PROVE  Inv'
    BY <2>2 DEF source_hi, intline_upd
  <2>3. ASSUME NEW d \in Devices, source_low(d)
       PROVE  Inv'
    BY <2>3 DEF source_low, intline_upd
  <2>4. ASSUME NEW c \in Cells, NEW data \in SUBSET Bits, WriteEnable(c, data)
       PROVE  Inv'
    BY <2>4 DEF WriteEnable, intline_upd
  <2>5. ASSUME NEW c \in Cells, NEW data \in SUBSET Bits, WriteAck(c, data)
       PROVE  Inv'
    BY <2>5 DEF WriteAck, intline_upd
  <2>6. CASE UNCHANGED vars
    BY <2>6 DEF vars
  <2> QED
    BY <2>1, <2>2, <2>3, <2>4, <2>5, <2>6 DEF Next
<1> QED BY <1>1, <1>2, TypeCorrect, PTL DEF Spec

-----------------------------------------------------------------------------
(* In the newworld setting a step that ends what a device drives is that    *)
(* device's source_low(), which leaves what every other device drives as it *)
(* is; no register write of the guest and no routing does it.               *)
THEOREM OwnerLowers == Spec => OnlyOwnerLowers
<1> DEFINE Low == \A d \in Devices : oldworld = 0 /\ Drives(d) /\ ~Drives(d)'
                     => enable' = enable /\ \A e \in Devices \ {d} : Drives(e)' = Drives(e)
<1>1. TypeOK /\ NewworldSharing /\ [Next]_vars => [Low]_vars
  <2> SUFFICES ASSUME TypeOK, NewworldSharing, Next PROVE Low
    BY DEF vars
  <2> USE LineAssumption DEF TypeOK, Sources, Cells, Inds, NotRouted, Drives
  <2>1. ASSUME NEW d \in Devices, source_register(d)
       PROVE  Low
    <3>1. src' = src /\ \A e \in Devices : ind[e] # NotRouted => ind'[e] = ind[e]
      BY <2>1 DEF source_register
    <3> QED BY <3>1
  <2>2. ASSUME NEW d \in Devices, source_hi(d)
       PROVE  Low
    <3>1. ind' = ind /\ \A c \in Cells, i \in Inds : src[c][i] \subseteq src'[c][i]
      BY <2>2 DEF source_hi
    <3> QED BY <3>1
  <2>3. ASSUME NEW d \in Devices, source_low(d)
       PROVE  Low
    <3>1. ind' = ind /\ enable' = enable
      BY <2>3 DEF source_low
    <3>2. ASSUME NEW e \in Devices, e # d, oldworld = 0
         PROVE  Drives(e)' = Drives(e)
      <4>1. CASE ind[e] = NotRouted
        BY <3>1, <4>1
      <4>2. CASE /\ ind[e] # NotRouted
                 /\ CellOf[e] = CellOf[d] /\ ind[e] = ind[d]
        <5>1. BitOf[e] # BitOf[d]
          BY <2>3, <3>2, <4>2 DEF source_low, NewworldSharing, AtMostTwoSources
        <5>2. src'[CellOf[e]][ind[e]] = src[CellOf[e]][ind[e]] \ {BitOf[d]}
          BY <2>3, <4>2 DEF source_low
        <5> QED BY <3>1, <5>1, <5>2
      <4>3. CASE /\ ind[e] # NotRouted
                 /\ CellOf[e] # CellOf[d] \/ ind[e] # ind[d]
        <5>1. src'[CellOf[e]][ind[e]] = src[CellOf[e]][ind[e]]
          BY <2>3, <4>3 DEF source_low
        <5> QED BY <3>1, <5>1
      <4> QED BY <4>1, <4>2, <4>3
    <3>3. \A x \in Devices : oldworld = 0 /\ Drives(x) /\ ~Drives(x)' => x = d
      BY <3>2
    <3> QED BY <3>1, <3>2, <3>3
  <2>4. ASSUME NEW c \in Cells, NEW data \in SUBSET Bits, WriteEnable(c, data)
       PROVE  Low
    BY <2>4 DEF WriteEnable
  <2>5. ASSUME NEW c \in Cells, NEW data \in SUBSET Bits, WriteAck(c, data)
       PROVE  Low
    BY <2>5 DEF WriteAck
  <2> QED
    BY <2>1, <2>2, <2>3, <2>4, <2>5 DEF Next
<1> QED BY <1>1, TypeCorrect, NewworldSources, PTL DEF Spec, OnlyOwnerLowers

(* All together: levels, sharers and the processor's line agree (SharersSafe). *)
THEOREM SharersCorrect == Spec => []SharersSafe
BY TypeCorrect, LevelCorrect, LineCorrect, NewworldSources, PTL DEF SharersSafe

-----------------------------------------------------------------------------
(* The ring based network device.                                            *)

(* The receive ring: slots from the guest's index on hold the packets it has *)
(* not taken, and rx_tail is the slot behind the last of them.               *)
RxRing(ring, tail, placed, head, got) ==
    /\ got <= placed /\ placed <= got + EnetSlots
    /\ tail = (head + (placed - got)) % EnetSlots
    /\ \A k \in ESlots : LET p == ring[(head + k) % EnetSlots]
                         IN IF k < placed - got THEN p = got + k + 1 ELSE p <= 0

(* The transmit ring: n packets from tx_head on.                             *)
Busy(ring) == {j \in ESlots : ring[j] # "free"}
TxRing(ring, head, n) ==
    /\ Cardinality(Busy(ring)) = n
    /\ \A i \in ESlots : ring[i] # "free" <=> (i - head) % EnetSlots < n

EnetInv ==
    /\ EnetTypeOK
    /\ eRun = 1 => eDrv.up
    /\ eDrv.up => RxRing(rx, rxTail, eDrv.placed, eDrv.head, eDrv.got)
    /\ eDrv.up => \E n \in 0 .. EnetSlots :
          TxRing(tx, txHead, n) /\ eDrv.tail = (txHead + n) % EnetSlots
    /\ eDrv.up /\ eRun = 1 /\ eDrv.queued = 0 => \A i \in ESlots : tx[i] = "free"
    /\ eRun = 1 /\ eDrv.pc = "run" => eIrqOn = 1
    /\ NoStrandedPacket

(* A set of naturals has a least element.                                    *)
LEMMA LeastNatural ==
  ASSUME NEW T, T \subseteq Nat, T # {}
  PROVE  \E x \in T : \A y \in T : x <= y
<1> DEFINE D == {0 .. x : x \in T}
<1>1. D \subseteq FiniteSubsetsOf(Nat)
  <2> SUFFICES ASSUME NEW x \in T PROVE 0 .. x \in FiniteSubsetsOf(Nat)
    OBVIOUS
  <2>1. x \in Nat /\ 0 .. x \subseteq Nat
    OBVIOUS
  <2> QED BY <2>1, FS_Interval DEF FiniteSubsetsOf
<1>2. D # {}
  OBVIOUS
<1>3. IsWellFoundedOn(StrictSubsetOrdering(Nat), FiniteSubsetsOf(Nat))
  BY FS_StrictSubsetOrderingWellFounded
<1>4. PICK d \in D : \A e \in D : <<e, d>> \notin StrictSubsetOrdering(Nat)
  BY <1>1, <1>2, <1>3, WFMin, Zenon
<1>5. PICK x \in T : d = 0 .. x
  OBVIOUS
<1>6. ASSUME NEW y \in T, y < x PROVE FALSE
  <2>1. 0 .. y \in D /\ 0 .. y \subseteq 0 .. x /\ 0 .. y # 0 .. x /\ 0 .. x \subseteq Nat
    BY <1>6
  <2> QED BY <1>4, <1>5, <2>1 DEF StrictSubsetOrdering
<1> QED BY <1>6

(* The arithmetic of the rings.                                              *)
LEMMA RingSteps ==
  /\ \A a \in ESlots, k \in 0 .. EnetSlots :
        /\ (a + k) % EnetSlots = IF a + k < EnetSlots THEN a + k ELSE a + k - EnetSlots
        /\ (a + k) % EnetSlots \in ESlots
  /\ \A a, b \in ESlots : /\ (b - a) % EnetSlots = IF a <= b THEN b - a ELSE b - a + EnetSlots
                          /\ (b - a) % EnetSlots \in ESlots
  /\ \A a \in ESlots : After(a) \in ESlots /\ After(a) = IF a + 1 < EnetSlots THEN a + 1 ELSE 0
  /\ \A a \in ESlots : /\ (a + 0) % EnetSlots = a /\ (a + EnetSlots) % EnetSlots = a
                        /\ (a - a) % EnetSlots = 0
  /\ 0 \in ESlots
<1> USE EnetAssumption DEF ESlots
<1>1. ASSUME NEW a \in ESlots, NEW k \in 0 .. EnetSlots
      PROVE  /\ (a + k) % EnetSlots = IF a + k < EnetSlots THEN a + k ELSE a + k - EnetSlots
             /\ (a + k) % EnetSlots \in ESlots
  <2>1. CASE a + k < EnetSlots
    BY <2>1
  <2>2. CASE ~(a + k < EnetSlots)
    BY <2>2
  <2> QED BY <2>1, <2>2
<1>2. ASSUME NEW a \in ESlots, NEW b \in ESlots
      PROVE  /\ (b - a) % EnetSlots = IF a <= b THEN b - a ELSE b - a + EnetSlots
             /\ (b - a) % EnetSlots \in ESlots
  <2>1. CASE a <= b
    BY <2>1
  <2>2. CASE ~(a <= b)
    BY <2>2
  <2> QED BY <2>1, <2>2
<1>3. ASSUME NEW a \in ESlots
      PROVE  After(a) \in ESlots /\ After(a) = IF a + 1 < EnetSlots THEN a + 1 ELSE 0
  <2>1. 1 \in 0 .. EnetSlots
    OBVIOUS
  <2>2. /\ (a + 1) % EnetSlots = IF a + 1 < EnetSlots THEN a + 1 ELSE a + 1 - EnetSlots
        /\ (a + 1) % EnetSlots \in ESlots
    BY <1>1, <2>1
  <2> QED BY <2>2 DEF After
<1>4. ASSUME NEW a \in ESlots
      PROVE  (a + 0) % EnetSlots = a /\ (a + EnetSlots) % EnetSlots = a /\ (a - a) % EnetSlots = 0
  <2>1. 0 \in 0 .. EnetSlots /\ EnetSlots \in 0 .. EnetSlots
    OBVIOUS
  <2>2. (a + 0) % EnetSlots = a
    <3>1. (a + 0) % EnetSlots = IF a + 0 < EnetSlots THEN a + 0 ELSE a + 0 - EnetSlots
      BY <1>1, <2>1
    <3>2. a + 0 = a /\ a < EnetSlots
      OBVIOUS
    <3> QED BY <3>1, <3>2
  <2>3. (a + EnetSlots) % EnetSlots = a
    <3>1. (a + EnetSlots) % EnetSlots
            = IF a + EnetSlots < EnetSlots THEN a + EnetSlots ELSE a + EnetSlots - EnetSlots
      BY <1>1, <2>1
    <3>2. a + EnetSlots - EnetSlots = a /\ ~(a + EnetSlots < EnetSlots)
      OBVIOUS
    <3> QED BY <3>1, <3>2
  <2>4. (a - a) % EnetSlots = 0
    BY <1>2
  <2> QED BY <2>2, <2>3, <2>4
<1> QED BY <1>1, <1>2, <1>3, <1>4

LEMMA RingOffset ==
  \A h \in ESlots, c \in 0 .. EnetSlots, k \in ESlots :
      (((h + k) % EnetSlots) - ((h + c) % EnetSlots)) % EnetSlots
          = IF c <= k THEN k - c ELSE k - c + EnetSlots
<1> SUFFICES ASSUME NEW h \in ESlots, NEW c \in 0 .. EnetSlots, NEW k \in ESlots
             PROVE  (((h + k) % EnetSlots) - ((h + c) % EnetSlots)) % EnetSlots
                       = IF c <= k THEN k - c ELSE k - c + EnetSlots
  OBVIOUS
<1> DEFINE u == (h + k) % EnetSlots
           t == (h + c) % EnetSlots
<1>0. EnetSlots \in Nat /\ h \in 0 .. EnetSlots - 1 /\ k \in 0 .. EnetSlots - 1 /\ k \in 0 .. EnetSlots
  BY EnetAssumption DEF ESlots
<1>1. t \in ESlots /\ t = IF h + c < EnetSlots THEN h + c ELSE h + c - EnetSlots
  BY RingSteps
<1>2. u \in ESlots /\ u = IF h + k < EnetSlots THEN h + k ELSE h + k - EnetSlots
  BY <1>0, RingSteps
<1> HIDE DEF u, t
<1>3. (u - t) % EnetSlots = IF t <= u THEN u - t ELSE u - t + EnetSlots
  BY <1>1, <1>2, RingSteps
<1>4. CASE c <= k
  <2>1. t <= u => u - t = k - c
    BY <1>0, <1>1, <1>2, <1>4
  <2>2. ~(t <= u) => u - t + EnetSlots = k - c
    BY <1>0, <1>1, <1>2, <1>4
  <2> QED BY <1>3, <1>4, <2>1, <2>2 DEF u, t
<1>5. CASE ~(c <= k)
  <2>1. t <= u => u - t = k - c + EnetSlots
    BY <1>0, <1>1, <1>2, <1>5
  <2>2. ~(t <= u) => u - t + EnetSlots = k - c + EnetSlots
    BY <1>0, <1>1, <1>2, <1>5
  <2> QED BY <1>3, <1>5, <2>1, <2>2 DEF u, t
<1> QED BY <1>4, <1>5

(* m packets are put behind the last.                                        *)
LEMMA PutPackets ==
  ASSUME NEW r1 \in [ESlots -> Nat \cup {Bad}], NEW r2 \in [ESlots -> Nat \cup {Bad}],
         NEW t \in ESlots, NEW p \in Nat, NEW h \in ESlots, NEW g \in Nat, NEW m \in Nat,
         RxRing(r1, t, p, h, g), (p - g) + m <= EnetSlots,
         \A i \in ESlots : r2[i] = IF (i - t) % EnetSlots < m THEN p + ((i - t) % EnetSlots) + 1 ELSE r1[i]
  PROVE  RxRing(r2, (t + m) % EnetSlots, p + m, h, g)
<1> DEFINE c == p - g
<1>0. /\ EnetSlots \in Nat /\ c \in 0 .. EnetSlots /\ c + m \in 0 .. EnetSlots /\ m \in 0 .. EnetSlots
      /\ p = g + c /\ t = (h + c) % EnetSlots /\ h \in 0 .. EnetSlots - 1
  BY EnetAssumption DEF RxRing, ESlots
<1>1. \A k \in ESlots : IF k < c THEN r1[(h + k) % EnetSlots] = g + k + 1
                                 ELSE r1[(h + k) % EnetSlots] <= 0
  BY DEF RxRing
<1> HIDE DEF c
<1>2. (t + m) % EnetSlots = (h + (c + m)) % EnetSlots
  <2>1. t = IF h + c < EnetSlots THEN h + c ELSE h + c - EnetSlots
    BY <1>0, RingSteps
  <2>2. (t + m) % EnetSlots = IF t + m < EnetSlots THEN t + m ELSE t + m - EnetSlots
    BY <1>0, RingSteps
  <2>3. (h + (c + m)) % EnetSlots = IF h + (c + m) < EnetSlots THEN h + (c + m) ELSE h + (c + m) - EnetSlots
    BY <1>0, RingSteps
  <2> HIDE DEF RxRing
  <2> QED BY <1>0, <2>1, <2>2, <2>3
<1>3. ASSUME NEW k \in ESlots
      PROVE  IF k < c + m THEN r2[(h + k) % EnetSlots] = g + k + 1 ELSE r2[(h + k) % EnetSlots] <= 0
  <2> DEFINE i == (h + k) % EnetSlots
             d == (i - t) % EnetSlots
  <2>1. k \in 0 .. EnetSlots - 1
    BY DEF ESlots
  <2>2. i \in ESlots
    BY <1>0, <2>1, RingSteps
  <2>3. d = IF c <= k THEN k - c ELSE k - c + EnetSlots
    BY <1>0, RingOffset
  <2>4. r2[i] = IF d < m THEN p + d + 1 ELSE r1[i]
    BY <2>2
  <2>5. IF k < c THEN r1[i] = g + k + 1 ELSE r1[i] <= 0
    BY <1>1
  <2> HIDE DEF i, d
  <2>6. IF k < c + m THEN r2[i] = g + k + 1 ELSE r2[i] <= 0
    <3>1. CASE k < c
      BY <3>1, <1>0, <2>1, <2>3, <2>4, <2>5
    <3>2. CASE c <= k /\ k < c + m
      BY <3>2, <1>0, <2>1, <2>3, <2>4
    <3>3. CASE c + m <= k
      BY <3>3, <1>0, <2>1, <2>3, <2>4, <2>5
    <3> QED BY <3>1, <3>2, <3>3, <1>0, <2>1
  <2> QED BY <2>6 DEF i
<1>4. (p + m) - g = c + m /\ g <= p + m /\ p + m <= g + EnetSlots
  BY <1>0
<1> QED BY <1>2, <1>3, <1>4 DEF RxRing

(* The guest takes the packet at its index.                                  *)
LEMMA TakeOne ==
  ASSUME NEW r1 \in [ESlots -> Nat \cup {Bad}], NEW t \in ESlots, NEW p \in Nat, NEW h \in ESlots,
         NEW g \in Nat, RxRing(r1, t, p, h, g), r1[h] > 0, NEW x \in {0, Bad}
  PROVE  RxRing([r1 EXCEPT ![h] = x], t, p, After(h), g + 1)
<1> DEFINE c == p - g
           r2 == [r1 EXCEPT ![h] = x]
           q == After(h)
<1>0. /\ EnetSlots \in Nat /\ EnetSlots > 0 /\ c \in 0 .. EnetSlots
      /\ p = g + c /\ t = (h + c) % EnetSlots /\ h \in 0 .. EnetSlots - 1
  BY EnetAssumption DEF RxRing, ESlots
<1>1. \A k \in ESlots : IF k < c THEN r1[(h + k) % EnetSlots] = g + k + 1
                                 ELSE r1[(h + k) % EnetSlots] <= 0
  BY DEF RxRing
<1>2. q \in ESlots /\ q = IF h + 1 < EnetSlots THEN h + 1 ELSE 0
  BY RingSteps
<1>3. r2[h] <= 0 /\ \A i \in ESlots : i # h => r2[i] = r1[i]
  BY DEF Bad
<1> HIDE DEF c, r2, q
<1>4. c > 0
  <2>1. 0 \in ESlots /\ (h + 0) % EnetSlots = h
    BY <1>0, RingSteps
  <2>2. 0 < c \/ r1[h] <= 0
    BY <1>1, <2>1
  <2>3. r1[h] \in Int
    BY DEF Bad
  <2> QED BY <1>0, <2>2, <2>3
<1>5. t = (q + (c - 1)) % EnetSlots
  <2>1. t = IF h + c < EnetSlots THEN h + c ELSE h + c - EnetSlots
    BY <1>0, RingSteps
  <2>2. c - 1 \in 0 .. EnetSlots
    BY <1>0, <1>4
  <2>3. (q + (c - 1)) % EnetSlots = IF q + (c - 1) < EnetSlots THEN q + (c - 1) ELSE q + (c - 1) - EnetSlots
    BY <1>2, <2>2, RingSteps
  <2> QED BY <1>0, <1>2, <1>4, <2>1, <2>3
<1>6. ASSUME NEW k \in ESlots
      PROVE  IF k < c - 1 THEN r2[(q + k) % EnetSlots] = (g + 1) + k + 1 ELSE r2[(q + k) % EnetSlots] <= 0
  <2> DEFINE i == (q + k) % EnetSlots
  <2>1. k \in 0 .. EnetSlots - 1 /\ k \in 0 .. EnetSlots
    BY <1>0 DEF ESlots
  <2>2. i \in ESlots /\ i = IF q + k < EnetSlots THEN q + k ELSE q + k - EnetSlots
    BY <1>2, <2>1, RingSteps
  <2> HIDE DEF i
  <2>3. CASE k = EnetSlots - 1
    <3>1. i = h
      BY <2>3, <1>0, <1>2, <2>1, <2>2
    <3>2. ~(k < c - 1)
      BY <2>3, <1>0
    <3> QED BY <3>1, <3>2, <1>3 DEF i
  <2>4. CASE k # EnetSlots - 1
    <3>1. k + 1 \in ESlots /\ k + 1 \in 0 .. EnetSlots
      BY <2>4, <1>0, <2>1 DEF ESlots
    <3>2. (h + (k + 1)) % EnetSlots = IF h + (k + 1) < EnetSlots THEN h + (k + 1) ELSE h + (k + 1) - EnetSlots
      BY <3>1, RingSteps
    <3>3. i = (h + (k + 1)) % EnetSlots /\ i # h
      BY <2>4, <1>0, <1>2, <2>1, <2>2, <3>2
    <3>4. IF k + 1 < c THEN r1[i] = g + (k + 1) + 1 ELSE r1[i] <= 0
      BY <1>1, <3>1, <3>3
    <3>5. r2[i] = r1[i]
      BY <1>3, <2>2, <3>3
    <3>6. IF k < c - 1 THEN r2[i] = (g + 1) + k + 1 ELSE r2[i] <= 0
      BY <1>0, <2>1, <3>4, <3>5
    <3> QED BY <3>6 DEF i
  <2> QED BY <2>3, <2>4
<1>7. p - (g + 1) = c - 1 /\ g + 1 <= p /\ p <= (g + 1) + EnetSlots
  BY <1>0, <1>4
<1> QED BY <1>5, <1>6, <1>7 DEF RxRing, r2, q

(* The transmit ring at both of its ends.                                    *)
LEMMA BusyFinite ==
  ASSUME NEW ring
  PROVE  IsFiniteSet(Busy(ring))
<1>1. IsFiniteSet(ESlots)
  BY EnetAssumption, FS_Interval DEF ESlots
<1>2. Busy(ring) \in SUBSET ESlots
  BY DEF Busy
<1> QED BY <1>1, <1>2, FS_Subset

LEMMA SendHead ==
  ASSUME NEW r1 \in [ESlots -> TxKinds \cup {"free"}], NEW h \in ESlots, NEW n \in 0 .. EnetSlots,
         TxRing(r1, h, n), r1[h] # "free"
  PROVE  /\ n > 0 /\ TxRing([r1 EXCEPT ![h] = "free"], After(h), n - 1)
         /\ (After(h) + (n - 1)) % EnetSlots = (h + n) % EnetSlots
<1> DEFINE r2 == [r1 EXCEPT ![h] = "free"]
           q == After(h)
<1>0. EnetSlots \in Nat /\ EnetSlots > 0 /\ h \in 0 .. EnetSlots - 1
  BY EnetAssumption DEF ESlots
<1>1. q \in ESlots /\ q = IF h + 1 < EnetSlots THEN h + 1 ELSE 0
  BY RingSteps
<1>2. Busy(r2) = Busy(r1) \ {h} /\ h \in Busy(r1) /\ \A i \in ESlots : i # h => r2[i] = r1[i]
  BY DEF Busy
<1>3. r2[h] = "free"
  OBVIOUS
<1> HIDE DEF r2, q
<1>4. n > 0
  <2>1. (h - h) % EnetSlots = 0
    BY <1>0, RingSteps
  <2>2. (h - h) % EnetSlots < n
    BY DEF TxRing
  <2> QED BY <2>1, <2>2
<1>5. Cardinality(Busy(r2)) = n - 1
  BY <1>2, BusyFinite, FS_RemoveElement DEF TxRing
<1>6. ASSUME NEW i \in ESlots
      PROVE  r2[i] # "free" <=> (i - q) % EnetSlots < n - 1
  <2>1. i \in 0 .. EnetSlots - 1
    BY DEF ESlots
  <2>2. (i - q) % EnetSlots = IF q <= i THEN i - q ELSE i - q + EnetSlots
    BY <1>1, RingSteps
  <2>3. (i - h) % EnetSlots = IF h <= i THEN i - h ELSE i - h + EnetSlots
    BY RingSteps
  <2>4. r1[i] # "free" <=> (i - h) % EnetSlots < n
    BY DEF TxRing
  <2>5. CASE i = h
    <3>1. (i - q) % EnetSlots = EnetSlots - 1
      BY <2>5, <1>0, <1>1, <2>2
    <3> QED BY <3>1, <2>5, <1>0, <1>3
  <2>6. CASE i # h
    <3>1. (i - q) % EnetSlots = ((i - h) % EnetSlots) - 1 /\ (i - h) % EnetSlots \in Int
      BY <2>6, <1>0, <1>1, <2>1, <2>2, <2>3
    <3>2. r2[i] = r1[i]
      BY <2>6, <1>2
    <3> QED BY <3>1, <3>2, <2>4
  <2> QED BY <2>5, <2>6
<1>7. (q + (n - 1)) % EnetSlots = (h + n) % EnetSlots
  <2>1. n - 1 \in 0 .. EnetSlots
    BY <1>0, <1>4
  <2>2. (q + (n - 1)) % EnetSlots = IF q + (n - 1) < EnetSlots THEN q + (n - 1) ELSE q + (n - 1) - EnetSlots
    BY <1>1, <2>1, RingSteps
  <2>3. (h + n) % EnetSlots = IF h + n < EnetSlots THEN h + n ELSE h + n - EnetSlots
    BY RingSteps
  <2> QED BY <1>0, <1>1, <1>4, <2>2, <2>3
<1>8. TxRing(r2, q, n - 1)
  BY <1>5, <1>6 DEF TxRing
<1> QED BY <1>4, <1>7, <1>8 DEF r2, q

LEMMA QueueTail ==
  ASSUME NEW r1 \in [ESlots -> TxKinds \cup {"free"}], NEW h \in ESlots, NEW n \in 0 .. EnetSlots,
         TxRing(r1, h, n), NEW t, t = (h + n) % EnetSlots, r1[t] = "free", NEW kind \in TxKinds
  PROVE  /\ n + 1 \in 0 .. EnetSlots /\ TxRing([r1 EXCEPT ![t] = kind], h, n + 1)
         /\ After(t) = (h + (n + 1)) % EnetSlots
<1> DEFINE r2 == [r1 EXCEPT ![t] = kind]
<1>0. EnetSlots \in Nat /\ EnetSlots > 0 /\ h \in 0 .. EnetSlots - 1
  BY EnetAssumption DEF ESlots
<1>1. t \in ESlots /\ t = IF h + n < EnetSlots THEN h + n ELSE h + n - EnetSlots
  BY RingSteps
<1>2. n # EnetSlots
  <2> SUFFICES ASSUME n = EnetSlots PROVE FALSE
    OBVIOUS
  <2>1. t = h
    BY <1>0, <1>1
  <2>2. (h - h) % EnetSlots = 0
    BY <1>0, RingSteps
  <2>3. r1[h] # "free" <=> (h - h) % EnetSlots < n
    BY DEF TxRing
  <2> QED BY <1>0, <2>1, <2>2, <2>3
<1>3. n + 1 \in 0 .. EnetSlots
  BY <1>0, <1>2
<1>4. kind # "free"
  BY DEF TxKinds
<1>5. Busy(r2) = Busy(r1) \cup {t} /\ t \notin Busy(r1) /\ \A i \in ESlots : i # t => r2[i] = r1[i]
  BY <1>1, <1>4 DEF Busy
<1>6. r2[t] # "free"
  BY <1>1, <1>4
<1> HIDE DEF r2
<1>7. Cardinality(Busy(r2)) = n + 1
  <2>1. Cardinality(Busy(r1) \cup {t}) = Cardinality(Busy(r1)) + 1
    BY <1>5, BusyFinite, FS_AddElement
  <2> QED BY <1>5, <2>1 DEF TxRing
<1>8. ASSUME NEW i \in ESlots
      PROVE  r2[i] # "free" <=> (i - h) % EnetSlots < n + 1
  <2>1. i \in 0 .. EnetSlots - 1
    BY DEF ESlots
  <2>2. (i - h) % EnetSlots = IF h <= i THEN i - h ELSE i - h + EnetSlots
    BY RingSteps
  <2>3. r1[i] # "free" <=> (i - h) % EnetSlots < n
    BY DEF TxRing
  <2>4. CASE i = t
    <3>1. (i - h) % EnetSlots = n
      BY <2>4, <1>0, <1>1, <1>3, <2>2
    <3> QED BY <3>1, <2>4, <1>6
  <2>5. CASE i # t
    <3>1. (i - h) % EnetSlots # n /\ (i - h) % EnetSlots \in Int
      BY <2>5, <1>0, <1>1, <1>3, <2>1, <2>2
    <3>2. r2[i] = r1[i]
      BY <2>5, <1>5
    <3> QED BY <3>1, <3>2, <2>3
  <2> QED BY <2>4, <2>5
<1>9. After(t) = (h + (n + 1)) % EnetSlots
  <2>1. After(t) = IF t + 1 < EnetSlots THEN t + 1 ELSE 0
    BY <1>1, RingSteps
  <2>2. (h + (n + 1)) % EnetSlots = IF h + (n + 1) < EnetSlots THEN h + (n + 1) ELSE h + (n + 1) - EnetSlots
    BY <1>3, RingSteps
  <2> QED BY <1>0, <1>1, <1>2, <2>1, <2>2
<1>10. TxRing(r2, h, n + 1)
  BY <1>7, <1>8 DEF TxRing
<1> QED BY <1>3, <1>9, <1>10 DEF r2

LEMMA NoneQueued ==
  ASSUME NEW r1, NEW h \in ESlots
  PROVE  /\ TxRing(r1, h, 0) => \A i \in ESlots : r1[i] = "free"
         /\ (\A i \in ESlots : r1[i] = "free") => TxRing(r1, h, 0)
<1>1. \A i \in ESlots : ~((i - h) % EnetSlots < 0)
  BY RingSteps, EnetAssumption DEF ESlots
<1>2. (\A i \in ESlots : r1[i] = "free") => Cardinality(Busy(r1)) = 0
  <2>1. (\A i \in ESlots : r1[i] = "free") => Busy(r1) = {}
    BY DEF Busy
  <2> QED BY <2>1, FS_EmptySet
<1> QED BY <1>1, <1>2 DEF TxRing

(* How many slots rx_packet_handler() fills.                                 *)
LEMMA RoomIs ==
  ASSUME rx \in [ESlots -> Nat \cup {Bad}], rxTail \in ESlots
  PROVE  /\ Room \in 0 .. EnetSlots /\ Free0(Room)
         /\ Room = EnetSlots \/ rx[(rxTail + Room) % EnetSlots] # 0
<1> DEFINE T == {k \in 0 .. EnetSlots : k = EnetSlots \/ rx[(rxTail + k) % EnetSlots] # 0}
<1>0. EnetSlots \in Nat
  BY EnetAssumption
<1>1. T \subseteq Nat /\ EnetSlots \in T
  BY <1>0
<1>2. PICK k \in T : \A j \in T : k <= j
  BY <1>1, LeastNatural
<1>3. Free0(k)
  <2> SUFFICES ASSUME NEW j \in 0 .. k - 1 PROVE rx[(rxTail + j) % EnetSlots] = 0
    BY DEF Free0
  <2>1. j \in 0 .. EnetSlots /\ ~(k <= j) /\ j # EnetSlots
    BY <1>0, <1>2
  <2> QED BY <1>2, <2>1
<1>4. \E r \in 0 .. EnetSlots : Free0(r) /\ (r = EnetSlots \/ rx[(rxTail + r) % EnetSlots] # 0)
  BY <1>3
<1> QED BY <1>4, Zenon DEF Room

(* rx_packet_handler() overwrites no packet.                                 *)
LEMMA StoredFits ==
  ASSUME EnetTypeOK, RxRing(rx, rxTail, eDrv.placed, eDrv.head, eDrv.got)
  PROVE  /\ Stored \in Nat /\ Stored <= wire
         /\ (eDrv.placed - eDrv.got) + Stored <= EnetSlots
<1> DEFINE c == eDrv.placed - eDrv.got
           h == eDrv.head
<1>0. /\ EnetSlots \in Nat /\ EnetSlots > 0 /\ h \in ESlots /\ h \in 0 .. EnetSlots - 1
      /\ rx \in [ESlots -> Nat \cup {Bad}] /\ rxTail \in ESlots /\ wire \in Nat
      /\ eDrv.got \in Nat /\ eDrv.placed \in Nat
  BY EnetAssumption DEF EnetTypeOK, ESlots
<1>1. c \in 0 .. EnetSlots /\ rxTail = (h + c) % EnetSlots
  BY <1>0 DEF RxRing
<1>2. c > 0 => rx[h] > 0
  <2>1. 0 \in ESlots /\ (h + 0) % EnetSlots = h
    BY <1>0, RingSteps
  <2>2. 0 < c => rx[(h + 0) % EnetSlots] = eDrv.got + 0 + 1
    BY <2>1 DEF RxRing
  <2> QED BY <1>0, <2>1, <2>2
<1>3. Room \in 0 .. EnetSlots /\ Free0(Room)
  BY <1>0, RoomIs
<1> HIDE DEF c, h
<1>4. c + Room <= EnetSlots
  <2> SUFFICES ASSUME c + Room > EnetSlots PROVE FALSE
    BY <1>0, <1>1, <1>3
  <2> DEFINE j == EnetSlots - c
  <2>1. j \in 0 .. Room - 1 /\ j \in 0 .. EnetSlots /\ c > 0
    BY <1>0, <1>1, <1>3
  <2>2. rx[(rxTail + j) % EnetSlots] = 0
    BY <1>3, <2>1 DEF Free0
  <2>3. rxTail = IF h + c < EnetSlots THEN h + c ELSE h + c - EnetSlots
    BY <1>0, <1>1, RingSteps
  <2>4. (rxTail + j) % EnetSlots = IF rxTail + j < EnetSlots THEN rxTail + j ELSE rxTail + j - EnetSlots
    BY <1>0, <2>1, RingSteps
  <2>5. (rxTail + j) % EnetSlots = h
    BY <1>0, <1>1, <2>3, <2>4
  <2> QED BY <1>2, <2>1, <2>2, <2>5
<1>5. Stored \in Nat /\ Stored <= wire /\ Stored <= Room
  BY <1>0, <1>3 DEF Stored
<1> QED BY <1>0, <1>1, <1>3, <1>4, <1>5 DEF c

(* The loop of osip_enet2_kick().  After k turns both rings are sound, and a *)
(* loop that ended has sent everything or stopped the device.                *)
KickStates == [run : {0, 1}, line : {0, 1}, rx : [ESlots -> Nat \cup {Bad}], tail : ESlots,
               tx : [ESlots -> TxKinds \cup {"free"}], head : ESlots, placed : Nat, stop : BOOLEAN]

KickInv(s, k) ==
    /\ s \in KickStates
    /\ RxRing(s.rx, s.tail, s.placed, eDrv.head, eDrv.got)
    /\ s.line = 0 => s.rx = rx /\ eLine = 0
    /\ \E n \in 0 .. EnetSlots :
          /\ TxRing(s.tx, s.head, n) /\ eDrv.tail = (s.head + n) % EnetSlots
          /\ s.stop => n = 0 \/ s.run = 0
          /\ ~s.stop => n + k <= EnetSlots

LEMMA InjectKeeps ==
  ASSUME EnetTypeOK, NEW s \in KickStates, s.line = 0 => s.rx = rx /\ eLine = 0,
         RxRing(s.rx, s.tail, s.placed, eDrv.head, eDrv.got)
  PROVE  /\ inject_packet(s) \in KickStates
         /\ inject_packet(s).tx = s.tx /\ inject_packet(s).head = s.head
         /\ inject_packet(s).stop = s.stop
         /\ RxRing(inject_packet(s).rx, inject_packet(s).tail, inject_packet(s).placed,
                   eDrv.head, eDrv.got)
         /\ inject_packet(s).line = 0 => inject_packet(s).rx = rx /\ eLine = 0
<1> DEFINE v == inject_packet(s)
           h == eDrv.head
           g == eDrv.got
<1>0. /\ EnetSlots \in Nat /\ EnetSlots > 0 /\ h \in ESlots /\ g \in Nat
      /\ s.rx \in [ESlots -> Nat \cup {Bad}] /\ s.tail \in ESlots /\ s.placed \in Nat
  BY EnetAssumption DEF EnetTypeOK, KickStates
<1>1. CASE s.run = 0 \/ s.rx[s.tail] > 0
  <2>1. v = s
    BY <1>1 DEF inject_packet
  <2> QED BY <2>1
<1>2. CASE ~(s.run = 0 \/ s.rx[s.tail] > 0) /\ s.rx[s.tail] = Bad
  <2>1. v = [s EXCEPT !.run = 0]
    BY <1>2 DEF inject_packet
  <2>2. /\ v \in KickStates /\ v.tx = s.tx /\ v.head = s.head /\ v.stop = s.stop /\ v.rx = s.rx
        /\ v.tail = s.tail /\ v.placed = s.placed /\ v.line = s.line
    BY <2>1 DEF KickStates
  <2> QED BY <2>2
<1>3. CASE ~(s.run = 0 \/ s.rx[s.tail] > 0) /\ s.rx[s.tail] # Bad
  <2> DEFINE r2 == [s.rx EXCEPT ![s.tail] = s.placed + 1]
  <2>1. v = [s EXCEPT !.rx = r2, !.placed = s.placed + 1, !.tail = After(s.tail), !.line = 1]
    BY <1>3 DEF inject_packet
  <2>2. r2 \in [ESlots -> Nat \cup {Bad}] /\ After(s.tail) \in ESlots /\ s.placed + 1 \in Nat
    <3>1. After(s.tail) \in ESlots
      BY <1>0, RingSteps
    <3>2. s.placed + 1 \in Nat
      BY <1>0
    <3> QED BY <1>0, <3>1, <3>2
  <2>3. s.rx[s.tail] = 0
    BY <1>0, <1>3
  <2>4. \A i \in ESlots : r2[i] = IF (i - s.tail) % EnetSlots < 1
                                  THEN s.placed + ((i - s.tail) % EnetSlots) + 1 ELSE s.rx[i]
    <3> SUFFICES ASSUME NEW i \in ESlots
                 PROVE  r2[i] = IF (i - s.tail) % EnetSlots < 1
                                THEN s.placed + ((i - s.tail) % EnetSlots) + 1 ELSE s.rx[i]
      OBVIOUS
    <3> DEFINE d == (i - s.tail) % EnetSlots
    <3>1. d = IF s.tail <= i THEN i - s.tail ELSE i - s.tail + EnetSlots
      BY <1>0, RingSteps
    <3>2. i \in 0 .. EnetSlots - 1 /\ s.tail \in 0 .. EnetSlots - 1
      BY <1>0 DEF ESlots
    <3> HIDE DEF d
    <3>3. i = s.tail => d = 0
      BY <3>1, <3>2
    <3>4. i # s.tail => ~(d < 1)
      BY <3>1, <3>2, <1>0
    <3>5. i = s.tail => r2[i] = s.placed + 1
      BY <1>0
    <3>6. i # s.tail => r2[i] = s.rx[i]
      BY <1>0
    <3> HIDE DEF r2
    <3>7. r2[i] = IF d < 1 THEN s.placed + d + 1 ELSE s.rx[i]
      BY <3>3, <3>4, <3>5, <3>6, <1>0
    <3> QED BY <3>7 DEF d
  <2>5. (s.placed - g) + 1 <= EnetSlots
    <3> SUFFICES ASSUME s.placed - g = EnetSlots PROVE FALSE
      BY <1>0 DEF RxRing
    <3>1. s.tail = (h + EnetSlots) % EnetSlots
      BY DEF RxRing
    <3>2. EnetSlots \in 0 .. EnetSlots /\ 0 \in 0 .. EnetSlots /\ 0 \in ESlots
      BY <1>0 DEF ESlots
    <3>3. s.tail = h /\ (h + 0) % EnetSlots = h
      BY <1>0, <3>1, RingSteps
    <3>4. s.rx[(h + 0) % EnetSlots] = g + 0 + 1
      BY <1>0, <3>2 DEF RxRing
    <3> QED BY <1>0, <2>3, <3>3, <3>4
  <2>6. After(s.tail) = (s.tail + 1) % EnetSlots
    BY DEF After
  <2> HIDE DEF r2
  <2>7. RxRing(r2, After(s.tail), s.placed + 1, h, g)
    <3>1. 1 \in Nat
      OBVIOUS
    <3>2. RxRing(r2, (s.tail + 1) % EnetSlots, s.placed + 1, h, g)
      BY <3>1, <1>0, <2>2, <2>4, <2>5, PutPackets
    <3> QED BY <3>2, <2>6
  <2>8. /\ v \in KickStates /\ v.tx = s.tx /\ v.head = s.head /\ v.stop = s.stop /\ v.rx = r2
        /\ v.tail = After(s.tail) /\ v.placed = s.placed + 1 /\ v.line = 1
    BY <2>1, <2>2 DEF KickStates
  <2> QED BY <2>7, <2>8
<1> QED BY <1>1, <1>2, <1>3

LEMMA KickTurn ==
  ASSUME EnetTypeOK, NEW s, NEW k \in 1 .. EnetSlots, KickInv(s, k - 1)
  PROVE  KickInv(KickOne(s), k)
<1> DEFINE v == KickOne(s)
           w == inject_packet(s)
           kind == s.tx[s.head]
           sent == IF kind = "query" THEN w ELSE s
<1>0. /\ s \in KickStates /\ RxRing(s.rx, s.tail, s.placed, eDrv.head, eDrv.got)
      /\ s.line = 0 => s.rx = rx /\ eLine = 0
      /\ EnetSlots \in Nat
  BY EnetAssumption DEF KickInv
<1>1. PICK n \in 0 .. EnetSlots :
          /\ TxRing(s.tx, s.head, n) /\ eDrv.tail = (s.head + n) % EnetSlots
          /\ s.stop => n = 0 \/ s.run = 0
          /\ ~s.stop => n + (k - 1) <= EnetSlots
  BY DEF KickInv
<1>2. /\ s.tx \in [ESlots -> TxKinds \cup {"free"}] /\ s.head \in ESlots /\ s.stop \in BOOLEAN
  BY <1>0 DEF KickStates
<1>3. v = IF s.stop \/ kind = "free" THEN [s EXCEPT !.stop = TRUE]
          ELSE IF kind = "bad" THEN [s EXCEPT !.stop = TRUE, !.run = 0]
          ELSE [sent EXCEPT !.tx[s.head] = "free", !.head = After(sent.head)]
  BY DEF KickOne
<1>4. /\ w \in KickStates /\ w.tx = s.tx /\ w.head = s.head /\ w.stop = s.stop
      /\ RxRing(w.rx, w.tail, w.placed, eDrv.head, eDrv.got)
      /\ w.line = 0 => w.rx = rx /\ eLine = 0
  BY <1>0, InjectKeeps
<1> HIDE DEF w
<1>5. /\ sent \in KickStates /\ sent.tx = s.tx /\ sent.head = s.head /\ sent.stop = s.stop
      /\ RxRing(sent.rx, sent.tail, sent.placed, eDrv.head, eDrv.got)
      /\ sent.line = 0 => sent.rx = rx /\ eLine = 0
  <2>1. CASE kind = "query"
    BY <2>1, <1>4
  <2>2. CASE kind # "query"
    BY <2>2, <1>0
  <2> QED BY <2>1, <2>2
<1> HIDE DEF sent, v
<1>6. CASE s.stop \/ kind = "free"
  <2>1. /\ v \in KickStates /\ v.rx = s.rx /\ v.tail = s.tail /\ v.placed = s.placed
        /\ v.line = s.line /\ v.tx = s.tx /\ v.head = s.head /\ v.run = s.run /\ v.stop = TRUE
    BY <1>0, <1>3, <1>6 DEF KickStates
  <2>2. n = 0 \/ v.run = 0
    <3>1. CASE s.stop
      BY <3>1, <1>1, <2>1
    <3>2. CASE kind = "free"
      <4>1. s.tx[s.head] # "free" <=> (s.head - s.head) % EnetSlots < n
        BY <1>1, <1>2 DEF TxRing
      <4>2. (s.head - s.head) % EnetSlots = 0
        BY <1>2, RingSteps
      <4> QED BY <3>2, <4>1, <4>2
    <3> QED BY <3>1, <3>2, <1>6
  <2>3. TxRing(v.tx, v.head, n) /\ eDrv.tail = (v.head + n) % EnetSlots
    BY <1>1, <2>1
  <2>4. RxRing(v.rx, v.tail, v.placed, eDrv.head, eDrv.got) /\ (v.line = 0 => v.rx = rx /\ eLine = 0)
    BY <1>0, <2>1
  <2> QED BY <2>1, <2>2, <2>3, <2>4 DEF KickInv, v
<1>7. CASE ~(s.stop \/ kind = "free") /\ kind = "bad"
  <2>1. /\ v \in KickStates /\ v.rx = s.rx /\ v.tail = s.tail /\ v.placed = s.placed
        /\ v.line = s.line /\ v.tx = s.tx /\ v.head = s.head /\ v.run = 0 /\ v.stop = TRUE
    BY <1>0, <1>3, <1>7 DEF KickStates
  <2>2. TxRing(v.tx, v.head, n) /\ eDrv.tail = (v.head + n) % EnetSlots
    BY <1>1, <2>1
  <2>3. RxRing(v.rx, v.tail, v.placed, eDrv.head, eDrv.got) /\ (v.line = 0 => v.rx = rx /\ eLine = 0)
    BY <1>0, <2>1
  <2> QED BY <2>1, <2>2, <2>3 DEF KickInv, v
<1>8. CASE ~(s.stop \/ kind = "free") /\ kind # "bad"
  <2> DEFINE t2 == [s.tx EXCEPT ![s.head] = "free"]
  <2>1. v = [sent EXCEPT !.tx = [sent.tx EXCEPT ![s.head] = "free"], !.head = After(sent.head)]
    BY <1>3, <1>8
  <2>2. /\ n > 0 /\ TxRing(t2, After(s.head), n - 1)
        /\ (After(s.head) + (n - 1)) % EnetSlots = (s.head + n) % EnetSlots
    BY <1>1, <1>2, <1>8, SendHead
  <2>3. t2 \in [ESlots -> TxKinds \cup {"free"}] /\ After(s.head) \in ESlots
    BY <1>2, RingSteps
  <2> HIDE DEF t2
  <2>4. v = [sent EXCEPT !.tx = t2, !.head = After(s.head)]
    BY <2>1, <1>5 DEF t2
  <2>5. /\ v \in KickStates /\ v.rx = sent.rx /\ v.tail = sent.tail /\ v.placed = sent.placed
        /\ v.line = sent.line /\ v.tx = t2 /\ v.head = After(s.head) /\ v.stop = sent.stop
    BY <2>3, <2>4, <1>5 DEF KickStates
  <2>6. /\ n - 1 \in 0 .. EnetSlots /\ TxRing(v.tx, v.head, n - 1)
        /\ eDrv.tail = (v.head + (n - 1)) % EnetSlots
        /\ ~v.stop /\ (n - 1) + k <= EnetSlots
    <3>1. n - 1 \in 0 .. EnetSlots /\ (n - 1) + k <= EnetSlots
      BY <1>0, <1>1, <1>8, <2>2
    <3> QED BY <3>1, <1>1, <1>5, <1>8, <2>2, <2>5
  <2>7. RxRing(v.rx, v.tail, v.placed, eDrv.head, eDrv.got) /\ (v.line = 0 => v.rx = rx /\ eLine = 0)
    BY <1>5, <2>5
  <2> QED BY <2>5, <2>6, <2>7 DEF KickInv, v
<1> QED BY <1>6, <1>7, <1>8

(* The loop has as many turns as the ring has slots, and keeps that.          *)
KickOf(g, s0) == g = [k \in 0 .. EnetSlots |-> IF k = 0 THEN s0 ELSE KickOne(g[k - 1])]

LEMMA KickRuns ==
  ASSUME NEW s0
  PROVE  \E g : KickOf(g, s0)
<1> DEFINE Runs(m) == \E g : g = [k \in 0 .. m |-> IF k = 0 THEN s0 ELSE KickOne(g[k - 1])]
           T == {m \in 0 .. EnetSlots : ~Runs(m)}
<1>0. EnetSlots \in 0 .. EnetSlots
  BY EnetAssumption
<1> SUFFICES ASSUME ~Runs(EnetSlots) PROVE FALSE
  BY DEF KickOf
<1>1. T \subseteq Nat
  OBVIOUS
<1>2. T # {}
  <2> HIDE DEF Runs
  <2> QED BY <1>0
<1>3. PICK m \in T : \A y \in T : m <= y
  BY <1>1, <1>2, LeastNatural
<1>4. Runs(0)
  <2> DEFINE g == [k \in 0 .. 0 |-> s0]
  <2>1. \A k \in 0 .. 0 : g[k] = IF k = 0 THEN s0 ELSE KickOne(g[k - 1])
    OBVIOUS
  <2>2. g = [k \in 0 .. 0 |-> IF k = 0 THEN s0 ELSE KickOne(g[k - 1])]
    BY <2>1
  <2> HIDE DEF g
  <2> QED BY <2>2
<1>5. m # 0 /\ m \in Nat /\ Runs(m - 1)
  <2>1. m \in 0 .. EnetSlots /\ ~Runs(m)
    OBVIOUS
  <2> HIDE DEF Runs
  <2>2. m # 0
    BY <1>4, <2>1
  <2>3. m - 1 \in 0 .. EnetSlots /\ ~(m <= m - 1) /\ m \in Nat
    BY <2>1, <2>2, EnetAssumption
  <2> QED BY <1>3, <2>2, <2>3
<1>6. PICK g : g = [k \in 0 .. m - 1 |-> IF k = 0 THEN s0 ELSE KickOne(g[k - 1])]
  BY <1>5
<1> DEFINE h == [k \in 0 .. m |-> IF k = m THEN KickOne(g[m - 1]) ELSE g[k]]
<1>7. ASSUME NEW k \in 0 .. m PROVE h[k] = IF k = 0 THEN s0 ELSE KickOne(h[k - 1])
  <2>1. CASE k = m
    <3>1. h[k - 1] = g[m - 1] /\ h[k] = KickOne(g[m - 1])
      BY <1>5, <2>1
    <3> QED BY <3>1, <1>5, <2>1
  <2>2. CASE k # m
    <3>1. k \in 0 .. m - 1 /\ h[k] = g[k]
      BY <1>5, <2>2
    <3>2. k # 0 => k - 1 \in 0 .. m - 1 /\ h[k - 1] = g[k - 1]
      BY <1>5, <3>1
    <3>3. g[k] = IF k = 0 THEN s0 ELSE KickOne(g[k - 1])
      BY <1>6, <3>1
    <3> HIDE DEF h
    <3> QED BY <3>1, <3>2, <3>3
  <2> QED BY <2>1, <2>2
<1>8. h = [k \in 0 .. m |-> IF k = 0 THEN s0 ELSE KickOne(h[k - 1])]
  BY <1>7
<1>9. Runs(m)
  <2> HIDE DEF h
  <2> QED BY <1>8
<1> QED BY <1>3, <1>9

LEMMA KickedKeeps ==
  ASSUME EnetTypeOK, NEW s0, KickInv(s0, 0)
  PROVE  KickInv(Kicked(s0), EnetSlots)
<1>0. EnetSlots \in Nat
  BY EnetAssumption
<1>1. \E g : KickOf(g, s0)
  BY KickRuns
<1> DEFINE h == CHOOSE g : g = [k \in 0 .. EnetSlots |-> IF k = 0 THEN s0 ELSE KickOne(g[k - 1])]
<1>2. Kicked(s0) = h[EnetSlots]
  BY DEF Kicked
<1>3. h = [k \in 0 .. EnetSlots |-> IF k = 0 THEN s0 ELSE KickOne(h[k - 1])]
  BY <1>1, Zenon DEF KickOf
<1> HIDE DEF h
<1> DEFINE T == {k \in 0 .. EnetSlots : ~KickInv(h[k], k)}
<1> SUFFICES ASSUME T # {} PROVE FALSE
  BY <1>0, <1>2
<1>4. T \subseteq Nat
  OBVIOUS
<1>5. PICK m \in T : \A y \in T : m <= y
  BY <1>4, LeastNatural
<1>6. m \in 0 .. EnetSlots /\ ~KickInv(h[m], m) /\ \A y \in 0 .. EnetSlots : ~KickInv(h[y], y) => m <= y
  BY <1>5
<1> HIDE DEF T
<1>7. h[0] = s0
  BY <1>0, <1>3
<1>8. m # 0
  BY <1>6, <1>7
<1>9. m \in 1 .. EnetSlots /\ m - 1 \in 0 .. EnetSlots /\ ~(m <= m - 1)
  BY <1>0, <1>6, <1>8
<1>10. KickInv(h[m - 1], m - 1)
  BY <1>6, <1>9
<1>11. h[m] = KickOne(h[m - 1])
  BY <1>3, <1>6, <1>8
<1>12. KickInv(KickOne(h[m - 1]), m)
  BY <1>9, <1>10, KickTurn
<1> QED BY <1>6, <1>11, <1>12

LEMMA KickKeeps ==
  ASSUME EnetInv, osip_enet2_kick
  PROVE  EnetInv'
<1> DEFINE s0 == [run |-> 1, line |-> eLine, rx |-> rx, tail |-> rxTail, tx |-> tx,
                  head |-> txHead, placed |-> eDrv.placed, stop |-> FALSE]
           s == Kicked(s0)
<1>0. EnetSlots \in Nat /\ EnetTypeOK
  BY EnetAssumption DEF EnetInv
<1>1. /\ eDrv.up /\ eRun = 1 /\ eRun' = s.run /\ eLine' = s.line /\ rx' = s.rx /\ rxTail' = s.tail
      /\ tx' = s.tx /\ txHead' = s.head
      /\ eDrv' = [eDrv EXCEPT !.placed = s.placed, !.queued = 0]
      /\ eIrqOn' = eIrqOn /\ wire' = wire
  BY DEF osip_enet2_kick
<1>2. KickInv(s0, 0)
  <2>1. s0 \in KickStates
    BY <1>0 DEF EnetTypeOK, KickStates
  <2>2. RxRing(rx, rxTail, eDrv.placed, eDrv.head, eDrv.got)
    BY <1>1 DEF EnetInv
  <2>3. PICK n \in 0 .. EnetSlots : TxRing(tx, txHead, n) /\ eDrv.tail = (txHead + n) % EnetSlots
    BY <1>1 DEF EnetInv
  <2>4. n + 0 <= EnetSlots
    BY <1>0
  <2>5. /\ s0.rx = rx /\ s0.tail = rxTail /\ s0.placed = eDrv.placed /\ s0.tx = tx
        /\ s0.head = txHead /\ s0.stop = FALSE /\ s0.line = eLine
    OBVIOUS
  <2> HIDE DEF s0
  <2> QED BY <2>1, <2>2, <2>3, <2>4, <2>5 DEF KickInv
<1>3. KickInv(s, EnetSlots)
  BY <1>0, <1>2, KickedKeeps
<1> HIDE DEF s
<1>4. /\ s \in KickStates /\ RxRing(s.rx, s.tail, s.placed, eDrv.head, eDrv.got)
      /\ s.line = 0 => s.rx = rx /\ eLine = 0
  BY <1>3 DEF KickInv
<1>5. PICK n \in 0 .. EnetSlots :
          /\ TxRing(s.tx, s.head, n) /\ eDrv.tail = (s.head + n) % EnetSlots
          /\ s.stop => n = 0 \/ s.run = 0
          /\ ~s.stop => n + EnetSlots <= EnetSlots
  BY <1>3 DEF KickInv
<1>6. s.run = 1 => n = 0
  <2>1. s.stop \in BOOLEAN
    BY <1>4 DEF KickStates
  <2>2. CASE s.stop
    BY <2>2, <1>5
  <2>3. CASE ~s.stop
    BY <2>3, <1>0, <1>5
  <2> QED BY <2>1, <2>2, <2>3
<1>7. /\ eDrv'.up = eDrv.up /\ eDrv'.head = eDrv.head /\ eDrv'.got = eDrv.got
      /\ eDrv'.placed = s.placed /\ eDrv'.tail = eDrv.tail /\ eDrv'.pc = eDrv.pc
  BY <1>0, <1>1 DEF EnetTypeOK
<1>8. EnetTypeOK'
  <2>1. /\ s.run \in {0, 1} /\ s.line \in {0, 1} /\ s.rx \in [ESlots -> Nat \cup {Bad}]
        /\ s.tail \in ESlots /\ s.tx \in [ESlots -> TxKinds \cup {"free"}] /\ s.head \in ESlots
        /\ s.placed \in Nat
    BY <1>4 DEF KickStates
  <2> QED BY <1>0, <1>1, <2>1 DEF EnetTypeOK
<1>9. RxRing(rx, rxTail, eDrv.placed, eDrv.head, eDrv.got)'
  BY <1>1, <1>4, <1>7
<1>10. TxRing(s.tx, s.head, n) /\ eDrv'.tail = (s.head + n) % EnetSlots
  BY <1>5, <1>7
<1>11. eRun' = 1 => \A i \in ESlots : tx'[i] = "free"
  <2>1. s.head \in ESlots
    BY <1>4 DEF KickStates
  <2> QED BY <1>1, <1>5, <1>6, <2>1, NoneQueued
<1>12. eRun' = 1 /\ eDrv'.pc = "run" => eIrqOn' = 1
  BY <1>1, <1>7 DEF EnetInv
<1>13. NoStrandedPacket'
  <2> SUFFICES ASSUME eRun' = 1, eDrv'.pc = "run", eLine' = 0 PROVE eIrqOn' = 1 /\ rx'[eDrv'.head] <= 0
    BY DEF NoStrandedPacket
  <2>1. rx' = rx
    BY <1>1, <1>4
  <2>2. rx[eDrv.head] <= 0
    BY <1>1, <1>4, <1>7 DEF EnetInv, NoStrandedPacket
  <2> QED BY <1>12, <1>7, <2>1, <2>2
<1> QED BY <1>1, <1>7, <1>8, <1>9, <1>10, <1>11, <1>12, <1>13 DEF EnetInv

LEMMA HandlerKeeps ==
  ASSUME EnetInv, rx_packet_handler
  PROVE  EnetInv'
<1>0. EnetSlots \in Nat /\ EnetTypeOK
  BY EnetAssumption DEF EnetInv
<1>1. CASE eRun = 0
  <2>1. /\ wire' = 0 /\ eRun' = eRun /\ eLine' = eLine /\ rx' = rx /\ rxTail' = rxTail /\ eDrv' = eDrv
        /\ eIrqOn' = eIrqOn /\ tx' = tx /\ txHead' = txHead
    BY <1>1 DEF rx_packet_handler
  <2>2. EnetTypeOK'
    BY <2>1, <1>0, EnetAssumption DEF EnetTypeOK
  <2> QED BY <2>1, <2>2 DEF EnetInv, NoStrandedPacket
<1>2. CASE eRun # 0
  <2>1. /\ rx' = Place(Stored) /\ rxTail' = (rxTail + Stored) % EnetSlots
        /\ eDrv' = [eDrv EXCEPT !.placed = @ + Stored]
        /\ wire' = (IF Full THEN 0 ELSE wire - Stored)
        /\ eRun' = (IF Stuck(Bad) THEN 0 ELSE 1)
        /\ eLine' = (IF RxRaises THEN 1 ELSE eLine)
        /\ eIrqOn' = eIrqOn /\ tx' = tx /\ txHead' = txHead
    BY <1>2 DEF rx_packet_handler
  <2>2. eRun = 1 /\ eDrv.up /\ RxRing(rx, rxTail, eDrv.placed, eDrv.head, eDrv.got)
    BY <1>0, <1>2 DEF EnetInv, EnetTypeOK
  <2>3. /\ Stored \in Nat /\ Stored <= wire /\ (eDrv.placed - eDrv.got) + Stored <= EnetSlots
    BY <1>0, <2>2, StoredFits
  <2>4. /\ rx \in [ESlots -> Nat \cup {Bad}] /\ rxTail \in ESlots /\ eDrv.placed \in Nat
        /\ eDrv.head \in ESlots /\ eDrv.got \in Nat /\ wire \in 0 .. WireSize
    BY <1>0 DEF EnetTypeOK
  <2>5. /\ rx' \in [ESlots -> Nat \cup {Bad}]
        /\ \A i \in ESlots : rx'[i] = IF (i - rxTail) % EnetSlots < Stored
                                      THEN eDrv.placed + ((i - rxTail) % EnetSlots) + 1 ELSE rx[i]
    <3>1. \A i \in ESlots : (i - rxTail) % EnetSlots \in Nat
      BY <2>4, RingSteps, EnetAssumption DEF ESlots
    <3>2. rx' = [i \in ESlots |-> IF (i - rxTail) % EnetSlots < Stored
                                  THEN eDrv.placed + ((i - rxTail) % EnetSlots) + 1 ELSE rx[i]]
      BY <2>1 DEF Place
    <3> QED BY <3>1, <3>2, <2>4
  <2>6. RxRing(rx', (rxTail + Stored) % EnetSlots, eDrv.placed + Stored, eDrv.head, eDrv.got)
    BY <2>2, <2>3, <2>4, <2>5, PutPackets
  <2>7. /\ eDrv'.up = eDrv.up /\ eDrv'.head = eDrv.head /\ eDrv'.got = eDrv.got
        /\ eDrv'.placed = eDrv.placed + Stored /\ eDrv'.tail = eDrv.tail /\ eDrv'.pc = eDrv.pc
        /\ eDrv'.queued = eDrv.queued
    BY <1>0, <2>1 DEF EnetTypeOK
  <2>8. EnetTypeOK'
    <3>1. Stored \in 0 .. EnetSlots
      BY <1>0, <2>2, <2>3, <2>4 DEF RxRing
    <3>2. rxTail' \in ESlots
      BY <3>1, <2>1, <2>4, RingSteps
    <3>3. wire' \in 0 .. WireSize
      BY <2>1, <2>3, <2>4, EnetAssumption
    <3>4. eDrv' \in [pc : {"run", "poll", "ack"}, up : BOOLEAN, head : ESlots, tail : ESlots,
                     got : Nat, placed : Nat, queued : Nat, starts : 0 .. EnetStarts]
      BY <1>0, <2>1, <2>3, <2>4 DEF EnetTypeOK
    <3>5. eRun' \in {0, 1} /\ eLine' \in {0, 1} /\ eIrqOn' \in {0, 1}
      BY <1>0, <2>1 DEF EnetTypeOK
    <3> QED BY <3>2, <3>3, <3>4, <3>5, <1>0, <2>1, <2>5 DEF EnetTypeOK
  <2>9. RxRing(rx, rxTail, eDrv.placed, eDrv.head, eDrv.got)'
    BY <2>1, <2>6, <2>7
  <2>10. NoStrandedPacket'
    <3> SUFFICES ASSUME eRun' = 1, eDrv'.pc = "run", eLine' = 0 PROVE eIrqOn' = 1 /\ rx'[eDrv'.head] <= 0
      BY DEF NoStrandedPacket
    <3>1. eIrqOn = 1 /\ ~RxRaises
      BY <2>1, <2>2, <2>7 DEF EnetInv
    <3>2. Stored = 0
      <4>1. Stored + (IF Full THEN wire - Stored ELSE 0) <= 0
        BY <3>1, <2>3, <2>4 DEF RxRaises
      <4> QED BY <4>1, <2>3, <2>4
    <3>3. rx'[eDrv.head] = rx[eDrv.head]
      <4>0. (eDrv.head - rxTail) % EnetSlots \in ESlots
        BY <2>4, RingSteps
      <4>1. (eDrv.head - rxTail) % EnetSlots \in Nat
        BY <4>0, EnetAssumption DEF ESlots
      <4>3. ~((eDrv.head - rxTail) % EnetSlots < Stored)
        BY <3>2, <4>1
      <4> QED BY <4>3, <2>4, <2>5
    <3>4. eLine = 0
      BY <3>1, <2>1
    <3> QED BY <3>1, <3>3, <3>4, <2>1, <2>2, <2>7 DEF EnetInv, NoStrandedPacket
  <2>11. \E n \in 0 .. EnetSlots : TxRing(tx', txHead', n) /\ eDrv'.tail = (txHead' + n) % EnetSlots
    BY <2>1, <2>2, <2>7 DEF EnetInv
  <2>12. /\ eRun' = 1 /\ eDrv'.queued = 0 => \A i \in ESlots : tx'[i] = "free"
         /\ eRun' = 1 /\ eDrv'.pc = "run" => eIrqOn' = 1
    BY <2>1, <2>2, <2>7 DEF EnetInv
  <2> QED BY <2>2, <2>7, <2>8, <2>9, <2>10, <2>11, <2>12 DEF EnetInv
<1> QED BY <1>1, <1>2

LEMMA QueueKeepsRings ==
  ASSUME EnetInv, NEW kind \in TxKinds, QueuePacket(kind)
  PROVE  EnetInv'
<1>0. EnetSlots \in Nat /\ EnetTypeOK
  BY EnetAssumption DEF EnetInv
<1>1. /\ eDrv.up /\ tx[eDrv.tail] = "free" /\ tx' = [tx EXCEPT ![eDrv.tail] = kind]
      /\ eDrv' = [eDrv EXCEPT !.tail = After(@), !.queued = @ + 1]
      /\ eRun' = eRun /\ eIrqOn' = eIrqOn /\ eLine' = eLine /\ rx' = rx /\ rxTail' = rxTail
      /\ txHead' = txHead /\ wire' = wire
  BY DEF QueuePacket
<1>2. tx \in [ESlots -> TxKinds \cup {"free"}] /\ txHead \in ESlots /\ eDrv.tail \in ESlots
      /\ eDrv.queued \in Nat
  BY <1>0 DEF EnetTypeOK
<1>3. PICK n \in 0 .. EnetSlots : TxRing(tx, txHead, n) /\ eDrv.tail = (txHead + n) % EnetSlots
  BY <1>1 DEF EnetInv
<1>4. /\ n + 1 \in 0 .. EnetSlots /\ TxRing([tx EXCEPT ![eDrv.tail] = kind], txHead, n + 1)
      /\ After(eDrv.tail) = (txHead + (n + 1)) % EnetSlots
  BY <1>1, <1>2, <1>3, QueueTail
<1>5. /\ eDrv'.up = eDrv.up /\ eDrv'.head = eDrv.head /\ eDrv'.got = eDrv.got
      /\ eDrv'.placed = eDrv.placed /\ eDrv'.tail = After(eDrv.tail) /\ eDrv'.pc = eDrv.pc
      /\ eDrv'.queued # 0
  <2>1. eDrv'.queued = eDrv.queued + 1
    BY <1>0, <1>1 DEF EnetTypeOK
  <2>2. eDrv.queued + 1 # 0
    BY <1>2
  <2> QED BY <1>0, <1>1, <2>1, <2>2 DEF EnetTypeOK
<1>6. EnetTypeOK'
  <2>1. After(eDrv.tail) \in ESlots
    BY <1>2, RingSteps
  <2>2. eDrv.queued + 1 \in Nat /\ [tx EXCEPT ![eDrv.tail] = kind] \in [ESlots -> TxKinds \cup {"free"}]
    BY <1>2
  <2> QED BY <1>0, <1>1, <2>1, <2>2 DEF EnetTypeOK
<1>7. TxRing(tx', txHead', n + 1) /\ eDrv'.tail = (txHead' + (n + 1)) % EnetSlots
  BY <1>1, <1>4, <1>5
<1>8. RxRing(rx, rxTail, eDrv.placed, eDrv.head, eDrv.got)'
  BY <1>1, <1>5 DEF EnetInv
<1>9. NoStrandedPacket' /\ (eRun' = 1 /\ eDrv'.pc = "run" => eIrqOn' = 1)
  BY <1>1, <1>5 DEF EnetInv, NoStrandedPacket
<1> QED BY <1>1, <1>4, <1>5, <1>6, <1>7, <1>8, <1>9 DEF EnetInv

LEMMA TakeKeeps ==
  ASSUME EnetInv, NEW x \in {0, Bad}, TakePacket(x)
  PROVE  EnetInv'
<1>0. EnetSlots \in Nat /\ EnetTypeOK
  BY EnetAssumption DEF EnetInv
<1>1. /\ eDrv.pc = "poll" /\ eDrv.up /\ rx[eDrv.head] > 0 /\ rx' = [rx EXCEPT ![eDrv.head] = x]
      /\ eDrv' = [eDrv EXCEPT !.head = After(@), !.got = @ + 1]
      /\ eRun' = eRun /\ eIrqOn' = eIrqOn /\ eLine' = eLine /\ rxTail' = rxTail
      /\ tx' = tx /\ txHead' = txHead /\ wire' = wire
  BY DEF TakePacket
<1>2. /\ rx \in [ESlots -> Nat \cup {Bad}] /\ rxTail \in ESlots /\ eDrv.placed \in Nat
      /\ eDrv.head \in ESlots /\ eDrv.got \in Nat
  BY <1>0 DEF EnetTypeOK
<1>3. RxRing([rx EXCEPT ![eDrv.head] = x], rxTail, eDrv.placed, After(eDrv.head), eDrv.got + 1)
  BY <1>1, <1>2, TakeOne DEF EnetInv
<1>4. /\ eDrv'.up = eDrv.up /\ eDrv'.head = After(eDrv.head) /\ eDrv'.got = eDrv.got + 1
      /\ eDrv'.placed = eDrv.placed /\ eDrv'.tail = eDrv.tail /\ eDrv'.pc = "poll"
      /\ eDrv'.queued = eDrv.queued
  BY <1>0, <1>1 DEF EnetTypeOK
<1>5. EnetTypeOK'
  <2>1. After(eDrv.head) \in ESlots /\ rx' \in [ESlots -> Nat \cup {Bad}]
    BY <1>1, <1>2, RingSteps
  <2>2. eDrv.got + 1 \in Nat
    BY <1>2
  <2> QED BY <1>0, <1>1, <2>1, <2>2 DEF EnetTypeOK
<1>6. RxRing(rx, rxTail, eDrv.placed, eDrv.head, eDrv.got)'
  BY <1>1, <1>3, <1>4
<1>7. \E n \in 0 .. EnetSlots : TxRing(tx', txHead', n) /\ eDrv'.tail = (txHead' + n) % EnetSlots
  BY <1>1, <1>4 DEF EnetInv
<1>8. eRun' = 1 /\ eDrv'.queued = 0 => \A i \in ESlots : tx'[i] = "free"
  BY <1>1, <1>4 DEF EnetInv
<1> QED BY <1>1, <1>4, <1>5, <1>6, <1>7, <1>8 DEF EnetInv, NoStrandedPacket

(* Steps that leave the rings alone.                                         *)
LEMMA RingsStay ==
  ASSUME EnetInv, EnetTypeOK',
         rx' = rx /\ rxTail' = rxTail /\ tx' = tx /\ txHead' = txHead /\ eRun' = eRun,
         /\ eDrv'.up = eDrv.up /\ eDrv'.head = eDrv.head /\ eDrv'.got = eDrv.got
         /\ eDrv'.placed = eDrv.placed /\ eDrv'.tail = eDrv.tail /\ eDrv'.queued = eDrv.queued,
         eRun = 1 /\ eDrv'.pc = "run" => eIrqOn' = 1,
         eRun = 1 /\ eDrv'.pc = "run" /\ eLine' = 0 => rx[eDrv.head] <= 0
  PROVE  EnetInv'
<1>1. eRun' = 1 => eDrv'.up
  BY DEF EnetInv
<1>2. eDrv'.up => RxRing(rx, rxTail, eDrv.placed, eDrv.head, eDrv.got)'
  BY DEF EnetInv
<1>3. eDrv'.up => \E n \in 0 .. EnetSlots : TxRing(tx', txHead', n) /\ eDrv'.tail = (txHead' + n) % EnetSlots
  BY DEF EnetInv
<1>4. eDrv'.up /\ eRun' = 1 /\ eDrv'.queued = 0 => \A i \in ESlots : tx'[i] = "free"
  BY DEF EnetInv
<1> QED BY <1>1, <1>2, <1>3, <1>4 DEF EnetInv, NoStrandedPacket

(* The inductive invariant of the device.                                    *)
LEMMA EnetStep ==
  ASSUME EnetInv, [EnetNext]_enetVars
  PROVE  EnetInv'
<1>0. EnetTypeOK /\ EnetSlots \in Nat
  BY EnetAssumption DEF EnetInv
<1>1. CASE rx_packet_handler
  BY <1>1, HandlerKeeps
<1>2. CASE PacketArrives
  <2>1. EnetTypeOK'
    BY <1>0, <1>2, EnetAssumption DEF PacketArrives, EnetTypeOK
  <2> QED BY <1>2, <2>1, RingsStay DEF PacketArrives, EnetInv, NoStrandedPacket
<1>3. CASE osip_enet2_kick
  BY <1>3, KickKeeps
<1>4. ASSUME NEW kind \in TxKinds, QueuePacket(kind) PROVE EnetInv'
  BY <1>4, QueueKeepsRings
<1>5. ASSUME NEW x \in {0, Bad}, TakePacket(x) PROVE EnetInv'
  BY <1>5, TakeKeeps
<1>6. ASSUME NEW on \in {0, 1}, osip_enet2_irq_ack(on), eDrv.up PROVE EnetInv'
  <2>1. /\ eIrqOn' = on /\ eLine' = 0
        /\ eDrv' = [eDrv EXCEPT !.pc = IF on = 0 \/ AckSees(eDrv.head) THEN "poll" ELSE "run"]
        /\ eRun' = eRun /\ rx' = rx /\ rxTail' = rxTail /\ tx' = tx /\ txHead' = txHead /\ wire' = wire
    BY <1>6 DEF osip_enet2_irq_ack
  <2>2. EnetTypeOK'
    BY <1>0, <2>1 DEF EnetTypeOK
  <2>3. /\ eDrv'.up = eDrv.up /\ eDrv'.head = eDrv.head /\ eDrv'.got = eDrv.got
        /\ eDrv'.placed = eDrv.placed /\ eDrv'.tail = eDrv.tail /\ eDrv'.queued = eDrv.queued
        /\ eDrv'.pc = IF on = 0 \/ AckSees(eDrv.head) THEN "poll" ELSE "run"
    BY <1>0, <2>1 DEF EnetTypeOK
  <2>4. eDrv'.pc = "run" => eIrqOn' = 1
    BY <2>1, <2>3
  <2>5. eRun = 1 /\ eDrv'.pc = "run" => rx[eDrv.head] <= 0
    <3>1. rx[eDrv.head] \in Int
      BY <1>0 DEF EnetTypeOK, Bad
    <3> QED BY <2>3, <3>1 DEF AckSees
  <2> QED BY <2>1, <2>2, <2>3, <2>4, <2>5, RingsStay
<1>7. CASE LooksEmpty
  <2>1. /\ eDrv' = [eDrv EXCEPT !.pc = "ack"]
        /\ eRun' = eRun /\ eIrqOn' = eIrqOn /\ eLine' = eLine /\ rx' = rx /\ rxTail' = rxTail
        /\ tx' = tx /\ txHead' = txHead /\ wire' = wire
    BY <1>7 DEF LooksEmpty
  <2>2. EnetTypeOK'
    BY <1>0, <2>1 DEF EnetTypeOK
  <2>3. /\ eDrv'.up = eDrv.up /\ eDrv'.head = eDrv.head /\ eDrv'.got = eDrv.got
        /\ eDrv'.placed = eDrv.placed /\ eDrv'.tail = eDrv.tail /\ eDrv'.queued = eDrv.queued
        /\ eDrv'.pc = "ack"
    BY <1>0, <2>1 DEF EnetTypeOK
  <2> QED BY <2>1, <2>2, <2>3, RingsStay
<1>8. ASSUME NEW reset \in BOOLEAN, osip_enet2_cntrl_stop(reset) PROVE EnetInv'
  <2>1. EnetTypeOK'
    BY <1>0, <1>8, RingSteps DEF osip_enet2_cntrl_stop, EnetTypeOK
  <2>2. eRun' = 0 /\ ~eDrv'.up
    BY <1>0, <1>8 DEF osip_enet2_cntrl_stop, EnetTypeOK
  <2> QED BY <2>1, <2>2 DEF EnetInv, NoStrandedPacket
<1>9. CASE osip_enet2_close
  <2>1. EnetTypeOK'
    BY <1>0, <1>9 DEF osip_enet2_close, EnetTypeOK
  <2>2. eRun' = 0 /\ ~eDrv'.up
    BY <1>0, <1>9 DEF osip_enet2_close, EnetTypeOK
  <2> QED BY <2>1, <2>2 DEF EnetInv, NoStrandedPacket
<1>10. CASE osip_enet2_cntrl_start
  <2>1. /\ rx' = [i \in ESlots |-> 0] /\ rxTail' = 0 /\ tx' = [i \in ESlots |-> "free"] /\ txHead' = 0
        /\ eRun' = 1 /\ eIrqOn' = 1 /\ eLine' = eLine /\ wire' = wire /\ eDrv.starts < EnetStarts
        /\ eDrv' = [pc |-> "run", up |-> TRUE, head |-> 0, tail |-> 0, got |-> 0, placed |-> 0,
                    queued |-> 0, starts |-> eDrv.starts + 1]
    BY <1>10 DEF osip_enet2_cntrl_start
  <2>2. 0 \in ESlots /\ (0 + 0) % EnetSlots = 0 /\ 0 \in 0 .. EnetSlots
    BY RingSteps, EnetAssumption DEF ESlots
  <2>3. EnetTypeOK'
    <3>1. eDrv.starts + 1 \in 0 .. EnetStarts
      BY <1>0, <2>1, EnetAssumption DEF EnetTypeOK
    <3> QED BY <3>1, <1>0, <2>1, <2>2 DEF EnetTypeOK
  <2>4. RxRing(rx', 0, 0, 0, 0)
    <3>1. \A k \in ESlots : (0 + k) % EnetSlots \in ESlots /\ ~(k < 0)
      BY <2>2, RingSteps, EnetAssumption DEF ESlots
    <3>2. 0 - 0 = 0 /\ 0 <= 0 + EnetSlots
      BY <1>0
    <3>3. \A k \in ESlots : ~(k < 0 - 0) /\ rx'[(0 + k) % EnetSlots] <= 0
      BY <2>1, <3>1
    <3> QED BY <2>2, <3>2, <3>3 DEF RxRing
  <2>5. \A i \in ESlots : tx'[i] = "free"
    BY <2>1
  <2>6. TxRing(tx', 0, 0)
    BY <2>2, <2>5, NoneQueued
  <2>7. /\ eDrv'.up /\ eDrv'.pc = "run" /\ eDrv'.head = 0 /\ eDrv'.tail = 0 /\ eDrv'.got = 0
        /\ eDrv'.placed = 0
    BY <2>1
  <2>8. rx'[0] <= 0
    BY <2>1, <2>2
  <2>9. \E n \in 0 .. EnetSlots : TxRing(tx', txHead', n) /\ eDrv'.tail = (txHead' + n) % EnetSlots
    BY <2>1, <2>2, <2>6, <2>7
  <2>10. RxRing(rx, rxTail, eDrv.placed, eDrv.head, eDrv.got)'
    BY <2>1, <2>4, <2>7
  <2>11. NoStrandedPacket'
    BY <2>1, <2>7, <2>8 DEF NoStrandedPacket
  <2> QED BY <2>1, <2>3, <2>5, <2>7, <2>9, <2>10, <2>11 DEF EnetInv
<1>11. CASE UNCHANGED enetVars
  <2>1. /\ rx' = rx /\ rxTail' = rxTail /\ tx' = tx /\ txHead' = txHead /\ eRun' = eRun
        /\ eDrv' = eDrv /\ eIrqOn' = eIrqOn /\ eLine' = eLine /\ wire' = wire
    BY <1>11 DEF enetVars
  <2>2. EnetTypeOK'
    BY <1>0, <2>1 DEF EnetTypeOK
  <2> QED BY <2>1, <2>2, RingsStay DEF EnetInv, NoStrandedPacket
<1>12. CASE GuestPolls
  BY <1>12, <1>5, <1>6, <1>7 DEF GuestPolls, TakeIrq, EndPoll
<1> QED BY <1>1, <1>2, <1>3, <1>4, <1>5, <1>8, <1>9, <1>10, <1>11, <1>12 DEF EnetNext

(* Device and guest agree on both rings and no packet lies in the receive    *)
(* ring that the guest was not told of (RingsAgree), although packets arrive  *)
(* and answers are injected while it has the interrupt masked: for any size   *)
(* of the rings and any number of packets and starts.                        *)
THEOREM RingsCorrect == EnetSpec => []RingsAgree
<1>1. EnetInit => EnetInv
  <2> SUFFICES ASSUME EnetInit PROVE EnetInv
    OBVIOUS
  <2>1. 0 \in ESlots
    BY RingSteps
  <2>2. EnetTypeOK
    BY <2>1, EnetAssumption DEF EnetInit, EnetTypeOK
  <2>3. eRun = 0 /\ ~eDrv.up
    BY DEF EnetInit
  <2> QED BY <2>2, <2>3 DEF EnetInv, NoStrandedPacket
<1>2. EnetInv /\ [EnetNext]_enetVars => EnetInv'
  BY EnetStep
<1>3. EnetInv => RingsAgree
  <2> SUFFICES ASSUME EnetInv PROVE RingsAgree
    OBVIOUS
  <2>1. EnetTypeOK /\ NoStrandedPacket
    BY DEF EnetInv
  <2>2. RxInOrder
    BY DEF EnetInv, RxRing, RxInOrder
  <2>3. TxInOrder
    <3>1. ASSUME eDrv.up, NEW i \in ESlots
          PROVE  tx[i] # "free" <=> (i - txHead) % EnetSlots < Cardinality({j \in ESlots : tx[j] # "free"})
      <4>1. PICK n \in 0 .. EnetSlots : TxRing(tx, txHead, n)
        BY <3>1 DEF EnetInv
      <4> QED BY <4>1 DEF TxRing, Busy
    <3>2. eDrv.up /\ eRun = 1 /\ eDrv.queued = 0 => \A i \in ESlots : tx[i] = "free"
      BY DEF EnetInv
    <3> QED BY <3>1, <3>2 DEF TxInOrder
  <2> QED BY <2>1, <2>2, <2>3 DEF RingsAgree
<1> QED BY <1>1, <1>2, <1>3, PTL DEF EnetSpec

-----------------------------------------------------------------------------
(* CUDA, the VIA's shift register and the ADB.                               *)

CudaRec ==
    [tack : {0, 1}, tip : {0, 1}, treq : {0, 1},
     sr : Int, srActive : BOOLEAN, srInt : BOOLEAN,
     outN : Nat, outReq : Nat, keys : Seq(Nat), fill : BOOLEAN,
     inN : Nat, inFrom : Int,
     autopoll : BOOLEAN, onesec : BOOLEAN, pending : Nat,
     replies : Nat, seconds : Nat,
     kbd : Seq(Nat), kbdReq : BOOLEAN,
     move : Nat, dirty : BOOLEAN, mouseReq : BOOLEAN,
     keysIn : Nat, keysOut : Nat, len : Nat, inputs : Nat, ticks : Nat,
     misread : BOOLEAN, exited : BOOLEAN]

DrvStates == {"idle", "start", "sent", "sending", "awaiting", "reading", "done", "sync", "synced"}
DrvPlans == [write : BOOLEAN, lines : {"lower", "toggle", "raise", "keep"}, to : DrvStates]
DrvRec ==
    [st : DrvStates, pc : {"off", "wait", "look", "sr", "b"}, sent : Nat, got : Int,
     plan : DrvPlans, announced : BOOLEAN, retry : BOOLEAN, ops : Int]

(* A message can be made for a guest that answers a service request.         *)
Promise(c) ==
    (c.onesec /\ c.pending > 0) \/ (c.autopoll /\ (c.mouseReq \/ c.kbdReq))

(* Keyboard and mouse, and the keys that CUDA holds.                         *)
KeysHeld(c) == IF c.outReq > 0 THEN c.keys ELSE <<>>
Adb(c) ==
    /\ c.kbdReq <=> c.kbd # <<>>
    /\ c.mouseReq => c.dirty
    /\ Len(c.kbd) < KeyBufSize
Numbered(h, q, in, out) ==
    /\ in = out + Len(h) + Len(q)
    /\ \A i \in 1 .. Len(h) : h[i] = out + i
    /\ \A i \in 1 .. Len(q) : q[i] = out + Len(h) + i
Keys(c) == Numbered(KeysHeld(c), c.kbd, c.keysIn, c.keysOut)

(* Messages and the lines, as far as CUDA knows them.                        *)
Messages(c) ==
    /\ ~c.exited /\ (c.misread => c.ticks > 0)
    /\ c.outReq \in {0, ReplyLen} /\ (c.outReq > 0 => c.len = c.outReq)
    /\ c.inN <= BufferLen
    /\ c.fill => c.treq = 0 /\ c.tip = 1 /\ c.tack = 1 /\ c.outReq = 0 /\ Promise(c)
    /\ c.tip = 1 => c.outN = 0 /\ c.inN = 0
    /\ c.tip = 1 /\ c.tack = 1 /\ c.treq = 0 /\ c.outReq = 0 => c.fill
    /\ c.tip = 1 /\ c.tack = 0 => c.treq = 0 /\ c.outReq = 0
    /\ c.tip = 1 /\ c.outReq > 0 /\ c.treq = 1 => c.replies > 0
    /\ c.tip = 0 /\ c.treq = 1 => c.outN = 0

(* What the guest is about to do, from its state and TREQ.                   *)
Plans(d, lines, to) == d.plan.lines = lines /\ d.plan.to = to
PlanFits(c, d) ==
    /\ d.st \in {"idle", "awaiting"} => Plans(d, "lower", "reading")
    /\ d.st = "done" => \/ Plans(d, "lower", "reading") /\ c.treq = 0
                        \/ Plans(d, "keep", "idle") /\ c.outReq = 0
    /\ d.st = "start" => Plans(d, "lower", "sent") /\ (c.treq = 1 => c.sr = -1)
    /\ d.st \in {"sent", "sending"} =>
          \/ c.treq = 0 /\ Plans(d, "raise", "idle")
          \/ c.treq = 1 /\ (Plans(d, "toggle", "sending") \/ Plans(d, "raise", "awaiting"))
    /\ d.st = "reading" => \/ c.treq = 0 /\ Plans(d, "toggle", "reading")
                           \/ c.treq = 1 /\ Plans(d, "raise", "done")
    /\ d.st = "sync" => Plans(d, "raise", "synced")
    /\ d.st = "synced" => Plans(d, "keep", "idle")

WritePlanned(c, d) ==
    \/ d.st = "start" /\ Plans(d, "lower", "sent")
    \/ d.st \in {"sent", "sending"} /\ c.treq = 1 /\ Plans(d, "toggle", "sending")

(* The lines as the guest has set them.                                      *)
LinesFit(c, d) ==
    /\ d.pc = "off" => /\ d.st = "idle" /\ c.tip = 0 /\ c.tack = 0 /\ c.treq = 0
                       /\ c.outReq = 0 /\ c.outN = 0 /\ c.inN = 0 /\ ~c.autopoll /\ ~c.onesec
    /\ d.pc # "off" /\ d.st \in {"idle", "start", "awaiting", "done", "synced"} => c.tip = 1 /\ c.tack = 1
    /\ d.st = "sync" => c.tip = 1 /\ c.tack = 0
    /\ d.st \in {"sent", "sending", "reading"} => c.tip = 0
    /\ d.pc # "off" /\ c.tip = 0 /\ c.treq = 0 => 1 <= c.outN /\ c.outN < c.outReq /\ c.sr = c.outN
    /\ d.st = "sending" => c.treq = 1
    /\ d.st = "start" => d.pc \in {"look", "sr", "b"} /\ (d.pc # "b" => d.sent = 0)
    /\ d.pc = "sr" => WritePlanned(c, d)
    /\ d.pc = "b" => PlanFits(c, d)

(* Commands come in from their first byte; no message is lost to one.        *)
CommandsFit(c, d) ==
    /\ d.st = "idle" /\ ~d.retry => c.outReq = 0
    /\ d.st \in {"start", "synced"} => c.outReq = 0
    /\ d.st \in {"sent", "sending"} /\ c.treq = 1 =>
          c.outReq = 0 /\ (c.ticks > 0 \/ (c.inN >= 1 /\ c.inFrom = 1))
    /\ d.st = "reading" \/ (d.st = "sent" /\ c.treq = 0) => c.inN <= 1

(* The bytes the guest has read of a message.                                *)
ReadFits(c, d) ==
    /\ d.pc \in {"look", "b"} /\ d.st \in {"idle", "awaiting", "done"} => d.got = 0
    /\ d.st = "reading" /\ ~d.announced => c.treq = 1
    /\ d.st = "reading" /\ d.announced =>
          /\ d.got = IF d.pc = "wait" THEN c.sr - 1 ELSE c.sr
          /\ c.treq = 1 => c.sr = c.len /\ c.outReq = 0

(* An interrupt is due whenever the guest waits; and a message that CUDA     *)
(* will announce finds at most one that is stale, so that the guest does not *)
(* pass over it.                                                             *)
Quiet(c) == ~c.srInt /\ ~c.srActive
Spare(c, d) == IF d.pc = "wait" THEN ~(c.srInt /\ c.srActive) ELSE Quiet(c)
Interrupts(c, d) ==
    /\ d.pc = "wait" /\ d.st # "idle" /\ Quiet(c) => c.tip = 1 /\ c.outReq > 0 /\ c.treq = 1
    /\ c.outReq > 0 /\ c.treq = 1 /\ d.st \in {"idle", "awaiting"} => Spare(c, d)
    /\ c.outReq > 0 /\ d.st = "reading" /\ ~d.announced => Spare(c, d)
    /\ c.outReq > 0 /\ c.treq = 1 /\ d.st = "done" => d.pc = "wait" /\ Quiet(c)
    /\ d.pc # "wait" /\ d.st \in {"sent", "sending"} => ~(c.srInt /\ c.srActive)

(* A key that waits is announced as soon as the guest has looked.            *)
Announced(c, d) ==
    (d.pc \in {"look", "b"} /\ d.st \in {"done", "synced"}) \/ (d.pc = "wait" /\ d.st = "idle") =>
        (c.autopoll /\ c.kbd # <<>> /\ c.outReq = 0 => c.treq = 0)

HandshakeCore(c, d) ==
    /\ c \in CudaRec /\ d \in DrvRec
    /\ Adb(c) /\ Keys(c) /\ Messages(c)
    /\ LinesFit(c, d) /\ CommandsFit(c, d) /\ ReadFits(c, d) /\ Interrupts(c, d)

CudaInv == HandshakeCore(cuda, cdrv) /\ Announced(cuda, cdrv)

Fields == {"tack", "tip", "treq", "sr", "srActive", "srInt", "outN", "outReq", "keys", "fill",
           "inN", "inFrom", "autopoll", "onesec", "pending", "replies", "seconds", "kbd", "kbdReq",
           "move", "dirty", "mouseReq", "keysIn", "keysOut", "len", "inputs", "ticks", "misread", "exited"}
SameBut(t, s, changed) == \A f \in Fields \ changed : t[f] = s[f]

(* What the operators on the registers change.                               *)
LEMMA PostFields ==
  ASSUME NEW s \in CudaRec, NEW t, t = via_sr_int_post(s)
  PROVE  t \in CudaRec /\ t.srActive /\ SameBut(t, s, {"srActive"})
<1>1. t = [s EXCEPT !.srActive = TRUE]
  BY DEF via_sr_int_post
<1>2. t \in CudaRec
  BY <1>1 DEF CudaRec
<1>3. t.srActive
  BY <1>1 DEF CudaRec
<1>4. SameBut(t, s, {"srActive"})
  BY <1>1 DEF CudaRec, SameBut, Fields
<1> QED BY <1>2, <1>3, <1>4

LEMMA DummyFields ==
  ASSUME NEW s \in CudaRec, NEW t, t = via_dummy_shift(s)
  PROVE  t \in CudaRec /\ t.srActive /\ t.sr = 0 /\ SameBut(t, s, {"srActive", "sr"})
<1> DEFINE u == [s EXCEPT !.sr = 0]
<1>1. u \in CudaRec
  <2>1. 0 \in Int
    OBVIOUS
  <2> QED BY <2>1 DEF CudaRec
<1>2. u.sr = 0
  BY DEF CudaRec
<1>3. SameBut(u, s, {"sr"})
  BY DEF CudaRec, SameBut, Fields
<1>4. t = via_sr_int_post(u)
  BY DEF via_dummy_shift
<1> HIDE DEF u
<1>5. t \in CudaRec /\ t.srActive /\ SameBut(t, u, {"srActive"})
  BY <1>1, <1>4, PostFields
<1>6. t.sr = 0
  BY <1>2, <1>5 DEF SameBut, Fields
<1>7. SameBut(t, s, {"srActive", "sr"})
  BY <1>3, <1>5 DEF SameBut
<1> QED BY <1>5, <1>6, <1>7

Announce(s) == via_dummy_shift([s EXCEPT !.fill = TRUE, !.treq = 0])
LEMMA AnnounceFields ==
  ASSUME NEW s \in CudaRec, NEW t, t = Announce(s)
  PROVE  /\ t \in CudaRec /\ t.fill /\ t.treq = 0 /\ t.sr = 0 /\ t.srActive
         /\ SameBut(t, s, {"fill", "treq", "sr", "srActive"})
<1> DEFINE u == [s EXCEPT !.fill = TRUE, !.treq = 0]
<1>1. u \in CudaRec
  BY DEF CudaRec
<1>2. u.fill /\ u.treq = 0
  BY DEF CudaRec
<1>3. SameBut(u, s, {"fill", "treq"})
  BY DEF CudaRec, SameBut, Fields
<1>4. t = via_dummy_shift(u)
  BY DEF Announce
<1> HIDE DEF u
<1>5. t \in CudaRec /\ t.srActive /\ t.sr = 0 /\ SameBut(t, u, {"srActive", "sr"})
  BY <1>1, <1>4, DummyFields
<1>6. t.fill = u.fill /\ t.treq = u.treq
  BY <1>5 DEF SameBut, Fields
<1>7. SameBut(t, s, {"fill", "treq", "sr", "srActive"})
  BY <1>3, <1>5 DEF SameBut
<1> QED BY <1>2, <1>5, <1>6, <1>7

(* Types of the fields, for the provers.                                     *)
LEMMA CudaTypes ==
  ASSUME NEW c \in CudaRec
  PROVE  /\ c.tack \in {0, 1} /\ c.tip \in {0, 1} /\ c.treq \in {0, 1} /\ c.sr \in Int
         /\ c.srActive \in BOOLEAN /\ c.srInt \in BOOLEAN /\ c.outN \in Nat /\ c.outReq \in Nat
         /\ c.keys \in Seq(Nat) /\ c.fill \in BOOLEAN /\ c.inN \in Nat /\ c.inFrom \in Int
         /\ c.autopoll \in BOOLEAN /\ c.onesec \in BOOLEAN /\ c.pending \in Nat /\ c.replies \in Nat
         /\ c.seconds \in Nat /\ c.kbd \in Seq(Nat) /\ c.kbdReq \in BOOLEAN /\ c.move \in Nat
         /\ c.dirty \in BOOLEAN /\ c.mouseReq \in BOOLEAN /\ c.keysIn \in Nat /\ c.keysOut \in Nat
         /\ c.len \in Nat /\ c.inputs \in Nat /\ c.ticks \in Nat /\ c.misread \in BOOLEAN
         /\ c.exited \in BOOLEAN
BY DEF CudaRec

LEMMA KeysHeldSeq ==
  ASSUME NEW c \in CudaRec
  PROVE  KeysHeld(c) \in Seq(Nat)
<1>1. c.keys \in Seq(Nat) /\ <<>> \in Seq(Nat)
  BY CudaTypes
<1> QED BY <1>1 DEF KeysHeld

LEMMA DrvTypes ==
  ASSUME NEW d \in DrvRec
  PROVE  /\ d.st \in DrvStates /\ d.pc \in {"off", "wait", "look", "sr", "b"} /\ d.sent \in Nat
         /\ d.got \in Int /\ d.plan \in DrvPlans /\ d.announced \in BOOLEAN /\ d.retry \in BOOLEAN
         /\ d.ops \in Int
BY DEF DrvRec

(* A service request: TREQ is asserted, with a message that can be made.     *)
LEMMA AnnounceKeeps ==
  ASSUME NEW c, NEW d, HandshakeCore(c, d), c.tip = 1, c.tack = 1, c.outReq = 0, Promise(c),
         NEW t, t = Announce(c)
  PROVE  HandshakeCore(t, d)
<1>0. c \in CudaRec /\ d \in DrvRec
  BY DEF HandshakeCore
<1>1. /\ t \in CudaRec /\ t.fill /\ t.treq = 0 /\ t.sr = 0 /\ t.srActive
      /\ SameBut(t, c, {"fill", "treq", "sr", "srActive"})
  BY <1>0, AnnounceFields
<1>2. /\ t.tack = c.tack /\ t.tip = c.tip /\ t.srInt = c.srInt /\ t.outN = c.outN /\ t.outReq = c.outReq
      /\ t.keys = c.keys /\ t.inN = c.inN /\ t.inFrom = c.inFrom /\ t.autopoll = c.autopoll
      /\ t.onesec = c.onesec /\ t.pending = c.pending /\ t.replies = c.replies /\ t.kbd = c.kbd
      /\ t.kbdReq = c.kbdReq /\ t.dirty = c.dirty /\ t.mouseReq = c.mouseReq /\ t.keysIn = c.keysIn
      /\ t.keysOut = c.keysOut /\ t.len = c.len /\ t.ticks = c.ticks /\ t.misread = c.misread
      /\ t.exited = c.exited
  BY <1>1 DEF SameBut, Fields
<1>3. Adb(t) /\ Keys(t)
  BY <1>2 DEF HandshakeCore, Adb, Keys, KeysHeld
<1>4. Messages(t)
  BY <1>1, <1>2 DEF HandshakeCore, Messages, Promise
<1>5. d.st \in {"idle", "start", "awaiting", "done", "synced"} /\ d.pc # "off"
  BY <1>0, DrvTypes DEF HandshakeCore, LinesFit, DrvStates
<1>6. LinesFit(t, d)
  <2>1. d.pc = "b" => PlanFits(t, d)
    BY <1>1, <1>2, <1>5 DEF HandshakeCore, LinesFit, PlanFits
  <2>2. d.pc = "sr" => WritePlanned(t, d)
    BY <1>1, <1>2, <1>5 DEF HandshakeCore, LinesFit, WritePlanned
  <2> QED BY <1>1, <1>2, <1>5, <2>1, <2>2 DEF HandshakeCore, LinesFit
<1>7. CommandsFit(t, d) /\ ReadFits(t, d)
  BY <1>1, <1>2, <1>5 DEF HandshakeCore, CommandsFit, ReadFits
<1>8. Interrupts(t, d)
  BY <1>1, <1>2, <1>5 DEF HandshakeCore, Interrupts, Quiet
<1> QED BY <1>0, <1>1, <1>3, <1>4, <1>6, <1>7, <1>8 DEF HandshakeCore

(* Input and ticks touch neither the handshake nor a message.                *)
InputFields == {"kbd", "kbdReq", "keysIn", "move", "dirty", "mouseReq", "inputs", "pending", "seconds"}
LEMMA InputKeeps ==
  ASSUME NEW c, NEW d, HandshakeCore(c, d), NEW t \in CudaRec, SameBut(t, c, InputFields),
         Adb(t), Keys(t), Promise(c) => Promise(t)
  PROVE  HandshakeCore(t, d)
<1>0. c \in CudaRec /\ d \in DrvRec
  BY DEF HandshakeCore
<1>2. /\ t.tack = c.tack /\ t.tip = c.tip /\ t.srInt = c.srInt /\ t.outN = c.outN /\ t.outReq = c.outReq
      /\ t.inN = c.inN /\ t.inFrom = c.inFrom /\ t.treq = c.treq /\ t.sr = c.sr
      /\ t.srActive = c.srActive /\ t.replies = c.replies /\ t.fill = c.fill
      /\ t.len = c.len /\ t.ticks = c.ticks /\ t.misread = c.misread /\ t.exited = c.exited
  BY DEF SameBut, Fields, InputFields
<1>4. Messages(t)
  BY <1>2 DEF HandshakeCore, Messages
<1>6. LinesFit(t, d)
  <2>0. t.autopoll = c.autopoll /\ t.onesec = c.onesec
    BY DEF SameBut, Fields, InputFields
  <2>1. d.pc = "b" => PlanFits(t, d)
    BY <1>2 DEF HandshakeCore, LinesFit, PlanFits
  <2>2. d.pc = "sr" => WritePlanned(t, d)
    BY <1>2 DEF HandshakeCore, LinesFit, WritePlanned
  <2> QED BY <1>2, <2>0, <2>1, <2>2 DEF HandshakeCore, LinesFit
<1>7. CommandsFit(t, d) /\ ReadFits(t, d)
  BY <1>2 DEF HandshakeCore, CommandsFit, ReadFits
<1>8. Interrupts(t, d)
  BY <1>2 DEF HandshakeCore, Interrupts, Quiet, Spare
<1> QED BY <1>0, <1>4, <1>6, <1>7, <1>8 DEF HandshakeCore

LEMMA ServeKeeps ==
  ASSUME NEW c, NEW d, HandshakeCore(c, d), c.autopoll \/ c.onesec => Promise(c),
         NEW t, t = adb_service_request(c)
  PROVE  /\ HandshakeCore(t, d) /\ t.treq \in {0, c.treq}
         /\ t.kbd = c.kbd /\ t.autopoll = c.autopoll /\ t.outReq = c.outReq
         /\ t.tip = c.tip /\ t.tack = c.tack
         /\ c.autopoll /\ c.tip = 1 /\ c.tack = 1 /\ c.outReq = 0 => t.treq = 0
<1>0. c \in CudaRec
  BY DEF HandshakeCore
<1>1. CASE MayServe(c)
  <2>1. t = Announce(c)
    BY <1>1 DEF adb_service_request, Announce
  <2>2. HandshakeCore(t, d)
    BY <1>1, <2>1, AnnounceKeeps DEF MayServe
  <2>3. t.treq = 0 /\ SameBut(t, c, {"fill", "treq", "sr", "srActive"})
    BY <1>0, <2>1, AnnounceFields
  <2> QED BY <2>2, <2>3 DEF SameBut, Fields
<1>2. CASE ~MayServe(c)
  <2>1. t = c
    BY <1>2 DEF adb_service_request
  <2> QED BY <1>2, <2>1 DEF MayServe
<1> QED BY <1>1, <1>2

LEMMA NotifyKeeps ==
  ASSUME NEW c, NEW d, HandshakeCore(c, d), c.mouseReq \/ c.kbdReq, NEW t, t = Notify(c)
  PROVE  HandshakeCore(t, d) /\ Announced(t, d)
<1>0. c \in CudaRec /\ d \in DrvRec
  BY DEF HandshakeCore
<1>1. CASE c.autopoll
  <2>1. t = adb_service_request(c)
    BY <1>1 DEF Notify
  <2>2. Promise(c)
    BY <1>1 DEF Promise
  <2>3. /\ HandshakeCore(t, d) /\ t.autopoll = c.autopoll /\ t.outReq = c.outReq
        /\ t.tip = c.tip /\ t.tack = c.tack
        /\ c.autopoll /\ c.tip = 1 /\ c.tack = 1 /\ c.outReq = 0 => t.treq = 0
    BY <2>1, <2>2, ServeKeeps
  <2>4. Announced(t, d)
    BY <1>1, <2>3 DEF Announced, HandshakeCore, LinesFit
  <2> QED BY <2>3, <2>4
<1>2. CASE ~c.autopoll
  <2>1. t = c
    BY <1>2 DEF Notify
  <2> QED BY <1>2, <2>1 DEF Announced
<1> QED BY <1>1, <1>2

Queued(s, k, n) == [s EXCEPT !.kbd = k, !.keysIn = n, !.kbdReq = TRUE]
LEMMA QueueFields ==
  ASSUME NEW s \in CudaRec, NEW k \in Seq(Nat), NEW n \in Nat, NEW t, t = Queued(s, k, n)
  PROVE  /\ t \in CudaRec /\ t.kbd = k /\ t.keysIn = n /\ t.kbdReq
         /\ SameBut(t, s, {"kbd", "keysIn", "kbdReq"})
<1>1. t \in CudaRec
  BY DEF Queued, CudaRec
<1>2. t.kbd = k /\ t.keysIn = n /\ t.kbdReq
  BY DEF Queued, CudaRec
<1>3. SameBut(t, s, {"kbd", "keysIn", "kbdReq"})
  BY DEF Queued, CudaRec, SameBut, Fields
<1> QED BY <1>1, <1>2, <1>3

LEMMA KeyAppended ==
  ASSUME NEW h \in Seq(Nat), NEW q \in Seq(Nat), NEW in \in Nat, NEW out \in Nat,
         Numbered(h, q, in, out)
  PROVE  /\ Append(q, in + 1) \in Seq(Nat) /\ Append(q, in + 1) # <<>>
         /\ Len(Append(q, in + 1)) = Len(q) + 1
         /\ Numbered(h, Append(q, in + 1), in + 1, out)
<1> DEFINE k == Append(q, in + 1)
<1>1. /\ k \in Seq(Nat) /\ k # <<>> /\ Len(q) \in Nat /\ Len(h) \in Nat /\ Len(k) = Len(q) + 1
      /\ \A i \in 1 .. Len(q) : k[i] = q[i]
      /\ k[Len(q) + 1] = in + 1
  OBVIOUS
<1> HIDE DEF k
<1>2. \A i \in 1 .. Len(k) : k[i] = out + Len(h) + i
  <2> TAKE i \in 1 .. Len(k)
  <2>1. i \in 1 .. Len(q) \/ i = Len(q) + 1
    BY <1>1
  <2>2. ASSUME i = Len(q) + 1 PROVE k[i] = out + Len(h) + i
    BY <1>1, <2>2 DEF Numbered
  <2> QED BY <1>1, <2>1, <2>2 DEF Numbered
<1>3. Numbered(h, k, in + 1, out)
  BY <1>1, <1>2 DEF Numbered
<1> QED BY <1>1, <1>3 DEF k

(* A key is put behind those that wait.                                      *)
LEMMA QueueKeyKeeps ==
  ASSUME NEW c, NEW d, HandshakeCore(c, d), NEW t, t = QueueKey(c)
  PROVE  HandshakeCore(t, d) /\ t.kbdReq
<1>0. c \in CudaRec /\ Adb(c) /\ Keys(c)
  BY DEF HandshakeCore
<1>9. c.kbd \in Seq(Nat) /\ c.keysIn \in Nat /\ c.keysOut \in Nat /\ c.keys \in Seq(Nat) /\ c.outReq \in Nat
      /\ c.kbdReq \in BOOLEAN
  BY <1>0, CudaTypes
<1>1. CASE Len(c.kbd) + 1 < KeyBufSize
  <2>1. PICK h \in Seq(Nat) : h = KeysHeld(c)
    BY <1>0, KeysHeldSeq
  <2> DEFINE k == Append(c.kbd, c.keysIn + 1)
             n == c.keysIn + 1
  <2>2. t = Queued(c, k, n)
    BY <1>1 DEF QueueKey, Queued
  <2>3. k \in Seq(Nat) /\ k # <<>> /\ Len(k) = Len(c.kbd) + 1 /\ Numbered(h, k, n, c.keysOut)
    BY <1>0, <1>9, <2>1, KeyAppended, Zenon DEF Keys
  <2>4. n \in Nat
    BY <1>9
  <2> HIDE DEF k, n
  <2>5. t \in CudaRec /\ t.kbd = k /\ t.keysIn = n /\ t.kbdReq /\ SameBut(t, c, {"kbd", "keysIn", "kbdReq"})
    BY <1>0, <2>2, <2>3, <2>4, QueueFields, Zenon
  <2>6. /\ t.keysOut = c.keysOut /\ t.outReq = c.outReq /\ t.keys = c.keys /\ t.mouseReq = c.mouseReq
        /\ t.dirty = c.dirty /\ t.onesec = c.onesec /\ t.pending = c.pending /\ t.autopoll = c.autopoll
    BY <2>5 DEF SameBut, Fields
  <2>7. Adb(t)
    BY <1>0, <1>1, <2>3, <2>5, <2>6 DEF Adb
  <2>8. Keys(t)
    BY <2>1, <2>3, <2>5, <2>6 DEF Keys, KeysHeld
  <2>9. Promise(c) => Promise(t)
    BY <2>5, <2>6 DEF Promise
  <2>10. SameBut(t, c, InputFields)
    BY <2>5 DEF SameBut, InputFields
  <2> QED BY <2>5, <2>7, <2>8, <2>9, <2>10, InputKeeps
<1>2. CASE ~(Len(c.kbd) + 1 < KeyBufSize)
  <2>1. t = c
    BY <1>2 DEF QueueKey
  <2>2. c.kbd # <<>>
    BY <1>9, <1>2, CudaAssumption
  <2> QED BY <1>0, <2>1, <2>2 DEF Adb
<1> QED BY <1>1, <1>2

(* Events: the shift register's timer, the reply's, the clock's, keys and    *)
(* the mouse.                                                                *)
LEMMA ShiftFields ==
  ASSUME NEW s \in CudaRec, NEW t, t = [s EXCEPT !.srActive = FALSE, !.srInt = TRUE]
  PROVE  t \in CudaRec /\ ~t.srActive /\ t.srInt /\ SameBut(t, s, {"srActive", "srInt"})
<1>1. t \in CudaRec
  BY DEF CudaRec
<1>2. ~t.srActive /\ t.srInt
  BY DEF CudaRec
<1>3. SameBut(t, s, {"srActive", "srInt"})
  BY DEF CudaRec, SameBut, Fields
<1> QED BY <1>1, <1>2, <1>3

LEMMA ShiftKeeps ==
  ASSUME CudaInv, via_sr_int
  PROVE  CudaInv'
<1> DEFINE c == cuda
           t == cuda'
           d == cdrv
<1>0. /\ HandshakeCore(c, d) /\ Announced(c, d) /\ c \in CudaRec /\ d \in DrvRec /\ c.srActive
      /\ t = [c EXCEPT !.srActive = FALSE, !.srInt = TRUE] /\ cdrv' = d
  BY DEF CudaInv, HandshakeCore, via_sr_int
<1> SUFFICES HandshakeCore(t, d) /\ Announced(t, d)
  BY <1>0 DEF CudaInv
<1>1. t \in CudaRec /\ ~t.srActive /\ t.srInt /\ SameBut(t, c, {"srActive", "srInt"})
  BY <1>0, ShiftFields
<1> HIDE DEF c, t, d
<1>2. /\ t.tack = c.tack /\ t.tip = c.tip /\ t.treq = c.treq /\ t.sr = c.sr /\ t.outN = c.outN /\ t.outReq = c.outReq
      /\ t.keys = c.keys /\ t.inN = c.inN /\ t.inFrom = c.inFrom /\ t.autopoll = c.autopoll /\ t.fill = c.fill
      /\ t.onesec = c.onesec /\ t.pending = c.pending /\ t.replies = c.replies /\ t.kbd = c.kbd
      /\ t.kbdReq = c.kbdReq /\ t.dirty = c.dirty /\ t.mouseReq = c.mouseReq /\ t.keysIn = c.keysIn
      /\ t.keysOut = c.keysOut /\ t.len = c.len /\ t.ticks = c.ticks /\ t.misread = c.misread
      /\ t.exited = c.exited
  BY <1>1 DEF SameBut, Fields
<1>3. Adb(t) /\ Keys(t) /\ Announced(t, d)
  BY <1>0, <1>2 DEF HandshakeCore, Adb, Keys, KeysHeld, Announced
<1>4. Messages(t)
  BY <1>0, <1>2 DEF HandshakeCore, Messages, Promise
<1>6. LinesFit(t, d)
  <2>1. d.pc = "b" => PlanFits(t, d)
    BY <1>0, <1>2 DEF HandshakeCore, LinesFit, PlanFits
  <2>2. d.pc = "sr" => WritePlanned(t, d)
    BY <1>0, <1>2 DEF HandshakeCore, LinesFit, WritePlanned
  <2> QED BY <1>0, <1>2, <2>1, <2>2 DEF HandshakeCore, LinesFit
<1>7. CommandsFit(t, d) /\ ReadFits(t, d)
  BY <1>0, <1>2 DEF HandshakeCore, CommandsFit, ReadFits
<1>8. Interrupts(t, d)
  BY <1>0, <1>1, <1>2 DEF HandshakeCore, Interrupts, Quiet, Spare
<1> QED BY <1>0, <1>1, <1>3, <1>4, <1>6, <1>7, <1>8 DEF HandshakeCore

Expired(s) == [s EXCEPT !.replies = @ - 1]
LEMMA ExpiredFields ==
  ASSUME NEW s \in CudaRec, NEW n \in Nat, s.replies = n + 1, NEW t, t = Expired(s)
  PROVE  t \in CudaRec /\ t.replies = n /\ SameBut(t, s, {"replies"})
<1>0. t = [s EXCEPT !.replies = n]
  BY DEF Expired
<1>1. t \in CudaRec
  <2>1. ASSUME NEW u \in CudaRec PROVE [u EXCEPT !.replies = n] \in CudaRec
    BY DEF CudaRec
  <2> QED BY <1>0, <2>1
<1>2. t.replies = n
  BY <1>0 DEF CudaRec
<1>3. SameBut(t, s, {"replies"})
  BY <1>0 DEF CudaRec, SameBut, Fields
<1> QED BY <1>1, <1>2, <1>3

Asserted(s) == [s EXCEPT !.treq = 0]
LEMMA AssertedFields ==
  ASSUME NEW s \in CudaRec, NEW t, t = Asserted(s)
  PROVE  t \in CudaRec /\ t.treq = 0 /\ SameBut(t, s, {"treq"})
<1>1. t \in CudaRec
  BY DEF CudaRec, Asserted
<1>2. t.treq = 0
  BY DEF CudaRec, Asserted
<1>3. SameBut(t, s, {"treq"})
  BY DEF CudaRec, Asserted, SameBut, Fields
<1> QED BY <1>1, <1>2, <1>3

LEMMA ReplyKeeps ==
  ASSUME CudaInv, cuda_start_reply
  PROVE  CudaInv'
<1> DEFINE c == cuda
           t == cuda'
           d == cdrv
           e == Expired(c)
           a == Asserted(e)
           ready == e.outReq > 0 /\ e.treq = 1 /\ e.tip = 1
<1>0. /\ HandshakeCore(c, d) /\ Announced(c, d) /\ c \in CudaRec /\ d \in DrvRec /\ c.replies > 0
      /\ t = (IF ready THEN via_dummy_shift(a) ELSE e) /\ cdrv' = d
  BY DEF CudaInv, HandshakeCore, cuda_start_reply, Expired, Asserted
<1> SUFFICES HandshakeCore(t, d) /\ Announced(t, d)
  BY <1>0 DEF CudaInv
<1>1. e \in CudaRec /\ e.replies = c.replies - 1 /\ SameBut(e, c, {"replies"})
  <2>1. PICK n \in Nat : c.replies = n + 1
    <3>1. c.replies \in Nat
      BY <1>0, CudaTypes
    <3>2. c.replies - 1 \in Nat /\ c.replies = (c.replies - 1) + 1
      BY <1>0, <3>1
    <3> QED BY <3>2
  <2>2. e \in CudaRec /\ e.replies = n /\ SameBut(e, c, {"replies"})
    BY <1>0, <2>1, ExpiredFields
  <2> QED BY <2>1, <2>2
<1>2. a \in CudaRec /\ a.treq = 0 /\ SameBut(a, e, {"treq"})
  BY <1>1, AssertedFields
<1> HIDE DEF c, t, d, e, a
<1>3. e.outReq = c.outReq /\ e.treq = c.treq /\ e.tip = c.tip /\ e.sr = c.sr /\ e.srActive = c.srActive
  BY <1>1 DEF SameBut, Fields
<1>4. /\ t \in CudaRec /\ SameBut(t, c, {"replies", "treq", "sr", "srActive"}) /\ t.replies = c.replies - 1
      /\ IF ready THEN t.treq = 0 /\ t.srActive
         ELSE t.treq = c.treq /\ t.sr = c.sr /\ t.srActive = c.srActive
  <2>1. CASE ready
    <3>1. t \in CudaRec /\ t.srActive /\ t.sr = 0 /\ SameBut(t, a, {"srActive", "sr"})
      BY <1>0, <1>2, <2>1, DummyFields
    <3>2. SameBut(t, c, {"replies", "treq", "sr", "srActive"})
      BY <1>1, <1>2, <3>1 DEF SameBut
    <3>3. t.treq = a.treq /\ t.replies = a.replies /\ a.replies = e.replies
      BY <1>2, <3>1 DEF SameBut, Fields
    <3> QED BY <1>1, <1>2, <2>1, <3>1, <3>2, <3>3
  <2>2. CASE ~ready
    <3>1. t = e
      BY <1>0, <2>2
    <3>2. SameBut(t, c, {"replies", "treq", "sr", "srActive"})
      BY <1>1, <3>1 DEF SameBut
    <3> QED BY <1>1, <1>3, <2>2, <3>1, <3>2
  <2> QED BY <2>1, <2>2
<1>5. ready <=> c.outReq > 0 /\ c.treq = 1 /\ c.tip = 1
  BY <1>3
<1> HIDE DEF ready
<1>6. /\ t.tack = c.tack /\ t.tip = c.tip /\ t.srInt = c.srInt /\ t.outN = c.outN /\ t.outReq = c.outReq
      /\ t.keys = c.keys /\ t.inN = c.inN /\ t.inFrom = c.inFrom /\ t.autopoll = c.autopoll /\ t.fill = c.fill
      /\ t.onesec = c.onesec /\ t.pending = c.pending /\ t.kbd = c.kbd
      /\ t.kbdReq = c.kbdReq /\ t.dirty = c.dirty /\ t.mouseReq = c.mouseReq /\ t.keysIn = c.keysIn
      /\ t.keysOut = c.keysOut /\ t.len = c.len /\ t.ticks = c.ticks /\ t.misread = c.misread
      /\ t.exited = c.exited
  BY <1>4 DEF SameBut, Fields
<1>7. Adb(t) /\ Keys(t) /\ Announced(t, d)
  BY <1>0, <1>4, <1>6 DEF HandshakeCore, Adb, Keys, KeysHeld, Announced
<1>8. c.treq \in {0, 1} /\ c.replies \in Nat /\ c.outReq \in Nat /\ c.tip \in {0, 1} /\ c.tack \in {0, 1}
  BY <1>0, CudaTypes
<1>9. Messages(t)
  BY <1>0, <1>4, <1>5, <1>6, <1>8 DEF HandshakeCore, Messages, Promise
<1>10. CASE ~ready
  <2>1. LinesFit(t, d)
    <3>1. d.pc = "b" => PlanFits(t, d)
      BY <1>0, <1>4, <1>6, <1>10 DEF HandshakeCore, LinesFit, PlanFits
    <3>2. d.pc = "sr" => WritePlanned(t, d)
      BY <1>0, <1>4, <1>6, <1>10 DEF HandshakeCore, LinesFit, WritePlanned
    <3> QED BY <1>0, <1>4, <1>6, <1>10, <3>1, <3>2 DEF HandshakeCore, LinesFit
  <2>2. CommandsFit(t, d) /\ ReadFits(t, d) /\ Interrupts(t, d)
    BY <1>0, <1>4, <1>6, <1>10 DEF HandshakeCore, CommandsFit, ReadFits, Interrupts, Quiet, Spare
  <2> QED BY <1>0, <1>4, <1>7, <1>9, <2>1, <2>2 DEF HandshakeCore
<1>11. CASE ready
  <2>0. d.st \in {"idle", "awaiting", "done"} /\ d.pc # "off"
    BY <1>0, <1>5, <1>8, <1>11, DrvTypes DEF HandshakeCore, LinesFit, Messages, CommandsFit, DrvStates
  <2>1. LinesFit(t, d)
    <3>1. d.pc = "b" => PlanFits(t, d)
      BY <1>0, <1>4, <1>6, <1>11, <2>0 DEF HandshakeCore, LinesFit, PlanFits
    <3>2. d.pc = "sr" => WritePlanned(t, d)
      BY <1>0, <1>4, <1>6, <1>11, <2>0 DEF HandshakeCore, LinesFit, WritePlanned
    <3> QED BY <1>0, <1>4, <1>5, <1>6, <1>11, <2>0, <3>1, <3>2 DEF HandshakeCore, LinesFit
  <2>2. CommandsFit(t, d) /\ ReadFits(t, d) /\ Interrupts(t, d)
    BY <1>0, <1>4, <1>6, <1>11, <2>0 DEF HandshakeCore, CommandsFit, ReadFits, Interrupts, Quiet, Spare
  <2> QED BY <1>0, <1>4, <1>7, <1>9, <2>1, <2>2 DEF HandshakeCore
<1> QED BY <1>10, <1>11

Counted(s, n) == [s EXCEPT !.pending = n]
Stopped(s, n) == [s EXCEPT !.seconds = n]
Typed(s, n) == [s EXCEPT !.inputs = n]
Moved(s, n, m) == [s EXCEPT !.inputs = n, !.move = m, !.dirty = TRUE, !.mouseReq = TRUE]
LEMMA EventFields ==
  ASSUME NEW s \in CudaRec, NEW n \in Nat, NEW m \in Nat
  PROVE  /\ Counted(s, n) \in CudaRec /\ Counted(s, n).pending = n /\ SameBut(Counted(s, n), s, {"pending"})
         /\ Stopped(s, n) \in CudaRec /\ SameBut(Stopped(s, n), s, {"seconds"})
         /\ Typed(s, n) \in CudaRec /\ SameBut(Typed(s, n), s, {"inputs"})
         /\ Moved(s, n, m) \in CudaRec /\ Moved(s, n, m).dirty /\ Moved(s, n, m).mouseReq
         /\ SameBut(Moved(s, n, m), s, {"inputs", "move", "dirty", "mouseReq"})
<1>1. Counted(s, n) \in CudaRec /\ Counted(s, n).pending = n
  BY DEF Counted, CudaRec
<1>2. SameBut(Counted(s, n), s, {"pending"})
  BY DEF Counted, CudaRec, SameBut, Fields
<1>3. Stopped(s, n) \in CudaRec
  BY DEF Stopped, CudaRec
<1>4. SameBut(Stopped(s, n), s, {"seconds"})
  BY DEF Stopped, CudaRec, SameBut, Fields
<1>5. Typed(s, n) \in CudaRec
  BY DEF Typed, CudaRec
<1>6. SameBut(Typed(s, n), s, {"inputs"})
  BY DEF Typed, CudaRec, SameBut, Fields
<1>7. Moved(s, n, m) \in CudaRec
  BY DEF Moved, CudaRec
<1>8. Moved(s, n, m).dirty /\ Moved(s, n, m).mouseReq
  BY DEF Moved, CudaRec
<1>9. SameBut(Moved(s, n, m), s, {"inputs", "move", "dirty", "mouseReq"})
  BY DEF Moved, CudaRec, SameBut, Fields
<1> QED BY <1>1, <1>2, <1>3, <1>4, <1>5, <1>6, <1>7, <1>8, <1>9

LEMMA ClockKeeps ==
  ASSUME CudaInv, cuda_one_sec_timer
  PROVE  CudaInv'
<1> DEFINE c == cuda
           t == cuda'
           d == cdrv
<1>0. /\ HandshakeCore(c, d) /\ Announced(c, d) /\ c \in CudaRec /\ d \in DrvRec /\ cdrv' = d
      /\ c.seconds \in Nat /\ c.seconds > 0 /\ c.pending \in Nat
  BY CudaTypes DEF CudaInv, HandshakeCore, cuda_one_sec_timer
<1>1. \/ ~c.onesec /\ t = Stopped(c, c.seconds - 1)
      \/ c.onesec /\ t = adb_service_request(Counted(c, c.pending + 1))
  BY DEF cuda_one_sec_timer, Stopped, Counted
<1> SUFFICES HandshakeCore(t, d) /\ Announced(t, d)
  BY <1>0 DEF CudaInv
<1> HIDE DEF c, t, d
<1>2. CASE ~c.onesec /\ t = Stopped(c, c.seconds - 1)
  <2>1. PICK n \in Nat : t = Stopped(c, n)
    BY <1>0, <1>2
  <2>2. t \in CudaRec /\ SameBut(t, c, {"seconds"})
    BY <1>0, <2>1, EventFields
  <2>3. /\ t.kbd = c.kbd /\ t.kbdReq = c.kbdReq /\ t.mouseReq = c.mouseReq /\ t.dirty = c.dirty
        /\ t.keysIn = c.keysIn /\ t.keysOut = c.keysOut /\ t.outReq = c.outReq /\ t.keys = c.keys
        /\ t.onesec = c.onesec /\ t.pending = c.pending /\ t.autopoll = c.autopoll /\ t.treq = c.treq
    BY <2>2 DEF SameBut, Fields
  <2>4. Adb(t) /\ Keys(t) /\ (Promise(c) => Promise(t)) /\ Announced(t, d)
    BY <1>0, <2>3 DEF HandshakeCore, Adb, Keys, KeysHeld, Promise, Announced
  <2>5. SameBut(t, c, InputFields)
    BY <2>2 DEF SameBut, InputFields
  <2> QED BY <1>0, <2>2, <2>4, <2>5, InputKeeps
<1>3. CASE c.onesec /\ t = adb_service_request(Counted(c, c.pending + 1))
  <2>1. PICK n \in Nat : n = c.pending + 1
    BY <1>0
  <2> DEFINE u == Counted(c, n)
  <2>2. u \in CudaRec /\ u.pending = n /\ SameBut(u, c, {"pending"})
    BY <1>0, EventFields
  <2>3. t = adb_service_request(u)
    BY <1>3, <2>1
  <2> HIDE DEF u
  <2>4. /\ u.kbd = c.kbd /\ u.kbdReq = c.kbdReq /\ u.mouseReq = c.mouseReq /\ u.dirty = c.dirty
        /\ u.keysIn = c.keysIn /\ u.keysOut = c.keysOut /\ u.outReq = c.outReq /\ u.keys = c.keys
        /\ u.onesec = c.onesec /\ u.autopoll = c.autopoll /\ u.treq = c.treq
    BY <2>2 DEF SameBut, Fields
  <2>5. Adb(u) /\ Keys(u) /\ Announced(u, d)
    BY <1>0, <2>4 DEF HandshakeCore, Adb, Keys, KeysHeld, Announced
  <2>6. Promise(u)
    BY <1>0, <1>3, <2>1, <2>2, <2>4 DEF Promise
  <2>7. SameBut(u, c, InputFields)
    BY <2>2 DEF SameBut, InputFields
  <2>8. HandshakeCore(u, d)
    BY <1>0, <2>2, <2>5, <2>6, <2>7, InputKeeps
  <2>9. /\ HandshakeCore(t, d) /\ t.treq \in {0, u.treq}
        /\ t.kbd = u.kbd /\ t.autopoll = u.autopoll /\ t.outReq = u.outReq
    BY <2>3, <2>6, <2>8, ServeKeeps
  <2>10. Announced(t, d)
    BY <2>5, <2>9 DEF Announced
  <2> QED BY <2>9, <2>10
<1> QED BY <1>1, <1>2, <1>3

LEMMA KeyKeeps ==
  ASSUME CudaInv, NEW twice \in BOOLEAN, adb_key(twice)
  PROVE  CudaInv'
<1> DEFINE c == cuda
           t == cuda'
           d == cdrv
           s == Typed(c, c.inputs + 1)
           once == Notify(QueueKey(s))
<1>0. /\ HandshakeCore(c, d) /\ c \in CudaRec /\ cdrv' = d /\ c.inputs \in Nat
      /\ t = IF twice THEN Notify(QueueKey(once)) ELSE once
  BY CudaTypes DEF CudaInv, HandshakeCore, adb_key, Typed
<1> SUFFICES HandshakeCore(t, d) /\ Announced(t, d)
  BY <1>0 DEF CudaInv
<1>1. HandshakeCore(s, d)
  <2>1. PICK n \in Nat : n = c.inputs + 1
    BY <1>0
  <2>2. s \in CudaRec /\ SameBut(s, c, {"inputs"})
    BY <1>0, <2>1, EventFields
  <2> HIDE DEF c, d, s
  <2>3. /\ s.kbd = c.kbd /\ s.kbdReq = c.kbdReq /\ s.mouseReq = c.mouseReq /\ s.dirty = c.dirty
        /\ s.keysIn = c.keysIn /\ s.keysOut = c.keysOut /\ s.outReq = c.outReq /\ s.keys = c.keys
        /\ s.onesec = c.onesec /\ s.pending = c.pending /\ s.autopoll = c.autopoll
    BY <2>2 DEF SameBut, Fields
  <2>4. Adb(s) /\ Keys(s) /\ (Promise(c) => Promise(s))
    BY <1>0, <2>3 DEF HandshakeCore, Adb, Keys, KeysHeld, Promise
  <2>5. SameBut(s, c, InputFields)
    BY <2>2 DEF SameBut, InputFields
  <2> QED BY <1>0, <2>2, <2>4, <2>5, InputKeeps
<1> HIDE DEF c, t, d, s
<1>2. ASSUME NEW u, HandshakeCore(u, d)
      PROVE  HandshakeCore(Notify(QueueKey(u)), d) /\ Announced(Notify(QueueKey(u)), d)
  <2>1. HandshakeCore(QueueKey(u), d) /\ QueueKey(u).kbdReq
    BY <1>2, QueueKeyKeeps
  <2> QED BY <2>1, NotifyKeeps
<1>3. HandshakeCore(once, d) /\ Announced(once, d)
  BY <1>1, <1>2
<1> HIDE DEF once
<1>4. HandshakeCore(Notify(QueueKey(once)), d) /\ Announced(Notify(QueueKey(once)), d)
  BY <1>2, <1>3
<1> QED BY <1>0, <1>3, <1>4

LEMMA MouseKeeps ==
  ASSUME CudaInv, NEW x \in 0 .. 2, adb_mouse_event(x)
  PROVE  CudaInv'
<1> DEFINE c == cuda
           t == cuda'
           d == cdrv
           s == Moved(c, c.inputs + 1, c.move + x)
<1>0. /\ HandshakeCore(c, d) /\ c \in CudaRec /\ cdrv' = d /\ c.inputs \in Nat /\ c.move \in Nat
      /\ t = Notify(s)
  BY CudaTypes DEF CudaInv, HandshakeCore, adb_mouse_event, Moved
<1> SUFFICES HandshakeCore(t, d) /\ Announced(t, d)
  BY <1>0 DEF CudaInv
<1>1. PICK n \in Nat, m \in Nat : n = c.inputs + 1 /\ m = c.move + x
  BY <1>0
<1>2. s \in CudaRec /\ s.dirty /\ s.mouseReq /\ SameBut(s, c, {"inputs", "move", "dirty", "mouseReq"})
  BY <1>0, <1>1, EventFields
<1> HIDE DEF c, d, s, t
<1>3. /\ s.kbd = c.kbd /\ s.kbdReq = c.kbdReq
      /\ s.keysIn = c.keysIn /\ s.keysOut = c.keysOut /\ s.outReq = c.outReq /\ s.keys = c.keys
      /\ s.onesec = c.onesec /\ s.pending = c.pending /\ s.autopoll = c.autopoll
  BY <1>2 DEF SameBut, Fields
<1>4. Adb(s) /\ Keys(s) /\ (Promise(c) => Promise(s))
  BY <1>0, <1>2, <1>3 DEF HandshakeCore, Adb, Keys, KeysHeld, Promise
<1>5. SameBut(s, c, InputFields)
  BY <1>2 DEF SameBut, InputFields
<1>6. HandshakeCore(s, d)
  BY <1>0, <1>2, <1>4, <1>5, InputKeeps
<1> QED BY <1>0, <1>2, <1>6, NotifyKeeps

(* Steps of the driver between two changes of its lines.                     *)
Read(s) == [s EXCEPT !.srInt = FALSE]
Wrote(s, n) == [s EXCEPT !.sr = n, !.srInt = FALSE]
LEMMA AccessFields ==
  ASSUME NEW s \in CudaRec, NEW n \in Int
  PROVE  /\ Read(s) \in CudaRec /\ ~Read(s).srInt /\ SameBut(Read(s), s, {"srInt"})
         /\ Wrote(s, n) \in CudaRec /\ ~Wrote(s, n).srInt /\ Wrote(s, n).sr = n
         /\ SameBut(Wrote(s, n), s, {"srInt", "sr"})
<1>1. Read(s) \in CudaRec /\ ~Read(s).srInt
  BY DEF Read, CudaRec
<1>2. SameBut(Read(s), s, {"srInt"})
  BY DEF Read, CudaRec, SameBut, Fields
<1>3. Wrote(s, n) \in CudaRec
  BY DEF Wrote, CudaRec
<1>4. ~Wrote(s, n).srInt /\ Wrote(s, n).sr = n
  BY DEF Wrote, CudaRec
<1>5. SameBut(Wrote(s, n), s, {"srInt", "sr"})
  BY DEF Wrote, CudaRec, SameBut, Fields
<1> QED BY <1>1, <1>2, <1>3, <1>4, <1>5

(* A step of the driver, by what it sets.                                    *)
DrvSets(d, st, pc, sent, ops) == [d EXCEPT !.st = st, !.pc = pc, !.sent = sent, !.ops = ops]
LEMMA DrvSetFields ==
  ASSUME NEW d \in DrvRec, NEW st \in DrvStates, NEW pc \in {"off", "wait", "look", "sr", "b"},
         NEW n \in Nat, NEW k \in Int, NEW e, e = DrvSets(d, st, pc, n, k)
  PROVE  /\ e \in DrvRec /\ e.st = st /\ e.pc = pc /\ e.sent = n /\ e.got = d.got /\ e.plan = d.plan
         /\ e.announced = d.announced /\ e.retry = d.retry
<1>1. e \in DrvRec
  BY DEF DrvSets, DrvRec
<1>2. /\ e.st = st /\ e.pc = pc /\ e.sent = n /\ e.got = d.got /\ e.plan = d.plan
      /\ e.announced = d.announced /\ e.retry = d.retry
  BY DEF DrvSets, DrvRec
<1> QED BY <1>1, <1>2

LEMMA IrqKeeps ==
  ASSUME CudaInv, DriverIrq
  PROVE  CudaInv'
<1> DEFINE c == cuda
           t == cuda'
           d == cdrv
           e == cdrv'
           u == Read(c)
           g == IF d.st # "reading" THEN 0 ELSE IF c.sr = d.got + 1 THEN d.got + 1 ELSE -1
<1>0. /\ HandshakeCore(c, d) /\ c \in CudaRec /\ d \in DrvRec /\ d.pc = "wait" /\ c.srInt
      /\ t = cuda_sr_idle(u) /\ e = [d EXCEPT !.pc = "look", !.got = g]
  BY DEF CudaInv, HandshakeCore, DriverIrq, ReadSR, Read
<1> SUFFICES HandshakeCore(t, e) /\ Announced(t, e)
  BY DEF CudaInv
<1>1. u \in CudaRec /\ ~u.srInt /\ SameBut(u, c, {"srInt"})
  BY <1>0, AccessFields, 0 \in Int
<1>2. g \in Int /\ (d.st = "reading" /\ d.got = c.sr - 1 => g = c.sr) /\ (d.st # "reading" => g = 0)
  BY <1>0, CudaTypes, DrvTypes
<1> HIDE DEF c, t, d, e, u, g
<1>3. /\ e \in DrvRec /\ e.pc = "look" /\ e.got = g /\ e.st = d.st /\ e.sent = d.sent /\ e.plan = d.plan
      /\ e.announced = d.announced /\ e.retry = d.retry
  BY <1>0, <1>2 DEF DrvRec
<1>4. /\ u.tack = c.tack /\ u.tip = c.tip /\ u.treq = c.treq /\ u.sr = c.sr /\ u.outN = c.outN /\ u.outReq = c.outReq
      /\ u.keys = c.keys /\ u.inN = c.inN /\ u.inFrom = c.inFrom /\ u.autopoll = c.autopoll /\ u.fill = c.fill
      /\ u.onesec = c.onesec /\ u.pending = c.pending /\ u.replies = c.replies /\ u.kbd = c.kbd
      /\ u.kbdReq = c.kbdReq /\ u.dirty = c.dirty /\ u.mouseReq = c.mouseReq /\ u.keysIn = c.keysIn
      /\ u.keysOut = c.keysOut /\ u.len = c.len /\ u.ticks = c.ticks /\ u.misread = c.misread
      /\ u.exited = c.exited /\ u.srActive = c.srActive
  BY <1>1 DEF SameBut, Fields
<1>5. HandshakeCore(u, e)
  <2>1. Adb(u) /\ Keys(u)
    BY <1>0, <1>4 DEF HandshakeCore, Adb, Keys, KeysHeld
  <2>2. Messages(u)
    BY <1>0, <1>4 DEF HandshakeCore, Messages, Promise
  <2>3. LinesFit(u, e)
    BY <1>0, <1>3, <1>4 DEF HandshakeCore, LinesFit
  <2>4. CommandsFit(u, e) /\ ReadFits(u, e)
    BY <1>0, <1>2, <1>3, <1>4 DEF HandshakeCore, CommandsFit, ReadFits
  <2>5. Interrupts(u, e)
    BY <1>0, <1>1, <1>3, <1>4 DEF HandshakeCore, Interrupts, Quiet, Spare
  <2> QED BY <1>1, <1>3, <2>1, <2>2, <2>3, <2>4, <2>5 DEF HandshakeCore
<1>6. CASE u.treq = 1 /\ u.tip = 1 /\ u.outReq = 0 /\ u.autopoll /\ adb_mes_avail(u)
  <2>1. t = Announce(u)
    BY <1>0, <1>6 DEF cuda_sr_idle, Announce
  <2>2. u.tack = 1 /\ Promise(u)
    BY <1>1, <1>5, <1>6, CudaTypes DEF HandshakeCore, Messages, Promise, adb_mes_avail
  <2>3. HandshakeCore(t, e)
    BY <1>5, <1>6, <2>1, <2>2, AnnounceKeeps
  <2>4. t.treq = 0
    BY <1>1, <2>1, AnnounceFields
  <2> QED BY <2>3, <2>4 DEF Announced
<1>7. CASE ~(u.treq = 1 /\ u.tip = 1 /\ u.outReq = 0 /\ u.autopoll /\ adb_mes_avail(u))
  <2>1. t = u
    BY <1>0, <1>7 DEF cuda_sr_idle
  <2>2. Announced(u, e)
    BY <1>1, <1>3, <1>5, <1>7, CudaTypes DEF Announced, HandshakeCore, LinesFit, Adb, adb_mes_avail
  <2> QED BY <1>5, <2>1, <2>2
<1> QED BY <1>6, <1>7

(* What the interrupt handler plans.                                         *)
Acts(p, w, l, to) == p \in DrvPlans /\ p.write = w /\ p.lines = l /\ p.to = to
LEMMA ActIs ==
  ASSUME NEW w \in BOOLEAN, NEW l \in {"lower", "toggle", "raise", "keep"}, NEW to \in DrvStates,
         NEW p, p = Act(w, l, to)
  PROVE  Acts(p, w, l, to)
BY DEF Act, Acts, DrvPlans

PlanCases(st, q, p) ==
    /\ st \in {"idle", "awaiting"} \/ (st = "done" /\ q = 0) => Acts(p, FALSE, "lower", "reading")
    /\ st = "start" => Acts(p, TRUE, "lower", "sent")
    /\ st = "sent" /\ q = 0 => Acts(p, FALSE, "raise", "idle")
    /\ st = "reading" /\ q = 0 => Acts(p, FALSE, "toggle", "reading")
    /\ st = "reading" /\ q = 1 => Acts(p, FALSE, "raise", "done")
    /\ st = "sync" => Acts(p, FALSE, "raise", "synced")
    /\ st = "synced" \/ (st = "done" /\ q = 1) => Acts(p, FALSE, "keep", "idle")
    /\ (st = "sent" /\ q = 1) \/ st = "sending" =>
          Acts(p, TRUE, "toggle", "sending") \/ Acts(p, FALSE, "raise", "awaiting")

LEMMA PlanIs ==
  ASSUME NEW st \in DrvStates, NEW q \in {0, 1}, NEW p, p = Plan(st, q)
  PROVE  PlanCases(st, q, p)
<1>0. {"idle", "sent", "sending", "awaiting", "reading", "done", "synced"} \subseteq DrvStates
  BY DEF DrvStates
<1>1. ASSUME st \in {"idle", "awaiting"} \/ (st = "done" /\ q = 0) PROVE Acts(p, FALSE, "lower", "reading")
  <2>1. CASE st = "idle"
    BY <1>0, <2>1, ActIs DEF Plan
  <2>2. CASE st = "awaiting"
    BY <1>0, <2>2, ActIs DEF Plan
  <2>3. CASE st = "done" /\ q = 0
    <3>1. p = Act(FALSE, "lower", "reading")
      BY <2>3 DEF Plan
    <3> QED BY <1>0, <3>1, ActIs
  <2> QED BY <1>1, <2>1, <2>2, <2>3
<1>2. ASSUME st = "start" PROVE Acts(p, TRUE, "lower", "sent")
  BY <1>0, <1>2, ActIs DEF Plan
<1>3. ASSUME st = "sent", q = 0 PROVE Acts(p, FALSE, "raise", "idle")
  BY <1>0, <1>3, ActIs DEF Plan
<1>4. ASSUME st = "reading", q = 0 PROVE Acts(p, FALSE, "toggle", "reading")
  <2>1. p = Act(FALSE, "toggle", "reading")
    BY <1>4 DEF Plan
  <2> QED BY <1>0, <2>1, ActIs
<1>5. ASSUME st = "reading", q = 1 PROVE Acts(p, FALSE, "raise", "done")
  <2>1. p = Act(FALSE, "raise", "done")
    BY <1>5 DEF Plan
  <2> QED BY <1>0, <2>1, ActIs
<1>6. ASSUME st = "sync" PROVE Acts(p, FALSE, "raise", "synced")
  BY <1>0, <1>6, ActIs DEF Plan
<1>7. ASSUME st = "synced" \/ (st = "done" /\ q = 1) PROVE Acts(p, FALSE, "keep", "idle")
  <2>1. CASE st = "synced"
    BY <1>0, <2>1, ActIs DEF Plan
  <2>2. CASE st = "done" /\ q = 1
    <3>1. p = Act(FALSE, "keep", "idle")
      BY <2>2 DEF Plan
    <3> QED BY <1>0, <3>1, ActIs
  <2> QED BY <1>7, <2>1, <2>2
<1>8. ASSUME (st = "sent" /\ q = 1) \/ st = "sending"
      PROVE  Acts(p, TRUE, "toggle", "sending") \/ Acts(p, FALSE, "raise", "awaiting")
  <2>1. p = IF cdrv.sent < CommandLen THEN Act(TRUE, "toggle", "sending") ELSE Act(FALSE, "raise", "awaiting")
    <3>1. CASE st = "sent" /\ q = 1
      BY <3>1 DEF Plan
    <3>2. CASE st = "sending"
      BY <3>2 DEF Plan
    <3> QED BY <1>8, <3>1, <3>2
  <2> QED BY <1>0, <2>1, ActIs
<1> QED BY <1>1, <1>2, <1>3, <1>4, <1>5, <1>6, <1>7, <1>8 DEF PlanCases

LEMMA LooksKeeps ==
  ASSUME CudaInv, DriverLooks
  PROVE  CudaInv'
<1> DEFINE c == cuda
           d == cdrv
           e == cdrv'
           p == Plan(d.st, c.treq)
<1>0. /\ HandshakeCore(c, d) /\ Announced(c, d) /\ c \in CudaRec /\ d \in DrvRec /\ d.pc = "look"
      /\ cuda' = c /\ e = [d EXCEPT !.pc = IF p.write THEN "sr" ELSE "b", !.plan = p]
  BY DEF CudaInv, HandshakeCore, DriverLooks
<1> SUFFICES HandshakeCore(c, e) /\ Announced(c, e)
  BY <1>0 DEF CudaInv
<1>1. d.st \in DrvStates /\ c.treq \in {0, 1} /\ c.outReq \in Nat
  BY <1>0, CudaTypes, DrvTypes
<1> HIDE DEF c, d, e
<1>2. PlanCases(d.st, c.treq, p)
  BY <1>1, PlanIs
<1> HIDE DEF p
<1>3. p \in DrvPlans /\ p.write \in BOOLEAN
  BY <1>1, <1>2 DEF PlanCases, Acts, DrvStates
<1>4. /\ e \in DrvRec /\ e.pc = (IF p.write THEN "sr" ELSE "b") /\ e.plan = p
      /\ e.got = d.got /\ e.st = d.st /\ e.sent = d.sent /\ e.announced = d.announced /\ e.retry = d.retry
  BY <1>0, <1>3 DEF DrvRec
<1>5. d.st = "sending" => c.treq = 1
  BY <1>0 DEF HandshakeCore, LinesFit
<1>6. d.st = "done" /\ c.treq = 1 => c.outReq = 0
  BY <1>0, <1>1 DEF HandshakeCore, Interrupts
<1>7. e.pc = "b" => PlanFits(c, e)
  BY <1>1, <1>2, <1>4, <1>5, <1>6 DEF PlanFits, Plans, PlanCases, Acts
<1>8. e.pc = "sr" => WritePlanned(c, e)
  BY <1>1, <1>2, <1>4, <1>5 DEF WritePlanned, Plans, PlanCases, Acts, DrvStates
<1>9. LinesFit(c, e)
  BY <1>0, <1>4, <1>7, <1>8 DEF HandshakeCore, LinesFit
<1>10. CommandsFit(c, e) /\ ReadFits(c, e)
  BY <1>0, <1>4 DEF HandshakeCore, CommandsFit, ReadFits
<1>11. Interrupts(c, e)
  BY <1>0, <1>4 DEF HandshakeCore, Interrupts, Quiet, Spare
<1>12. Announced(c, e)
  BY <1>0, <1>4 DEF Announced
<1> QED BY <1>0, <1>4, <1>9, <1>10, <1>11, <1>12 DEF HandshakeCore

LEMMA WriteKeeps ==
  ASSUME CudaInv, DriverSR
  PROVE  CudaInv'
<1> DEFINE c == cuda
           t == cuda'
           d == cdrv
           e == cdrv'
<1>0. /\ HandshakeCore(c, d) /\ c \in CudaRec /\ d \in DrvRec /\ d.pc = "sr" /\ d.sent \in Nat
      /\ t = Wrote(c, -(d.sent + 1)) /\ e = [d EXCEPT !.pc = "b", !.sent = d.sent + 1]
  BY DrvTypes DEF CudaInv, HandshakeCore, DriverSR, WriteSR, Wrote
<1> SUFFICES HandshakeCore(t, e) /\ Announced(t, e)
  BY DEF CudaInv
<1> HIDE DEF c, t, d, e
<1>1. PICK n \in Int : n = -(d.sent + 1)
  BY <1>0
<1>2. t \in CudaRec /\ ~t.srInt /\ t.sr = n /\ SameBut(t, c, {"srInt", "sr"})
  BY <1>0, <1>1, AccessFields
<1>3. /\ e \in DrvRec /\ e.pc = "b" /\ e.got = d.got /\ e.st = d.st /\ e.plan = d.plan
      /\ e.announced = d.announced /\ e.retry = d.retry
  <2>1. PICK m \in Nat : m = d.sent + 1
    BY <1>0
  <2>2. e = [d EXCEPT !.pc = "b", !.sent = m]
    BY <1>0, <2>1
  <2> HIDE <1>0
  <2>3. d \in DrvRec
    BY <1>0
  <2> QED BY <2>2, <2>3 DEF DrvRec
<1>4. /\ t.tack = c.tack /\ t.tip = c.tip /\ t.treq = c.treq /\ t.outN = c.outN /\ t.outReq = c.outReq
      /\ t.keys = c.keys /\ t.inN = c.inN /\ t.inFrom = c.inFrom /\ t.autopoll = c.autopoll /\ t.fill = c.fill
      /\ t.onesec = c.onesec /\ t.pending = c.pending /\ t.replies = c.replies /\ t.kbd = c.kbd
      /\ t.kbdReq = c.kbdReq /\ t.dirty = c.dirty /\ t.mouseReq = c.mouseReq /\ t.keysIn = c.keysIn
      /\ t.keysOut = c.keysOut /\ t.len = c.len /\ t.ticks = c.ticks /\ t.misread = c.misread
      /\ t.exited = c.exited /\ t.srActive = c.srActive
  BY <1>2 DEF SameBut, Fields
<1>5. WritePlanned(c, d) /\ (d.st = "start" => d.sent = 0)
  BY <1>0 DEF HandshakeCore, LinesFit
<1>6. d.st \in {"start", "sent", "sending"} /\ (d.st # "start" => c.treq = 1)
  BY <1>5 DEF WritePlanned
<1>7. Adb(t) /\ Keys(t)
  BY <1>0, <1>4 DEF HandshakeCore, Adb, Keys, KeysHeld
<1>8. Messages(t)
  BY <1>0, <1>4 DEF HandshakeCore, Messages, Promise
<1>9. PlanFits(t, e)
  BY <1>1, <1>2, <1>3, <1>4, <1>5, <1>6 DEF PlanFits, WritePlanned, Plans
<1>10. LinesFit(t, e)
  BY <1>0, <1>3, <1>4, <1>6, <1>9 DEF HandshakeCore, LinesFit
<1>11. CommandsFit(t, e) /\ ReadFits(t, e)
  BY <1>0, <1>3, <1>4, <1>6 DEF HandshakeCore, CommandsFit, ReadFits
<1>12. Interrupts(t, e)
  BY <1>0, <1>2, <1>3, <1>4, <1>6 DEF HandshakeCore, Interrupts, Quiet, Spare
<1>13. Announced(t, e)
  BY <1>3, <1>6 DEF Announced
<1> QED BY <1>2, <1>3, <1>7, <1>8, <1>10, <1>11, <1>12, <1>13 DEF HandshakeCore

LEMMA StartKeeps ==
  ASSUME CudaInv, DriverStart
  PROVE  CudaInv'
<1> DEFINE c == cuda
           d == cdrv
           e == cdrv'
<1>0. /\ HandshakeCore(c, d) /\ c \in CudaRec /\ d \in DrvRec /\ d.pc = "wait" /\ d.st = "idle" /\ ~d.retry
      /\ d.ops \in Int /\ cuda' = c /\ e = DrvSets(d, "start", "look", 0, d.ops + 1)
  BY DrvTypes DEF CudaInv, HandshakeCore, DriverStart, MayBegin, DrvSets
<1> SUFFICES HandshakeCore(c, e) /\ Announced(c, e)
  BY <1>0 DEF CudaInv
<1> HIDE DEF c, d, e
<1>1. /\ e \in DrvRec /\ e.st = "start" /\ e.pc = "look" /\ e.sent = 0 /\ e.got = d.got /\ e.plan = d.plan
      /\ e.announced = d.announced /\ e.retry = d.retry
  <2>1. PICK k \in Int : k = d.ops + 1
    BY <1>0
  <2>2. 0 \in Nat /\ "start" \in DrvStates /\ "look" \in {"off", "wait", "look", "sr", "b"}
    BY DEF DrvStates
  <2>3. d \in DrvRec /\ e = DrvSets(d, "start", "look", 0, k)
    BY <1>0, <2>1
  <2> QED BY <2>2, <2>3, DrvSetFields
<1>2. c.outReq = 0
  BY <1>0 DEF HandshakeCore, CommandsFit
<1>3. LinesFit(c, e)
  BY <1>0, <1>1 DEF HandshakeCore, LinesFit
<1>4. CommandsFit(c, e) /\ ReadFits(c, e) /\ Interrupts(c, e)
  BY <1>0, <1>1, <1>2 DEF HandshakeCore, CommandsFit, ReadFits, Interrupts
<1>5. Announced(c, e)
  BY <1>1 DEF Announced
<1> QED BY <1>0, <1>1, <1>3, <1>4, <1>5 DEF HandshakeCore

(* A reply is set while none is being sent.                                  *)
Answered(s, n, k) == [s EXCEPT !.outReq = n, !.keys = k, !.len = n]
LEMMA AnsweredFields ==
  ASSUME NEW s \in CudaRec, NEW n \in Nat, NEW k \in Seq(Nat), NEW t, t = Answered(s, n, k)
  PROVE  /\ t \in CudaRec /\ t.outReq = n /\ t.keys = k /\ t.len = n
         /\ SameBut(t, s, {"outReq", "keys", "len"})
<1>1. t \in CudaRec
  BY DEF Answered, CudaRec
<1>2. t.outReq = n /\ t.keys = k /\ t.len = n
  BY DEF Answered, CudaRec
<1>3. SameBut(t, s, {"outReq", "keys", "len"})
  BY DEF Answered, CudaRec, SameBut, Fields
<1> QED BY <1>1, <1>2, <1>3

LEMMA ReplyFields ==
  ASSUME NEW s \in CudaRec, s.outN = 0, NEW n \in Nat, NEW k \in Seq(Nat), NEW t, t = via_cuda_reply(s, n, k)
  PROVE  /\ t \in CudaRec /\ t.outReq = n /\ t.keys = k /\ t.len = n
         /\ SameBut(t, s, {"outReq", "keys", "len"})
<1>1. t = Answered(s, n, k)
  BY DEF via_cuda_reply, Answered
<1> QED BY <1>1, AnsweredFields

(* The first keys become the message.                                        *)
LEMMA KeysSplit ==
  ASSUME NEW q \in Seq(Nat), NEW in \in Nat, NEW out \in Nat, Numbered(<<>>, q, in, out),
         NEW n \in 0 .. Len(q), NEW h \in Seq(Nat), NEW k \in Seq(Nat),
         Len(h) = n, Len(k) = Len(q) - n,
         \A i \in 1 .. n : h[i] = q[i], \A i \in 1 .. Len(q) - n : k[i] = q[n + i]
  PROVE  Numbered(h, k, in, out)
<1>1. Len(q) \in Nat /\ n \in Nat /\ n <= Len(q)
  OBVIOUS
<1>2. in = out + Len(q) /\ \A i \in 1 .. Len(q) : q[i] = out + i
  BY <1>1 DEF Numbered
<1>3. in = out + Len(h) + Len(k)
  <2>1. Len(h) \in Nat /\ Len(k) \in Nat
    OBVIOUS
  <2>2. Len(h) + Len(k) = Len(q)
    BY <1>1, <2>1
  <2>3. out + Len(h) + Len(k) = out + (Len(h) + Len(k))
    BY <2>1
  <2> QED BY <1>2, <2>2, <2>3
<1>4. \A i \in 1 .. Len(h) : h[i] = out + i
  <2> TAKE i \in 1 .. Len(h)
  <2>1. i \in 1 .. n /\ i \in 1 .. Len(q)
    BY <1>1
  <2>2. h[i] = q[i]
    BY <2>1
  <2> QED BY <1>2, <2>1, <2>2
<1>5. \A i \in 1 .. Len(k) : k[i] = out + Len(h) + i
  <2> TAKE i \in 1 .. Len(k)
  <2>1. n + i \in 1 .. Len(q) /\ i \in 1 .. Len(q) - n
    BY <1>1
  <2> QED BY <1>1, <1>2, <2>1
<1> QED BY <1>3, <1>4, <1>5 DEF Numbered

LEMMA KeysTaken ==
  ASSUME NEW q \in Seq(Nat), NEW in \in Nat, NEW out \in Nat, Numbered(<<>>, q, in, out),
         NEW n \in 0 .. Len(q)
  PROVE  /\ SubSeq(q, 1, n) \in Seq(Nat) /\ SubSeq(q, n + 1, Len(q)) \in Seq(Nat)
         /\ Len(SubSeq(q, 1, n)) = n /\ Len(SubSeq(q, n + 1, Len(q))) = Len(q) - n
         /\ Numbered(SubSeq(q, 1, n), SubSeq(q, n + 1, Len(q)), in, out)
<1> DEFINE h == SubSeq(q, 1, n)
           k == SubSeq(q, n + 1, Len(q))
<1>1. Len(q) \in Nat /\ n \in Nat /\ n <= Len(q) /\ \A i \in 1 .. Len(q) : q[i] \in Nat
  OBVIOUS
<1>2. h \in Seq(Nat) /\ Len(h) = n /\ \A i \in 1 .. n : h[i] = q[i]
  <2>1. \A i \in 1 .. n : q[i] \in Nat
    BY <1>1
  <2>2. /\ h \in Seq(Nat) /\ Len(h) = (IF 1 <= n THEN n - 1 + 1 ELSE 0)
        /\ \A i \in 1 .. n - 1 + 1 : h[i] = q[1 + i - 1]
    BY <1>1, <2>1, SubSeqProperties, 1 \in Int
  <2> QED BY <1>1, <2>2
<1>3. k \in Seq(Nat) /\ Len(k) = Len(q) - n /\ \A i \in 1 .. Len(q) - n : k[i] = q[n + i]
  <2>1. \A i \in n + 1 .. Len(q) : q[i] \in Nat
    BY <1>1
  <2>2. /\ k \in Seq(Nat) /\ Len(k) = (IF n + 1 <= Len(q) THEN Len(q) - (n + 1) + 1 ELSE 0)
        /\ \A i \in 1 .. Len(q) - (n + 1) + 1 : k[i] = q[(n + 1) + i - 1]
    BY <1>1, <2>1, SubSeqProperties, n + 1 \in Int, Len(q) \in Int
  <2> QED BY <1>1, <2>2
<1> HIDE DEF h, k
<1>4. Numbered(h, k, in, out)
  BY <1>2, <1>3, KeysSplit
<1> QED BY <1>2, <1>3, <1>4 DEF h, k

ReplyChanges == {"kbd", "kbdReq", "move", "dirty", "mouseReq", "outReq", "keys", "len"}
Replied(t, s) ==
    /\ t \in CudaRec /\ Adb(t) /\ Keys(t)
    /\ t.outReq \in {0, ReplyLen} /\ (t.outReq > 0 => t.len = t.outReq)
    /\ SameBut(t, s, ReplyChanges)

LEMMA ReplyLenIs == ReplyLen \in Nat /\ ReplyLen > 1 /\ BufferLen \in Nat /\ ReplyLen <= BufferLen
BY CudaAssumption

KbdTaken(s, k, b) == [s EXCEPT !.kbd = k, !.kbdReq = b]
LEMMA KbdTakenFields ==
  ASSUME NEW s \in CudaRec, NEW k \in Seq(Nat), NEW b \in BOOLEAN, NEW t, t = KbdTaken(s, k, b)
  PROVE  t \in CudaRec /\ t.kbd = k /\ (t.kbdReq <=> b) /\ SameBut(t, s, {"kbd", "kbdReq"})
<1>1. t \in CudaRec
  BY DEF KbdTaken, CudaRec
<1>2. t.kbd = k /\ (t.kbdReq <=> b)
  BY DEF KbdTaken, CudaRec
<1>3. SameBut(t, s, {"kbd", "kbdReq"})
  BY DEF KbdTaken, CudaRec, SameBut, Fields
<1> QED BY <1>1, <1>2, <1>3

LEMMA KbdReplies ==
  ASSUME NEW s \in CudaRec, s.outN = 0, s.outReq = 0, Adb(s), Keys(s), NEW t, t = kbd_read_reg(s)
  PROVE  Replied(t, s) /\ (s.kbd # <<>> => t.outReq = ReplyLen)
<1>0. s.kbd \in Seq(Nat) /\ s.keysIn \in Nat /\ s.keysOut \in Nat /\ s.kbdReq \in BOOLEAN
  BY CudaTypes
<1> DEFINE n == IF Len(s.kbd) < 2 THEN Len(s.kbd) ELSE 2
           h == SubSeq(s.kbd, 1, n)
           k == SubSeq(s.kbd, n + 1, Len(s.kbd))
           b == IF k = <<>> THEN FALSE ELSE s.kbdReq
           u == KbdTaken(s, k, b)
           m == IF n = 0 THEN 0 ELSE ReplyLen
<1>1. t = via_cuda_reply(u, m, h)
  BY DEF kbd_read_reg, KbdTaken
<1>2. n \in 0 .. Len(s.kbd) /\ (n = 0 <=> s.kbd = <<>>) /\ Len(s.kbd) \in Nat
  BY <1>0
<1>3. Numbered(<<>>, s.kbd, s.keysIn, s.keysOut)
  BY DEF Keys, KeysHeld
<1> HIDE DEF n
<1>4. /\ h \in Seq(Nat) /\ k \in Seq(Nat) /\ Len(h) = n /\ Len(k) = Len(s.kbd) - n
      /\ Numbered(h, k, s.keysIn, s.keysOut)
  BY <1>0, <1>2, <1>3, KeysTaken, Zenon
<1>5. b \in BOOLEAN /\ (b <=> k # <<>>)
  <2>1. k # <<>> => s.kbd # <<>>
    <3>1. s.kbd = <<>> => Len(k) = 0
      BY <1>2, <1>4
    <3> QED BY <1>4, <3>1
  <2> QED BY <1>0, <2>1 DEF Adb
<1> HIDE DEF h, k, b
<1>6. u \in CudaRec /\ u.kbd = k /\ (u.kbdReq <=> b) /\ SameBut(u, s, {"kbd", "kbdReq"})
  BY <1>4, <1>5, KbdTakenFields
<1> HIDE DEF u
<1>7. m \in {0, ReplyLen} /\ m \in Nat
  BY ReplyLenIs
<1>8. u.outN = 0
  BY <1>6 DEF SameBut, Fields
<1> HIDE DEF m
<1>9. /\ t \in CudaRec /\ t.outReq = m /\ t.keys = h /\ t.len = m
      /\ SameBut(t, u, {"outReq", "keys", "len"})
  BY <1>1, <1>4, <1>6, <1>7, <1>8, ReplyFields
<1>10. t.kbd = k /\ (t.kbdReq <=> b)
  BY <1>6, <1>9 DEF SameBut, Fields
<1>11. SameBut(t, s, ReplyChanges)
  BY <1>6, <1>9 DEF SameBut, ReplyChanges
<1>12. t.mouseReq = s.mouseReq /\ t.dirty = s.dirty /\ t.keysIn = s.keysIn /\ t.keysOut = s.keysOut
  BY <1>6, <1>9 DEF SameBut, Fields
<1>13. Adb(t)
  <2>1. Len(k) < KeyBufSize
    <3>1. KeyBufSize \in Nat
      BY CudaAssumption
    <3> QED BY <1>2, <1>4, <3>1 DEF Adb
  <2> QED BY <1>5, <1>10, <1>12, <2>1 DEF Adb
<1>14. Keys(t)
  <2>1. n = 0 => h = <<>>
    BY <1>4
  <2>2. KeysHeld(t) = h
    BY <1>9, <2>1, ReplyLenIs DEF KeysHeld, m
  <2> QED BY <1>4, <1>10, <1>12, <2>2 DEF Keys
<1>15. s.kbd # <<>> => t.outReq = ReplyLen
  BY <1>2, <1>9 DEF m
<1> QED BY <1>7, <1>9, <1>11, <1>13, <1>14, <1>15 DEF Replied

(* A reply without keys.                                                     *)
LEMMA PlainReply ==
  ASSUME NEW s \in CudaRec, s.outN = 0, s.outReq = 0, Adb(s), Keys(s), NEW n \in {0, ReplyLen, 1},
         NEW t, t = via_cuda_reply(s, n, <<>>)
  PROVE  /\ t \in CudaRec /\ Adb(t) /\ Keys(t) /\ t.outReq = n /\ t.len = n
         /\ SameBut(t, s, {"outReq", "keys", "len"})
<1>1. n \in Nat /\ <<>> \in Seq(Nat)
  BY ReplyLenIs
<1>2. /\ t \in CudaRec /\ t.outReq = n /\ t.keys = <<>> /\ t.len = n
      /\ SameBut(t, s, {"outReq", "keys", "len"})
  <2>1. PICK k \in Seq(Nat) : k = <<>>
    BY <1>1
  <2>2. t = via_cuda_reply(s, n, k)
    BY <2>1
  <2>3. /\ t \in CudaRec /\ t.outReq = n /\ t.keys = k /\ t.len = n
        /\ SameBut(t, s, {"outReq", "keys", "len"})
    BY <1>1, <2>2, ReplyFields
  <2> QED BY <2>1, <2>3
<1>3. /\ t.kbd = s.kbd /\ t.kbdReq = s.kbdReq /\ t.mouseReq = s.mouseReq /\ t.dirty = s.dirty
      /\ t.keysIn = s.keysIn /\ t.keysOut = s.keysOut
  BY <1>2 DEF SameBut, Fields
<1>4. Adb(t)
  BY <1>3 DEF Adb
<1>5. Keys(t)
  BY <1>2, <1>3 DEF Keys, KeysHeld
<1> QED BY <1>2, <1>4, <1>5

MouseTaken(s, m, b, q) == [s EXCEPT !.move = m, !.dirty = b, !.mouseReq = q]
LEMMA MouseTakenFields ==
  ASSUME NEW s \in CudaRec, NEW m \in Nat, NEW b \in BOOLEAN, NEW q \in BOOLEAN, NEW t, t = MouseTaken(s, m, b, q)
  PROVE  /\ t \in CudaRec /\ (t.dirty <=> b) /\ (t.mouseReq <=> q)
         /\ SameBut(t, s, {"move", "dirty", "mouseReq"})
<1>1. t \in CudaRec
  BY DEF MouseTaken, CudaRec
<1>2. (t.dirty <=> b) /\ (t.mouseReq <=> q)
  BY DEF MouseTaken, CudaRec
<1>3. SameBut(t, s, {"move", "dirty", "mouseReq"})
  BY DEF MouseTaken, CudaRec, SameBut, Fields
<1> QED BY <1>1, <1>2, <1>3

NotAsked(s) == [s EXCEPT !.mouseReq = FALSE]
LEMMA NotAskedFields ==
  ASSUME NEW s \in CudaRec, NEW t, t = NotAsked(s)
  PROVE  t \in CudaRec /\ ~t.mouseReq /\ SameBut(t, s, {"mouseReq"})
<1>1. t \in CudaRec
  BY DEF NotAsked, CudaRec
<1>2. ~t.mouseReq
  BY DEF NotAsked, CudaRec
<1>3. SameBut(t, s, {"mouseReq"})
  BY DEF NotAsked, CudaRec, SameBut, Fields
<1> QED BY <1>1, <1>2, <1>3

LEMMA MouseReplies ==
  ASSUME NEW s \in CudaRec, s.outN = 0, s.outReq = 0, Adb(s), Keys(s), NEW t, t = mouse_read_reg(s)
  PROVE  Replied(t, s) /\ (s.dirty => t.outReq = ReplyLen)
<1>0. s.move \in Nat /\ s.dirty \in BOOLEAN /\ s.mouseReq \in BOOLEAN
  BY CudaTypes
<1> DEFINE m == IF s.move > 1 THEN s.move - 1 ELSE 0
           b == m # 0
           q == IF m = 0 THEN FALSE ELSE s.mouseReq
           n == IF s.dirty THEN ReplyLen ELSE 0
<1>1. PICK u \in CudaRec : /\ t = via_cuda_reply(u, n, <<>>) /\ (u.mouseReq => u.dirty)
                           /\ SameBut(u, s, {"move", "dirty", "mouseReq"})
  <2>1. CASE ~s.dirty
    <3>1. t = via_cuda_reply(NotAsked(s), n, <<>>)
      BY <2>1 DEF mouse_read_reg, NotAsked
    <3>2. NotAsked(s) \in CudaRec /\ ~NotAsked(s).mouseReq /\ SameBut(NotAsked(s), s, {"mouseReq"})
      BY NotAskedFields
    <3>3. SameBut(NotAsked(s), s, {"move", "dirty", "mouseReq"})
      BY <3>2 DEF SameBut
    <3> QED BY <3>1, <3>2, <3>3
  <2>2. CASE s.dirty
    <3>1. t = via_cuda_reply(MouseTaken(s, m, b, q), n, <<>>)
      BY <2>2 DEF mouse_read_reg, MouseTaken
    <3>2. m \in Nat /\ b \in BOOLEAN /\ q \in BOOLEAN /\ (q => b)
      <4>1. m \in Nat
        BY <1>0
      <4> HIDE DEF m
      <4>2. b \in BOOLEAN
        OBVIOUS
      <4>3. q \in BOOLEAN
        BY <1>0
      <4>4. q => b
        OBVIOUS
      <4> QED BY <4>1, <4>2, <4>3, <4>4
    <3> HIDE DEF m, b, q, n
    <3> DEFINE v == MouseTaken(s, m, b, q)
    <3>3. v \in CudaRec /\ (v.dirty <=> b) /\ (v.mouseReq <=> q) /\ SameBut(v, s, {"move", "dirty", "mouseReq"})
      BY <3>2, MouseTakenFields
    <3>4. v.mouseReq => v.dirty
      BY <3>2, <3>3
    <3> QED BY <3>1, <3>3, <3>4
  <2> QED BY <1>0, <2>1, <2>2
<1>2. /\ u.kbd = s.kbd /\ u.kbdReq = s.kbdReq /\ u.keysIn = s.keysIn /\ u.keysOut = s.keysOut
      /\ u.outReq = s.outReq /\ u.keys = s.keys /\ u.outN = s.outN
  BY <1>1 DEF SameBut, Fields
<1>3. Adb(u) /\ Keys(u)
  BY <1>1, <1>2 DEF Adb, Keys, KeysHeld
<1>4. n \in {0, ReplyLen, 1} /\ n \in {0, ReplyLen}
  OBVIOUS
<1> HIDE DEF n
<1>5. /\ t \in CudaRec /\ Adb(t) /\ Keys(t) /\ t.outReq = n /\ t.len = n
      /\ SameBut(t, u, {"outReq", "keys", "len"})
  BY <1>1, <1>2, <1>3, <1>4, PlainReply
<1>6. SameBut(t, s, ReplyChanges)
  BY <1>1, <1>5 DEF SameBut, ReplyChanges
<1> QED BY <1>4, <1>5, <1>6 DEF Replied, n

(* A command is executed; only its reply and the modes change.               *)
ExecChanges == ReplyChanges \cup {"autopoll", "onesec", "seconds"}
Executed(t, s) ==
    /\ t \in CudaRec /\ Adb(t) /\ Keys(t)
    /\ t.outReq \in {0, ReplyLen} /\ (t.outReq > 0 => t.len = t.outReq)
    /\ SameBut(t, s, ExecChanges)

ModesSet(s, a, o, n) == [s EXCEPT !.autopoll = a, !.onesec = o, !.seconds = n]
LEMMA ModesSetFields ==
  ASSUME NEW s \in CudaRec, NEW a \in BOOLEAN, NEW o \in BOOLEAN, NEW n \in Nat, NEW t, t = ModesSet(s, a, o, n)
  PROVE  t \in CudaRec /\ SameBut(t, s, {"autopoll", "onesec", "seconds"})
<1>1. t \in CudaRec
  <2>1. ASSUME NEW v \in CudaRec PROVE [v EXCEPT !.seconds = n] \in CudaRec
    BY DEF CudaRec
  <2>2. ASSUME NEW v \in CudaRec PROVE [v EXCEPT !.autopoll = a, !.onesec = o] \in CudaRec
    BY DEF CudaRec
  <2>3. t = [[s EXCEPT !.autopoll = a, !.onesec = o] EXCEPT !.seconds = n]
    BY DEF ModesSet
  <2> QED BY <2>1, <2>2, <2>3
<1>2. SameBut(t, s, {"autopoll", "onesec", "seconds"})
  BY DEF ModesSet, CudaRec, SameBut, Fields
<1> QED BY <1>1, <1>2

LEMMA ExecuteReplies ==
  ASSUME NEW s \in CudaRec, s.outN = 0, s.outReq = 0, Adb(s), Keys(s), NEW cmd \in CudaCommands,
         NEW t, t = Execute(s, cmd)
  PROVE  Executed(t, s)
<1>0. s.autopoll \in BOOLEAN /\ s.onesec \in BOOLEAN /\ s.seconds \in Nat
  BY CudaTypes
<1>1. ASSUME Replied(t, s) PROVE Executed(t, s)
  BY <1>1 DEF Replied, Executed, SameBut, ExecChanges
<1>2. CASE cmd = "talk_kbd"
  <2>1. t = kbd_read_reg(s)
    BY <1>2 DEF Execute
  <2> QED BY <1>1, <2>1, KbdReplies
<1>3. CASE cmd = "talk_mouse"
  <2>1. t = mouse_read_reg(s)
    BY <1>3 DEF Execute
  <2> QED BY <1>1, <2>1, MouseReplies
<1>4. CASE cmd \notin {"talk_kbd", "talk_mouse"}
  <2> DEFINE a == IF cmd = "auto_on" THEN TRUE ELSE IF cmd = "auto_off" THEN FALSE ELSE s.autopoll
             o == IF cmd = "sec_on" THEN TRUE ELSE IF cmd = "sec_off" THEN FALSE ELSE s.onesec
             n == IF cmd = "sec_on" THEN s.seconds + 1 ELSE s.seconds
             u == ModesSet(s, a, o, n)
  <2>1. t = via_cuda_reply(u, ReplyLen, <<>>)
    BY <1>4 DEF Execute, ModesSet
  <2>2. a \in BOOLEAN /\ o \in BOOLEAN /\ n \in Nat
    <3>1. n \in Nat
      BY <1>0
    <3>2. a \in BOOLEAN
      BY <1>0
    <3>3. o \in BOOLEAN
      BY <1>0
    <3> QED BY <3>1, <3>2, <3>3
  <2> HIDE DEF a, o, n
  <2>3. u \in CudaRec /\ SameBut(u, s, {"autopoll", "onesec", "seconds"})
    BY <2>2, ModesSetFields
  <2> HIDE DEF u
  <2>4. /\ u.kbd = s.kbd /\ u.kbdReq = s.kbdReq /\ u.keysIn = s.keysIn /\ u.keysOut = s.keysOut
        /\ u.outReq = s.outReq /\ u.keys = s.keys /\ u.outN = s.outN /\ u.mouseReq = s.mouseReq
        /\ u.dirty = s.dirty
    BY <2>3 DEF SameBut, Fields
  <2>5. Adb(u) /\ Keys(u)
    BY <2>4 DEF Adb, Keys, KeysHeld
  <2>6. /\ t \in CudaRec /\ Adb(t) /\ Keys(t) /\ t.outReq = ReplyLen /\ t.len = ReplyLen
        /\ SameBut(t, u, {"outReq", "keys", "len"})
    BY <2>1, <2>3, <2>4, <2>5, PlainReply
  <2>7. SameBut(t, s, ExecChanges)
    BY <2>3, <2>6 DEF SameBut, ExecChanges, ReplyChanges
  <2> QED BY <2>6, <2>7 DEF Executed
<1> QED BY <1>2, <1>3, <1>4

(* TIP goes up: a command that has come in is executed.                      *)
Zeroed(s) == [s EXCEPT !.outN = 0]
Judged(s, b) == [s EXCEPT !.misread = b]
Cleared(s) == [s EXCEPT !.fill = FALSE]
Delayed(s, n) == [s EXCEPT !.replies = n]
LEMMA StepFields ==
  ASSUME NEW s \in CudaRec, NEW b \in BOOLEAN, NEW n \in Nat
  PROVE  /\ Zeroed(s) \in CudaRec /\ Zeroed(s).outN = 0 /\ SameBut(Zeroed(s), s, {"outN"})
         /\ Judged(s, b) \in CudaRec /\ (Judged(s, b).misread <=> b) /\ SameBut(Judged(s, b), s, {"misread"})
         /\ Cleared(s) \in CudaRec /\ ~Cleared(s).fill /\ SameBut(Cleared(s), s, {"fill"})
         /\ Delayed(s, n) \in CudaRec /\ Delayed(s, n).replies = n /\ SameBut(Delayed(s, n), s, {"replies"})
<1>1. Zeroed(s) \in CudaRec
  BY DEF Zeroed, CudaRec
<1>2. Zeroed(s).outN = 0
  BY DEF Zeroed, CudaRec
<1>3. SameBut(Zeroed(s), s, {"outN"})
  BY DEF Zeroed, CudaRec, SameBut, Fields
<1>4. Judged(s, b) \in CudaRec
  BY DEF Judged, CudaRec
<1>5. Judged(s, b).misread <=> b
  BY DEF Judged, CudaRec
<1>6. SameBut(Judged(s, b), s, {"misread"})
  BY DEF Judged, CudaRec, SameBut, Fields
<1>7. Cleared(s) \in CudaRec
  BY DEF Cleared, CudaRec
<1>8. ~Cleared(s).fill
  BY DEF Cleared, CudaRec
<1>9. SameBut(Cleared(s), s, {"fill"})
  BY DEF Cleared, CudaRec, SameBut, Fields
<1>10. Delayed(s, n) \in CudaRec
  BY DEF Delayed, CudaRec
<1>11. Delayed(s, n).replies = n
  BY DEF Delayed, CudaRec
<1>12. SameBut(Delayed(s, n), s, {"replies"})
  BY DEF Delayed, CudaRec, SameBut, Fields
<1> QED BY <1>1, <1>2, <1>3, <1>4, <1>5, <1>6, <1>7, <1>8, <1>9, <1>10, <1>11, <1>12

Restarted(s, r, q) == [s EXCEPT !.outN = 0, !.inN = 0, !.inFrom = 0, !.outReq = r, !.treq = q]
LineLevels == {0, 1}
LEMMA RestartFields ==
  ASSUME NEW s \in CudaRec, NEW r \in Nat, NEW q \in LineLevels, NEW t, t = Restarted(s, r, q)
  PROVE  /\ t \in CudaRec /\ t.outN = 0 /\ t.inN = 0 /\ t.outReq = r /\ t.treq = q
         /\ SameBut(t, s, {"outN", "inN", "inFrom", "outReq", "treq"})
<1>1. t \in CudaRec
  <2>1. ASSUME NEW v \in CudaRec PROVE [v EXCEPT !.outN = 0, !.inN = 0] \in CudaRec
    BY DEF CudaRec
  <2>2. ASSUME NEW v \in CudaRec PROVE [v EXCEPT !.inFrom = 0] \in CudaRec
    <3>1. 0 \in Int
      OBVIOUS
    <3> QED BY <3>1 DEF CudaRec
  <2>3. ASSUME NEW v \in CudaRec PROVE [v EXCEPT !.outReq = r, !.treq = q] \in CudaRec
    BY DEF CudaRec, LineLevels
  <2>4. t = [[[s EXCEPT !.outN = 0, !.inN = 0] EXCEPT !.inFrom = 0] EXCEPT !.outReq = r, !.treq = q]
    BY DEF Restarted
  <2> QED BY <2>1, <2>2, <2>3, <2>4
<1>2. t.outN = 0 /\ t.inN = 0 /\ t.outReq = r /\ t.treq = q
  BY DEF Restarted, CudaRec
<1>3. SameBut(t, s, {"outN", "inN", "inFrom", "outReq", "treq"})
  BY DEF Restarted, CudaRec, SameBut, Fields
<1> QED BY <1>1, <1>2, <1>3

Ready(s) ==
    /\ s \in CudaRec /\ Adb(s) /\ Keys(s)
    /\ s.outReq \in {0, ReplyLen} /\ (s.outReq > 0 => s.len = s.outReq)
    /\ s.inN >= 2 => s.outReq = 0

IncomingChanges == ExecChanges \cup {"outN", "misread"}
LEMMA IncomingIs ==
  ASSUME NEW s, Ready(s), NEW cmd \in CudaCommands, NEW t, t = cuda_incoming(s, cmd)
  PROVE  /\ t \in CudaRec /\ Adb(t) /\ Keys(t)
         /\ t.outReq \in {0, ReplyLen} /\ (t.outReq > 0 => t.len = t.outReq)
         /\ SameBut(t, s, IncomingChanges)
         /\ t.misread => s.misread \/ (s.inN >= 2 /\ s.inFrom # 1)
         /\ s.inN < 2 => t.outReq = s.outReq
<1>0. s \in CudaRec /\ s.misread \in BOOLEAN /\ s.inN \in Nat
  BY CudaTypes DEF Ready
<1> DEFINE u == Zeroed(s)
           b == s.misread \/ s.inFrom # 1
           v == Judged(u, b)
<1>1. t = IF s.inN < 2 THEN u ELSE Execute(v, cmd)
  <2>1. u.misread = s.misread
    BY <1>0 DEF Zeroed, CudaRec
  <2> QED BY <2>1 DEF cuda_incoming, Zeroed, Judged
<1>2. u \in CudaRec /\ u.outN = 0 /\ SameBut(u, s, {"outN"})
  BY <1>0, StepFields
<1>3. b \in BOOLEAN
  OBVIOUS
<1> HIDE DEF u
<1>4. v \in CudaRec /\ (v.misread <=> b) /\ SameBut(v, u, {"misread"})
  BY <1>2, <1>3, StepFields
<1> HIDE DEF v
<1>5. /\ u.kbd = s.kbd /\ u.kbdReq = s.kbdReq /\ u.mouseReq = s.mouseReq /\ u.dirty = s.dirty
      /\ u.keysIn = s.keysIn /\ u.keysOut = s.keysOut /\ u.keys = s.keys /\ u.outReq = s.outReq
      /\ u.len = s.len /\ u.misread = s.misread
  BY <1>2 DEF SameBut, Fields
<1>6. /\ v.kbd = u.kbd /\ v.kbdReq = u.kbdReq /\ v.mouseReq = u.mouseReq /\ v.dirty = u.dirty
      /\ v.keysIn = u.keysIn /\ v.keysOut = u.keysOut /\ v.keys = u.keys /\ v.outReq = u.outReq
      /\ v.outN = u.outN
  BY <1>4 DEF SameBut, Fields
<1>7. Adb(u) /\ Keys(u) /\ Adb(v) /\ Keys(v)
  BY <1>5, <1>6 DEF Ready, Adb, Keys, KeysHeld
<1>8. CASE s.inN < 2
  <2>1. t = u
    BY <1>1, <1>8
  <2>2. SameBut(t, s, IncomingChanges)
    BY <1>2, <2>1 DEF SameBut, IncomingChanges
  <2> QED BY <1>2, <1>5, <1>7, <2>1, <2>2 DEF Ready
<1>9. CASE ~(s.inN < 2)
  <2>1. t = Execute(v, cmd) /\ v.outReq = 0 /\ v.outN = 0 /\ s.inN >= 2
    BY <1>0, <1>1, <1>2, <1>5, <1>6, <1>9 DEF Ready
  <2>2. Executed(t, v)
    BY <1>4, <1>7, <2>1, ExecuteReplies
  <2>3. t.misread = v.misread
    BY <2>2 DEF Executed, SameBut, Fields, ExecChanges, ReplyChanges
  <2>4. SameBut(t, s, IncomingChanges)
    BY <1>2, <1>4, <2>2 DEF Executed, SameBut, IncomingChanges
  <2>5. t.misread => s.misread \/ (s.inN >= 2 /\ s.inFrom # 1)
    BY <1>4, <2>1, <2>3
  <2> QED BY <1>9, <2>2, <2>4, <2>5 DEF Executed
<1> QED BY <1>8, <1>9

Risen(t, s) ==
    /\ t \in CudaRec /\ Adb(t) /\ Keys(t) /\ ~t.fill /\ t.outN = 0 /\ t.inN = 0
    /\ t.treq = s.tack /\ t.tip = s.tip /\ t.tack = s.tack
    /\ t.ticks = s.ticks /\ t.exited = s.exited /\ t.srInt = s.srInt
    /\ t.outReq \in {0, ReplyLen} /\ (t.outReq > 0 => t.len = t.outReq)
    /\ t.misread => s.misread \/ (s.inN >= 2 /\ s.inFrom # 1)
    /\ s.inN < 2 => t.outReq = s.outReq
    /\ IF s.tack = 1 /\ t.outReq > 0 THEN t.srActive = s.srActive /\ t.replies > 0 ELSE t.srActive

LEMMA TipRises ==
  ASSUME NEW s, Ready(s), s.tack = 0 => s.outReq = 0 /\ s.inN < 2, NEW cmd \in CudaCommands,
         NEW t, t = TipHigh(s, cmd)
  PROVE  Risen(t, s)
<1>0. s \in CudaRec /\ s.inN \in Nat /\ s.tack \in {0, 1} /\ s.outReq \in Nat
  BY CudaTypes DEF Ready
<1> DEFINE s1 == Cleared(s)
           s2 == IF s1.inN > 0 THEN cuda_incoming(s1, cmd) ELSE s1
           r == IF s.tack = 0 THEN 0 ELSE s2.outReq
           s3 == Restarted(s2, r, s.tack)
<1>1. t = IF s.tack = 1 /\ s3.outReq > 0 THEN Delayed(s3, s3.replies + 1) ELSE via_dummy_shift(s3)
  <2>1. s3 = [Restart(s2) EXCEPT !.outReq = IF s.tack = 0 THEN 0 ELSE @, !.treq = s.tack]
    BY DEF Restarted, Restart
  <2> QED BY <2>1 DEF TipHigh, Cleared, Delayed, cuda_msg_avail
<1>2. s1 \in CudaRec /\ ~s1.fill /\ SameBut(s1, s, {"fill"})
  BY <1>0, StepFields, TRUE \in BOOLEAN, 0 \in Nat
<1> HIDE DEF s1
<1>3. /\ s1.kbd = s.kbd /\ s1.kbdReq = s.kbdReq /\ s1.mouseReq = s.mouseReq /\ s1.dirty = s.dirty
      /\ s1.keysIn = s.keysIn /\ s1.keysOut = s.keysOut /\ s1.keys = s.keys /\ s1.outReq = s.outReq
      /\ s1.len = s.len /\ s1.misread = s.misread /\ s1.inN = s.inN /\ s1.inFrom = s.inFrom
  BY <1>2 DEF SameBut, Fields
<1>4. Ready(s1)
  BY <1>2, <1>3 DEF Ready, Adb, Keys, KeysHeld
<1>5. /\ s2 \in CudaRec /\ Adb(s2) /\ Keys(s2)
      /\ s2.outReq \in {0, ReplyLen} /\ (s2.outReq > 0 => s2.len = s2.outReq)
      /\ SameBut(s2, s, IncomingChanges \cup {"fill"}) /\ ~s2.fill
      /\ s2.misread => s.misread \/ (s.inN >= 2 /\ s.inFrom # 1)
      /\ s.inN < 2 => s2.outReq = s.outReq
  <2>1. CASE s1.inN > 0
    <3>1. s2 = cuda_incoming(s1, cmd)
      BY <2>1
    <3> HIDE DEF s2
    <3>2. /\ s2 \in CudaRec /\ Adb(s2) /\ Keys(s2)
          /\ s2.outReq \in {0, ReplyLen} /\ (s2.outReq > 0 => s2.len = s2.outReq)
          /\ SameBut(s2, s1, IncomingChanges)
          /\ s2.misread => s1.misread \/ (s1.inN >= 2 /\ s1.inFrom # 1)
          /\ s1.inN < 2 => s2.outReq = s1.outReq
      BY <1>4, <3>1, IncomingIs
    <3>3. s2.fill = s1.fill
      BY <3>2 DEF SameBut, Fields, IncomingChanges, ExecChanges, ReplyChanges
    <3>4. SameBut(s2, s, IncomingChanges \cup {"fill"})
      BY <1>2, <3>2 DEF SameBut
    <3> QED BY <1>2, <1>3, <3>2, <3>3, <3>4
  <2>2. CASE ~(s1.inN > 0)
    <3>1. s2 = s1
      BY <2>2
    <3> HIDE DEF s2
    <3>2. SameBut(s2, s, IncomingChanges \cup {"fill"})
      BY <1>2, <3>1 DEF SameBut
    <3> QED BY <1>2, <1>3, <1>4, <3>1, <3>2 DEF Ready
  <2> QED BY <2>1, <2>2
<1> HIDE DEF s2
<1>6. r = s2.outReq /\ r \in Nat
  <2>1. s2.outReq \in Nat
    BY <1>5, ReplyLenIs
  <2> QED BY <1>5, <2>1
<1> HIDE DEF r
<1>7. /\ s3 \in CudaRec /\ s3.outN = 0 /\ s3.inN = 0 /\ s3.outReq = r /\ s3.treq = s.tack
      /\ SameBut(s3, s2, {"outN", "inN", "inFrom", "outReq", "treq"})
  <2>1. PICK q \in LineLevels : q = s.tack
    BY <1>0 DEF LineLevels
  <2>2. s2 \in CudaRec /\ r \in Nat /\ s3 = Restarted(s2, r, q)
    BY <1>5, <1>6, <2>1
  <2> HIDE DEF s3
  <2>3. /\ s3 \in CudaRec /\ s3.outN = 0 /\ s3.inN = 0 /\ s3.outReq = r /\ s3.treq = q
        /\ SameBut(s3, s2, {"outN", "inN", "inFrom", "outReq", "treq"})
    BY <2>2, RestartFields
  <2> QED BY <2>1, <2>3
<1> HIDE DEF s3
<1>8. /\ s3.tip = s.tip /\ s3.tack = s.tack /\ s3.ticks = s.ticks /\ s3.exited = s.exited /\ s3.srInt = s.srInt
      /\ s3.srActive = s.srActive /\ s3.replies = s.replies
  <2>1. /\ s3.tip = s2.tip /\ s3.tack = s2.tack /\ s3.ticks = s2.ticks /\ s3.exited = s2.exited /\ s3.srInt = s2.srInt
        /\ s3.srActive = s2.srActive /\ s3.replies = s2.replies
    BY <1>7 DEF SameBut, Fields
  <2>2. /\ s2.tip = s.tip /\ s2.tack = s.tack /\ s2.ticks = s.ticks /\ s2.exited = s.exited /\ s2.srInt = s.srInt
        /\ s2.srActive = s.srActive /\ s2.replies = s.replies
    BY <1>5 DEF SameBut, Fields, IncomingChanges, ExecChanges, ReplyChanges
  <2> QED BY <2>1, <2>2
<1>9. PICK n \in Nat : n = s3.replies + 1 /\ n > 0
  <2>1. s3.replies \in Nat
    BY <1>7, CudaTypes
  <2> QED BY <2>1
<1>10. /\ t \in CudaRec /\ SameBut(t, s3, {"replies", "sr", "srActive"})
       /\ IF s.tack = 1 /\ s3.outReq > 0 THEN t.srActive = s3.srActive /\ t.replies > 0 ELSE t.srActive
  <2>1. CASE s.tack = 1 /\ s3.outReq > 0
    <3>1. t = Delayed(s3, n)
      BY <1>1, <1>9, <2>1
    <3>2. t \in CudaRec /\ t.replies = n /\ SameBut(t, s3, {"replies"})
      BY <1>7, <3>1, StepFields, TRUE \in BOOLEAN
    <3>3. SameBut(t, s3, {"replies", "sr", "srActive"}) /\ t.srActive = s3.srActive
      BY <3>2 DEF SameBut, Fields
    <3> QED BY <1>9, <2>1, <3>2, <3>3
  <2>2. CASE ~(s.tack = 1 /\ s3.outReq > 0)
    <3>1. t = via_dummy_shift(s3)
      BY <1>1, <2>2
    <3>2. t \in CudaRec /\ t.srActive /\ SameBut(t, s3, {"srActive", "sr"})
      BY <1>7, <3>1, DummyFields
    <3>3. SameBut(t, s3, {"replies", "sr", "srActive"})
      BY <3>2 DEF SameBut
    <3> QED BY <2>2, <3>2, <3>3
  <2> QED BY <2>1, <2>2
<1>11. /\ t.tip = s3.tip /\ t.tack = s3.tack /\ t.ticks = s3.ticks /\ t.exited = s3.exited /\ t.srInt = s3.srInt
       /\ t.outN = s3.outN /\ t.inN = s3.inN /\ t.treq = s3.treq /\ t.outReq = s3.outReq /\ t.len = s3.len
       /\ t.misread = s3.misread /\ t.fill = s3.fill /\ t.kbd = s3.kbd /\ t.kbdReq = s3.kbdReq
       /\ t.mouseReq = s3.mouseReq /\ t.dirty = s3.dirty /\ t.keys = s3.keys /\ t.keysIn = s3.keysIn
       /\ t.keysOut = s3.keysOut
  BY <1>10 DEF SameBut, Fields
<1>12. /\ s3.len = s2.len /\ s3.misread = s2.misread /\ s3.fill = s2.fill /\ s3.kbd = s2.kbd
       /\ s3.kbdReq = s2.kbdReq /\ s3.mouseReq = s2.mouseReq /\ s3.dirty = s2.dirty /\ s3.keys = s2.keys
       /\ s3.keysIn = s2.keysIn /\ s3.keysOut = s2.keysOut
  BY <1>7 DEF SameBut, Fields
<1>13. Adb(t) /\ Keys(t)
  BY <1>5, <1>6, <1>7, <1>11, <1>12 DEF Adb, Keys, KeysHeld
<1>14. t.misread => s.misread \/ (s.inN >= 2 /\ s.inFrom # 1)
  BY <1>5, <1>11, <1>12
<1> QED BY <1>5, <1>6, <1>7, <1>8, <1>10, <1>11, <1>12, <1>13, <1>14 DEF Risen

(* A byte to CUDA.                                                           *)
Taken(s, n, f) == [s EXCEPT !.inN = n, !.inFrom = f]
LEMMA TakenFields ==
  ASSUME NEW s \in CudaRec, NEW n \in Nat, NEW f \in Int, NEW t, t = Taken(s, n, f)
  PROVE  t \in CudaRec /\ t.inN = n /\ t.inFrom = f /\ SameBut(t, s, {"inN", "inFrom"})
<1>1. t \in CudaRec
  BY DEF Taken, CudaRec
<1>2. t.inN = n /\ t.inFrom = f
  BY DEF Taken, CudaRec
<1>3. SameBut(t, s, {"inN", "inFrom"})
  BY DEF Taken, CudaRec, SameBut, Fields
<1> QED BY <1>1, <1>2, <1>3

LEMMA ByteIn ==
  ASSUME NEW s \in CudaRec, s.inN <= BufferLen, NEW t, t = ToCuda(s)
  PROVE  /\ t \in CudaRec /\ t.srActive /\ SameBut(t, s, {"inN", "inFrom", "srActive"})
         /\ t.inN <= BufferLen /\ t.inN >= 1
         /\ s.inN = 0 => t.inN = 1 /\ t.inFrom = -s.sr
         /\ s.inN >= 1 => t.inFrom = s.inFrom
<1>0. s.inN \in Nat /\ s.inFrom \in Int /\ s.sr \in Int /\ BufferLen \in Nat /\ BufferLen > 0
  BY CudaTypes, ReplyLenIs
<1>1. PICK n \in Nat : n = s.inN + 1
  BY <1>0
<1>2. PICK f \in Int : f = IF s.inN = 0 THEN -s.sr ELSE s.inFrom
  BY <1>0
<1>3. CASE s.inN = BufferLen
  <2>1. t = via_sr_int_post(s)
    BY <1>3 DEF ToCuda
  <2>2. t \in CudaRec /\ t.srActive /\ SameBut(t, s, {"srActive"})
    BY <2>1, PostFields
  <2>3. t.inN = s.inN /\ t.inFrom = s.inFrom /\ SameBut(t, s, {"inN", "inFrom", "srActive"})
    BY <2>2 DEF SameBut, Fields
  <2> QED BY <1>0, <1>3, <2>2, <2>3
<1>4. CASE s.inN # BufferLen
  <2>1. t = via_sr_int_post(Taken(s, n, f))
    BY <1>1, <1>2, <1>4 DEF ToCuda, Taken
  <2> DEFINE u == Taken(s, n, f)
  <2>2. u \in CudaRec /\ u.inN = n /\ u.inFrom = f /\ SameBut(u, s, {"inN", "inFrom"})
    BY TakenFields
  <2> HIDE DEF u
  <2>3. t \in CudaRec /\ t.srActive /\ SameBut(t, u, {"srActive"})
    BY <2>1, <2>2, PostFields DEF u
  <2>4. t.inN = u.inN /\ t.inFrom = u.inFrom
    BY <2>3 DEF SameBut, Fields
  <2>5. SameBut(t, s, {"inN", "inFrom", "srActive"})
    BY <2>2, <2>3 DEF SameBut
  <2>6. t.inN = s.inN + 1 /\ (s.inN = 0 => t.inFrom = -s.sr) /\ (s.inN # 0 => t.inFrom = s.inFrom)
    BY <1>1, <1>2, <2>2, <2>4
  <2> QED BY <1>0, <1>4, <2>3, <2>5, <2>6
<1> QED BY <1>3, <1>4

(* A message is made when the guest answers a service request.               *)
Ticked(s, n, m) == [s EXCEPT !.pending = n, !.ticks = m]
LEMMA TickedFields ==
  ASSUME NEW s \in CudaRec, NEW n \in Nat, NEW m \in Nat, NEW t, t = Ticked(s, n, m)
  PROVE  t \in CudaRec /\ t.ticks = m /\ SameBut(t, s, {"pending", "ticks"})
<1>1. t \in CudaRec
  BY DEF Ticked, CudaRec
<1>2. t.ticks = m
  BY DEF Ticked, CudaRec
<1>3. SameBut(t, s, {"pending", "ticks"})
  BY DEF Ticked, CudaRec, SameBut, Fields
<1> QED BY <1>1, <1>2, <1>3

FillChanges == ReplyChanges \cup {"fill", "pending", "ticks"}
Filled(t, s) ==
    /\ t \in CudaRec /\ Adb(t) /\ Keys(t) /\ ~t.fill
    /\ t.outReq = ReplyLen \/ (t.outReq = 1 /\ s.outReq = 0 /\ t.ticks > 0)
    /\ t.len = t.outReq /\ t.ticks >= s.ticks
    /\ SameBut(t, s, FillChanges)

LEMMA FillMakes ==
  ASSUME NEW s \in CudaRec, Adb(s), Keys(s),
         s.fill => s.outReq = 0 /\ s.outN = 0 /\ Promise(s),
         ~s.fill => s.outReq = ReplyLen /\ s.len = s.outReq,
         NEW t, t = Fill(s)
  PROVE  Filled(t, s)
<1>0. s.fill \in BOOLEAN /\ s.ticks \in Nat /\ s.pending \in Nat /\ s.outReq \in Nat
  BY CudaTypes
<1> DEFINE s1 == Cleared(s)
<1>1. s1 \in CudaRec /\ ~s1.fill /\ SameBut(s1, s, {"fill"})
  BY StepFields, TRUE \in BOOLEAN, 0 \in Nat
<1>2. t = IF ~s.fill \/ s.outReq > 0 THEN s1
          ELSE IF s.onesec /\ s.pending > 0
          THEN via_cuda_reply(Ticked(s1, s1.pending - 1, s1.ticks + 1), 1, <<>>)
          ELSE IF s.autopoll THEN adb_poll(s1) ELSE s1
  BY DEF Fill, Cleared, Ticked, cuda_msg_avail
<1> HIDE DEF s1
<1>3. /\ s1.kbd = s.kbd /\ s1.kbdReq = s.kbdReq /\ s1.mouseReq = s.mouseReq /\ s1.dirty = s.dirty
      /\ s1.keysIn = s.keysIn /\ s1.keysOut = s.keysOut /\ s1.keys = s.keys /\ s1.outReq = s.outReq
      /\ s1.len = s.len /\ s1.outN = s.outN /\ s1.pending = s.pending /\ s1.ticks = s.ticks
      /\ s1.autopoll = s.autopoll
  BY <1>1 DEF SameBut, Fields
<1>4. Adb(s1) /\ Keys(s1)
  BY <1>3 DEF Adb, Keys, KeysHeld
<1>5. CASE ~s.fill
  <2>1. t = s1
    BY <1>2, <1>5
  <2>2. SameBut(t, s, FillChanges)
    BY <1>1, <2>1 DEF SameBut, FillChanges
  <2> QED BY <1>0, <1>1, <1>3, <1>4, <1>5, <2>1, <2>2 DEF Filled
<1>6. CASE s.fill /\ s.onesec /\ s.pending > 0
  <2>1. PICK n \in Nat, m \in Nat : n = s1.pending - 1 /\ m = s1.ticks + 1 /\ m > 0 /\ m >= s.ticks
    BY <1>0, <1>3, <1>6
  <2> DEFINE u == Ticked(s1, n, m)
  <2>2. u \in CudaRec /\ u.ticks = m /\ SameBut(u, s1, {"pending", "ticks"})
    BY <1>1, TickedFields
  <2>3. t = via_cuda_reply(u, 1, <<>>)
    BY <1>0, <1>2, <1>6, <2>1
  <2> HIDE DEF u
  <2>4. /\ u.kbd = s1.kbd /\ u.kbdReq = s1.kbdReq /\ u.mouseReq = s1.mouseReq /\ u.dirty = s1.dirty
        /\ u.keysIn = s1.keysIn /\ u.keysOut = s1.keysOut /\ u.keys = s1.keys /\ u.outReq = s1.outReq
        /\ u.outN = s1.outN /\ u.fill = s1.fill
    BY <2>2 DEF SameBut, Fields
  <2>5. Adb(u) /\ Keys(u) /\ u.outN = 0 /\ u.outReq = 0
    BY <1>3, <1>4, <1>6, <2>4 DEF Adb, Keys, KeysHeld
  <2>6. /\ t \in CudaRec /\ Adb(t) /\ Keys(t) /\ t.outReq = 1 /\ t.len = 1
        /\ SameBut(t, u, {"outReq", "keys", "len"})
    BY <2>2, <2>3, <2>5, PlainReply
  <2>7. t.fill = u.fill /\ t.ticks = u.ticks
    BY <2>6 DEF SameBut, Fields
  <2>8. SameBut(t, s, FillChanges)
    BY <1>1, <2>2, <2>6 DEF SameBut, FillChanges, ReplyChanges
  <2> QED BY <1>1, <1>6, <2>1, <2>2, <2>4, <2>6, <2>7, <2>8 DEF Filled
<1>7. CASE s.fill /\ ~(s.onesec /\ s.pending > 0)
  <2>1. s.autopoll /\ (s.mouseReq \/ s.kbdReq) /\ s.outReq = 0 /\ s.outN = 0
    BY <1>7 DEF Promise
  <2>2. t = IF s1.mouseReq THEN mouse_read_reg(s1) ELSE kbd_read_reg(s1)
    BY <1>2, <1>3, <1>7, <2>1 DEF adb_poll
  <2>3. Replied(t, s1) /\ t.outReq = ReplyLen
    <3>1. CASE s1.mouseReq
      BY <1>1, <1>3, <1>4, <2>1, <2>2, <3>1, MouseReplies DEF Adb
    <3>2. CASE ~s1.mouseReq
      BY <1>1, <1>3, <1>4, <2>1, <2>2, <3>2, KbdReplies DEF Adb
    <3> QED BY <3>1, <3>2
  <2>4. t.fill = s1.fill /\ t.ticks = s1.ticks
    BY <2>3 DEF Replied, SameBut, Fields, ReplyChanges
  <2>5. SameBut(t, s, FillChanges)
    BY <1>1, <2>3 DEF Replied, SameBut, FillChanges
  <2>6. t.len = t.outReq
    BY <2>3, ReplyLenIs DEF Replied
  <2> QED BY <1>0, <1>1, <1>3, <2>3, <2>4, <2>5, <2>6 DEF Replied, Filled
<1> QED BY <1>5, <1>6, <1>7

(* A byte from CUDA.                                                         *)
Shifted(s, n) == [s EXCEPT !.sr = n, !.outN = n]
Over(s, n) == [s EXCEPT !.outN = 0, !.outReq = 0, !.treq = 1, !.keysOut = n, !.keys = <<>>]
LEMMA ShiftedFields ==
  ASSUME NEW s \in CudaRec, NEW n \in Nat, NEW t, t = Shifted(s, n)
  PROVE  t \in CudaRec /\ t.sr = n /\ t.outN = n /\ SameBut(t, s, {"sr", "outN"})
<1>1. t \in CudaRec
  <2>1. n \in Int
    OBVIOUS
  <2> QED BY <2>1 DEF Shifted, CudaRec
<1>2. t.sr = n /\ t.outN = n
  BY DEF Shifted, CudaRec
<1>3. SameBut(t, s, {"sr", "outN"})
  BY DEF Shifted, CudaRec, SameBut, Fields
<1> QED BY <1>1, <1>2, <1>3

LEMMA OverFields ==
  ASSUME NEW s \in CudaRec, NEW n \in Nat, NEW t, t = Over(s, n)
  PROVE  /\ t \in CudaRec /\ t.outN = 0 /\ t.outReq = 0 /\ t.treq = 1 /\ t.keysOut = n /\ t.keys = <<>>
         /\ SameBut(t, s, {"outN", "outReq", "treq", "keysOut", "keys"})
<1>1. t \in CudaRec
  <2>1. ASSUME NEW v \in CudaRec PROVE [v EXCEPT !.outN = 0, !.outReq = 0] \in CudaRec
    BY DEF CudaRec
  <2>2. ASSUME NEW v \in CudaRec PROVE [v EXCEPT !.treq = 1, !.keysOut = n] \in CudaRec
    BY DEF CudaRec
  <2>3. ASSUME NEW v \in CudaRec PROVE [v EXCEPT !.keys = <<>>] \in CudaRec
    <3>0. <<>> \in Seq(Nat)
      OBVIOUS
    <3>1. PICK k \in Seq(Nat) : k = <<>>
      BY <3>0
    <3>2. [v EXCEPT !.keys = k] \in CudaRec
      BY DEF CudaRec
    <3> QED BY <3>1, <3>2
  <2>4. t = [[[s EXCEPT !.outN = 0, !.outReq = 0] EXCEPT !.treq = 1, !.keysOut = n] EXCEPT !.keys = <<>>]
    BY DEF Over
  <2> QED BY <2>1, <2>2, <2>3, <2>4
<1>2. t.outN = 0 /\ t.outReq = 0 /\ t.treq = 1 /\ t.keysOut = n /\ t.keys = <<>>
  BY DEF Over, CudaRec
<1>3. SameBut(t, s, {"outN", "outReq", "treq", "keysOut", "keys"})
  BY DEF Over, CudaRec, SameBut, Fields
<1> QED BY <1>1, <1>2, <1>3

(* The keys of a message that is over have reached the guest.                *)
LEMMA KeysSent ==
  ASSUME NEW h \in Seq(Nat), NEW q \in Seq(Nat), NEW in \in Nat, NEW out \in Nat, Numbered(h, q, in, out)
  PROVE  Numbered(<<>>, q, in, out + Len(h))
<1>1. Len(h) \in Nat /\ Len(q) \in Nat /\ Len(<<>>) = 0
  OBVIOUS
<1> QED BY <1>1 DEF Numbered

(* What FromCuda makes of a state in which a message is there, or promised.  *)
FromChanges == FillChanges \cup {"sr", "srActive", "outN", "treq", "keysOut"}
Given(t, s) ==
    /\ t \in CudaRec /\ Adb(t) /\ Keys(t) /\ ~t.fill /\ t.srActive /\ t.sr = s.outN + 1
    /\ t.ticks >= s.ticks /\ SameBut(t, s, FromChanges)
    /\ \/ t.treq = 0 /\ t.outN = s.outN + 1 /\ t.outN < t.outReq /\ t.outReq = ReplyLen /\ t.len = t.outReq
       \/ t.treq = 1 /\ t.outN = 0 /\ t.outReq = 0 /\ t.len = s.outN + 1 /\ (s.outN = 0 => t.ticks > 0)

LEMMA ByteOut ==
  ASSUME NEW s \in CudaRec, Adb(s), Keys(s), s.treq = 0,
         s.fill => s.outReq = 0 /\ s.outN = 0 /\ Promise(s),
         ~s.fill => s.outReq = ReplyLen /\ s.len = s.outReq /\ s.outN < s.outReq,
         NEW t, t = FromCuda(s)
  PROVE  Given(t, s)
<1>0. ReplyLen \in Nat /\ 1 < ReplyLen /\ s.outN \in Nat /\ s.ticks \in Nat
  BY CudaTypes, ReplyLenIs
<1> DEFINE s1 == Fill(s)
<1>1. Filled(s1, s)
  BY FillMakes
<1>2. PICK n \in Nat : n = s1.outN + 1
  <2> HIDE DEF s1
  <2>1. s1.outN \in Nat
    BY <1>1, CudaTypes DEF Filled
  <2> QED BY <2>1
<1> DEFINE u == Shifted(s1, n)
           s2 == via_sr_int_post(u)
<1>3. s1.outReq > 0
  BY <1>0, <1>1 DEF Filled
<1>4. t = IF s2.outN < s2.outReq THEN s2 ELSE Over(s2, s2.keysOut + Len(s2.keys))
  <2>1. s2 = via_sr_int_post([s1 EXCEPT !.sr = s1.outN + 1, !.outN = @ + 1])
    BY <1>2 DEF Shifted
  <2>2. t = IF s2.outN >= s2.outReq THEN Over(s2, s2.keysOut + Len(s2.keys)) ELSE s2
    BY <1>3, <2>1 DEF FromCuda, Over, SentAll, cuda_msg_avail
  <2>3. s2.outN \in Nat /\ s2.outReq \in Nat
    <3>1. u \in CudaRec
      BY <1>1, ShiftedFields DEF Filled
    <3> HIDE DEF u
    <3>2. s2 \in CudaRec
      BY <3>1, PostFields
    <3> HIDE DEF s2
    <3> QED BY <3>2, CudaTypes
  <2> HIDE DEF s2
  <2> QED BY <2>2, <2>3
<1> HIDE DEF s1
<1>5. u \in CudaRec /\ u.sr = n /\ u.outN = n /\ SameBut(u, s1, {"sr", "outN"})
  BY <1>1, ShiftedFields DEF Filled
<1> HIDE DEF u
<1>6. s2 \in CudaRec /\ s2.srActive /\ SameBut(s2, u, {"srActive"})
  BY <1>5, PostFields
<1> HIDE DEF s2
<1>7. /\ s2.sr = u.sr /\ s2.outN = u.outN /\ s2.treq = u.treq /\ s2.outReq = u.outReq /\ s2.len = u.len
      /\ s2.ticks = u.ticks /\ s2.fill = u.fill /\ s2.kbd = u.kbd /\ s2.kbdReq = u.kbdReq
      /\ s2.mouseReq = u.mouseReq /\ s2.dirty = u.dirty /\ s2.keys = u.keys /\ s2.keysIn = u.keysIn
      /\ s2.keysOut = u.keysOut
  BY <1>6 DEF SameBut, Fields
<1>8. /\ u.treq = s1.treq /\ u.outReq = s1.outReq /\ u.len = s1.len
      /\ u.ticks = s1.ticks /\ u.fill = s1.fill /\ u.kbd = s1.kbd /\ u.kbdReq = s1.kbdReq
      /\ u.mouseReq = s1.mouseReq /\ u.dirty = s1.dirty /\ u.keys = s1.keys /\ u.keysIn = s1.keysIn
      /\ u.keysOut = s1.keysOut
  BY <1>5 DEF SameBut, Fields
<1>9. s1.outN = s.outN /\ s1.treq = s.treq /\ n = s.outN + 1
  BY <1>1, <1>2 DEF Filled, SameBut, Fields, FillChanges, ReplyChanges
<1>10. Adb(s2) /\ Keys(s2)
  BY <1>1, <1>7, <1>8 DEF Filled, Adb, Keys, KeysHeld
<1>11. SameBut(s2, s, FromChanges)
  BY <1>1, <1>5, <1>6 DEF Filled, SameBut, FromChanges
<1>12. /\ s2.sr = s.outN + 1 /\ s2.outN = s.outN + 1 /\ s2.treq = 0 /\ ~s2.fill /\ s2.ticks >= s.ticks
       /\ s2.len = s2.outReq /\ s2.outReq > 0
       /\ s2.outReq = ReplyLen \/ (s2.outReq = 1 /\ s.outReq = 0 /\ s2.ticks > 0)
  BY <1>1, <1>3, <1>5, <1>7, <1>8, <1>9 DEF Filled
<1>13. CASE s2.outN < s2.outReq
  <2>1. t = s2
    BY <1>4, <1>13
  <2>2. s2.outReq = ReplyLen
    BY <1>0, <1>12, <1>13
  <2> QED BY <1>6, <1>10, <1>11, <1>12, <1>13, <2>1, <2>2 DEF Given
<1>14. CASE ~(s2.outN < s2.outReq)
  <2>1. s2.keys \in Seq(Nat) /\ s2.keysOut \in Nat /\ s2.keysIn \in Nat /\ s2.kbd \in Seq(Nat)
    BY <1>6, CudaTypes
  <2>2. PICK m \in Nat : m = s2.keysOut + Len(s2.keys)
    BY <2>1
  <2>3. t = Over(s2, m)
    BY <1>4, <1>14, <2>2
  <2>4. /\ t \in CudaRec /\ t.outN = 0 /\ t.outReq = 0 /\ t.treq = 1 /\ t.keysOut = m /\ t.keys = <<>>
        /\ SameBut(t, s2, {"outN", "outReq", "treq", "keysOut", "keys"})
    BY <1>6, <2>3, OverFields
  <2>5. /\ t.sr = s2.sr /\ t.srActive = s2.srActive /\ t.len = s2.len /\ t.ticks = s2.ticks /\ t.fill = s2.fill
        /\ t.kbd = s2.kbd /\ t.kbdReq = s2.kbdReq /\ t.mouseReq = s2.mouseReq /\ t.dirty = s2.dirty
        /\ t.keysIn = s2.keysIn
    BY <2>4 DEF SameBut, Fields
  <2>6. Adb(t)
    BY <1>10, <2>5 DEF Adb
  <2>7. Keys(t)
    <3>1. Numbered(s2.keys, s2.kbd, s2.keysIn, s2.keysOut)
      BY <1>10, <1>12 DEF Keys, KeysHeld
    <3>2. Numbered(<<>>, s2.kbd, s2.keysIn, s2.keysOut + Len(s2.keys))
      BY <2>1, <3>1, KeysSent
    <3>3. KeysHeld(t) = <<>>
      BY <2>4 DEF KeysHeld
    <3> QED BY <2>2, <2>4, <2>5, <3>2, <3>3 DEF Keys
  <2>8. SameBut(t, s, FromChanges)
    BY <1>11, <2>4 DEF SameBut, FromChanges, FillChanges, ReplyChanges
  <2>9. t.len = s.outN + 1 /\ (s.outN = 0 => t.ticks > 0)
    <3>1. s2.outReq = s.outN + 1
      <4>1. s.fill => s.outN = 0
        OBVIOUS
      <4>2. ~s.fill => s2.outReq = ReplyLen /\ s.outN < ReplyLen
        BY <1>0, <1>12
      <4> QED BY <1>0, <1>12, <1>14, <4>1, <4>2
    <3>2. s.outN = 0 => s2.outReq = 1 /\ s2.ticks > 0
      BY <1>0, <1>12, <3>1
    <3> QED BY <1>12, <2>5, <3>1, <3>2
  <2> QED BY <1>6, <1>12, <2>4, <2>5, <2>6, <2>7, <2>8, <2>9 DEF Given
<1> QED BY <1>13, <1>14

(* The guest has set the lines.                                              *)
Lined(s, a, p) == [s EXCEPT !.tack = a, !.tip = p]
LEMMA LinedFields ==
  ASSUME NEW s \in CudaRec, NEW a \in LineLevels, NEW p \in LineLevels, NEW t, t = Lined(s, a, p)
  PROVE  t \in CudaRec /\ t.tack = a /\ t.tip = p /\ SameBut(t, s, {"tack", "tip"})
<1>1. t \in CudaRec
  BY DEF Lined, CudaRec, LineLevels
<1>2. t.tack = a /\ t.tip = p
  BY DEF Lined, CudaRec
<1>3. SameBut(t, s, {"tack", "tip"})
  BY DEF Lined, CudaRec, SameBut, Fields
<1> QED BY <1>1, <1>2, <1>3

LEMMA HandshakeIs ==
  ASSUME NEW s, NEW a, NEW p, NEW cmd, a # s.tack \/ p # s.tip
  PROVE  /\ p = 1 => cuda_handshake(s, a, p, cmd) = TipHigh(Lined(s, a, p), cmd)
         /\ p # 1 /\ s.treq = 1 => cuda_handshake(s, a, p, cmd) = ToCuda(Lined(s, a, p))
         /\ p # 1 /\ s.treq # 1 => cuda_handshake(s, a, p, cmd) = FromCuda(Lined(s, a, p))
BY DEF cuda_handshake, Lined

(* The guest ends a packet: TIP is high.                                     *)
Ended(t, c, a) ==
    /\ t \in CudaRec /\ Adb(t) /\ Keys(t) /\ Messages(t)
    /\ t.treq = a /\ t.tip = 1 /\ t.tack = a /\ t.srInt = c.srInt /\ ~t.fill
    /\ c.inN < 2 => t.outReq = c.outReq
    /\ IF a = 1 /\ t.outReq > 0 THEN t.srActive = c.srActive ELSE t.srActive
LEMMA PacketEnds ==
  ASSUME NEW c \in CudaRec, Adb(c), Keys(c), Messages(c), NEW a \in LineLevels,
         c.inN >= 2 => c.outReq = 0 /\ (c.ticks > 0 \/ c.inFrom = 1),
         a = 0 => c.outReq = 0 /\ c.inN < 2,
         NEW cmd \in CudaCommands, NEW t, t = TipHigh(Lined(c, a, 1), cmd)
  PROVE  Ended(t, c, a)
<1>0. c.inN \in Nat /\ c.outReq \in Nat /\ c.ticks \in Nat /\ c.replies \in Nat
  BY CudaTypes
<1>1. PICK p \in LineLevels : p = 1
  BY DEF LineLevels
<1> DEFINE u == Lined(c, a, p)
<1>2. u \in CudaRec /\ u.tack = a /\ u.tip = p /\ SameBut(u, c, {"tack", "tip"})
  BY LinedFields
<1>3. t = TipHigh(u, cmd)
  BY <1>1
<1> HIDE DEF u
<1>4. /\ u.kbd = c.kbd /\ u.kbdReq = c.kbdReq /\ u.mouseReq = c.mouseReq /\ u.dirty = c.dirty
      /\ u.keysIn = c.keysIn /\ u.keysOut = c.keysOut /\ u.keys = c.keys /\ u.outReq = c.outReq
      /\ u.len = c.len /\ u.misread = c.misread /\ u.inN = c.inN /\ u.inFrom = c.inFrom
      /\ u.ticks = c.ticks /\ u.exited = c.exited /\ u.srInt = c.srInt /\ u.srActive = c.srActive
  BY <1>2 DEF SameBut, Fields
<1>5. Adb(u) /\ Keys(u)
  BY <1>4 DEF Adb, Keys, KeysHeld
<1>6. Ready(u)
  BY <1>2, <1>4, <1>5 DEF Ready, Messages
<1>7. Risen(t, u)
  BY <1>2, <1>3, <1>4, <1>6, TipRises
<1>8. Messages(t)
  <2>1. t.misread => t.ticks > 0
    BY <1>4, <1>7 DEF Risen, Messages
  <2>2. ~t.exited
    BY <1>4, <1>7 DEF Risen, Messages
  <2>3. t.inN <= BufferLen /\ t.outN = 0 /\ t.inN = 0 /\ ~t.fill
    BY <1>7, ReplyLenIs DEF Risen
  <2>4. t.treq = a /\ t.tack = a /\ t.tip = 1
    BY <1>1, <1>2, <1>7 DEF Risen
  <2>5. a = 0 => t.outReq = 0
    BY <1>0, <1>4, <1>7 DEF Risen
  <2>6. a = 1 /\ t.outReq > 0 => t.replies > 0
    BY <1>2, <1>7 DEF Risen
  <2>7. t.outReq \in {0, ReplyLen} /\ (t.outReq > 0 => t.len = t.outReq)
    BY <1>7 DEF Risen
  <2> QED BY <2>1, <2>2, <2>3, <2>4, <2>5, <2>6, <2>7 DEF Messages, LineLevels
<1> QED BY <1>1, <1>2, <1>4, <1>7, <1>8 DEF Risen, Ended

LEMMA EndKeeps ==
  ASSUME NEW c, NEW a \in LineLevels, NEW t, Ended(t, c, a), NEW e \in DrvRec, e.pc = "wait",
         \/ e.st = "idle" /\ a = 1 /\ e.retry /\ t.outReq > 0 /\ ~(c.srInt /\ c.srActive)
         \/ e.st = "awaiting" /\ a = 1 /\ ~(c.srInt /\ c.srActive)
         \/ e.st = "done" /\ a = 1 /\ (t.outReq > 0 => Quiet(c))
         \/ e.st = "synced" /\ a = 1 /\ t.outReq = 0
         \/ e.st = "sync" /\ a = 0 /\ t.outReq = 0
  PROVE  HandshakeCore(t, e) /\ Announced(t, e)
<1>0. t \in CudaRec /\ t.outReq \in Nat /\ t.srActive \in BOOLEAN /\ t.srInt \in BOOLEAN
  BY CudaTypes DEF Ended
<1>1. LinesFit(t, e)
  BY DEF Ended, LinesFit
<1>2. CommandsFit(t, e)
  BY DEF Ended, CommandsFit
<1>3. ReadFits(t, e)
  BY DEF ReadFits
<1>4. Interrupts(t, e)
  BY <1>0 DEF Ended, Interrupts, Quiet, Spare
<1>5. Announced(t, e)
  BY <1>0 DEF Announced
<1> QED BY <1>0, <1>1, <1>2, <1>3, <1>4, <1>5 DEF Ended, HandshakeCore

(* The guest gives a byte to CUDA.                                           *)
LEMMA ByteInKeeps ==
  ASSUME NEW c \in CudaRec, Adb(c), Keys(c), Messages(c), NEW a \in LineLevels, c.treq = 1,
         NEW t, t = ToCuda(Lined(c, a, 0)), NEW e \in DrvRec, e.pc = "wait",
         \/ e.st = "reading" /\ ~e.announced /\ c.inN = 0 /\ (c.outReq > 0 => ~c.srInt)
         \/ /\ e.st \in {"sent", "sending"} /\ c.outReq = 0
            /\ c.ticks > 0 \/ (c.inN = 0 /\ c.sr = -1) \/ (c.inN >= 1 /\ c.inFrom = 1)
  PROVE  HandshakeCore(t, e) /\ Announced(t, e)
<1>0. c.inN \in Nat /\ c.outReq \in Nat /\ c.sr \in Int
  BY CudaTypes
<1>1. PICK p \in LineLevels : p = 0
  BY DEF LineLevels
<1> DEFINE u == Lined(c, a, p)
<1>2. u \in CudaRec /\ u.tack = a /\ u.tip = p /\ SameBut(u, c, {"tack", "tip"})
  BY LinedFields
<1>3. t = ToCuda(u)
  BY <1>1
<1> HIDE DEF u
<1>4. /\ u.kbd = c.kbd /\ u.kbdReq = c.kbdReq /\ u.mouseReq = c.mouseReq /\ u.dirty = c.dirty
      /\ u.keysIn = c.keysIn /\ u.keysOut = c.keysOut /\ u.keys = c.keys /\ u.outReq = c.outReq
      /\ u.len = c.len /\ u.misread = c.misread /\ u.inN = c.inN /\ u.inFrom = c.inFrom
      /\ u.ticks = c.ticks /\ u.exited = c.exited /\ u.srInt = c.srInt /\ u.sr = c.sr
      /\ u.treq = c.treq /\ u.outN = c.outN /\ u.fill = c.fill
  BY <1>2 DEF SameBut, Fields
<1>5. /\ t \in CudaRec /\ t.srActive /\ SameBut(t, u, {"inN", "inFrom", "srActive"})
      /\ t.inN <= BufferLen /\ t.inN >= 1
      /\ u.inN = 0 => t.inN = 1 /\ t.inFrom = -u.sr
      /\ u.inN >= 1 => t.inFrom = u.inFrom
  BY <1>2, <1>3, <1>4, ByteIn DEF Messages
<1>6. /\ t.kbd = u.kbd /\ t.kbdReq = u.kbdReq /\ t.mouseReq = u.mouseReq /\ t.dirty = u.dirty
      /\ t.keysIn = u.keysIn /\ t.keysOut = u.keysOut /\ t.keys = u.keys /\ t.outReq = u.outReq
      /\ t.len = u.len /\ t.misread = u.misread /\ t.tip = u.tip
      /\ t.ticks = u.ticks /\ t.exited = u.exited /\ t.srInt = u.srInt
      /\ t.treq = u.treq /\ t.outN = u.outN /\ t.fill = u.fill
  BY <1>5 DEF SameBut, Fields
<1>7. Adb(t) /\ Keys(t)
  BY <1>4, <1>6 DEF Adb, Keys, KeysHeld
<1>8. t.tip = 0 /\ t.treq = 1 /\ t.outN = 0 /\ ~t.fill
  <2>1. c.outN = 0
    <3>1. c.tip \in {0, 1}
      BY CudaTypes
    <3> QED BY <3>1 DEF Messages
  <2> QED BY <1>1, <1>2, <1>4, <1>6, <2>1 DEF Messages
<1>9. Messages(t)
  BY <1>4, <1>5, <1>6, <1>8 DEF Messages
<1>10. LinesFit(t, e)
  BY <1>8 DEF LinesFit
<1>11. CommandsFit(t, e)
  BY <1>0, <1>4, <1>5, <1>6, <1>8 DEF CommandsFit
<1>12. ReadFits(t, e)
  BY <1>8 DEF ReadFits
<1>13. Interrupts(t, e)
  BY <1>4, <1>5, <1>6 DEF Interrupts, Quiet, Spare
<1>14. Announced(t, e)
  BY DEF Announced
<1> QED BY <1>5, <1>7, <1>9, <1>10, <1>11, <1>12, <1>13, <1>14 DEF HandshakeCore

(* CUDA gives a byte to the guest.                                           *)
LEMMA ByteOutKeeps ==
  ASSUME NEW c \in CudaRec, Adb(c), Keys(c), Messages(c), NEW a \in LineLevels, c.treq = 0,
         (c.tip = 1 /\ c.tack = 1) \/ (c.tip = 0 /\ c.outN < c.outReq), c.inN <= 1,
         NEW t, t = FromCuda(Lined(c, a, 0)), NEW e \in DrvRec, e.pc = "wait",
         \/ e.st = "reading" /\ e.announced /\ e.got = c.outN
         \/ e.st = "sent" /\ c.outN = 0
  PROVE  HandshakeCore(t, e) /\ Announced(t, e)
<1>0. c.inN \in Nat /\ c.outReq \in Nat /\ c.outN \in Nat /\ c.ticks \in Nat
  BY CudaTypes
<1>1. PICK p \in LineLevels : p = 0
  BY DEF LineLevels
<1> DEFINE u == Lined(c, a, p)
<1>2. u \in CudaRec /\ u.tack = a /\ u.tip = p /\ SameBut(u, c, {"tack", "tip"})
  BY LinedFields
<1>3. t = FromCuda(u)
  BY <1>1
<1> HIDE DEF u
<1>4. /\ u.kbd = c.kbd /\ u.kbdReq = c.kbdReq /\ u.mouseReq = c.mouseReq /\ u.dirty = c.dirty
      /\ u.keysIn = c.keysIn /\ u.keysOut = c.keysOut /\ u.keys = c.keys /\ u.outReq = c.outReq
      /\ u.len = c.len /\ u.misread = c.misread /\ u.inN = c.inN
      /\ u.ticks = c.ticks /\ u.exited = c.exited
      /\ u.treq = c.treq /\ u.outN = c.outN /\ u.fill = c.fill
      /\ u.onesec = c.onesec /\ u.pending = c.pending /\ u.autopoll = c.autopoll
  BY <1>2 DEF SameBut, Fields
<1>5. Adb(u) /\ Keys(u)
  BY <1>4 DEF Adb, Keys, KeysHeld
<1>6. /\ u.fill => u.outReq = 0 /\ u.outN = 0 /\ Promise(u)
      /\ ~u.fill => u.outReq = ReplyLen /\ u.len = u.outReq /\ u.outN < u.outReq
  <2>1. c.fill => c.outReq = 0 /\ c.outN = 0 /\ Promise(u)
    BY <1>4 DEF Messages, Promise
  <2>2. ~c.fill => c.outReq > 0 /\ c.outN < c.outReq
    BY <1>0 DEF Messages
  <2>3. c.outReq > 0 => c.outReq = ReplyLen /\ c.len = c.outReq
    BY DEF Messages
  <2> QED BY <1>4, <2>1, <2>2, <2>3
<1>7. Given(t, u)
  BY <1>2, <1>3, <1>4, <1>5, <1>6, ByteOut
<1>8. t.tip = u.tip /\ t.misread = u.misread /\ t.exited = u.exited /\ t.inN = u.inN
  BY <1>7 DEF Given, SameBut, Fields, FromChanges, FillChanges, ReplyChanges
<1>9. /\ t \in CudaRec /\ Adb(t) /\ Keys(t) /\ ~t.fill /\ t.srActive /\ t.sr = c.outN + 1
      /\ t.ticks >= c.ticks /\ t.tip = 0 /\ t.inN = c.inN /\ t.misread = c.misread /\ t.exited = c.exited
      /\ \/ t.treq = 0 /\ t.outN = c.outN + 1 /\ t.outN < t.outReq /\ t.outReq = ReplyLen /\ t.len = t.outReq
         \/ t.treq = 1 /\ t.outN = 0 /\ t.outReq = 0 /\ t.len = c.outN + 1 /\ (c.outN = 0 => t.ticks > 0)
  BY <1>1, <1>2, <1>4, <1>7, <1>8 DEF Given
<1>10. t.outReq \in Nat /\ t.ticks \in Nat /\ t.outN \in Nat
  BY <1>9, CudaTypes
<1>11. Messages(t)
  <2>1. t.misread => t.ticks > 0
    BY <1>0, <1>9, <1>10 DEF Messages
  <2>2. t.inN <= BufferLen /\ ~t.exited
    BY <1>9 DEF Messages
  <2> QED BY <1>9, <2>1, <2>2 DEF Messages
<1>12. LinesFit(t, e)
  BY <1>0, <1>9 DEF LinesFit
<1>13. CommandsFit(t, e)
  BY <1>9 DEF CommandsFit
<1>14. ReadFits(t, e)
  BY <1>0, <1>9 DEF ReadFits
<1>15. Interrupts(t, e)
  BY <1>9 DEF Interrupts, Quiet
<1>16. Announced(t, e)
  BY DEF Announced
<1> QED BY <1>9, <1>11, <1>12, <1>13, <1>14, <1>15, <1>16 DEF HandshakeCore

(* The driver writes B: the step of each of its plans.                       *)
Went(d, to, an, re, n) ==
    [d EXCEPT !.pc = "wait", !.st = to, !.announced = an, !.retry = re, !.ops = n]
LEMMA WentFields ==
  ASSUME NEW d \in DrvRec, NEW to \in DrvStates, NEW an \in BOOLEAN, NEW re \in BOOLEAN, NEW n \in Int,
         NEW e, e = Went(d, to, an, re, n)
  PROVE  /\ e \in DrvRec /\ e.pc = "wait" /\ e.st = to /\ (e.announced <=> an) /\ (e.retry <=> re)
         /\ e.got = d.got
<1>1. e \in DrvRec
  BY DEF Went, DrvRec
<1>2. e.pc = "wait" /\ e.st = to /\ e.got = d.got
  BY DEF Went, DrvRec
<1>3. (e.announced <=> an) /\ (e.retry <=> re)
  BY DEF Went, DrvRec
<1> QED BY <1>1, <1>2, <1>3

LEMMA WriteBKeeps ==
  ASSUME CudaInv, DriverB
  PROVE  CudaInv'
<1> DEFINE c == cuda
           t == cuda'
           d == cdrv
           e == cdrv'
           collided == d.st = "sent" /\ d.plan.lines = "raise"
           an == IF d.plan.lines = "lower" THEN c.treq = 0 ELSE d.announced
           re == collided \/ (d.retry /\ d.st # "done")
           n == IF collided THEN d.ops - 1 ELSE d.ops
<1>0. /\ HandshakeCore(c, d) /\ Announced(c, d) /\ c \in CudaRec /\ d \in DrvRec /\ d.pc = "b"
      /\ Adb(c) /\ Keys(c) /\ Messages(c)
      /\ e = Went(d, d.plan.to, an, re, n)
  BY DEF CudaInv, HandshakeCore, DriverB, Went
<1>1. /\ d.plan.lines = "lower" => \E cmd \in CudaCommands : t = cuda_handshake(c, c.tack, 0, cmd)
      /\ d.plan.lines = "toggle" => \E cmd \in CudaCommands : t = cuda_handshake(c, 1 - c.tack, 0, cmd)
      /\ d.plan.lines = "raise" => \E cmd \in CudaCommands : t = cuda_handshake(c, 1, 1, cmd)
      /\ d.plan.lines = "keep" => t = c
  BY DEF DriverB, WriteB
<1> SUFFICES HandshakeCore(t, e) /\ Announced(t, e)
  BY DEF CudaInv
<1> HIDE DEF c, t, d, e
<1>2. /\ c.tack \in LineLevels /\ c.tip \in {0, 1} /\ c.treq \in {0, 1} /\ c.inN \in Nat /\ c.outReq \in Nat
      /\ c.outN \in Nat /\ c.srInt \in BOOLEAN /\ c.srActive \in BOOLEAN
  BY <1>0, CudaTypes DEF LineLevels
<1>3. /\ e \in DrvRec /\ e.pc = "wait" /\ e.st = d.plan.to /\ (e.announced <=> an) /\ (e.retry <=> re)
      /\ e.got = d.got
  <2>1. d.plan \in DrvPlans /\ d.announced \in BOOLEAN /\ d.retry \in BOOLEAN /\ d.ops \in Int
    BY <1>0, DrvTypes
  <2>2. d.plan.to \in DrvStates
    BY <2>1 DEF DrvPlans
  <2>3. an \in BOOLEAN
    BY <2>1
  <2>4. re \in BOOLEAN
    BY <2>1
  <2>5. n \in Int
    BY <2>1
  <2> HIDE DEF an, re, n
  <2>6. PICK to \in DrvStates : to = d.plan.to
    BY <2>2
  <2>7. d \in DrvRec /\ e = Went(d, to, an, re, n)
    BY <1>0, <2>6
  <2>8. e \in DrvRec /\ e.pc = "wait" /\ e.st = to /\ (e.announced <=> an) /\ (e.retry <=> re) /\ e.got = d.got
    BY <2>3, <2>4, <2>5, <2>7, WentFields
  <2> QED BY <2>6, <2>8
<1>4. PlanFits(c, d) /\ d.st \in DrvStates
  BY <1>0, DrvTypes DEF HandshakeCore, LinesFit
<1>5. CASE d.plan.lines = "lower"
  <2>1. PICK cmd \in CudaCommands : t = cuda_handshake(c, c.tack, 0, cmd)
    BY <1>1, <1>5
  <2>2. /\ \/ d.st \in {"idle", "awaiting"} /\ d.plan.to = "reading"
           \/ d.st = "done" /\ d.plan.to = "reading" /\ c.treq = 0
           \/ d.st = "start" /\ d.plan.to = "sent" /\ (c.treq = 1 => c.sr = -1)
    BY <1>4, <1>5 DEF PlanFits, Plans, DrvStates
  <2>3. c.tip = 1 /\ c.tack = 1 /\ c.inN = 0 /\ c.outN = 0
    BY <1>0, <2>2 DEF HandshakeCore, LinesFit, Messages
  <2>4. PICK a \in LineLevels : a = c.tack
    BY <1>2
  <2>5. CASE c.treq = 1
    <3>1. t = ToCuda(Lined(c, a, 0))
      BY <2>1, <2>3, <2>4, <2>5, HandshakeIs
    <3>2. \/ e.st = "reading" /\ ~e.announced /\ (c.outReq > 0 => ~c.srInt)
          \/ e.st = "sent" /\ c.outReq = 0 /\ c.sr = -1
      <4>1. CASE d.st \in {"idle", "awaiting"}
        <5>1. c.outReq > 0 => ~c.srInt
          BY <1>0, <2>5, <4>1 DEF HandshakeCore, Interrupts, Spare, Quiet
        <5> QED BY <1>3, <1>5, <2>2, <2>5, <4>1, <5>1
      <4>2. CASE d.st = "start"
        <5>1. c.outReq = 0
          BY <1>0, <4>2 DEF HandshakeCore, CommandsFit
        <5> QED BY <1>3, <2>2, <2>5, <4>2, <5>1
      <4> QED BY <2>2, <2>5, <4>1, <4>2
    <3> QED BY <1>0, <1>3, <2>3, <2>5, <3>1, <3>2, ByteInKeeps
  <2>6. CASE c.treq = 0
    <3>1. t = FromCuda(Lined(c, a, 0))
      BY <2>1, <2>3, <2>4, <2>6, HandshakeIs
    <3>2. \/ e.st = "reading" /\ e.announced /\ e.got = c.outN
          \/ e.st = "sent" /\ c.outN = 0
      <4>1. CASE d.st \in {"idle", "awaiting", "done"}
        <5>1. d.got = 0
          BY <1>0, <4>1 DEF HandshakeCore, ReadFits
        <5> QED BY <1>3, <1>5, <2>2, <2>3, <2>6, <4>1, <5>1
      <4>2. CASE d.st = "start"
        BY <1>3, <2>2, <2>3, <4>2
      <4> QED BY <2>2, <4>1, <4>2
    <3> QED BY <1>0, <1>3, <2>3, <2>6, <3>1, <3>2, ByteOutKeeps
  <2> QED BY <1>2, <2>5, <2>6
<1>6. CASE d.plan.lines = "toggle"
  <2>1. PICK cmd \in CudaCommands : t = cuda_handshake(c, 1 - c.tack, 0, cmd)
    BY <1>1, <1>6
  <2>2. \/ d.st \in {"sent", "sending"} /\ c.treq = 1 /\ d.plan.to = "sending"
        \/ d.st = "reading" /\ c.treq = 0 /\ d.plan.to = "reading"
    BY <1>4, <1>6 DEF PlanFits, Plans, DrvStates
  <2>3. PICK a \in LineLevels : a = 1 - c.tack /\ a # c.tack
    BY <1>2 DEF LineLevels
  <2>4. CASE c.treq = 1
    <3>1. t = ToCuda(Lined(c, a, 0))
      BY <2>1, <2>3, <2>4, HandshakeIs
    <3>2. e.st = "sending" /\ c.outReq = 0 /\ (c.ticks > 0 \/ (c.inN >= 1 /\ c.inFrom = 1))
      BY <1>0, <1>3, <2>2, <2>4 DEF HandshakeCore, CommandsFit
    <3> QED BY <1>0, <1>3, <2>4, <3>1, <3>2, ByteInKeeps
  <2>5. CASE c.treq = 0
    <3>1. t = FromCuda(Lined(c, a, 0))
      BY <2>1, <2>3, <2>5, HandshakeIs
    <3>2. d.st = "reading" /\ e.st = "reading"
      BY <1>3, <2>2, <2>5
    <3>3. c.tip = 0 /\ c.outN < c.outReq /\ c.sr = c.outN
      BY <1>0, <2>5, <3>2 DEF HandshakeCore, LinesFit
    <3>4. d.announced /\ d.got = c.sr
      BY <1>0, <2>5, <3>2 DEF HandshakeCore, ReadFits
    <3>5. e.announced /\ e.got = c.outN
      BY <1>3, <1>6, <3>3, <3>4
    <3>6. c.inN <= 1
      BY <1>0, <3>2 DEF HandshakeCore, CommandsFit
    <3> QED BY <1>0, <1>3, <2>5, <3>1, <3>2, <3>3, <3>5, <3>6, ByteOutKeeps
  <2> QED BY <1>2, <2>4, <2>5
<1>7. CASE d.plan.lines = "raise"
  <2>1. PICK cmd \in CudaCommands : t = cuda_handshake(c, 1, 1, cmd)
    BY <1>1, <1>7
  <2>2. \/ d.st \in {"sent", "sending"} /\ c.treq = 0 /\ d.plan.to = "idle"
        \/ d.st \in {"sent", "sending"} /\ c.treq = 1 /\ d.plan.to = "awaiting"
        \/ d.st = "reading" /\ c.treq = 1 /\ d.plan.to = "done"
        \/ d.st = "sync" /\ d.plan.to = "synced"
    BY <1>4, <1>7 DEF PlanFits, Plans, DrvStates
  <2>3. c.tip = 0 \/ c.tack = 0
    BY <1>0, <2>2 DEF HandshakeCore, LinesFit
  <2>4. PICK a \in LineLevels : a = 1
    BY DEF LineLevels
  <2>5. t = TipHigh(Lined(c, a, 1), cmd)
    BY <2>1, <2>3, <2>4, HandshakeIs
  <2>6. c.inN >= 2 => c.outReq = 0 /\ (c.ticks > 0 \/ c.inFrom = 1)
    <3>1. CASE d.st = "sync"
      <4>1. c.inN = 0
        BY <1>0, <3>1 DEF HandshakeCore, LinesFit, Messages
      <4> QED BY <4>1
    <3>2. CASE d.st = "reading" \/ (d.st = "sent" /\ c.treq = 0)
      <4>1. c.inN <= 1
        BY <1>0, <3>2 DEF HandshakeCore, CommandsFit
      <4> QED BY <1>2, <4>1
    <3>3. CASE d.st \in {"sent", "sending"} /\ c.treq = 1
      BY <1>0, <3>3 DEF HandshakeCore, CommandsFit
    <3>4. d.st = "sending" => c.treq = 1
      BY <1>0 DEF HandshakeCore, LinesFit
    <3> QED BY <1>2, <2>2, <3>1, <3>2, <3>3, <3>4
  <2>7. Ended(t, c, a)
    BY <1>0, <2>4, <2>5, <2>6, PacketEnds
  <2>8. t.outReq \in Nat
    BY <2>7, CudaTypes DEF Ended
  <2>9. \/ e.st = "idle" /\ e.retry /\ t.outReq > 0 /\ ~(c.srInt /\ c.srActive)
        \/ e.st = "awaiting" /\ ~(c.srInt /\ c.srActive)
        \/ e.st = "done" /\ (t.outReq > 0 => Quiet(c))
        \/ e.st = "synced" /\ t.outReq = 0
    <3>1. CASE d.st \in {"sent", "sending"} /\ c.treq = 0 /\ d.plan.to = "idle"
      <4>1. d.st = "sent" /\ c.outReq > 0
        BY <1>0, <1>2, <3>1 DEF HandshakeCore, LinesFit
      <4>2. c.inN < 2 /\ ~(c.srInt /\ c.srActive)
        BY <1>0, <1>2, <3>1, <4>1 DEF HandshakeCore, CommandsFit, Interrupts
      <4>3. t.outReq > 0
        BY <2>7, <4>1, <4>2 DEF Ended
      <4> QED BY <1>3, <1>7, <3>1, <4>1, <4>2, <4>3
    <3>2. CASE d.st \in {"sent", "sending"} /\ c.treq = 1 /\ d.plan.to = "awaiting"
      BY <1>0, <1>3, <3>2 DEF HandshakeCore, Interrupts
    <3>3. CASE d.st = "reading" /\ c.treq = 1 /\ d.plan.to = "done"
      <4>1. c.inN < 2
        BY <1>0, <1>2, <3>3 DEF HandshakeCore, CommandsFit
      <4>2. t.outReq = c.outReq
        BY <2>7, <4>1 DEF Ended
      <4>3. c.outReq > 0 => ~d.announced
        BY <1>0, <1>2, <3>3 DEF HandshakeCore, ReadFits
      <4>4. c.outReq > 0 => Quiet(c)
        BY <1>0, <3>3, <4>3 DEF HandshakeCore, Interrupts, Spare
      <4> QED BY <1>3, <3>3, <4>2, <4>4
    <3>4. CASE d.st = "sync" /\ d.plan.to = "synced"
      <4>1. c.inN = 0 /\ c.outReq = 0
        BY <1>0, <3>4 DEF HandshakeCore, LinesFit, Messages
      <4>2. t.outReq = c.outReq
        BY <2>7, <4>1 DEF Ended
      <4> QED BY <1>3, <3>4, <4>1, <4>2
    <3> QED BY <2>2, <3>1, <3>2, <3>3, <3>4
  <2> QED BY <1>3, <2>4, <2>7, <2>9, EndKeeps
<1>8. CASE d.plan.lines = "keep"
  <2>1. t = c
    BY <1>1, <1>8
  <2>2. /\ e.st = "idle" /\ d.st \in {"done", "synced"} /\ (d.st = "done" => c.outReq = 0)
    BY <1>3, <1>4, <1>8 DEF PlanFits, Plans, DrvStates
  <2>3. c.outReq = 0
    BY <1>0, <2>2 DEF HandshakeCore, CommandsFit
  <2>4. LinesFit(c, e)
    BY <1>0, <1>3, <2>2 DEF HandshakeCore, LinesFit
  <2>5. CommandsFit(c, e) /\ ReadFits(c, e) /\ Interrupts(c, e)
    BY <1>3, <2>2, <2>3 DEF CommandsFit, ReadFits, Interrupts
  <2>6. Announced(c, e)
    BY <1>0, <1>3, <2>2 DEF Announced
  <2> QED BY <1>0, <1>3, <2>1, <2>4, <2>5, <2>6 DEF HandshakeCore
<1>9. d.plan.lines \in {"lower", "toggle", "raise", "keep"}
  <2>1. d.plan \in DrvPlans
    BY <1>0, DrvTypes
  <2> QED BY <2>1 DEF DrvPlans
<1> QED BY <1>5, <1>6, <1>7, <1>8, <1>9

(* The driver opens the port, or synchronises.                               *)
LEMMA OpenKeeps ==
  ASSUME CudaInv, DriverOpens
  PROVE  CudaInv'
<1> DEFINE c == cuda
           t == cuda'
           d == cdrv
           e == cdrv'
<1>0. /\ HandshakeCore(c, d) /\ c \in CudaRec /\ d \in DrvRec /\ d.pc = "off" /\ d.sent \in Nat /\ d.ops \in Int
      /\ Adb(c) /\ Keys(c) /\ Messages(c)
      /\ \E cmd \in CudaCommands : t = cuda_handshake(c, 1, 1, cmd)
      /\ e = [d EXCEPT !.pc = "wait", !.st = "synced"]
  BY DrvTypes DEF CudaInv, HandshakeCore, DriverOpens, WriteB
<1> SUFFICES HandshakeCore(t, e) /\ Announced(t, e)
  BY DEF CudaInv
<1> HIDE DEF c, t, d, e
<1>1. e \in DrvRec /\ e.st = "synced" /\ e.pc = "wait"
  BY <1>0 DEF DrvRec, DrvStates
<1>2. PICK cmd \in CudaCommands : t = cuda_handshake(c, 1, 1, cmd)
  BY <1>0
<1>3. c.tip = 0 /\ c.outReq = 0 /\ c.inN = 0
  BY <1>0 DEF HandshakeCore, LinesFit
<1>4. PICK a \in LineLevels : a = 1
  BY DEF LineLevels
<1>5. t = TipHigh(Lined(c, a, 1), cmd)
  BY <1>2, <1>3, <1>4, HandshakeIs
<1>6. Ended(t, c, a)
  BY <1>0, <1>3, <1>4, <1>5, PacketEnds
<1>7. t.outReq = 0
  BY <1>3, <1>6 DEF Ended
<1> QED BY <1>1, <1>4, <1>6, <1>7, EndKeeps

LEMMA SyncKeeps ==
  ASSUME CudaInv, DriverSync
  PROVE  CudaInv'
<1> DEFINE c == cuda
           t == cuda'
           d == cdrv
           e == cdrv'
<1>0. /\ HandshakeCore(c, d) /\ c \in CudaRec /\ d \in DrvRec /\ d.pc = "wait" /\ d.st = "idle" /\ ~d.retry
      /\ d.ops \in Int /\ Adb(c) /\ Keys(c) /\ Messages(c)
      /\ \E cmd \in CudaCommands : t = cuda_handshake(c, 0, 1, cmd)
      /\ e = [d EXCEPT !.st = "sync", !.ops = @ + 1]
  BY DrvTypes DEF CudaInv, HandshakeCore, DriverSync, MayBegin, WriteB
<1> SUFFICES HandshakeCore(t, e) /\ Announced(t, e)
  BY DEF CudaInv
<1> HIDE DEF c, t, d, e
<1>1. e \in DrvRec /\ e.st = "sync" /\ e.pc = "wait"
  <2>1. PICK n \in Int : n = d.ops + 1
    BY <1>0
  <2>2. e = [d EXCEPT !.st = "sync", !.ops = n]
    BY <1>0, <2>1
  <2> QED BY <1>0, <2>2 DEF DrvRec, DrvStates
<1>2. PICK cmd \in CudaCommands : t = cuda_handshake(c, 0, 1, cmd)
  BY <1>0
<1>3. c.tip = 1 /\ c.tack = 1 /\ c.outReq = 0 /\ c.inN = 0
  BY <1>0 DEF HandshakeCore, LinesFit, CommandsFit, Messages
<1>4. PICK a \in LineLevels : a = 0
  BY DEF LineLevels
<1>5. t = TipHigh(Lined(c, a, 1), cmd)
  BY <1>2, <1>3, <1>4, HandshakeIs
<1>6. Ended(t, c, a)
  BY <1>0, <1>3, <1>4, <1>5, PacketEnds
<1>7. t.outReq = 0
  BY <1>3, <1>6 DEF Ended
<1> QED BY <1>1, <1>4, <1>6, <1>7, EndKeeps

LEMMA CudaInitHolds ==
  ASSUME CudaInit
  PROVE  CudaInv
<1> DEFINE c == cuda
           d == cdrv
<1>1. c \in CudaRec
  <2>1. <<>> \in Seq(Nat)
    OBVIOUS
  <2> QED BY <2>1 DEF CudaInit, CudaRec
<1>2. d \in DrvRec
  BY DEF CudaInit, DrvRec, DrvPlans, DrvStates
<1>3. /\ c.tack = 0 /\ c.tip = 0 /\ c.treq = 0 /\ ~c.srActive /\ ~c.srInt /\ c.outN = 0
      /\ c.outReq = 0 /\ ~c.fill /\ c.inN = 0 /\ ~c.autopoll /\ ~c.onesec /\ c.kbd = <<>> /\ ~c.kbdReq
      /\ ~c.mouseReq /\ c.keysIn = 0 /\ c.keysOut = 0 /\ ~c.misread /\ ~c.exited
  BY DEF CudaInit
<1>4. d.st = "idle" /\ d.pc = "off"
  BY DEF CudaInit
<1> HIDE DEF c, d
<1>5. Adb(c)
  BY <1>3, CudaAssumption DEF Adb
<1>6. Keys(c)
  BY <1>3 DEF Keys, KeysHeld, Numbered
<1>7. Messages(c)
  BY <1>3, ReplyLenIs DEF Messages
<1>8. LinesFit(c, d) /\ CommandsFit(c, d) /\ ReadFits(c, d)
  BY <1>3, <1>4 DEF LinesFit, CommandsFit, ReadFits
<1>9. Interrupts(c, d) /\ Announced(c, d)
  BY <1>3, <1>4 DEF Interrupts, Announced
<1>10. HandshakeCore(c, d)
  BY <1>1, <1>2, <1>5, <1>6, <1>7, <1>8, <1>9 DEF HandshakeCore
<1> QED BY <1>9, <1>10 DEF CudaInv, c, d

LEMMA KeysOrdered ==
  ASSUME NEW h \in Seq(Nat), NEW q \in Seq(Nat), NEW in \in Nat, NEW out \in Nat, Numbered(h, q, in, out)
  PROVE  h \o q = [i \in 1 .. in - out |-> out + i]
<1> DEFINE l == h \o q
           r == [i \in 1 .. in - out |-> out + i]
<1>1. Len(h) \in Nat /\ Len(q) \in Nat /\ in - out = Len(h) + Len(q)
  BY DEF Numbered
<1>2. /\ l \in Seq(Nat) /\ Len(l) = in - out
      /\ \A i \in 1 .. in - out : l[i] = IF i <= Len(h) THEN h[i] ELSE q[i - Len(h)]
  BY <1>1, ConcatProperties
<1>3. DOMAIN l = 1 .. in - out /\ l = [i \in 1 .. in - out |-> l[i]]
  <2> HIDE DEF l
  <2> QED BY <1>2
<1>4. ASSUME NEW i \in 1 .. in - out PROVE l[i] = out + i
  <2> HIDE DEF l
  <2>1. CASE i <= Len(h)
    BY <1>1, <1>2, <2>1 DEF Numbered
  <2>2. CASE ~(i <= Len(h))
    <3>0. i - Len(h) \in 1 .. Len(q)
      BY <1>1, <2>2
    <3>1. PICK j \in 1 .. Len(q) : j = i - Len(h)
      BY <3>0
    <3>2. l[i] = q[j]
      BY <1>2, <2>2, <3>1
    <3>3. q[j] = out + Len(h) + j
      BY DEF Numbered
    <3> QED BY <1>1, <3>1, <3>2, <3>3
  <2> QED BY <2>1, <2>2
<1> HIDE DEF l
<1>5. l = r
  BY <1>3, <1>4
<1> QED BY <1>5 DEF l

LEMMA CudaInvSafe ==
  ASSUME CudaInv
  PROVE  HandshakeSafe
<1> DEFINE c == cuda
           d == cdrv
<1>0. /\ HandshakeCore(c, d) /\ Announced(c, d) /\ c \in CudaRec /\ d \in DrvRec
      /\ Adb(c) /\ Keys(c) /\ Messages(c)
      /\ LinesFit(c, d) /\ CommandsFit(c, d) /\ ReadFits(c, d) /\ Interrupts(c, d)
  BY DEF CudaInv, HandshakeCore
<1>1. CudaTypeOK
  <2>1. /\ {c.tack, c.tip, c.treq} \subseteq {0, 1} /\ c.replies \in Nat
        /\ c.outN \in Nat /\ c.outReq \in Nat /\ c.inN \in Nat
    BY <1>0, CudaTypes
  <2>2. c.outN = 0 \/ c.outN < c.outReq
    <3>1. CASE c.tip = 1
      BY <1>0, <3>1 DEF Messages
    <3>2. CASE c.tip = 0
      BY <1>0, <2>1, <3>2 DEF Messages, LinesFit
    <3> QED BY <2>1, <3>1, <3>2
  <2>3. c.outReq <= BufferLen /\ c.inN <= BufferLen
    BY <1>0, ReplyLenIs DEF Messages
  <2>4. c.outN \in 0 .. BufferLen - 1 /\ c.outReq \in 0 .. BufferLen /\ c.outN <= c.outReq /\ c.inN \in 0 .. BufferLen
    BY <2>1, <2>2, <2>3, ReplyLenIs
  <2> QED BY <1>0, <2>1, <2>4 DEF CudaTypeOK, Adb
<1>2. ServiceHasData
  <2>1. c.outReq \in Nat
    BY <1>0, CudaTypes
  <2>2. ~c.exited
    BY <1>0 DEF Messages
  <2>3. c.treq = 0 /\ c.tip = 1 /\ c.tack = 1 => c.outReq > 0 \/ (c.fill /\ Promise(c))
    BY <1>0, <2>1 DEF Messages
  <2> QED BY <2>2, <2>3 DEF ServiceHasData, Promise, adb_mes_avail
<1>3. AnswerPending
  BY <1>0 DEF AnswerPending, Interrupts, Quiet, Messages
<1>4. ReadsWhole
  BY <1>0 DEF ReadsWhole, ReadFits, LinesFit, PlanFits, Plans
<1>5. CommandWhole
  BY <1>0 DEF CommandWhole, Messages
<1>6. KeysInOrder
  <2>1. c.keys \in Seq(Nat) /\ c.kbd \in Seq(Nat) /\ c.keysIn \in Nat /\ c.keysOut \in Nat /\ KeysHeld(c) \in Seq(Nat)
    BY <1>0, CudaTypes, KeysHeldSeq
  <2>2. Numbered(KeysHeld(c), c.kbd, c.keysIn, c.keysOut)
    BY <1>0 DEF Keys
  <2>3. KeysHeld(c) \o c.kbd = [i \in 1 .. c.keysIn - c.keysOut |-> c.keysOut + i]
    <3>1. PICK h \in Seq(Nat), q \in Seq(Nat), in \in Nat, out \in Nat :
             h = KeysHeld(c) /\ q = c.kbd /\ in = c.keysIn /\ out = c.keysOut
      BY <2>1
    <3>2. Numbered(h, q, in, out)
      BY <2>2, <3>1
    <3>3. h \o q = [i \in 1 .. in - out |-> out + i]
      BY <3>2, KeysOrdered
    <3> QED BY <3>1, <3>3
  <2> QED BY <2>3 DEF KeysInOrder, KeysHeld
<1>7. KeysAnnounced
  <2>1. ASSUME c.autopoll, c.kbd # <<>>, d.st = "idle", d.pc = "wait", ~c.srInt, ~c.srActive, c.replies = 0
        PROVE  c.treq = 0
    <3>1. CASE c.outReq = 0
      BY <1>0, <2>1, <3>1 DEF Announced
    <3>2. CASE c.outReq # 0
      <4>1. c.outReq > 0 /\ c.tip = 1 /\ c.treq \in {0, 1}
        BY <1>0, <2>1, <3>2, CudaTypes DEF LinesFit
      <4> QED BY <1>0, <2>1, <4>1 DEF Messages
    <3> QED BY <3>1, <3>2
  <2> QED BY <2>1 DEF KeysAnnounced
<1> QED BY <1>1, <1>2, <1>3, <1>4, <1>5, <1>6, <1>7 DEF HandshakeSafe

(* HandshakeSafe holds in every state of CUDA, its timers and input and a     *)
(* driver that follows the handshake, for every length of replies, commands  *)
(* and buffers: whatever cuda_handshake(), the service requests of the ADB    *)
(* and the delayed replies of via-cuda.c collide with.                       *)
THEOREM HandshakeCorrect == CudaSpec => []HandshakeSafe
<1>1. CudaInit => CudaInv
  BY CudaInitHolds
<1>2. CudaInv /\ [CudaNext]_cudaVars => CudaInv'
  <2> SUFFICES ASSUME CudaInv, [CudaNext]_cudaVars
               PROVE  CudaInv'
    OBVIOUS
  <2>1. CASE via_sr_int
    BY <2>1, ShiftKeeps
  <2>2. CASE cuda_start_reply
    BY <2>2, ReplyKeeps
  <2>3. CASE cuda_one_sec_timer
    BY <2>3, ClockKeeps
  <2>4. ASSUME NEW twice \in BOOLEAN, adb_key(twice) PROVE CudaInv'
    BY <2>4, KeyKeeps
  <2>5. ASSUME NEW x \in 0 .. 2, adb_mouse_event(x) PROVE CudaInv'
    BY <2>5, MouseKeeps
  <2>6. CASE DriverIrq
    BY <2>6, IrqKeeps
  <2>7. CASE DriverLooks
    BY <2>7, LooksKeeps
  <2>8. CASE DriverSR
    BY <2>8, WriteKeeps
  <2>9. CASE DriverB
    BY <2>9, WriteBKeeps
  <2>10. CASE DriverOpens
    BY <2>10, OpenKeeps
  <2>11. CASE DriverStart
    BY <2>11, StartKeeps
  <2>12. CASE DriverSync
    BY <2>12, SyncKeeps
  <2>13. CASE UNCHANGED cudaVars
    BY <2>13 DEF CudaInv, cudaVars
  <2> QED BY <2>1, <2>2, <2>3, <2>4, <2>5, <2>6, <2>7, <2>8, <2>9, <2>10, <2>11, <2>12, <2>13
          DEF CudaNext, Driver
<1>3. CudaInv => HandshakeSafe
  BY CudaInvSafe
<1> QED BY <1>1, <1>2, <1>3, PTL DEF CudaSpec
=============================================================================
