------------------------------- MODULE HostIrq -------------------------------
(***************************************************************************)
(* Host interrupts that are passed to the virtual machine.  The kernel      *)
(* module's handler disables the interrupt and marks it active; the main    *)
(* loop copies the active set to the lines of the virtual interrupt         *)
(* controller; when the guest asks, active interrupts are enabled again,    *)
(* which lets the ones that are still asserted fire once more.              *)
(*                                                                         *)
(* The handlers run on any CPU, concurrently with the main thread, and      *)
(* share the bit field, the count and two flags with it.  Disabling and     *)
(* enabling an interrupt is Linux's (external).                             *)
(*                                                                         *)
(* Sources: kmod/Linux/hostirq.c, kmod/Linux/dev.c, drivers/hostirq.c,      *)
(* cpu/mainloop.c.                                                          *)
(***************************************************************************)
EXTENDS Integers, FiniteSets

CONSTANTS
    HostIrqs,   \* the host interrupts in use, numbers
    Noisy       \* bound: those of them whose device ever interrupts

ASSUME HostIrqsAssumption == HostIrqs \subseteq Nat /\ IsFiniteSet(HostIrqs)
ASSUME NoisyAssumption == Noisy \subseteq HostIrqs

End == -1

VARIABLES
    asserted,   \* the devices' level (external)
    depth,      \* disable depth of each interrupt (external)
    handler,    \* control point of each interrupt's handler
    mapped, activeIrqs, activeCnt,      \* mregs->mapped_irqs, active_irqs, hostirq_active_cnt
    update, intr,                       \* mregs->hostirq_update, mregs->interrupt
    next, first, last,                  \* the mapping table of drivers/hostirq.c
    vmLine,     \* level of each mapped interrupt in the virtual controller
    host        \* the main thread: pc, the interrupt it is at, those not mapped yet (each is once)

hostVars == <<asserted, depth, handler, mapped, activeIrqs, activeCnt, update, intr,
              next, first, last, vmLine, host>>
table == <<next, first, last>>
shared == <<mapped, activeIrqs, activeCnt, update, intr>>

HostTypeOK ==
    /\ asserted \subseteq HostIrqs
    /\ depth \in [HostIrqs -> Nat]
    /\ handler \in [HostIrqs -> {"idle", "set", "inc", "flag"}]
    /\ mapped \subseteq HostIrqs /\ activeIrqs \subseteq HostIrqs
    /\ activeCnt \in Int /\ update \in {0, 1} /\ intr \in {0, 1}
    /\ next \in [HostIrqs -> HostIrqs \cup {End}]
    /\ first \in HostIrqs \cup {End} /\ last \in HostIrqs \cup {End}
    /\ vmLine \in [HostIrqs -> {0, 1}]
    /\ host \in [pc : {"run", "get", "dec", "enable", "poll", "walk", "done"},
                 at : Int, todo : SUBSET HostIrqs]

HostInit ==
    /\ asserted = {} /\ depth = [i \in HostIrqs |-> 0]
    /\ handler = [i \in HostIrqs |-> "idle"]
    /\ mapped = {} /\ activeIrqs = {} /\ activeCnt = 0 /\ update = 0 /\ intr = 0
    /\ next = [i \in HostIrqs |-> End] /\ first = End /\ last = End
    /\ vmLine = [i \in HostIrqs |-> 0]
    /\ host = [pc |-> "run", at |-> End, todo |-> HostIrqs]

Goto(pc, at) == host' = [host EXCEPT !.pc = pc, !.at = at]

-----------------------------------------------------------------------------
(* hostirq_handler(), in the order of its accesses to shared state.          *)
HandlerEnters(i) ==
    /\ handler[i] = "idle" /\ i \in asserted \cap mapped /\ depth[i] = 0
    /\ depth' = [depth EXCEPT ![i] = @ + 1]
    /\ handler' = [handler EXCEPT ![i] = "set"]
    /\ UNCHANGED <<asserted, shared, table, vmLine, host>>

HandlerSets(i) ==
    /\ handler[i] = "set"
    /\ activeIrqs' = activeIrqs \cup {i}
    /\ handler' = [handler EXCEPT ![i] = IF i \in activeIrqs THEN "flag" ELSE "inc"]
    /\ UNCHANGED <<asserted, depth, mapped, activeCnt, update, intr, table, vmLine, host>>

HandlerCounts(i) ==
    /\ handler[i] = "inc"
    /\ activeCnt' = activeCnt + 1
    /\ handler' = [handler EXCEPT ![i] = "flag"]
    /\ UNCHANGED <<asserted, depth, mapped, activeIrqs, update, intr, table, vmLine, host>>

(* Mutant: the main loop is interrupted but not asked to update. *)
HandlerOnlyInterrupts(i) ==
    /\ handler[i] = "flag"
    /\ intr' = 1
    /\ handler' = [handler EXCEPT ![i] = "idle"]
    /\ UNCHANGED <<asserted, depth, mapped, activeIrqs, activeCnt, update, table, vmLine, host>>

HandlerFlags(i) ==
    /\ handler[i] = "flag"
    /\ update' = 1 /\ intr' = 1
    /\ handler' = [handler EXCEPT ![i] = "idle"]
    /\ UNCHANGED <<asserted, depth, mapped, activeIrqs, activeCnt, table, vmLine, host>>

(* The device raises or lowers its level.                                    *)
DeviceToggles(i) ==
    /\ i \in Noisy
    /\ asserted' = IF i \in asserted THEN asserted \ {i} ELSE asserted \cup {i}
    /\ UNCHANGED <<depth, handler, shared, table, vmLine, host>>

-----------------------------------------------------------------------------
(* hostirq_map() and grab_host_irq().  An entry whose link is -1 is taken    *)
(* for unused, so that mapping the last interrupt of the list once more      *)
(* would link it to itself: the model maps no interrupt that is mapped.      *)
hostirq_map(i) ==
    /\ host.pc = "run"
    /\ i \in host.todo \ mapped
    /\ mapped' = mapped \cup {i}
    /\ depth' = [depth EXCEPT ![i] = 0]
    /\ IF next[i] = End
       THEN /\ next' = IF last = End THEN next ELSE [next EXCEPT ![last] = i]
            /\ last' = i
            /\ first' = IF first = End THEN i ELSE first
       ELSE UNCHANGED table
    /\ host' = [host EXCEPT !.todo = @ \ {i}]
    /\ UNCHANGED <<asserted, handler, activeIrqs, activeCnt, update, intr, vmLine>>

(* Unlinking i: the table after the removal.                                 *)
Before(i) == {p \in HostIrqs : next[p] = i}

Unlink(i) ==
    IF i = first
    THEN /\ first' = next[i] /\ last' = (IF i = last THEN End ELSE last)
         /\ next' = [next EXCEPT ![i] = End]
    ELSE /\ next' = [p \in HostIrqs |-> IF p = i THEN End
                                        ELSE IF next[p] = i THEN next[i] ELSE next[p]]
         /\ last' = IF i = last /\ Before(i) # {} THEN CHOOSE p \in Before(i) : TRUE ELSE last
         /\ UNCHANGED first

(* hostirq_unmap(): release_host_irq() waits for the handler (disable_irq)   *)
(* and frees the interrupt; the active bit and the count stay as they are.   *)
hostirq_unmap(i) ==
    /\ host.pc = "run" /\ i \in mapped /\ handler[i] = "idle"
    /\ mapped' = mapped \ {i}
    /\ depth' = [depth EXCEPT ![i] = @ + 1]
    /\ Unlink(i)
    /\ UNCHANGED <<asserted, handler, activeIrqs, activeCnt, update, intr, vmLine, host>>

(* hostirq_cleanup() follows a link it has just reset, so that it releases   *)
(* the first interrupt only; cleanup_host_irqs() of the kernel module does   *)
(* the others.                                                               *)
hostirq_cleanup ==
    /\ host.pc = "run" /\ first # End /\ handler[first] = "idle"
    /\ mapped' = mapped \ {first}
    /\ depth' = [depth EXCEPT ![first] = @ + 1]
    /\ next' = [next EXCEPT ![first] = End] /\ first' = End /\ last' = End
    /\ host' = [host EXCEPT !.pc = "done"]
    /\ UNCHANGED <<asserted, handler, activeIrqs, activeCnt, update, intr, vmLine>>

cleanup_host_irqs ==
    /\ host.pc = "done" /\ mapped # {} /\ \A i \in mapped : handler[i] = "idle"
    /\ depth' = [i \in HostIrqs |-> IF i \in mapped THEN depth[i] + 1 ELSE depth[i]]
    /\ mapped' = {}
    /\ UNCHANGED <<asserted, handler, activeIrqs, activeCnt, update, intr, table, vmLine, host>>

-----------------------------------------------------------------------------
(* hostirq_check_irqs(), called for the guest, and get_irqs() interrupt by   *)
(* interrupt: the bit is cleared, counted, and the interrupt enabled.        *)
hostirq_check_irqs ==
    /\ host.pc = "run" /\ first # End /\ activeCnt # 0
    /\ update' = 1 /\ intr' = 1
    /\ Goto("get", 0)
    /\ UNCHANGED <<asserted, depth, handler, mapped, activeIrqs, activeCnt, table, vmLine>>

Ahead(n) == {i \in HostIrqs : i >= n}
Wanted(n) == Ahead(n) \cap mapped \cap activeIrqs

GetClears ==
    /\ host.pc = "get"
    /\ \/ /\ Wanted(host.at) = {}
          /\ Goto("poll", End) /\ UNCHANGED activeIrqs
       \/ \E i \in Wanted(host.at) :
             /\ \A j \in Wanted(host.at) : i <= j
             /\ activeIrqs' = activeIrqs \ {i}
             /\ Goto("dec", i)
    /\ UNCHANGED <<asserted, depth, handler, mapped, activeCnt, update, intr, table, vmLine>>

GetCounts ==
    /\ host.pc = "dec"
    /\ activeCnt' = activeCnt - 1
    /\ Goto("enable", host.at)
    /\ UNCHANGED <<asserted, depth, handler, mapped, activeIrqs, update, intr, table, vmLine>>

GetEnables ==
    /\ host.pc = "enable"
    /\ depth' = [depth EXCEPT ![host.at] = @ - 1]
    /\ Goto("get", host.at + 1)
    /\ UNCHANGED <<asserted, handler, shared, table, vmLine>>

(* mainloop_interrupt(): the flags are reset before the set is looked at.    *)
(* It runs before the guest does when a return vector was handled ("poll").  *)
(* Mutant: nothing is updated when no interrupt is active. *)
UpdateSkipsEmpty ==
    /\ host.pc \in {"run", "poll"} /\ intr = 1
    /\ intr' = 0 /\ update' = 0
    /\ Goto(IF update = 1 /\ first # End /\ activeCnt # 0 THEN "walk" ELSE "run", first)
    /\ UNCHANGED <<asserted, depth, handler, mapped, activeIrqs, activeCnt, table, vmLine>>

UpdateEnters ==
    /\ host.pc \in {"run", "poll"} /\ intr = 1
    /\ intr' = 0 /\ update' = 0
    /\ Goto(IF update = 1 /\ first # End THEN "walk" ELSE "run", first)
    /\ UNCHANGED <<asserted, depth, handler, mapped, activeIrqs, activeCnt, table, vmLine>>

(* hostirq_update_irqs(), entry by entry.                                    *)
UpdateWalks ==
    /\ host.pc = "walk"
    /\ vmLine' = [vmLine EXCEPT ![host.at] = IF host.at \in activeIrqs THEN 1 ELSE 0]
    /\ Goto(IF next[host.at] = End THEN "run" ELSE "walk", next[host.at])
    /\ UNCHANGED <<asserted, depth, handler, shared, table>>

-----------------------------------------------------------------------------
HandlerStep(i) == HandlerEnters(i) \/ HandlerSets(i) \/ HandlerCounts(i) \/ HandlerFlags(i)
MainStep == GetClears \/ GetCounts \/ GetEnables \/ UpdateEnters \/ UpdateWalks

HostNext ==
    \/ \E i \in HostIrqs : HandlerStep(i) \/ DeviceToggles(i) \/ hostirq_map(i) \/ hostirq_unmap(i)
    \/ MainStep \/ hostirq_check_irqs \/ hostirq_cleanup \/ cleanup_host_irqs

(* Handlers run when Linux enables the interrupt, the main loop returns to   *)
(* its test, and a guest that is interrupted asks for the active interrupts. *)
HostFairness ==
    /\ \A i \in HostIrqs : WF_hostVars(HandlerStep(i))
    /\ WF_hostVars(MainStep)
    /\ WF_hostVars((\E i \in mapped : vmLine[i] = 1) /\ hostirq_check_irqs)

HostSpec == HostInit /\ [][HostNext]_hostVars /\ HostFairness

-----------------------------------------------------------------------------
(* The mapping table as a list.  What can be reached along the links is said  *)
(* without recursion: it is in every set that is closed under the links.      *)
Closed(S, nx) == \A p \in S : nx[p] \in S \cup {End}
ReachedFrom(a, nx, i) ==
    \A S \in SUBSET HostIrqs : (a = End \/ a \in S) /\ Closed(S, nx) => i \in S

(* As long as the emulator runs, the links stay inside the mapped interrupts, *)
(* no two lead to the same entry and none to the head, only the tail has      *)
(* none, and every mapped interrupt is reached from the head.                 *)
ListShape ==
    host.pc # "done" =>
    /\ mapped = {} => first = End /\ last = End
    /\ mapped # {} => first \in mapped /\ last \in mapped
    /\ \A i \in HostIrqs \ mapped : next[i] = End
    /\ \A i \in mapped : next[i] \in (mapped \ {first}) \cup {End}
    /\ \A i \in mapped : next[i] = End <=> i = last
    /\ \A i, j \in mapped : next[i] = next[j] => i = j
    /\ \A i \in mapped : ReachedFrom(first, next, i)

(* No interrupt is left disabled: what the handlers have disabled is in the  *)
(* active set (or on its way into it or out of it), and nothing is enabled   *)
(* twice.                                                                    *)
DisabledIsActive ==
    \A i \in mapped :
        depth[i] = (IF i \in activeIrqs \/ handler[i] = "set"
                       \/ (host.pc \in {"dec", "enable"} /\ host.at = i) THEN 1 ELSE 0)

(* The count that guards the fast path is the size of the active set, up to  *)
(* the updates in progress.                                                  *)
CountIsSize ==
    activeCnt = Cardinality(activeIrqs)
                - Cardinality({i \in HostIrqs : handler[i] = "inc"})
                + (IF host.pc = "dec" THEN 1 ELSE 0)

(* No change of the active set is missed: when no update is due the virtual  *)
(* lines show it, although it is read while handlers change it.              *)
LinesShowActive ==
    /\ host.pc \in {"run", "poll"} /\ update = 0
    /\ \A i \in HostIrqs : handler[i] \in {"idle", "set"}
    => \A i \in mapped : vmLine[i] = IF i \in activeIrqs THEN 1 ELSE 0

(* An interrupt that stays asserted reaches the virtual controller once the  *)
(* guest stops asking for interrupts, and one that stays low leaves it.      *)
HostIrqFollows ==
    \A i \in HostIrqs :
        /\ <>[](i \in asserted \cap mapped /\ host.pc \in {"run", "poll", "walk"}) => <>[](vmLine[i] = 1)
        /\ <>[](i \in mapped \ asserted /\ host.pc # "done") => <>[](vmLine[i] = 0)

(* Host interrupts are accounted for: the list has every mapped one, none is *)
(* left disabled or enabled twice, the count agrees with the set, and the    *)
(* virtual lines show it.                                                    *)
HostIrqsAccounted ==
    HostTypeOK /\ ListShape /\ DisabledIsActive /\ CountIsSize /\ LinesShowActive
=============================================================================
