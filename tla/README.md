# Mac-on-Linux in TLA+

Mac-on-Linux (MOL) runs Mac OS, Mac OS X or Linux as a guest on a PowerPC host.
A kernel module runs the guest's code natively in "virtualization mode"; a user
process emulates the hardware around it.  This directory holds TLA+ models of
the parts in which threads, interrupts, callbacks and the guest meet, the TLC
configurations that check them on small instances, and TLAPS proofs, for every
value of the constants, of the properties that matter most.

Contents: 1 inventory, 2 plan, 3 modules and code, 4 runs, 5 bounds,
6 fairness, 7 proofs, 8 disagreements found, 9 what is not modelled.

Paths are relative to `src/src/` of the repository.

## 1. Inventory

### How the parts interact

The *main thread* alternates between the guest and *return vector* handlers (the
guest touched a device, made an OSI call, a timer expired).  Device drivers run
on it, and some own further threads.  The rules of interaction are few:

* a thread that has something for the main thread sets a flag of its own and
  calls `interrupt_emulation()`; the main thread then comes to
  `mainloop_interrupt()` and looks at all the flags;
* file descriptors are watched by one *poll thread*, which hands its results to
  the main thread and waits until they have been handled; threads use the same
  path to send *aevents* (bytes in a pipe);
* drivers raise and lower interrupt lines of an interrupt controller under its
  lock; the controller asks the main thread, through a mailbox without lock, to
  change the guest CPU's interrupt line;
* timers fire on the main thread; any thread may set or cancel them;
* threads that may block (disk, sound, SCSI, DMA devices) come from one pool and
  share a ring, a queue or a channel with the guest or the main thread.

### Components

| Component | State | Operations | Hard behaviour | What makes it correct |
|---|---|---|---|---|
| Main loop (`cpu/mainloop.c`, `cpu/ppc/mainloop_asm.S`, `doze()` in `main/timer.c`) | `mregs->interrupt`, `in_virtual_mode`, `__stop`, `ts.dozing`, abort pipe | enter and leave the guest, `mainloop_interrupt`, `interrupt_emulation`, `doze`, `abort_doze`, `quit_emulation`, signal handlers | all shared words without a lock, SMP, signals at any instruction | no announced work is lost; no sleep through an interrupt; quit ends the loop |
| OSI interrupt controller (`drivers/osi_pic.c`) and CPU mailbox (`cpu/mainloop.c`) | `level`, `mask`, `cpu_irq`; `__cpu_irq_raise`, `__cpu_irq_lower`, `fb_IRQPending` | raise, lower, mask, unmask; `set_cpu_irq`, `set_cpu_irq_mt` | two-word mailbox read and written without lock | CPU line = some unmasked line is high; nothing stuck, nothing lost |
| Grand Central (`drivers/pic.c`, routing in `drivers/osi_driver.c`) | event, enable, level registers; sharers | register, raise, lower, register writes | two devices share an irq; edges and levels | a sharer's lowering does not hide the other; CPU line up to date |
| Timers (`main/timer.c`, stamp in `kmod/dec.S`) | active list, inactive list, free list, `timer_stamp` | one-shot and periodic timers, `rvec_timer`, `overflow_handler`, `retune_timers` | 32-bit wrap, lock dropped around handlers, debugger freeze | sorted by time, never early, never forgotten |
| Asynchronous I/O (`main/async.c`) | handler table, `npoll`, pipes, `__io_is_pending` | add, change, delete handlers; poll thread; `__do_async_io`; aevents; cleanup | table shared without lock; changed from within handlers | poll and table agree; every event arrives; shutdown ends |
| Thread pool (`main/thread.c`) | start list, free list, start pipe | create, reuse, exit | byte and record are handed over separately | each job runs once; no job waits for another |
| Host interrupts (`drivers/hostirq.c`, `kmod/Linux/hostirq.c`) | list of mappings, active set and count, update flag | map, unmap, handler, get, update | interrupt context beside the main thread | no interrupt stays disabled; lines show the active set |
| ABlk disk channel (`drivers/disk/ablk.c`) | ring in guest memory, `active`, `running`, counts | kick, engine, stall, acknowledge, start | ring and flags shared without a lock | no lost kick, no untold completion; implements a queue |
| Copy-on-write image (`drivers/disk/blk_qcow.c`) | two-level table, two caches | read, write, allocate | failing file operations, cache eviction | nothing handed out twice; sectors read back |
| SCSI requests (`drivers/disk/scsi.c`, `cd-scsi.c`, `sg-scsi.c`) | queues per drive, chain in guest memory | submit, execute, complete, acknowledge | threads that come and go with their queue | each request comes back once, in order |
| SCSI bus (`drivers/oldworld/scsi-bus.c`, `mesh.c`, `scsi-unit.c`) | bus state and phase, engine lock, transfers | engine, callbacks, selection, reset | lock dropped in every callback; any thread may run the engine | one engine at a time, never stalls, transfers whole |
| USB controller (`drivers/usb.c`) | endpoints, urbs, done list, control transfer | schedule, complete, pause, reset | urbs in flight while the guest changes the lists | each descriptor comes back once, with its own answer |
| Network (`drivers/net/enet2.c`, `packet.c`) | two rings, interrupt mask | receive, kick, acknowledge, start | guest polls and masks while packets arrive | rings agree; no packet untold |
| VIA-CUDA, ADB (`drivers/via-cuda.c`, `drivers/adb.c`) | handshake lines, packets, queues | register accesses, shift timer, input | collisions, autopoll while the guest sends | handshake always answered; keys in order |
| DBDMA (`drivers/dbdma.c`) | status, pointer, phase, identifier | control writes, command steps, acknowledgements | late answers, stop and restart under a thread | status true; late answers ignored |
| Sound (`drivers/sound/sound.c`) | ring, buffer hand-over, start and stop requests | start, stop, write, audio thread | hand-over without a lock | one audio thread; nothing lost or repeated |
| Kernel mapping table (`kmod/mtable.c`, `kmod/fault.c`), skip list (`kmod/skiplist.c`) | rings through records, level-2 tables; links of each level | insert, flush, evict, reclaim; insert, delete, sweep | a page taken away in the middle of a fault | no translation of a page that is gone; exact search |
| I/O pages and PCI (`kmod/mmu_io.c`, `drivers/pci.c`, `ioports.c`, `gc.c`) | list of ranges, I/O pages, base registers | move, map, unmap, access | devices moved over each other | the right device answers, through no stale pointer |
| Frame buffer (`kmod/mmu_fb.c`, `drivers/video/video.c`) | record and entry per page | fault, evict, collect, change mode | entries stolen at any time | no drawn line is forgotten |
| Exception vectors (`kmod/*.S`), kernel glue, return vectors, OSI table, sessions, configuration, start-up, serial ports, debugger, booter, tools | see `PROJECT.json` | | | not modelled (section 9) |

`PROJECT.json` lists every component with its sources and status, and the forty
hazards (what is hard to test here) that matter most, each at its line with the
properties about it.

## 2. Plan

| Step | State |
|---|---|
| `Mainloop`, `OsiPic`, `Pic`, `Timer`, `Async`: what everything else depends on | done |
| Disk path: `ABlk` with the abstract `BlkChannel`, `Qcow` | done |
| Drivers with threads or interrupts of their own: `HostIrq`, `ThreadPool`, `Enet`, `Cuda`, `Dbdma`, `Sound`, `Scsi`, `ScsiBus`, `Usb` | done |
| Data structures of the kernel module: `Mtable`, `SkipList`, `IoSpace`, `FbLines` | done |
| Inductive invariants and proofs of all the components whose state is not built by recursion | done for those of section 7 |
| Proofs by induction over the turns of a loop: `Timer`, `Async`, the image of `Qcow`, the transfers of `ScsiBus`, the rings of `Enet` | done |
| Inductive invariant of the CUDA handshake: `Cuda` | done |
| Proofs left: the invariants of `Usb`, `Mtable`, `SkipList` and `IoSpace` | open, model-checked |

Runs are kept to one per question, and where components share no state one run
carries several of them (section 3, "Composition").

## 3. Modules and code

Every definition that models code is in the `map` of `PROJECT.json` with its
lines.  Operators keep the source's names where they model a function.

**Mainloop.** One step per access to shared memory.  `pc` is the main thread's place:
`loop`/`enter`/`virtual` are the assembly loop (load of the flag, store of
`in_virtual_mode`, guest), `rvec` a return vector's handler, `clear`, `io`, `timer`,
`hostirq`, `cpuirq`, `ret` the steps of `mainloop_interrupt()`, `doze_*` and `select`
those of `doze()`.  `tpc[t]` is another thread's place in `interrupt_emulation()`.
Work is a set of kinds, one per flag.  Signal handlers are actions that may come
between any two steps of the main thread (`Sighup`, `Sigint`); a host interrupt
sets the flags from interrupt context (`HostIrq`).  `byThread` is a history
variable: a thread other than the main thread set the flag since it was cleared.

**OsiPic.** `source_hi`, `source_low` are critical sections of `ps.lock`; if the CPU line
has to change the lock stays held through the two stores of `set_cpu_irq_()` and
`interrupt_emulation()`, which are separate steps, because the main thread's
`TestRaise`, `ClearRaise`, `TestLower`, `ClearLower` do not take the lock.  The guest's
mask and unmask calls run on the main thread under the lock and are one step
each.  `ee` is MSR_EE; a raised line interrupts a guest with `ee = 1` at once.

**Pic.** Registers are sets of bits, one pair of cells.  Each operation is one
critical section.  `ind[d]` is the sharer number a device was given;
`oldworld` selects the two routing functions of `osi_driver.c`.

**Timer.** The three lists are sequences; a slot has mark, TF_OVERFLOW, kind and
period.  The low word of the time base counts to `2 * Half`; comparisons use the sign of a
difference of low words as the code does.  The loops of `overflow_handler` are recursive
functions of the turn (`Unhooked`, `SortedIn`) that use `insert_timer` itself.  `stamp` is `mregs->timer_stamp`, and
`rvec_timer` is enabled when `dec.S` would call it.  Calls of the interface may come
at any time, also while a handler runs; within one call the lock is held.
`Reprogram` says whether `set_ptimer()` and `pause_ptimer()` are called for a timer
that waits behind the overflow timer.  `MCTimer` adds the symmetry of the slots.

**Async.** `table` joins `as.handlers` and `as.ufds`.  The poll thread's steps are those of
its loop; `polling` is what it gave to `poll()`.  A call that changes the table is
`Call` up to `wait_safe()`, and `WaitSafeDone` the rest if it had to wait.
`permute_inactive` and `NumActive` are the code's loops as folds.  The scan of
`__do_async_io()` is one step per entry, with its restart at the second entry
after a handler changed the table.

**ThreadPool.** `startList`, `freeList` and `bytes` are `tm.start`, `tm.free` and the pipe.
`create_thread()` is two steps, the record under the mutex (`CreateNew`,
`CreateReuse`) and the byte after it (`CreateWrites`); a worker reads a byte
(`WorkerReads`) and then takes whatever record is first (`WorkerPops`).

**HostIrq.** `handler[i]` is the place of the interrupt handler of `kmod/Linux/hostirq.c`
(disable, set the bit, count, set the flags), which runs beside the main thread's
`get_irqs()` (`GetClears`, `GetCounts`, `GetEnables`) and the walk of
`hostirq_update_irqs()` (`UpdateEnters`, `UpdateWalks`).  The list of mappings is `first`, `last`, `next`, and
`Unlink` the removal in the middle.  Disabling and enabling are Linux's.

**ABlk.** A step of the I/O thread is one access to shared state: `Load` reads
`proceed` once, `Advance` moves the head, `Count` and `RaiseIrq` report what was
done, `Stall` gives up `ablk.active`; `IoDone`, `IoShort` and `IoError` end a transfer,
the second with a part of the vector left.  The acknowledgement (`AckTest`,
`AckReply`) and the bell (`KickEngine`) run on the main thread
against it.  The client is the one the channel's header describes: it rings the
bell only when it was told that the engine is idle.  **BlkChannel** is the
abstract specification: descriptors are completed in order and the client is
told; `ABlk` implements it with `done <- nRequests`, `told <- drv.count`.

**Qcow.** File offsets count clusters.  One call handles one cluster; any one of
its file operations may fail.  `Base` is what `pread()` from `backing_hd` gives for a
cluster that does not exist: data of the base image or, without one, an error,
because `backing_hd` is then -1 and still taken for a descriptor.  A part of a new
cluster that is not written does not keep the base image's data: `ftruncate()` leaves a
hole, which reads 0.  `written` and `expect` are history variables.  `torn` is one too:
an access to the tables, or the extension of the file, has failed; the code does not undo
what it has changed by then, and the model stops.  `Allocate` extends the file, `SetEntry` writes a table
entry through the cache; `GetTable` with `Hit`, `Halved` and `Replace` is the cache of tables
with its use counts, which are halved when one reaches its limit.

**Scsi.** `rqueue`, `doneQueue`, `cdRunning` are the fields of a CD drive, `cdWork` its
thread; `sgBusy` the requests Linux holds for the generic device.  `nextDone`,
`firstDone`, `doneTail` are the chain `complete()` of `scsi.c` builds through guest
memory with a pointer to the field to write next; `osip_scsi_ack` hands it over.

**ScsiBus.** `bpc[t]` is a thread's place: in the engine with the lock, in a callback
of the initiator or target without it, after the callback and before `LOCK`.  Each
iteration of `scsi_engine()` is an action per state; `CALL_USER`, `IF_ABORTED` and
`CALL_USER_END` are `CallUser`, `BackAborted` and `Unlocked`.  The disk and the DMA channel
may move less than they are asked for, or nothing: the code takes a failed read or
write for one of 0 bytes and asks again.  `scsi_reset()` is `ResetBus` up to the callback
of `change_sphase()` and `BackFromReset` after it.  The mesh chip is reduced to the count
of its current command.  `raced` is a history variable: one of two windows of the code was
hit.  In the first, the guest arbitrates from the interrupt that the callback of
`bus_freeing` raised, before the thread is back and clears target and initiator
(`scsi-bus.c:463-467`), which then belong to the new arbitration.  In the second, a callback of another thread
returns while `scsi_reset()` is in its own, before the identifier changes (380-387), and
goes on as if there had been no reset.  In both a unit that is NULL may be
used; the model ends there.

**Usb.** Guest and controller share the main thread; `work` is what a call still has
to do, in the order of the calls nested in it.  Control transfers are collected
from several descriptors (`cu`); one device completes urbs later, or refuses them
within the submission.  What the guest queues for a control transfer need not fit its SETUP.
A transfer that ends while the controller or its list is off is given up; the urb that
waits for it stays in `hc.urbs` (the source marks this XXX), and its descriptor is not issued again.

**Enet.** Handlers and calls are atomic on the main thread; the guest's own accesses
to the rings come between them.  `osip_enet2_kick` empties the transmit ring and may
inject an answer of the built-in DHCP and ARP servers into the receive ring.

**Cuda.** The byte handshake TIP, TACK, TREQ with a timer behind each shift; a reply
is `ReplyLen` bytes, its contents the keys in it.  The guest's driver is an
interrupt driven one that gives way when its command collides.

**Dbdma.** One channel and its threads: `process_cmds()` as phases, the lock given up
around a device access, `dIdent` the identifier that tells late answers.  `dCmds` is
a history variable that numbers commands.  `dKeyed` is one too: a STORE_WORD with a key that is
not implemented was run.  The code then kills the channel and goes on with the command
(`dbdma.c:410-413`), so that a dead, idle channel is in the middle of its program.

**Sound.** `sndRing` selects the ring interface (Mac OS X) or the hand-over of buffers
(classic).  Steps of the audio thread are those between two takings of its lock;
`osip_sound_write` is three stores without it.  `sndWritten`, `sndPlayed` and `sndFrag` are
history variables.

**Mtable.** The rings of `mtable.c` as memory (`mt`), with the functions that hold the
table's lock as steps on it; a fault is several steps, between which Linux may
take the page away (`flush_lvptr`).  **SkipList** is `skiplist.c` with elements of given
heights and the sweep of `mtable.c`.

**IoSpace.** The emulator's list of I/O ranges, the kernel's I/O pages with their
pointers to ranges, and hash table entries that outlive them; PCI base and
command registers and the map procedures of three drivers.  **FbLines** is the
record of one entry per frame buffer page, eviction and replacement of entries,
and the collection of dirty lines with a report of limited size.

**Composition.** `MCBuses`, `MCMainThread`, `MCDisk`, `MCDevices`, `MCMemory` and
`MCPeripherals` put components that share no state into one run: a variable
`focus` chooses one of them in the initial state and only that one takes steps, so
that a run explores each component's own states and not their product.  The
properties of a component that does not move hold in its initial state.

**Abstractions.** The models interleave single accesses in program order; a weakly
ordered host may show them to another processor in another order, which is not
modelled.  Guest drivers are external: where the code relies on one, it is the
driver that the code's headers and comments describe.  `Timer` leaves out calls
with a stale id (they find nothing), timers resumed before they were set (no
caller does), and the guest's decrementer.  `Async` has one kind of event, one
descriptor per handler and an event pipe that never fills (`WakeupsBounded` is why
the main thread does not fill it).  In `Usb` descriptors that are queued at a time have
buffers of their own, because the code tells a descriptor that was used again from the old one
by its buffer.  `Sound` counts whole double buffers, and takes the two updates after a copy as one
step.  `ABlk` leaves out scatter-gather buffers outside the guest's memory.  `Scsi` begins
after the driver's SCSI_CTRL_INIT.  `FbLines` and `IoSpace` let any entry of the hash table be lost at any time,
which is more than the flushes of the kernel module and of Linux do.

**Where the code itself fails.** Some properties hold of the code only up to an event
that it does not handle, and say so through a history variable: `ImageSound` until
`torn`, `EngineSafe` and `BusGoesFree` until `raced`, `ChannelTrue` and `CommandsKept` (in part) until
`dKeyed`.  `DescriptorsSafe` says that a control urb may be orphaned once the guest has stopped
something.  Up to then nothing is assumed of the guest's timing.

## 4. Runs

Each property is a conjunction of named parts where a component has several; the
parts are defined, with their own comments, just before it.

| Run | Question | Properties |
|---|---|---|
| `mainloop` | two threads, host interrupts and SIGINT at every point of the loop, of `doze()` and `mainloop_interrupt()` | `NoInterruptLost`, `InterruptsServed` |
| `mainloop_doze_signal` | does `doze()` also notice interrupts announced by a signal handler? | `NoSleepThroughInterrupt` fails: see 8 |
| `osi_pic_race` | is the mailbox exact with a device thread? | `LineAgrees` fails: see 8 |
| `timer` | two timers across a wrap, a short freeze | `ListsInOrder`, `FiresOnTime` |
| `timer_reprogram` | the same if far timers are reprogrammed | `NothingExpiredLeft` fails: see 8 |
| `async` | the table is changed from handlers and from outside while the poll thread runs | `PollSeesTable`, `TableInOrder`, `AsyncServed` |
| `buses` | OSI controller with two device threads; SCSI bus with resets, ATN, messages and short transfers; USB controller paused, suspended and reset with urbs in flight | `LineNeverStuck`; `EngineSafe`, `TransferWhole`, `BusGoesFree`; `DescriptorsSafe`, `DescriptorsReturn` |
| `main_thread` | the mailbox if only the main thread drives lines; frame buffer pages whose entries are lost and replaced | `LineAgrees`, `RaiseIsDelivered`; `DirtyFound`, `ScreenCatchesUp` |
| `disk` | the channel with short transfers, errors and a restart; the image with a cache smaller than its tables and any failing file operation | `ChannelSafe`, `ImplementsChannel`; `ImageSound` |
| `devices` | host interrupts, thread pool, network rings, CUDA | `HostIrqsAccounted`, `HostIrqFollows`; `PoolSafe`, `JobsRun`; `RingsAgree`, `PacketsReach`; `HandshakeSafe`, `DriverRests` |
| `memory` | faults, flushes, evictions and a page taken away at any step; skip list with reuse and a sweep; PCI devices moved over each other | `TableSound`; `SkipListSound`; `AccessesReach` |
| `peripherals` | three devices on one irq; DMA channel stopped and killed under its threads; sound restarted under its thread; SCSI requests | `SharersSafe`, `OnlyOwnerLowers`; `ChannelTrue`, `CommandsKept`; `SoundSafe`, `EngineSteps`, `SoundLive`; `RequestsSafe`, `ScsiReturns` |

Every property of a passing run has a *mutant*: an operator next to the definition
it stands for, with a plausible mistake (a guard dropped, a flag cleared late),
under which TLC finds the property violated.  They are marked "Mutant" in the
modules and are not part of the specifications.

## 5. Bounds

* `Mainloop`: two threads are enough for one to interrupt the other's
  announcement, and for two increments of `ts.dozing` around one decrement.
  `DozeBound = 1` limits when a thread *starts* a call (`Post`), so the counter and
  the pipe still reach 2 with both threads inside.
* `OsiPic`: two lines (one must stay high while the other goes low) and two
  device threads (one waits for the lock while the other stores).
* `Pic`: three devices on one irq, so that the limit of two sharers is met, and one
  on bit 31 of the other cell, which is the bit that acknowledges everything.
* `Timer`: `Half = 4`, so that `TIMER_MAX` is 3; `Start = 5` and
  `MaxTime = 10` put the wrap of the low word at 8 in the middle.  Delays 0 (due
  now), 3 (`TIMER_MAX`: the last that is sorted in) and 5 (beyond it).  The overflow
  timer fires at 8, so a far timer waits, is sorted in and fires within the bound.
  `MaxLate = 1` lets interrupts be late; with `MaxFreeze = 2` the sum is `TIMER_MAX`, the limit of
  the theorems (at 3 TLC finds a counterexample, see section 8).
* `Async`: event pipe plus two drivers; each descriptor may be added, enabled,
  disabled and deleted, or one of them deleted and added again under a new id;
  one aevent beside the wake-up bytes.
* `ABlk`: a ring of 4 that wraps with 4 requests, a vector of 2 buffers, two starts.
  `Qcow`: 3 tables of 1 entry with a cache of 2, so that slots are evicted and
  reloaded; use counts reach their limit (`CountMax`); a file of up to 8 clusters; all six failures.
* `HostIrq`: 3 interrupts, two of which fire, so that entries are unlinked at the head,
  in the middle and at the end.  `ThreadPool`: 3 threads, 2 callers, 4 jobs: reuse
  happens while a creation is under way.  `Enet`: rings of 2 slots, 3 packets (the ring
  is full and wraps), two starts.  `Cuda`: commands of 3 bytes, replies of 2, a key
  buffer of 4, two inputs, one tick, two commands: each pair of them collides.
* `Mtable`: one vsid, three addresses of which two share a page table class, one page,
  two spare records, two hash slots, two tables: records and tables run out.
  `SkipList`: keys 1-3, heights up to 3, chunks of 2, at most 4 elements: elements are
  reused with another key.
* `IoSpace`: three pages, two frames for I/O pages (one too few).  `FbLines`: two slots,
  aliases, a report of one pair.
* `Dbdma`: programs of 2 commands, transfers of 2, three commands run and three identifiers: one
  for a request, one for the stop after it and one for the run in which its answer comes late.
  `Sound`: two threads of the pool, a ring of 3, two starts and writes.  `Scsi`: two
  requests, one drive and the generic device, an event pipe of 2.
* `ScsiBus`: two pool threads beside the main thread, commands of 3 bytes in each
  direction with blocks of 2 (the last one is shorter) and one without data; three
  events (selections, ATN, resets).  `Usb`: two bulk and three control descriptors,
  two queueings (a whole control transfer, its SETUP, its rest, or a bulk
  descriptor) and one stop: a descriptor is used again after the guest took it back, a
  transfer is given up under its urb, and two bulk descriptors complete while the guest
  reads the done list.

Deadlock is checked for `mainloop` and `async`.  The other runs may stop: time, jobs,
packets or commands of the model are used up.

## 6. Fairness

* The host schedules every thread: weak fairness of each thread's own steps
  (`Fairness`, `PoolFairness`, `BlkFairness`, `SndFairness`, `HostFairness`, `ScsiFairness`,
  `BusFairness`).  Nothing makes the disk or the DMA channel move data: `BusGoesFree` says
  what follows if they do.
* `HostTick`: virtualization mode is left at each context switch of the host, and
  the host's tick comes; so a stay in the guest ends even if no IPI was sent.
  `WorkIsTaken` needs this, and does not need IPIs.
* `SelectTimeout`: the timeout of `doze()` is finite, at most the overflow timer's
  distance.
* Handlers return; a pending signal is delivered.  Timers that were started fire
  (`CudaFairness`: `via_sr_int`, `cuda_start_reply`); a readable descriptor is handled
  (`EnetFairness`: `rx_packet_handler`), which `ReadyIsServed` of `Async` says.
* Linux answers each request of the generic SCSI device, however often others are
  answered first (strong fairness of `async_completion`), and the guest acknowledges
  an interrupt that comes again and again (`ScsiFairness`).
* A guest driver that was interrupted goes on (`Driver`, `GuestPolls`, `TakeDone`,
  `AckDone`); the display collects again and again (`FbFairness`).  The USB device
  completes its urbs, and a guest that has queued something switches its lists on
  (`UsbFairness`).
* Nothing is assumed of what starts activity: new work, host interrupts, SIGINT,
  calls of drivers, `send_aevent`, data at descriptors, the guest's choices.
* `OsiPic` and `Async` assume that the main thread comes back to
  `mainloop_interrupt()` while the flag is set; `WorkIsTaken` is that fact.

## 7. Proofs

Each theorem holds for every value of the constants, by an inductive invariant with
one step per action; TLC checked the invariant on a small instance first.  Nothing is assumed
beyond the modules' `ASSUME`s (bounds are numbers, a special value is not a
thread, slot or device).  `PROJECT.json` lists the theorems; those with a "property" state for
all instances what a run checks on one.  Where a run's property is a conjunction of
named parts, the parts have theorems of their own and one more theorem joins them.

* **MainloopProofs**: `NoWorkLost` (`WorkIsAnnounced` is inductive as it stands: the flag is
  cleared before any kind of work is looked for, and an announcing thread sets the work's
  flag first); `DozeIsSafe` needs `SleepInv`, which follows one announcement through the loop:
  from the moment a thread set the flag until the main thread clears it, either
  `ts.dozing` has been incremented (so that `doze()`'s decrement does not reach -1),
  or the thread is still before its increment, or the byte is in the pipe or about to be
  written.  Together: `InterruptsKept`.
* **BusesProofs**.  Interrupt controller: `ControllerCorrect`, `PendingTaken`; `NeverStuck` by `StuckInv` (while the
  controller wants the line low, no request to raise is left except before the first
  store, and a line that is high has a request to lower that the main thread will look
  at); `MainThreadLineAgrees` by `MailInv` (with `Devices = {}` the two words never
  contradict each other outside the stores).  Together: `LineFollows`.
  SCSI bus: `BusEngineSafe` by `BusInvariant`: until a race, `BusInv` holds, or `ResetInv` while
  `scsi_reset()` is in its callback (the bus is as it will be but for units and identifier, and a
  thread enters the engine only to leave it).  `BusInv` has `EngineInv` (the thread at the loop has the lock; the
  engine's lock equals the identifier exactly while one thread is in a callback of this
  identifier), `CallInv` (what a callback under way may find when it comes back: a transfer finds the
  state and the length it was started with, because nobody else runs the engine meanwhile),
  `ArbitrationInv` (only the main thread takes the bus, so that a selection meets no callback),
  `PhaseInv` and `SavedInv` (which phase each state is in, and where a message phase goes back to),
  `LengthInv` (nothing moves more than was asked for) and `Running` (the engine is run, rests, or
  waits for data).  `TransferIsWhole` by `TransferInv`, relative to `BusInv`: a transfer that was not
  broken off has moved what the commands served so far ask for (`Progress`), a callback under way
  leads the count by its own part (`CallsLead`) and none is left of an earlier request (`NoStale`);
  after a race the engine has not moved on yet, or the transfer is broken off.
  The steps are sorted by who takes them: the owner of the engine, a thread that does
  not own it, a callback, the guest.
* **TimerProofs**: `TimerListsInOrder` and the action property `TimersFireOnTime`, for any slots,
  any width of the low word, any delays and any length of the run.  By `TimerInv`.  The list is
  compared by low words, so it is sorted only while all its marks are within half the word of each
  other: the overflow timer bounds them from above (`InReach`), the punctuality of the main loop
  from below (`OnTime`).  `QueueOK` says in what order the list is while timers that wait may stand
  anywhere behind the overflow timer, also in the middle of `overflow_handler()`; `Settled` says that
  outside the handler exactly those behind it wait.  `StampKept` names the time `timer_stamp` was made
  from, which is not later than any active timer and close enough to be told from its low word.
  Two hypotheses: `Reprogram = FALSE` (otherwise the code fails, run `timer_reprogram`), and
  `MaxLate + MaxFreeze <= TIMER_MAX` (a stop in the debugger with the lateness of the interrupt is
  less than half the word; TLC finds the counterexample at the next value).
* **AsyncProofs**: `HandshakeCorrect` (who may touch the table, by `__io_is_pending` and the
  acknowledgement pipe) and from it `TableStable`.  `TableSorted` by `AsyncInv`: besides `ActiveFirst`,
  `Shape` (the event pipe is the first entry and stays enabled, and a change that waits for the poll thread
  still fits) and `Wakeups` (at most one byte of `wait_safe()` is left between two scans, because a
  scan begins at the pipe's entry).  `permute_inactive` is a loop of swaps; a swap keeps the entries and
  extends the active part by one.
* **ABlkProofs**: `OneWakeup`, `NothingStranded`, `CompletionsTold`, `EachCountedOnce`,
  `RingEndsAgree`, together `ChannelCorrect`.  The invariant has `VectorFits` (a buffer joins
  the vector only if there is room), `BeliefHolds` and `CountFollows` (a client that
  believes the engine active, or does not know the count, will be interrupted), `IdleInv` (a
  client that was told so is right in taking the engine for idle, so a channel is set up
  anew only while the thread rests) and `ShapeInv` (slots before the tail are the ones to
  proceed with; handled and waiting descriptors are those queued).  The last must hold in a weaker form
  in a channel that met an error, where descriptors are passed and never counted.
  Indices wrap, so there are
  lemmas on `%` over the ring.  `ImplementsChannelSteps` is the safety half of the refinement of
  `BlkChannel`: initial states map to initial states, each step to a step or a stutter.  The
  fairness half is TLC's (`ImplementsChannel`).
  Image (`Qcow`): `ImageIsSound` by `ImageInv`: `Placed` (tables and clusters referred to are distinct
  and before the end of the file), `Cached` (what the first-level table and the slots of the cache hold is
  what the file holds, no table twice), and the contents of each cluster reached that way are what was
  last written.  Each operator of the module (`GetTable`, `Replace`, `Hit`, `Allocate`, `SetEntry`) has a lemma that
  it keeps this.  Any of the file operations may fail; until an access to the tables does (`torn`)
  the invariant is kept, also by failed accesses to the data.  `written` tells the clusters that exist, the
  others read from the base image.  The proof showed a CASE of `GetTable` whose branches did not exclude each other; it is now a chain of IFs, and
  `MaxUnits > 2` is assumed (header, one table and one cluster).
* **MemoryProofs** (`FbLines`): `DirtyPagesFound`, `OneEntry`, together `DrawnIsFound`, by `FbInv`: an
  entry of a frame buffer page is the one the page's record names (`Recorded`), and a record names an
  address of its own page (`RecordsOwnPage`); a page is written through an entry only after a
  write fault left the C bit in the guest's page table, so that an entry that is lost and
  inserted again has its C bit set (`WritableIsSticky`, `UnseenIsSticky`).  That the slot of a record
  may by now hold something else is why the second part is needed.
* **DeviceProofs**.  Host interrupts: `HostCore` (types, `Claims`: which of handler and main
  thread holds an interrupt between its two halves, `DisabledIsActive`) gives `NoIrqLost` and
  `CountCorrect` (cardinality of the active set, up to the halves under way); `LinesFollow`
  gives `LinesCorrect`; `MappingTableShape` says that the list of mappings is one list from first to
  last, stated without recursion by sets closed under `next`.  Together: `HostIrqsCorrect`.
  Thread pool: `PoolCore` (types, `Exclusive`: a record is in one place, `FreshJobs`) gives `NoJobTwice`
  and `RecordsAccounted`; `RecordForEveryByte` and `ThreadForEveryJob` count bytes, records and
  threads by cardinalities, the latter from `AllAlive` (until the pool closes there are as many
  threads as records).  Together: `PoolCorrect`.
  Grand Central: `LevelCorrect`, `LineCorrect`; `NewworldSources` by `RoutedInUse` (a routed
  device's number is marked in use); from it the action property `OwnerLowers`: sharers
  have different numbers, so `source_low()` of one does not touch the bit of the other.
  Together: `SharersCorrect`.
  Network device: `EnetInv` has `RxRing` (the slots from the guest's index on hold, in order, the packets
  it has not taken, the others none, and `rx_tail` is behind the last), `TxRing` (some `n` slots from
  `tx_head` on are busy, and the guest's index is behind them) and that interrupts are masked
  only while the guest polls; the loop of the kick by induction over its turns (`KickRuns`).  Hence `RingsCorrect`.
  CUDA: `CudaInv` has `Messages` (message, service request, delayed announcement and lines agree),
  `LinesFit` and `PlanFits` (lines and TREQ in each state of the guest's driver, and what it is about to do
  still fits TREQ when it writes B), `CommandsFit` (a command has come in from its first byte, and finds no
  message it would overwrite), `ReadFits` (the bytes read of a message), `Interrupts` (an interrupt is due
  whenever the guest waits; where a message will be announced at most one is stale, so that the
  guest does not pass over it), `Keys` (the keys held, by number) and `Announced`.  What an operator does to the record of
  CUDA's state is a lemma about that operator (`TipRises`, `ByteIn`, `ByteOut`, `FillMakes`); hence `HandshakeCorrect`.
  It assumes `KeyBufSize > 1` (16 in the code: a buffer of one entry would never take a key).
* **PeripheralProofs**.  DBDMA: `DmaInv` has `IdentInv` (no thread has an identifier that was not given out,
  at most one has the last, and that one has the command the channel is at), `StatusInv` (bits, idle flag
  and phase agree) and `LockInv` (in which states the lock is given up), each with the parts that hold only
  until `dKeyed`; hence `StatusIsTrue`, `NoOrphan`, `LateAnswersIgnored`, `PauseHolds`, together
  `DmaChannelCorrect`, `DmaCommandsKept`.  Sound: `SndInv` has `EngineInv` (one thread
  has the device), `RequestInv` (a start or stop under way), `RingInv` (which fragment is played next),
  `HandoverInv` (which of the three stores of a buffer has been made); hence `OneAudioThread`,
  `StartsNotLost`, `HandoverInOrder`, `QuietAfterStop`, `ModeOfEngineStable`, `RingPlayedInOrder`, together
  `SoundCorrect`, `SoundStepsCorrect`.  SCSI requests: `ScsiInv` has `WorkerInv` (who works on a drive), `PlacesInv` (a request
  is in one place: queue, worker, done queue, chain), `DriveInOrder`, `NothingWaits`, `ChainsWhole` (the
  chain in guest memory is the sequence of completed requests); hence `ChainsCorrect`, `RequestsMove`, `DrivesInOrder`,
  together `RequestsCorrect`.

Only model-checked:

* all liveness (`InterruptsServed`, `AsyncServed`, `RaiseIsDelivered` and the like):
  the prover does not reason about fairness or ENABLED;
* `DescriptorsSafe` of `Usb`, whose invariant has not been made inductive yet;
* `TableSound` of `Mtable` and `SkipListSound` of `SkipList`, whose invariants relate
  chains walked link by link to the sets of records they should hold; not made inductive yet;
* `AccessesReach` of `IoSpace`: what it says of ranges does not hold for all constants, only for
  instances in which `add_io_trans()` does not fail half-way.

Induction over the turns of a loop is possible, and `Timer`, `Async`, `Qcow` and `Enet` use it: a loop is
a recursive function of the number of turns, the turns after which the claim fails are a set of naturals,
and if that set is not empty its least element contradicts the lemma about one turn.  That the
recursive function exists is shown in the same way.

## 8. Disagreements between code and comments

Each of the first three has a run that TLC ends with a counterexample.

1. `cpu/mainloop.c:195`, run `osi_pic_race`: `set_cpu_irq_()` stores the request to raise
   before it withdraws the request to lower; the main thread may read both and end with
   the line low.  The comment at line 257 calls this race free.  The interrupt is
   lost until the source goes low.  `MainThreadLineAgrees` proves that it needs a
   device thread.
2. `cpu/mainloop.c:226`, run `mainloop_doze_signal`: a signal between the test of `ts.dozing`
   and `select()` does not end the sleep, if it has been handled by then (a signal that is
   still pending does end it).
3. `main/timer.c:240`, run `timer_reprogram`: TF_OVERFLOW survives `set_ptimer()`, and
   `rvec_timer()` then stops at that timer.

Seen while modelling, without a run:

* `cpu/ppc/mainloop_asm.S:168`: the flag is loaded before `in_virtual_mode` is stored, so an
  interrupter between the two sends no IPI; the guest is left at the host's next tick.
* `drivers/osi_driver.c:82`: a third device on an irq is refused, and
  `oldworld_route_irq()` uses the irq all the same.
* `drivers/oldworld/scsi-bus.c:466` and `:380`: the two windows of `raced` (section 3, ScsiBus).
* `drivers/oldworld/scsi-unit.c:422`, `:464`: a read or write of the disk that fails is one of 0 bytes;
  the engine asks again for ever and the guest is told nothing.
* `drivers/disk/blk_qcow.c:392`: without a base image an unallocated cluster is read from
  descriptor -1, and the read fails; `:289`: with one, a partial write of a cluster loses its other sectors;
  `:290`: a failed extension is taken for an offset.
* `drivers/dbdma.c:410`: `store_word()` kills the channel and does not return.
* `drivers/usb.c:981-990`: an urb is left in `hc.urbs` when its control transfer is given up.
* `main/timer.c:350`: `retune_timers()` moves the timers after a debugger freeze and not
  `timer_stamp`, so that the comparison with it is wrong after a freeze of more than half a wrap.

## 9. Not modelled

Left out for good: machine code of the exception vectors (its meaning is the
processor's), image formats and decompression, pixel and sound I/O, parsers of
configuration and device tree, start-up code, the booter and guest programs, tools,
and vendored code (the debugger's disassembler and BFD headers, kconfig, fonts, lexers),
which is most of the repository's lines and has none of the interaction that is
modelled here.

Of the modelled components: stop and resume by the debugger and session saving
(disabled in this build) of the main loop; saving and restoring Grand Central;
calibration of the time base; `add_aevent_handler` (start-up only; nothing calls its
inverse); stopping the disk channel while its engine works, and synchronous requests (the booter's);
base images shorter than the disk, and what becomes of an image after a failed access to its tables; the
bus after a race; unplugging a USB device; `SetupRing` of sound while the engine runs;
cleanup of the SCSI layer; the contents of USB control answers; the order in which a weakly
ordered processor shows stores to another.
