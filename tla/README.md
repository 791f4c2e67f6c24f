# L4Ka::Pistachio kernel core: TLA+ models, checks and proofs

The repository is the L4Ka::Pistachio microkernel (`src/kernel`), with a small
LLVM-to-Z3 verifier for single C functions beside it (`src/compiler`,
`src/libirpy`, `src/ir_verify`, `src/test.py`). This project models the generic
part of the kernel:

- where threads meet: IPC, timeouts, pagefaults, exchange of registers and
  thread deletion and creation, all of which read and write the same thread
  control blocks (`Kernel`);
- the scheduler with its priority rings and time slices (`RunQueue`);
- the life of threads and address spaces (`Spaces`, `Migration`);
- map, grant and unmap: the page-table walks (`Walker`) and the mapping database
  (`MapDb`);
- kernel memory: the chunk allocator and the buffer allocator of the mapping
  database on top of it (`KMemory`, `MdbAlloc`);
- the cache of hardware address-space identifiers (`AsidCache`).

The generic kernel code is under `src/kernel/src/api/v4/thread.cc` and
`src/kernel/src/api/backup/` (`ipc.cc`, `ipcx.cc`, `schedule.cc`, `exregs.cc`,
`space.cc`) and `src/kernel/src/generic/`, its data types under
`src/kernel/include/api/v4/`; where the generic code calls the architecture
(page-table entries, UTCB pages), the one modelled is ia32 with its two page
sizes. `src/kernel/src/api/backup/thread.cc` is a copy of `v4/thread.cc` and not
mapped a second time. The build
modelled is the uniprocessor one (`CONFIG_SMP` off) without the assembly fast
paths.

## 1. Inventory

| component | state | operations | talks to | hard behaviour | correct when |
|---|---|---|---|---|---|
| thread control blocks (`tcb.h`, `threadstate.h`, `queueing.h`) | state, partner, saved state and partner, ready, wakeup and send queue membership | enqueue and dequeue, `notify` | everything below | a field written in one kernel entry and read in another one, after other threads ran | a queue holds exactly the threads whose state says so |
| IPC (`ipc.cc`, `ipcx.cc`) | the phase of every thread's IPC, send queues | `SYS_IPC`: send, receive, call, propagate, copy of typed items | scheduler (`switch_to`), pagefaults (during the copy) | both sides check each other in different kernel entries; one side blocks, the other completes both | sender and receiver never wait for each other; only requested messages arrive; nobody stays locked |
| unwinding (`thread.cc`: `unwind`, `handle_ipc_error`, `handle_ipc_timeout`, `save_state`, `restore_state`) | saved state and partner, handler on the stack | abort an IPC, in any of its phases, together with its partner | called by the timer, exregs, delete and the copy | aborts meet every phase; nested pagefault IPCs are unwound in a loop | all queues left, both sides released, saved state emptied |
| scheduler (`schedule.cc`, `schedule.h`) | current thread, a ring per priority, `max_prio`, time slices, delays, wakeup queues | timer interrupt, wakeups, end of time slice, `SYS_THREAD_SWITCH`, idle loop, `SYS_SCHEDULE` | IPC (timeouts become handlers), thread control | lazy dequeueing of blocked threads; a timeout racing a message; threads moved between rings while queued | no runnable thread is lost; the rings hold exactly the queued threads; equals take turns; a timeout fires for a blocked thread only |
| pagefault handling (`space.cc`) | transfer-timeout flag | pagefault IPC at user level or inside a copy | IPC, recursively | one slot for the state of the interrupted IPC | the interrupted activity continues or is aborted as a whole |
| exchange of registers (`exregs.cc`) | - | abort, halt, resume, set registers | unwinding, scheduler | applied to a thread in any state | a stopped thread stays stopped |
| thread and space control (`thread.cc`, `space.cc`, `glue/v4-ia32/space.cc`) | existing and active threads, spaces and their thread counts, UTCB areas, pages and locations | create, activate, modify, delete, migrate; set the areas of a space | all queues, kernel memory | a space lives as long as its last thread, whatever the order of calls | counts exact; UTCB pages neither leaked nor shared; a deleted thread is in no queue |
| ASID cache (`asid.h`) | owner table, free list and LRU ring in one array of links | `set_valid`, get, reference, preempt, release | address spaces | two lists share their links | no ASID has two owners, none leaks |
| interrupts (`interrupt.cc`, `intctrl.cc`) | handler, mask and pending flag of every line, an interrupt thread per line | raise, deliver as IPC, acknowledge, attach and detach a handler | IPC, scheduler | delivery bypasses `SYS_IPC` and stands in for the interrupt thread; an interrupt may come in any state of its handler | a line is enabled exactly while its thread is halted; no interrupt is lost or delivered to a thread that did not wait for it |
| page-table walks (`linear_ptab_walker.cc`, `pgent.h`) | page tables of two levels | `map_fpage`, `unmap_fpage`, `lookup_mapping` | mapping database, IPC (map items) | sender and receiver side go down and up separately, with one entry counter each | exactly the pages that the fpages denote are changed |
| mapping database (`mapping.cc`, `mapping.h`) | nodes in preorder lists with XORed back links, root arrays, dual nodes | `mdb_map`, `mdb_flush` | page tables, node allocator | recursive revocation as an iteration over a flat list | the database is the tree of derivations; a revocation reaches exactly the derived mappings |
| mapping-node allocator (`mapping_alloc.cc`) | pages of equal buffers with free lists inside | `mdb_alloc_buffer`, `mdb_free_buffer` | kernel memory | pages leave and enter a doubly linked list as they fill and drain | pages with free buffers are listed, empty ones go back, buffers are disjoint |
| kernel memory (`kmemory.cc`) | sorted list through the free chunks | `alloc`, `alloc_aligned`, `free`, `add` | everything | contiguous, aligned blocks out of a list that is freed to in any order | the list is the free memory; blocks are disjoint |
| cross-processor requests (`ipc.cc`, `processor.cc`) | mailboxes | remote IPC phases | IPC | messages between processors | not modelled yet (`CONFIG_SMP`) |
| architecture and platform glue, boot, debugger | - | - | - | - | not modelled (registers, assembly, console) |
| LLVM-to-Z3 verifier | - | translate, evaluate | - | none: a sequential tool | not modelled |

`PROJECT.json` lists the same components with their sources, and the hazards at
the line where each bites.

## 2. Modules

| module | models |
|---|---|
| `Tcb` | the shared fields, `threadstate.h`, the three queues, `find_next_thread`, `schedule`, `unwind`; the constants and their assumption `TcbAssumption` |
| `Ipc` | `SYS_IPC` and `extended_transfer` phase by phase, `handle_pagefault`, `handle_xfer_timeouts`, `thread_startup`, `handle_ipc_error`, `handle_ipc_timeout` |
| `ExRegs` | `SYS_EXCHANGE_REGISTERS` |
| `Sched` | timer interrupt, idle thread, `SYS_THREAD_SWITCH` |
| `ThreadLife` | delete and create of `SYS_THREAD_CONTROL` |
| `Kernel` | the composition, the properties, the fairness |
| `MCKernel` | instances for TLC: priorities, spaces and pagers |
| `KernelProofs` | the invariant of `Kernel` that holds for any use of the system calls; the queues, timeouts and rendezvous, for programs that avoid the calls of section 5 |
| `PrioQueue` | `prio_queue_t`, the list macros of `queueing.h`, `find_next_thread`, as operators on a queue record |
| `RunQueue` | `scheduler_t`: the timer, time slices, delayed preemption, `SYS_THREAD_SWITCH`, `SYS_SCHEDULE`, and what IPC, exregs and thread control do to the ready queue; `MCRunQueue` says what happens to which thread |
| `ReadySet` | abstract scheduler: a set of ready threads, of which one with the highest priority runs |
| `RunQueueProofs` | the rings, and that `RunQueue` implements `ReadySet` |
| `KMemory` | `kmem_t`, with the next pointers in the words of the chunks |
| `MdbAlloc` | `mapping_alloc.cc` on top of `KMemory`, next to other users of kernel memory; `MCMdbAlloc` its instance |
| `MemPool` | abstract allocator: the memory is free or in disjoint aligned blocks |
| `MdbAllocProofs` | both allocators, and that `kmem_t` implements `MemPool` |
| `Spaces` | `SYS_THREAD_CONTROL` and `SYS_SPACE_CONTROL` |
| `SpacesProofs` | thread counts and UTCB pages of `Spaces` |
| `Migration` | `Spaces` with `migrate_to_space`; `MCSpaces` the instance of both |
| `MapDb` | `mdb_map` and `mdb_flush` as `map_fpage` and `unmap_fpage` call them; `MCMapDb` its instance |
| `Derivation` | abstract mapping database: every mapping has an origin; a revocation takes what was derived |
| `DerivationProofs` | the tree of derivations: rooted, without cycles |
| `Walker` | the loops of `map_fpage` and `unmap_fpage`, one action per way through the loop, on one call; `MCWalker` the calls and page tables |
| `WalkerProofs` | what the two walks change, for page tables of any width |
| `Interrupts` | `handle_interrupt`, `irq_thread`, `thread_control_interrupt` and the interrupt controller, composed with `Kernel`; `MCInterrupts` its instance |
| `InterruptsProofs` | the protocol of the lines, and that `Kernel` keeps its properties next to it; rests on `KernelProofs` |
| `AsidCache`, `AsidCacheProofs` | the ASID cache and its proofs |

**State of `Kernel`.** Every variable but three is a field of `tcb_t` (named in `Tcb`).
`pc[t]` stands for the kernel stack of `t`: the place where a thread inside the
kernel resumes, either in the middle of `SYS_IPC` after a `switch_to`, in
`thread_startup`, or in a handler that `notify()` pushed. `arg[t]` and
`outer[t]` are the arguments on that stack, the latter those of the IPC whose
copy raised the pagefault being sent. `failed` collects the assertions of the
source that the last step violated; the system stops there.

**Steps.** The kernel runs with interrupts off between a kernel entry and the
next return to user level or `switch_to`. `InKernel` makes the continuation of
the current thread the only enabled step when it is inside the kernel, so the
phases of one system call are consecutive, as in the code; threads interleave
at user level (timer) and wherever a phase switches to another thread. Splitting
`SYS_IPC` into phases gives each early return its own action.

**Data.** Messages have no contents; a message is typed (copied with both sides
locked) or untyped. A timeout is zero, finite or never; there is no clock: at
each tick any subset of the pending timeouts may have expired, which contains
every order real timeouts can take. The ready queue is a set: `find_next_thread`
may return any runnable thread of the highest priority and drops the blocked
threads that round-robin order could have placed ahead of it. The send queue is
a sequence, since its head is what an open receive looks at. Registers, UTCBs,
error codes and time accounting are left out.

**Environment.** `Env` is the set of things user programs do in a run, tested by
`Does`: `call`, `poll` (zero timeouts), `snd_timeout`, `rcv_timeout`,
`propagate`, `anylocal`, `bad_to`, `bad_from`, `typed`, `overflow`, `fault`,
`copyfault`, `xfer_zero`, `xfer_timeout`, `abort`, `halt`, `switch`, `delete`,
`create`. A second group of switches (`self`, `bad_call`, `wait_local`,
`startup_call`, `abort_locked`, `delete_queued`, `delete_timedout`,
`reply_timeout`, `reply_overflow`) enables
system calls that the code lets programs make and whose treatment contradicts
its own comments or assertions; section 5 lists them. They are off in the
passing runs, which therefore hold for programs that avoid those calls. The
first theorems of `KernelProofs` hold for any `Env`; the others say in their
hypothesis which calls they exclude (section 4). The other modules use an `Env`
in the same way.

**`RunQueue`.** `q` is `prio_queue_t`: head of every ring, `next` and `prev` of
every thread, the ready flags (`in`) and `max_prio`. `EmptyQueue` has no thread at
any priority; `init` (`schedule.h:85`) leaves `MAX_PRIO` out, whose entry is the zero
of static storage. Time counts in ticks; a
`Timer` step wakes any sequence of blocked threads, takes a tick off the current
time slice, and does what `handle_timer_interrupt` then does: continue, preempt,
grant the delay, or end the time slice. A time slice of 0 is infinite. Blocking,
sending, passing the processor on in an IPC, stopping, creating and deleting
threads appear with their effect on states and queue; what decides about them is
in `Kernel`. `Kernel`'s ready queue is a set; `ImplementsReadySet` is what
justifies that. A woken thread, a thread that is sent to and a thread that
`find_next_thread` drops change the same rings in the order of the code.

**`KMemory`, `MdbAlloc`.** The free list is threaded through `word`, the first
word of every chunk, as in the code; a held chunk's word is 0 until its owner
writes to it. `alloc` walks the list for a sequence of neighbours that starts at
an aligned address, `alloc_aligned` for one of the right colour. The management
structure of an MDB page (`mng`) is in its first words; `bufs` and `held` are
what the callers of the two allocators hold, which the code does not record.
Addresses and sizes are integers where the code has words: `WordAssumption` names
the sizes for which that is the same (powers of two where `alloc` masks with
`size - 1`, and no size for which the unsigned counter of `mdb_buflist_init` steps
below zero).

**`Spaces`.** A call that changes something is one step (interrupts are off for
the whole of it); a refused call is a step only if it changes something before
it is refused (`ModifyRefused`). `asserts` collects the `ASSERT`s that failed.
The pages of the UTCB area are the part of the page table that thread control
itself maps.

**`MapDb`.** A node's XORed previous pointer is a pair that yields its other
half only to who presents the right one, and `Garbage` to everyone else, which
is what an XOR with a wrong value is. `FlushLoop` is the loop of `mdb_flush`
with its labels as operators. The history variable `origin` is the mapping an
entry was mapped from; it is what the abstract `Derivation` speaks about. Flushes
that the loop does not do as documented are kept out by `UsualPage` and
`UsualPart` (section 5) unless `"split"` or `"part"` is in `Env`.

**`Walker`.** `l` holds the local variables of the two functions (page-table
pointers, sizes and counters of the two sides, the stacks `r_fpg`, `r_tpg`,
`r_fnum`, `r_tnum`); a step is one pass through the loop up to a `continue` or
`goto`. The sender is sigma0 or not; page tables have `Width` entries. Of the
mapping database the walk sees what `mdb_map` and `mdb_flush` do to the entry they
are called for. That a flush also clears the entries derived from this one, perhaps
of the same space, is left out here (`Overmapped`, `UnmapEntry`) and the subject of
`MapDb`.

**`Interrupts`.** `IrqNext` is `Next` of `Kernel` or a step of an interrupt. An
interrupt thread is a thread of `Kernel` that makes no system calls: its `pc` is
`"irq"` at the head of the loop of `irq_thread` and `"acked"` where a send left
it, and its `arg` is the call to its handler that the loop amounts to. `Raise` is
an interrupt of an enabled line: the controller masks it and calls
`handle_interrupt`, which has one action per way through it. `RaiseMasked` is one
of a masked line: masking an edge-triggered line changes only the kernel's copy
of the redirection entry. The history variable `due` is the lines whose device
raised an interrupt since the last one their handler was told of: it follows the
device and the handler, and not the kernel's `pending` flag. The controller is the one of `glue/v4-ia64`; with `"apic"` in
`Env`, the one of `platform/generic/intctrl-apic.cc`.

Actions of `MapDb` are the calls of one loop iteration of `Walker`; the two are
separate modules because the walk's hazards are in its counters and the
database's in its links.

## 3. Runs

Kernel runs: three threads at two priorities in two spaces (`t1`, `t2` low in
space `a`, `t3` high in `b`; `t2` is the pager of `t1`, `t3` that of `t2`, and
`t3` has none), unless noted. Three threads are what the interesting cases need:
a sender, a receiver and one that interferes (another sender, the aborter, the
pager); two priorities give both outcomes of every preemption test; two spaces
give both outcomes of the propagation and local-wait tests. Nothing is bounded
besides these sets: the state space is finite.

| run | instance | about | result |
|---|---|---|---|
| `kernel_ipc` | as above | calls, pagefaults, switches, propagation, local waits (none while the head of the queue is foreign), ids that do not exist: rendezvous, locking, send queues, ready queue | holds |
| `kernel_timeouts` | as above | timeouts racing messages, aborts, halts, deletion, creation: wakeup and send queues | holds |
| `kernel_transfer` | only `t1` has a pager | typed messages: copy faults, overflow, zero and finite transfer timeouts, aborts: locking, saved state, timeouts | holds |
| `kernel_live` | two threads of one priority and space | liveness of finite timeouts | holds |
| `interrupts` | two threads of different priority in one privileged space, each the other's pager, and the thread of one line above both; calls, faults, aborts, receive timeouts, handlers that do not exist | lines, send queues with interrupts in them, the delivery past `SYS_IPC` | holds |
| `sched` | three threads, two priorities, time slices of 2 ticks or infinite, delays of 0 or 1 | rings, refinement of `ReadySet`, round robin | holds |
| `mdb` | six chunks of 8 words from boot and two added; pages of two chunks; buffers of 3 and 4 words and one of two pages; two blocks of others, of 2 and 16 words | both allocators, refinement of `MemPool` | holds |
| `spaces` | three threads with two versions, three spaces, three frames; three UTCB locations in two pages, two areas | counts, UTCB pages and locations | holds |
| `mapdb` | two spaces and sigma0, a large frame of two small ones, mapped large and small | links, what a flush of any entry would revoke, refinement of `Derivation` | holds |
| `walker` | page tables of four entries, a directory of three with a page of KIP or UTCB area; fpages of 1 to 16 pages | what `map_fpage` and `unmap_fpage` change | holds |
| `asid` | four spaces, two ASIDs, `CONFIG_PREEMPT_ASIDS` | owners and free list | holds |
| `spaces_migrate` | as `spaces`, with `migrate_to_space` | thread counts under migration | violated, see 5 |

Why these bounds are enough: in `sched` a ring of three has a head, a middle and
a last thread, and two priorities are what `max_prio` can get wrong; a thread's
overdrawn time slice is counted to `MaxDebt` (its size is only compared with 0).
In `mdb` a size class reaches two pages, full and partly free, in both orders,
and holes appear on both sides of the added region. In `spaces` a space gains
and loses several threads, two threads share a UTCB page, and ids are reused
with another version. In `mapdb` a large mapping has large and small children,
and small ones again, in other spaces; more spaces repeat these depths. In
`walker` an fpage ends in the middle, at the end of and beyond a page table, and
begins at an offset in the other fpage; each directory entry is empty, a large
page or a page table with holes, on either side.

In
`interrupts` the handler is the running thread, preempted, queued, waiting for
the interrupt, for anybody, for the other thread or in its pagefault, of higher
or lower priority than the running thread; a second line would repeat this with
another sender in the same queues.

Deadlock is checked in all of these but `asid`, where a cache without a ring
to preempt from stops (section 5), and the violations. In `kernel_*`, `sched`
and `interrupts` the idle thread always has a step; after a failed assertion the
kernel model has none (every action requires `failed = {}`), so the deadlock check
of `kernel_*` and `interrupts` is a check of the assertions too. A walk ends with
`Done`.

What the properties say:

- `NoAssertionFails`: no `ASSERT` on the queues or the saved state fires.
- `NoLostThread`: a runnable thread is in the ready queue or running. Blocked
  threads may linger there (lazy dequeueing); the converse would lose a thread.
- `SendQueueExact`: a send queue is exactly the threads that still have to leave
  it, in whatever handler or phase they are.
- `Rendezvous`, `NoMissedRendezvous`, `DeliveryEndsWait`: messages arrive only
  where asked for (a wait for any local thread asks for those of its space); nobody polls on a thread waiting for it; a delivered message
  ends the wait.
- `LockedPair`, `CopyLocked`: a locked receiver has a sender in its send phase
  or a pending abort; during a copy both are locked.
- `SavedStateClean`: a pagefault IPC leaves no saved state behind. (That it is left
  by the right exit, `PagefaultRestored`, is a part of `NoAssertionFails` and proved.)
- `UserLevelRuns`: user code executes in state running.
- `TimeoutArmed`, `NoStaleTimeout`: timeouts are pending
  when needed, never for a halted thread or a runnable one that has yet to run. (That
  the timer never resumes a halted thread, `StoppedStaysStopped`, follows and is proved.)
- `DeletedLeavesQueues`: as its name says.
- `TimeoutEndsWait` (liveness): a phase with a finite timeout ends.
- `RingsExact`: every ring holds the queued threads of its priority, doubly linked.
  (That the search starts high enough, `HintCovers`, is proved; `RoundRobin` fails
  without it.)
- `ImplementsReadySet`: seen through `run <- runnable, ready <- q.in` the
  scheduler does only steps of `ReadySet`: it picks a runnable thread of the
  highest priority, loses none, and a tick within a time slice hands the
  processor upwards only.
- `RoundRobin` (liveness): a thread that stays runnable at the highest priority
  runs again and again, if time slices are finite, no preemption is delayed, and
  the order is not for ever overruled by explicit hand-overs or new priorities.
- `FreeListSorted`, `OutOfMemory`, `ImplementsMemPool`: the list is the free
  memory in order; an allocation fails only if every fitting block contains the
  last free chunk; blocks are disjoint and return exactly.
- `PagesListed`, `BuffersDisjoint`: a page is in the list of its size exactly
  while it has a free buffer; its words are partitioned; an unused page returns.
- `SpaceCounted`, `UtcbPagesExact`, `UtcbInArea`: a space exists exactly while
  it has threads; no UTCB page is leaked or shared; an active thread's UTCB is
  where its location says.
- `LinksExact`: each mapping is found from its entry and from its list.
  `FlushExact`: in every state, `mdb_flush` of any entry would revoke exactly the
  mappings derived from it in the memory flushed, through mappings of either size,
  and would leave all others alone (for the flushes that `UsualPage` and `UsualPart`
  admit). `ImplementsDerivation`: map, grant and unmap are steps of `Derivation`, so
  each mapping has an origin that covers it and is as writable.
- `MapExact`, `UnmapExact`: see the walks above.
- `IrqLine`: an attached line is enabled exactly while its thread is halted, which
  `handle_interrupt` asserts, and a disabled line has an interrupt on its way.
- `SendQueueExact` of `interrupts`: the same with interrupt threads, which
  `handle_interrupt` queues and the handler's detaching takes out again.
- `InterruptMeetsHandler`: an interrupt is not queued for a thread that waits for
  it, and does not end a wait for somebody else.
- `EdgeRemembered`: an interrupt that the handler was not told of is in the
  handler's send queue, or marked as pending while the line is masked and its
  thread on the way to the acknowledgement, where `unmask` looks at the mark.
- `AsidExclusive`, `FreeListExact`: no ASID has two owners, none leaks.

`TypeOK` of `AsidCache`, `RunQueue` and `MdbAlloc` is a part of what the proofs
show; no run lists it.

**Fairness.** `FairSpec` of `Kernel` assumes weak fairness of every kernel continuation (the
kernel runs entries to their end), strong fairness of `Expire(t)` (a finite
timeout is due from some time on, and interrupts are enabled whenever a thread
is at user level or idle runs) and strong fairness of `Dispatch(t)`: the
round-robin queue gives each runnable thread of the top level its turn. With
different priorities a low thread may starve, by design; that is why the
liveness run has one priority. `FairSpec` of `RunQueue` assumes weak fairness of
the timer tick and of the idle loop, which hardware and `idle_thread` provide;
the order of the rings is exact there, so no fairness among threads is assumed:
it is what `RoundRobin` shows.

## 4. Proofs

Every theorem holds for all values of the constants that satisfy the named
assumptions of its module. `TcbAssumption`: the special ids are distinct from
the threads and each other, priorities are numbers, pagers are threads.
`IrqAssumption`: the interrupt threads have the kernel's space to themselves and
nobody has a higher priority (`create_kernel_thread` and `set_priority(MAX_PRIO)`
in `interrupt.cc:306-317`).
`RunQueueAssumption`, `SpacesAssumption`: finitely many threads, and the null
values are none of the things they are compared with; an area holds a UTCB, and
the root task and its space are among the threads and spaces. `AsidAssumption`:
at least one ASID, and no space is taken for the marks of a free or an invalid
entry. `KMemoryAssumption`: a region given to `kmem_t` is a run of
neighbouring chunks. `MdbAssumption`: sizes are what `kmem_t` asserts of them,
and a page has room for a buffer of every size that is taken from pages.
(`WordAssumption` is what makes the integers of the model the words of the code; no
proof needs it.)
`WalkerAssumption`: a page table has at least two entries. `CallsAssumption`:
fpages are aligned to their size (`fpage.h:135`) and of two sizes one divides the
other, as powers of two do; a page table that is not there has no entries; and no
large page covers KIP or UTCB area, which the kernel maps by small pages when it
makes a space (only a call that is not regular puts one there).

| module | theorems | for which use |
|---|---|---|
| `KernelProofs` | `KernelInvariant` (`TypeOK`, `NoLostThread`), `KernelTypes` | any |
| `KernelProofs` | `SendQueuesAreExact`, `TimeoutsAreArmed`, `DeletedThreadsLeaveQueues`, `SavedStatesAreClean` | `PlainUse` |
| `KernelProofs` | `NoTimeoutIsStale`, `TimerLeavesStopped` | `PlainUse`, not `LeavesTimeouts` |
| `KernelProofs` | `AssertionsHold`, `PagefaultsAreRestored`, `MessagesMeetReceivers`, `LockedReceiversHaveSenders`, `WaitersAreRegistered`, `UserLevelThreadsRun`, `NoRendezvousIsMissed` | `PlainUse`, `SteadyUse` (the last one: no send timeouts) |
| `InterruptsProofs` | `LinesAreServed`, `InterruptsQueueExactly`, `InterruptAssertionsHold`, `InterruptsKeepPromises` | `LineUse` |
| `InterruptsProofs` | `InterruptsMeetHandlers` | `LineUse`, `OneName`, no send timeouts |
| `InterruptsProofs` | `EdgesAreRemembered` | `LineUse`, with the controller of ia64 |
| `RunQueueProofs` | `RingsAreExact`, `HintsCover`, `RunQueueImplementsReadySet`, `NoThreadIsLost` | `NoInactiveSchedule` |
| `SpacesProofs` | `SpacesAreCounted` | any |
| `SpacesProofs` | `UtcbPagesAreExact`, `UtcbsAreInTheirArea`, `NoSpaceAssertionFails` | `"unset" \notin Env` |
| `AsidCacheProofs` | `AsidExclusiveAlways`, `FreeListAlwaysExact` | any, with and without preemption |
| `MdbAllocProofs` | `FreeListStaysSorted`, `FailsAtTheTailOnly`, `KmemImplementsMemPool`, `PagesStayListed`, `BuffersStayDisjoint`, `AllocatorTypes` | any |
| `DerivationProofs` | `MappingsAreRooted`, `MappingsAreGrounded` | `Distinct` |
| `WalkerProofs` | `MapTouchesItsPages`, `UnmapTouchesItsPages` | `"all" \notin Env`: calls that are `Regular` |

**The hypotheses on use.** Each excludes calls for which section 5 shows that the
property is false in the code, and what a proof for the rest still has to do:
`PlainUse` has no abort or deletion of a locked thread, no deletion of a thread
with queued senders or a timeout to handle, no IPC with oneself, no wait for any
local thread while the head of the send queue is foreign or after a send, and no typed
messages (their copy nests one IPC in another; TLC checks it in
`kernel_transfer`). Timeouts, aborts and halts of threads that are not locked,
pagefaults at user level, propagation, deletion and creation are all in.
`LeavesTimeouts`, receive timeouts together with calls (`ipc.cc:625`) or with
interrupts (`interrupt.cc:228`), leaves the timeout of a thread armed that was
activated and has not run: the two theorems that say otherwise exclude it, and
deletion is left out there, since a deleted thread would stay in the wakeup queue. `SteadyUse` has no creation or deletion
either: a thread that waits for one that is deleted is registered with nobody.
`NoInactiveSchedule`: `SYS_SCHEDULE` is not applied to a thread without a pager
(`SchedDeleted.cfg` shows what happens otherwise). `LineUse` is `PlainUse`,
`SteadyUse` and no reattachment of a line whose thread waits in its loop
(`IrqReattach.cfg`). `OneName`: not both propagation and waits for any local
thread, or a thread that waits for local threads gets a message in the name of an
interrupt thread, which is not local. `"unset" \notin Env`: a
thread has a UTCB location when it is activated (`thread.cc:1158`).

**`Kernel`.** `NoLostThread` is not inductive alone: a switch to `arg[t].to` keeps
`current` a thread only if the destination passed the check for existence.
`ArgOK` records that for each phase after the check, and for the interrupted
copy. The inductive invariant is `IInv == TypeOK /\ ArgOK /\ NoLostThread`; there
is one lemma per action, and `FindNextKeepsRunnable` shows that the lazy
dequeueing drops blocked threads only.

**IPC.** `SendQueueExact` relates a queue to the states of the threads in it, and
what a thread does next depends on where its kernel stack resumes. `QueueInv`
adds to `IInv` which states go with which phase (`Phases`, `Receivers`), what is
saved for a pagefault (`SavedStates`), that the partners of blocked threads exist
(`Living`), and where a pending timeout can come from (`Pending`). `SteadyInv`
adds the two sides of a rendezvous: who is registered with whom (`Registered`),
that a locked receiver has its sender or an abort on its way (`Locked`), and that
no sender polls at a receiver that would take it (`NoneMissed`). Both leave room
for interrupt threads (`Irq`, `IrqPhases`), of which `Kernel` alone has none.

**Interrupts.** `IrqInv` is `QueueInv` and `SteadyInv` with the protocol of the
lines: the threads in the loop of `irq_thread` are the interrupt threads
(`IrqThreads`), and the state of each fits the mask of its line, its handler and
its partner (`LineInv`). What the kernel does to them is shown once, in `Frame`: a
step leaves an interrupt thread alone, accepts its message, or acknowledges. What
`handle_interrupt` does to the kernel is the harder half, because it acts for a
thread that is not running, from user level, the idle thread or the loop: where it
is entered nobody is inside a system call (`Settled`), and each way through it
keeps every conjunct of `QueueInv` and `SteadyInv`. That an acknowledgement whose
line has a pending interrupt never switches to a more important handler rests on
`IrqAssumption`; otherwise the thread would be put into the ready queue while it
waits. `InterruptMeetsHandler` needs `Chosen` beside it: a receiver that has an
interrupt thread for its partner named it, or anybody. `EdgeRemembered` follows from
`IrqInv` and `EdgeInv`: a line that is due is attached, and its thread carries the
interrupt to the handler or the mark is set while the line is masked. The steps that
count are the acknowledgement, which calls `handle_interrupt` again for a mark instead
of enabling the line, and the handler taking the interrupt out of its queue.

**Rings.** The links of a ring are described without walking it: `next` and `prev`
undo each other on the queued threads of a priority (`Woven`), the head is one of
them (`Headed`), and no proper part of them is closed under `next` (`Single`),
which makes it one ring rather than several. `QueueOK` is kept by each list
operation; walking the ring then meets every thread (`RingsAreExact`), by counting
the threads met. The steps of `ReadySet` follow from what `find_next_thread` drops
and returns.

**ASID cache.** The free list and the ring share their links. The invariant says
that free entries link to free ones or to the end (`FreeClosed`), each reached
from one place only (`FreeOnce`, `FreeReached`), and that some rank rises along
the links (`FreeRanked`), which is why the list ends. With preemption, `RingOK`
says of the head, and of every entry in use whose two links differ, that it and
its neighbours point to each other and are in use. Nothing is said of an entry
whose links are equal: `move_asid` takes a ring of two for a ring of one and
leaves such a stale entry behind.

**Allocators.** `KInv`: the chunks that nobody holds are a chain in the order of
their addresses from `kmem_free_list` on, `free_chunks` counts them, and the
blocks held are disjoint. A chain (`Chain`) says of every chunk that its link is
the one with the next higher rank; taking a run out of it (`Unlink`), or linking
one in (`Link`), keeps that, so what `alloc` finds by walking and what `free`
leaves behind follow without another induction. `MdbInv` adds the pages: a page is
held from `kmem_t`, the addresses on its list and those handed out are its slots,
disjoint, and the pages of a size with a free buffer are a chain for some ranks,
with the back links undoing the links. Which ranks does not matter, so a page can
be put in front or taken out anywhere.

**Derivations.** The theorems are about `Derivation`, which the run `mapdb` checks
`MapDb` to implement, for any entries and memory if `Distinct` (part of
`MapDbAssumption`) holds. An unmap of `Derivation` says only what is revoked: the
least set closed under derivation (`Derived`), as far as it lies in the memory
unmapped. That nothing is left without its origin is a consequence
(`DerivedClosed`, `WholeBranches`): a mapping derived from a revoked one is derived
from the unmapped one, and, by `Rooted` itself, lies in the memory of the revoked
one, hence in the memory unmapped. `Rooted` would hold of
two mappings derived from each other as well; `Grounded` excludes that with a rank
that falls from a mapping to its origin. A new mapping ranks above its origin, a
grant hands its rank on, and an unmap changes none. The theorems are about the
specification; for the flushes that the code does not do so, section 5 has the
counterexamples.

**Walks.** The two loops keep their place in counters, and what makes them right is
where the counters say they are. Both invariants have a frontier: below it every
address is as it has to be at the end, from it on the page tables are what the
call found. For `unmap_fpage` it is `vaddr`, and `UnmapInv` says of the four places
of the walk (at a directory entry for a part of it or for all of it, `AtPart` and
`AtEntry`; in a page table, `InPart` and `InEntry`) how the entries left to count
reach the end of the fpage, also after returning from the page table. For
`map_fpage` the frontier is the receiver's address, and `MapInv` relates the two
sides: both at directory entries (`AtBoth`), both in page tables (`InBoth`), the
sender in a page table of which nothing was mapped so far and the receiver still
above (`AtReceiver`: its address stays behind, which is why the frontier there is
the sender's address shifted), or a large page sent in parts (`InParts`). There is
one lemma per action; `SenderNext`, `BothNext` and `PartNext` say once what
`Next_sender_entry` and `Next_receiver_entry` do to the counters. Each conjunct of
`Regular` is used where the walk would lose its place without it: the sender's
first page has to exist (`FirstMissing`), a page table has to have an entry
(`MapSkips`), and a large page of the receiver is met by a single page only
(`BlockedAlone`).

**Lists of any length.** `After`, `Walk` and `Listed` are recursive functions that
follow a list for as many steps as there are elements. `MdbAllocProofs` and
`RunQueueProofs` begin with lemmas that show, from
the well-foundedness of the natural numbers, that a set with 0 that is closed
under successor has them all, and that a function defined by such a recursion
exists; with it `ChainList` says at which step a walk meets which element.

**Model-checked only.** Liveness under fairness (`RoundRobin`, `TimeoutEndsWait`):
beyond the prover. `CopyLocked`, and the other properties of `Kernel` with typed
messages: not proved yet. `MapDb` (`LinksExact`, `FlushExact`, `ImplementsDerivation`): it
declares a RECURSIVE operator for the loop of `mdb_flush`, for which the prover
has no backend. Of `Walker`, the calls that are not `Regular`: for those the
properties are false (section 5).

## 5. Where the code disagrees with its own comments and assertions

With a run:

- `spaces_migrate`: `migrate_to_space` (`thread.cc:711`) takes the thread off the
  count of its old space and never adds it to that of the destination, and if it
  was the last thread it unmaps the destination and frees the old space. A later
  deletion in the destination finds a thread count of 0 and fails the assertion
  of `remove_tcb` (`glue/v4-ia32/space.h:369`).

With a configuration kept beside the runs, which differs from a passing one by the
switch that lets the case in (`tlc -config X.cfg M` shows the counterexample):

| configuration | module | violates | what |
|---|---|---|---|
| `KernelLocal.cfg` | `MCKernel` | `Rendezvous` | a wait for any local thread takes the head of the send queue without comparing spaces (`ipc.cc:522`; 521: "wait_local incorrect"), and a foreign thread sends to a receiver that did not ask for it |
| `KernelAbortLocked.cfg` | `MCKernel` | `NoAssertionFails` | `unwind` of a locked_running thread (`thread.cc:551`) leaves an accepted sender in the send queue; its next blocking send fails `tcb.h:597` |
| `KernelAbortReceiver.cfg` | `MCKernel` | `CopyLocked` | a receiver is aborted while its sender's copy waits for the pager; only a locked_running partner is told (`thread.cc:654`; 636 says "Abort both threads."), so the copy goes on to a thread that left |
| `SchedDeleted.cfg` | `MCRunQueue` | `MetAreQueued` | `SYS_SCHEDULE` queues an inactive thread; `delete_tcb` (`thread.cc:293`) dequeues activated threads only; the next creation clears the flag of a linked thread, and `find_next_thread` fails `schedule.cc:125` |
| `MapDbFlush.cfg` | `MCMapDb` | `RecursivelyRemoved` | leaving a root array (`mapping.cc:513`) after its first used entry leaves the mappings of the others behind, against "the mapping will be recursively removed" (340) |
| `MapDbPart.cfg` | `MCMapDb` | `FlushExact` | unmapping a small part of a large page with an array of small mappings descends into the array and forgets `nmap`, the list of large mappings derived from the page (`mapping.cc:494`): the small mappings derived through them stay, against "Recursively revokes" (339) |
| `IrqApic.cfg` | `MCInterrupts` | `EdgeRemembered` | `handle_irq` of the APIC (`intctrl-apic.cc:507`) returns for every masked line, so "edge triggered IRQs are marked as pending if masked" (514) never happens and the interrupt is lost |
| `IrqReattach.cfg` | `MCInterrupts` | `NoAssertionFails` | the handler is changed while the interrupt thread waits for the acknowledgement of an interrupt it sent itself; `irq_thread` then takes its activation by the new handler, for the next deferred interrupt, for that acknowledgement (`interrupt.cc:86`; 64 says the thread in the send queue has "to send the IPC"): it stays queued, the handler stays locked, and the next interrupt fails the assertion of `enqueue_send` |
| `KernelMissed.cfg` | `MCKernel` | `NoMissedRendezvous` | a sender whose timeout expired stays in the queue until it runs its handler; an open receive considers the head only (`ipc.cc:495`) and blocks with a willing sender behind it |
| `SchedDelay.cfg` | `MCRunQueue` | `NoDelayGranted` | `delay_preemption` (`schedule.cc:403`) grants a thread without competitor its delay although its maximal delay is 0, which `schedule.h:353` sets to "defacto disable delayed preemptions" |
| `WalkerEmpty.cfg` | `MCWalker` | `MapExact` | the sender's fpage ends with an empty page table (`linear_ptab_walker.cc:311`): going up from its last entry sets the sender's counter to 0 and leaves the receiver's at 1, so the loop goes on, the counter wraps around, and what follows the fpage is mapped too; 165: "no mapping can be performed and the map algorithm terminates" |
| `AsidLru.cfg` | `AsidCache` | `PreemptsLeastRecentlyUsed` | `move_asid` (`asid.h:259`) takes a ring of two for a ring of one; the ring can even become empty while ASIDs are in use, and `allocate` would read `asids[-1]`, where the model has no step |

The kernel model shows the following when the named switches are in `Env`; each
was reproduced with the property given:

| where | what | `Env` | property |
|---|---|---|---|
| `ipc.cc:395` | after a message overflow the sender runs user code as locked_running (426: "make sure we are running") | typed, overflow | `UserLevelRuns` |
| `ipc.cc:625` | the receiver activated next to a queued sender keeps its receive timeout (608-610 say it must not) | call, rcv_timeout | `NoStaleTimeout` |
| `ipc.cc:508` | a call whose `from` does not exist never activates the receiver of its message | call, bad_from, bad_call | `DeliveryEndsWait` |
| `thread.cc:65` | a thread started by a *call* of its pager runs in state waiting_forever | call, delete, create, startup_call | `pc[current] = "user" => is_runnable(state[current])` |
| `thread.cc:307` | deleting a thread leaves its queued senders polling outside of a queue | delete, delete_queued, abort | `NoAssertionFails` |
| `thread.cc:301` | deleting a timed-out sender that has not run yet leaves it queued | snd_timeout, delete, delete_timedout | `DeletedLeavesQueues` |
| `thread.cc:575` | aborting the copy of a propagated message leaves the receiver locked | typed, propagate, copyfault, xfer_zero | `LockedPair` |
| `thread.cc:882` | a thread aborted as the partner of its pager keeps its saved partner | call, typed, copyfault, xfer_zero, reply_timeout | `SavedStateClean` |
| `space.cc:158` | the first resume of a pagefault IPC cancels the transfer timeout and leaves its flag set, so later faults of the copy have none | typed, copyfault, xfer_timeout | `xfer \subseteq wakeup` |
| `thread.cc:964` | a typed reply to a pagefault that overflows stops the kernel in `enter_kdebug` | typed, overflow, fault, reply_overflow | `NoAssertionFails` |

The passing kernel runs stay clear of these cases, so what they show is limited:
no passing run aborts or deletes a thread in a locked state, deletes one with
queued senders, waits for any local thread while a foreign one heads the queue, or
checks `NoMissedRendezvous` with send timeouts. This is also
why `kernel_timeouts` has no calls and no pagefaults, why `kernel_transfer`,
which has overflows, has no user pagefaults (the sender of `ipc.cc:395`
would fault in state locked_running), no propagation and no
`UserLevelRuns`, and why its pager has no pager itself. `interrupts` has no send
timeouts (a timed-out sender hides an interrupt behind it as it hides any other),
deletes no thread, and checks no `NoStaleTimeout`: the shortcut of
`handle_interrupt` leaves the handler's receive timeout armed until it runs, when
the interrupted thread goes on (`interrupt.cc:228`).

Found by reading the code for the other models, and kept out of the passing runs
by the guard named:

| where | what | kept out by |
|---|---|---|
| `linear_ptab_walker.cc:311` | several small pages of which the sender lacks the first: the two sides lose step (in an empty directory entry the walk continues with the next large entries) | `Walker!Regular` |
| `linear_ptab_walker.cc:385` | several small pages into a large page of the receiver: the size goes down, the entry pointer does not | `Walker!Regular` |
| `linear_ptab_walker.cc:567` | parts of a large page where the receiver has mappings: not overmapped; granting a part clears the whole large entry (675) | `Walker!Regular` |
| `linear_ptab_walker.cc:426` | "Make sure that we do not overmap KIP and UTCB area": a large page over, or a flush of, the page table they are in removes it with them | `Walker!Regular` |
| `linear_ptab_walker.cc:912` | the fpage tested before a page table is removed is made from a size in bytes where a logarithm is expected, and from an address already advanced | modelled: the test comes out either way |
| `linear_ptab_walker.cc:836` | unmap of two small pages inside a large mapping steps over 4M; flushing only the right to write of a part fails `mapping.cc:440` | `Walker!Regular` |
| `mapping.cc:513` | an unmap that spares the large mapping itself frees its root array and leaves the owner's pointer to it | `MapDb!Regular` |
| `mapping.cc:207` | granting a small part of a large page reuses the large node; a grant from sigma0 overwrites sigma0's node | `GrantPage` (equal sizes, not from sigma0) |
| `mapping.h:110` | the depth has 8 bits and wraps in a chain of 256 mappings | unbounded depth |
| `mapping.cc:395` | `parent_space` starts from an uninitialized `space` | only used for reference bits, which are left out |
| `thread.cc:1158` | a thread created without a UTCB location is activated at ~0UL: the range check wraps (`thread.cc:183`: "UTCB location has already been checked") | `Env` without `"unset"`; with it `ActivateAssert` fails |
| `thread.cc:1131` | a refused modification keeps the new UTCB location (1228: the operation "succeeds or fails _completely_") | modelled (`ModifyRefused`) |
| `kmemory.cc:198` | a block that ends with the last free chunk is never found | modelled (`Fits`, `OutOfMemory`) |
| `mapping_alloc.cc:215` | the result of `kmem.alloc` is not tested | no step without memory |
| `mapping_alloc.cc:156` | the unsigned counter of the loop would step below zero for a size that leaves a rest of the page of at least the management structure | `WordAssumption` |
| `intctrl.cc:442` (ia64) | `enable` clears no pending mark: a line attached to another handler is enabled with the mark of the old one, and what was queued with the old handler is forgotten | modelled (`AttachInterrupt`); `due` begins anew with a handler |
| `ipcx.cc:108` | a message of more than `IPC_NUM_MR` words stops the kernel in `enter_kdebug` before the copy starts | sent by no model |

## 6. Not modelled

- Pagefaults tunnelled to the receiver's pager (`space.cc:278-309`; `CopyFault` has
  those of the sender's side), messages that are too large
  before the copy starts, string contents. Map and grant items call the code of
  `Walker`, but are not part of `Ipc`.
- Total quanta and preemption IPC (infinite, their default, in `RunQueue`).
- Creation of an interrupt thread by its first attachment (`Init` has all of
  them), level-triggered lines (which never interrupt while masked), and the
  other interrupt controllers.
- `CONFIG_SMP`: cross-processor IPC, mailboxes, migration between processors.
- Rights other than write, reference bits, memory attributes, TLB flushes, and
  page tables of more than two levels.
- `SYS_PROCESSOR_CONTROL`, the control word of `SYS_SPACE_CONTROL`, and
  `SYS_MEMORY_CONTROL`: hardware configuration without kernel state.
- Architecture glue, boot, kernel debugger, ACPI: registers, tables, console;
  the largest part of the repository by lines, eight times over for as many
  architectures, and without state a model could interleave.
- The LLVM-to-Z3 verifier: a pure translation.

## 7. Plan

Done: the kernel core, the ready rings, both allocators, thread and space
control, the mapping database, the page-table walks, interrupts; proofs about all
of them, of the mapping database about its specification only. Next:

1. Proofs: typed messages in `KernelProofs` (`CopyLocked`), where the state
   of the interrupted IPC has to be carried through the pagefault.
2. `Rendezvous` as an abstract specification (threads offer and take messages)
   that `Kernel` implements.
3. Cross-processor IPC with mailboxes.
