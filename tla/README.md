# disastrOS in TLA+

A formal model of disastrOS (C, one directory), a small operating system that
runs inside one Unix process: processes are `ucontext` contexts, system calls
switch to the kernel's context, and a periodic `SIGALRM` is the timer interrupt.
On top of it the repository adds message queues with blocking readers and
writers. The modules here are translated from the C files; each definition's
lines are in `PROJECT.json` under `map`.

## The system

| Component | Files | State | Operations |
|---|---|---|---|
| Process control | `pcb`, `spawn`, `wait`, `exit`, `fork`, `shutdown` | pool of PCBs, pool of PCBPtrs, children lists, parent pointers, status words, `init_pcb`, `last_pid` | spawn, wait, exit, fork (aborts), shutdown |
| Scheduler, sleepers | `schedule`, `preempt`, `sleep`, `timer` | `running`, `ready_list`, `waiting_list`, `zombie_list`, `timer_list`, `disastrOS_time` | preempt, sleep, the timer interrupt |
| Kernel entry | `disastrOS.c` | contexts, the system stack, the signal mask, `running`, log file | start, system call, trap, interrupt, restart |
| Intrusive lists | `linked_list.c` | `next`, `prev`, `first`, `last`, `size` | init, insert, detach, find |
| Block pools | `pool_allocator.c` | array `free_list`, `first_idx`, `size` | init, getBlock, releaseBlock |
| Resources, descriptors | `resource`, `descriptor`, `open_resource`, `close_resource`, `destroy_resource` | `resources_list`, descriptor lists of processes and of resources, `last_fd` | openResource, closeResource, destroyResource |
| Queue names | `msgQueueCreate`, `msgQueueOpen`, `msgQueueClose`, `msgQueueUnlink`, `msg_queue` | `msg_queues_list`, names, pool of queues, `last_rid` | create, open, close, unlink |
| Queues at work | `msgQueueRead`, `msgQueueWrite`, `msgQueueClose` | ten subqueues, `size`, `waiting_descriptors`, pools of messages and texts | read, write, close, with blocking and waking |
| Message texts | `msg_queue` | the bytes of the text pool | Text_alloc, Message_alloc |
| Test program | `test` | producer, consumer and their parents | what it calls |

How they interact. Everything is shared memory. Every system call runs to its
end on `trap_context`, whose signal mask blocks the alarm (`disastrOS.c:236-238`),
so calls do not interleave with each other; the timer interrupt comes between any
two of them and runs `internal_schedule`. At the edges of calls and interrupts, where
contexts are saved and loaded, it may come too. Every object comes from a block pool and
is linked into lists through pointers that it carries itself, so an object can be
in one list at a time, and a wrong belief about which list it is in corrupts two
lists. Which list a PCB is in is decided from its `status` (exit, wait), from a
timer (the scheduler) or from a descriptor in `waiting_descriptors` (read, write,
close). `exit` touches almost everything: family lists, timers, descriptors, and
the CPU.

What is hard here: (1) the three ways to wait (wait, sleep, message queue) meet in
one waiting list and one scheduler; (2) links, parent pointers and descriptors
outlive what they refer to, and pools hand blocks out again; (3) a blocked reader or
writer keeps the CPU until the next preemption; (4) waiters of both kinds share one
list; (5) pools run out; (6) names are looked up again when a queue goes; (7) a tick may
fall into the saving or loading of a context, or into another interrupt, and all of these
share one stack; (8) texts are longer than the blocks they are put into.

What makes each component correct:

* process control and scheduler: a PCB is in exactly one place, status words and
  timers agree with the lists, the family is a forest, pids are unique, nobody
  misses the end of a child, nobody wakes without a reason, every ready process
  gets to run and every sleeper wakes;
* lists: the pointers represent sequences; pools: every free block is in the chain
  once;
* resources and queues: descriptors and resources refer to each other and to
  nothing that was freed, nothing is lost, the last close destroys its own queue;
* queues at work: messages are counted and leave by priority and age; waiting
  descriptors and the waiting list agree; who waits does not run; not everybody
  waits for each other; every DescriptorPtr comes back;
* kernel entry: a process is resumed where it left, each call is carried out once, and a
  tick at the wrong moment harms nobody but the processes it hits;
* texts: what is read is what was written, as far as the blocks allow, and the allocator
  survives;
* the test program: it ends, and leaves nothing behind.

## Modules

| Module | Models | Uses |
|---|---|---|
| `Processes` | process control, scheduler, sleepers, entry and interrupt | |
| `ProcessLifecycle` | abstract: the life of each pid | |
| `ProcessesRefinement` | the mapping from lists to stages | `Processes`, `ProcessLifecycle` |
| `MCProcesses` | symmetry for TLC | `ProcessesRefinement` |
| `ProcessesProofs` | theorems: the invariants of `Processes`, what its steps may do, and the refinement | `ProcessesRefinement` |
| `PoolAllocatorProofs`, `ListUseProofs`, `KernelEntryProofs`, `TextPoolProofs`, `ResourcesProofs` | theorems about the module each is named after | that module |
| `MessageQueueProofs` | theorems about `MessageQueue` and, at its end, about the test program | `TestProgram` |
| `SequenceLemmas` | lemmas about sequences and linked pointers, for all of these | |
| `PoolAllocator`, `MCPoolAllocator` | `pool_allocator.c` | `BlockPool` |
| `BlockPool` | abstract: a set of free blocks | |
| `LinkedList` | `linked_list.c` as functions from heap to heap | |
| `ListUse` | callers that keep to the rules of the lists | `LinkedList`, `ListsAsSequences` |
| `ListsAsSequences` | abstract: lists are sequences | |
| `MessageQueue` | create, open, read, write, close of one queue, and the scheduler, on real pointers | `LinkedList` |
| `TestProgram` | disastrOS_test.c: four processes, call by call, with spawn, wait and exit | `MessageQueue` |
| `MCTestProgram` | the hypotheses of the theorems about the test program, as an assumption of its passing run | `TestProgram` |
| `KernelEntry` | start, system call, trap, interrupt: contexts, stack and signal mask | |
| `TextPool` | the bytes of the text pool | |
| `Resources`, `MCResources` | resources, queue names, descriptors | |

**Processes.** One action per system call, plus `TimerTick` and `Restart`. The
pool of PCBs is used by its contract (`BlockPool`, which `PoolAllocator` implements):
an allocation returns any free block, and a freed block keeps its fields. The lists
of PCBs are sequences, or sets where nobody reads the order. That abstraction is
right exactly when no PCB is in two lists (`OnePlace`, proved here) and callers keep
to the list rules (`ListUse` then shows that the pointers are sequences). Failures of the
kernel (null pointers followed, assertions, an endless loop) are values of
`machine`, after which nothing happens. `wait_for` stands for the pair of
`syscall_num` and `syscall_args[0]` by which exit recognises a parent in wait.
`Restart` is what happens when `disastrOS_trap` returns with no process on the CPU
(all asleep): the context continues in `main_context`, inside `disastrOS_start`.
Processes of `IdlePids` make no calls.

**MessageQueue.** A blocked read or write marks the caller Waiting, puts it into
the waiting list and returns 0 to it, still running. What preemption then makes of
it depends on whether `List_insert` recognises a listed item by its neighbours, so
this module has the pointers of `LinkedList`, not sequences. The scheduler and the
waiting list are those of the whole kernel; processes that do other things are
present as `Idle` (they only get preempted) and `Parent` (they sit in the waiting
list, as the parents of the test program do).

No call of a blocked process is ruled out: its call has returned 0, a preempt with nobody
ready gives it the CPU back (`disastrOS_schedule.c:30`), and disastrOS_test.c writes twice in a
row. Such a call is a *repeated* one, and sets the variable `again` (`QueueCall`) for
good. What does not survive it says `~again` in its own text: `ListsHold`,
`WaitersAreWaiting`, `NobodyStuck` and `ReadyRuns`, the equation in `PtrsAccounted`, and the
two invariants of `TestProgram`. A process that waits twice is woken out of a list it has left
(`TestProgram_twice`), so these cannot hold without. `MessagesCounted`, `ReadInOrder` and
that no DescriptorPtr is freed twice hold of all callers, and are proved so. `Repeats` is a bound:
where it is FALSE, a repeated call is the last call on the queue, so that TLC sees the call but
not what others do after it. Opens are left out
while a descriptor that has been closed is in `waiting_descriptors` (guard of `Open`): its block
could be given out again, and the entry would then stand for another process.

A waiting process has a DescriptorPtr of the pool that open takes its own from
(`free_ptrs`), so opening may fail while Descriptors are left. When the last process has
closed the queue it is gone, and any caller may create it anew; what the freed queue held
is still read by the close that freed it.

**TestProgram.** The four functions of disastrOS_test.c as sequences of calls; the calls
on the queue, preempt and the interrupt are the actions of `MessageQueue`, on its list
pointers, and spawn, wait and exit are added on the same pointers. Each process makes its
calls in order, and a tick may come before any of them; `Settled` leaves out those that come
before both sides have opened the queue. Output and the choice of texts
are left out; priorities are chosen freely.

**KernelEntry.** Calls and interrupts in steps: save the context, set the mask, run the
handler (with `next_process` detached but not yet running as a state of its own), set the
mask of the next context, load it. SIGALRM may come between any two steps in which it is
not blocked. A context is a place in the program, a process and the number of calls that
have returned; starting anything on `system_stack` overwrites the contexts saved while on
it (`OVERWRITTEN`). The order of lists is left open, which `Processes` has. Sleep with nobody ready leaves no
process running, and `disastrOS_trap` returns into `disastrOS_start`; wait with nobody ready
follows a null pointer instead (`wait_no_ready`), as exit does. Two history
variables serve the properties: `handled` counts the calls carried out for each process,
`hit` collects the processes that a tick in the kernel harmed. That swapcontext saves the
registers before it sets the mask, and that setcontext sets the mask before it loads the
registers, is what glibc does on x86-64.

**TextPool.** The buffer of the text pool byte by byte, blocks first and the allocator's
`free_list` behind them. A byte is part of an intact entry of `free_list`, a NUL, or the
k-th character of the n-th text. Texts are never given back, so blocks are handed out in
the order of `PoolAllocator_init` (`PoolAllocator` models the rest). The length passed to
write is taken to be the length of the text. Which queue a message is in does not matter.

**Resources.** Any live process may make the next call; blocking is left to
`MessageQueue`. A Descriptor and its DescriptorPtr are allocated and freed
together, from pools of equal size, and are one block here (`MessageQueue` has the
difference that waiting makes). A freed Descriptor is blank, since nothing reads it. Offering a plain
resource's descriptor to msgQueueClose is excluded: the code would read a
`Resource` as a `MsgQueue`.

## What is checked

Passing runs (every one explores all reachable states of its instance):

| Run | Instance | Properties |
|---|---|---|
| `Processes_safety` | 4 PCBs, 4 pids, clock 0..1 | `TypeOK`, `OnePlace`, `StatusMatchesList`, `SleepersHaveTimers`, `TimerPoolSuffices`, `FamilyTree`, `UniquePids`, `NoMissedChild`, `ReapedByItsKeeper`, `WokenForAReason`, `PtrsLostAtHandover`, and `ImplementsLifecycle`: refinement of `ProcessLifecycle` |
| `Processes_idle` | 3 PCBs, 4 pids, clock 0..2, an idle process, a log file, fairness | `IdleKeepsCpuBusy`, `ReadyRuns`, `SleeperWakes` |
| `PoolAllocator` | 5 blocks of 2 bytes | `FreeListIsChain`, `ImplementsBlockPool` |
| `ListUse` | 4 items, 2 lists | `NeverRefused`, `ImplementsSequences`, `PlacedBehind` |
| `MessageQueue_many` | 2 readers, 2 writers, that open once each, up to the first repeated call; 2 priorities, 2 lengths, a queue of 2, 3 texts; fairness | `ListsHold`, `WaitersAreWaiting`, `MessagesCounted`, `PtrsAccounted`, `NobodyStuck`, `ReadInOrder`, `ReadyRuns` |
| `Resources_all` | 2 processes, 1 resource, 2 queues of one name, 2 descriptors, 3 creations | `TypeOK`, `DescriptorsSound` (with `UniqueFds`), `NothingLost`, `LastCloseDestroys` |
| `KernelEntry_ticks` | 3 processes, 2 calls each, ticks without number | `ContextsHold`, `NobodyLost`, `CpuIsRunnings` |
| `TestProgram_ends` | the program with its 3 iterations, a queue of 8, 2 priorities, ticks from when both have opened the queue, fairness | `NothingLeft`, `NobodyRunsAfterExit`, `Ends` |
| `TextPool` | 4 blocks of 2 bytes, entries of 1 byte, texts of 0 to 5 characters, 7 refused | `HeadsKept`, `LastTextWhole`, `AllocatorKnowsNext` |

The type invariant of a module is a property of its own in `Processes` and `Resources`,
and elsewhere a conjunct of `FreeListIsChain`, `NeverRefused`, `ListsHold`, `NobodyLost` and
`AllocatorKnowsNext`.

Why the bounds are enough. Four PCBs let a grandchild be adopted while its dead
parent's block is used again and init goes on; with four pids after the first process,
blocks are used again in every order, and with three PCBs (`Processes_idle`) as soon as
one process has gone. A clock with two readings (three with the idle process) and sleeps
of zero to two ticks give timers that are due together, in order and out of order; after
its last reading the clock stands still and ticks go on. Pids (`MaxPid`), the clock
(`MaxTime`), creations (`MaxRid`) and openings (`MaxFd`) are the bounded counters; each
bound is a conjunct of the action that counts. The theorems below hold for every value
of these. For a queue, one place (`MAX_NUM_MESSAGES_PER_MSG_QUEUE` is 1
in `disastrOS_constants.h`) makes both kinds of waiting frequent, two places make order
and priority matter, and `MAX_NUM_MESSAGES` is small enough for the texts to run out.
Two queues of one name are what it takes for a look-up to find the wrong one. Four items
put an item between neighbours, at either end and alone. PCBs are symmetric in
`Processes_safety`, queue and descriptor blocks in `Resources`; the runs with liveness
properties (`Processes_idle`, `MessageQueue_many`, `TestProgram_ends`) use no symmetry.
Three processes in `KernelEntry` are one that is hit, the one that was taken for it, and
one that must not be harmed; two calls tell a call that is repeated from the next one. In
`TextPool` a text of five characters reaches over three blocks, one of seven is refused,
and, as in the code, the last text ends before the buffer does. `LastCloseDestroys` holds
with the one id that openResource is given, 0, that of the first queue: a younger queue of
the same name, opened by its id, is not the one its name leads to (with the ids 0 and 1,
TLC finds it violated).

The test program runs with a queue of eight messages, not the one of
`disastrOS_constants.h:11`. `Ends` needs the eight: the producer writes nine messages and the
consumer reads six, so with eight the producer blocks once at most and nobody makes a call
while it is blocked, which is a part of `Ends`; with seven or fewer the producer can be in
`waiting_descriptors` twice. `NothingLeft` and `NobodyRunsAfterExit` need no such room: they
are proved for every capacity, up to a repeated call, and TLC finds them so with a queue of one.

Ticks come before every call from the time on when both sides have opened the queue
(`Settled`): also between a close and its exit, and while one side is left. Those before are left
out, for two reasons. A process that opens the queue before it has been
created, or after the other side has opened and closed it, follows a null pointer
(`open_unknown`). And a consumer that finds the queue empty while no parent waits yet is
alone in the waiting list. Its preempt puts it into the ready list as well, the parents
are linked behind it when they wait, and the two lists run into each other: the scheduler
takes init out of its wait for a ready process, and init shuts down while the others live. With
`Settled = FALSE` TLC finds `Ends` violated by the first and `NothingLeft` by the second.

Fairness. `FairSpec` of `Processes` assumes that ticks keep coming: `setitimer`
arms an interval timer (`disastrOS.c:80-84`) and nothing disarms it. `FairSpec` of
`MessageQueue` assumes the same of its `TimerTick`. No system call is assumed to happen.
`Spec_test` of `TestProgram` assumes that whoever has the CPU makes its next call in the
end (weak fairness of `Call`): the programs do nothing but print between calls. It does
not assume ticks, and no bound on their number.

### Where the code does not do what it says

Each of these runs checks one property, taken from a comment or the README of the
repository, and TLC finds a behaviour that violates it.

| Run | Property | What happens |
|---|---|---|
| `MessageQueue_stuck` | `RoomWakesWriter` | two readers and a writer: the read wakes the other reader, and all wait with room in the queue |
| `TestProgram_twice` | `WokenFromItsList` | the test program with its queue of one message: ticks let the producer block in two writes in a row, and the second to wake it detaches it from a list it has left |
| `KernelEntry_alarm` | `AlarmOffInTrap` | a tick held back during a call is delivered when the trap sets the mask of the process it returns to, before it has left the system stack |

`NobodyStuck` passes for a reader and a writer that are the only ones to have the queue
open, and `RoomWakesWriter` fails with a second reader: waking one waiter of either kind
is enough for a pair only.

Two more disagreements are plain from the code, which the modules follow:

* exit looks at its own parent pointer, which adoption does not change
  (`disastrOS_exit.c:40`): init, waiting for any child, is not woken when an adopted child
  terminates, although the comment at `disastrOS_exit.c:10-14` says that children are
  reparented to init and that the parent is awakened. `NoMissedChild` holds of the children
  that a process spawned itself, and says so;
* descriptors are released only when the parent waits already (`disastrOS_exit.c:74-81`,
  inside the branch of line 45), although line 73 says 'upon termination': a zombie keeps
  them, wait does not free them either, and the next process in that PCB forgets them
  (`ExitToZombie`, `Reap` and `Spawn` of `Resources`).

Other things that the code does and that a reader of it would not expect are in the
actions, with no run of their own. Where the program cannot go on, they are values of
`machine`, and the passing runs reach them:

* wait for a pid that is no child falls through to the last child of the list
  (`disastrOS_wait.c:35`), which is then reaped, or waited for (`Wait`);
* exit to a waiting parent does not free the PCBPtr it detaches
  (`disastrOS_exit.c:52`), so that spawn ends at its assertion in a system that has
  PCBs left (`spawn_no_ptr`; `Processes_idle` reaches it, `Processes_safety` would need
  more pids);
* `PCB_alloc` stores through the null pointer that spawn would test
  (`disastrOS_pcb.c:44`, `spawn_no_pcb`), creating a resource or a queue from an empty
  pool does likewise (`open_no_resource`, `create_no_queue`), and opening a name that
  no queue has and closing an unknown descriptor follow a null pointer before they test
  it (`disastrOS_msgQueueOpen.c:16`, `open_unknown`; `disastrOS_msgQueueClose.c:14`,
  `close_unknown`);
* wait and exit take the head of an empty ready list when all other processes sleep
  (`wait_no_ready`, `exit_no_ready`);
* a dead parent's PCB is used again, its new process waits, and an orphan that exits
  looks for itself among the children of that stranger (`exit_not_listed`);
* a blocked read or write returns 0 to its caller, which stays on the CPU with status
  Waiting until the next preemption; the only process of the waiting list is then put
  into the ready list as well, because `List_insert` does not recognise it
  (`linked_list.c:22`; what comes of it in the test program is told under `Settled`, above);
* with a descriptor left but no DescriptorPtr, because processes that wait have them all,
  open and the next blocking call end at a null pointer or an assertion (`open_no_ptr`,
  `no_descriptor_ptr` of `MessageQueue`);
* a tick while swapcontext is on its way into the trap makes the process enter the same
  call again when it is resumed; one after `setupSignals` overwrites the context of the
  first process; one during an interrupt forgets the process that was just taken from
  the ready list (`Tick` of `KernelEntry`);
* a text of eight characters or more is spoilt by the next message that is written
  (`HeadsKept` and `LastTextWhole` say what of it survives);
* closeResource and exit close the descriptors of queues without the unlinking that
  msgQueueClose does, and `DSOS_WRITE` contains the bit of `DSOS_CREATE`, so that
  openResource for writing creates the resource when there is none.

## What is proved

Every invariant and every action property that the passing runs check is a theorem of the
module's specification, for every value of
the constants that satisfies the module's assumptions (finite pools, null pointers that are
no blocks, bounds that are natural numbers). Where a theorem needs more, it says so as a
hypothesis, given here with the reason. `PROJECT.json` lists the theorems with the
properties they state.

Every proof has the same shape: an inductive invariant, one lemma for each action that
preserves it with a step for each conjunct that the action can disturb, and the property
from the invariant.

**Processes** (`ProcessesProofs`). The inductive invariant `IInv` is
the conjunction of `TypeOK`, `OnePlace`, `StatusMatchesList`, `SleepersHaveTimers`,
`FamilyTree` and `UniquePids`. They need each other: exit detaches its parent from the
waiting list because of the parent's status (`StatusMatchesList`); the scheduler detaches
the process of each elapsed timer (`SleepersHaveTimers`); wait frees the zombie that a
children list leads to, which must be nobody else's child (`FamilyTree`); exit finds itself
in its parent's list by pid (`UniquePids`). `TimerPoolSuffices` follows: sleepers have one
timer each and the running process is not among them, so the timers are fewer than the
blocks. Of the steps it is proved that a block is freed by its keeper only
(`ReapedByItsKeeper`), that a wake-up has a reason (`WokenForAReason`), that PCBPtrs are lost
at a hand-over only (`PtrsLostAtHandover`), and that every step is one of
`ProcessLifecycle` or changes no stage (`ImplementsLifecycle`). `NoMissedChild` is
inductive relative to `IInv`. `IdleKeepsCpuBusy` is proved for an instance whose first
process is idle (`1 \in IdlePids`), as the one of its run: without it all may sleep.

**PoolAllocator** (`PoolAllocatorProofs`). `FreeListIsChain` is inductive: the chain from
`first_idx` visits the free blocks once each. The refinement of `BlockPool`, answers
included, follows.

**ListUse** (`ListUseProofs`). The inductive invariant `LInv` says that there are sequences,
one for each list and with no item in common, which the pointers represent in both
directions, and that the pointers of all other items are null. From it: the walk along next
passes the items of the list and nothing else (`OrderedLists`), so the callers' rules say what
they should; an unlisted item is never refused; there is but one sequence that the pointers
of a list represent, and insertion and removal change it as `ListsAsSequences` says. Without
the callers' rules none of this holds, which is why `MessageQueue` has the pointers.

**KernelEntry** (`KernelEntryProofs`). The invariant `KInv` says, while the machine is up,
where control can be for each stack and signal mask (`Control`), that a saved context which
is not overwritten is the process's own (`Saved`), how the calls carried out for a process
go with its context (`Held`), and that it is in one list at a time (`Placed`). The last two
speak of the processes that no tick has hit, as `ContextsHold` and `NobodyLost` do.

**TextPool** (`TextPoolProofs`). Beyond the properties, `TInv` needs that blocks are handed
out in order. The arguments are about which bytes a text reaches over: it spoils the blocks
behind its own, never a head in front, and ends before the entry that the allocator reads
next. `TextAssumption` has what the sizes of the code give: an entry is no longer than a
block, and a text that is begun in the last block ends before the buffer does.

**Resources** (`ResourcesProofs`). `RInv` adds to the properties what ties descriptors,
processes and objects together from both sides (`OpenSound`, `PtrsSound`). `OrderInv` adds
that of the queues of one name only the first in `msg_queues_list` is open, and that id 0 is
its first queue; from it `LastCloseDestroys` follows under `OnlyOldestById`: callers
give openResource the id of no queue but the first. With another queue's id TLC finds it
violated.

**MessageQueue** (`MessageQueueProofs`). `Contents` (types, an unnamed queue is empty and not
open, serial numbers grow within a subqueue) proves `MessagesCounted` and `ReadInOrder`
for all callers. `Waiters` (types; until a repeated call, who waits has the queue open and waits
once) proves `PtrsAccounted`, without a hypothesis. `Waiting` proves `NobodyStuck`. Its
heart is `EnoughOthers`: a reader that waits has behind it in the list, or not waiting, at
least as many processes as there are messages in the queue, a writer as many as there are
free places, and one more while anybody does not wait. The hypothesis `FairPlay` is that no
process both reads and writes, and that the capacity is not zero; without the first TLC finds
`NobodyStuck` violated. disastrOS_test.c satisfies both.

`InPlace` proves `ListsHold` and `WaitersAreWaiting`, on the real pointers: the heap holds
sequences (as in `ListUse`), and the processes are the running one, those in the ready list
and those in the waiting list, which are the parents and those whose descriptors wait, each
once and with the queue open. Every step is followed through List_append and List_detach:
a caller that blocks joins the waiting list while it still has the CPU, so when the scheduler
then puts it into the ready list it must be refused, and it is because of a neighbour. The
one hypothesis is that there are parents that wait (`Parent # {}`), as the first process of
disastrOS_test.c does while it waits for its children. Without a parent TLC finds both
invariants violated: List_insert does not recognise a process that is alone in its list and
puts it into a second one.

**TestProgram** (at the end of `MessageQueueProofs`). `NobodyRunsAfterExit` and `NothingLeft`
are proved for every number of iterations, every capacity, that of one message included, all
sizes of the pools, every choice of priorities and lengths, and every placing of the ticks
once both sides have opened the queue. The inductive invariant `ProgramInv` says, until a
repeated call, `Contents` and `Waiters`, above, of the queue, and, while the machine is up,
`Orderly`, whose parts are:

* `Placed`: the pointers hold the three lists; of the processes that live (`Alive`), one has the
  CPU, those that wait, for a child or in `waiting_descriptors`, are in the waiting list, and the
  rest is in the ready list; the zombies that nobody has waited for (`Dead`) are in theirs. A process that
  has blocked and still has the CPU is in the waiting list already, and not alone, because
  init waits;
* `Families` and `Exits`: who is whose child, from how many calls childFunc has made and
  whether it waits (`LeftFor`), and that the zombies are those that have made their last call;
* `Progress`: init runs before childFunc begins and after it has exited, and waits in between;
* `Queue`: who has the queue open is between its open and its close, and a queue that one
  side has closed is there as long as the other has it open. So a close finds it, and the
  second close, whichever side it comes from, ends it.

From `Placed` it follows that the running process is alive, and so has a call left. When init
comes to its shutdown, childFunc has exited (`Progress`), which it did with no child left
(`LeftFor`), and so nobody else lives (`Families`): the lists are empty, nobody has the queue open
or waits, and `Contents` and `Waiters` give the rest of `NothingLeft`. Each call is a lemma.

The hypotheses are `Roles`, who is who, and `Settled`, with its two reasons above. There is
none on the capacity, and none on what a blocked process does: the second write of the producer
(`disastrOS_test.c:47`), or the close or exit of a process that is still blocked, happens as in
the code, and is where the two properties end. `TestProgram_twice`
shows what it does to the lists; with it, an exited process can get the CPU.

`SequenceLemmas` holds what these proofs need about appending, inserting, removing,
searching, concatenating and filtering sequences, and about pointers that link the items of
one, and what insertion and removal do to heaps of such lists, from which both `ListUseProofs`
and `MessageQueueProofs` take it. A recursive function over a number is dealt with by its
least counterexample (`WalkPassesAll`, `ListingPuts`), since the induction theorems of the
library are out of reach.

Only model-checked:

* the liveness properties (`ReadyRuns`, `SleeperWakes`, `Ends`): the prover has no rule for
  fairness and `ENABLED`.

## What is not modelled

* Overflow of the clock, priorities outside 0..9, system call numbers out of range.
* Status output and the log, except for the null pointer that the log lines follow.
* The drafts `msgQueueRead_1.c` and `msgQueueWrite_1.c` and the other test programs, which
  are not built: the models let processes call anything in any order.
* A tick inside a list operation of the interrupt, half of whose links are set: in
  `KernelEntry` the interrupt's list operations are single steps, and what is left of the
  lists between them is what the properties are about.
* Several queues at once whose readers and writers wait, and waiting together with sleeping:
  `MessageQueue` has one queue and nobody sleeps.

## Plan

Done: every part of the kernel that is built has a module, and the test program runs on
them. The invariants and action properties of `Processes`, `PoolAllocator`, `ListUse`,
`KernelEntry`, `TextPool`, `Resources`, `MessageQueue` and `TestProgram` are proved, and so are the
refinements of `ProcessLifecycle`, `BlockPool` and `ListsAsSequences`.

Next: processes with several descriptors of one queue and several queues that processes wait
for, in the model and then in `Waiting` and `InPlace`.
