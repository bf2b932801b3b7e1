----------------------------- MODULE Processes -----------------------------
(***************************************************************************)
(* Process control and scheduling of disastrOS: the process control blocks *)
(* (disastrOS_pcb.c), the system calls spawn, wait, exit, sleep, preempt,  *)
(* fork and shutdown, the timer interrupt, the scheduler it shares with    *)
(* preempt, and the entry code that runs again when nobody is left to run. *)
(*                                                                         *)
(* A system call runs on trap_context, whose signal mask holds SIGALRM     *)
(* back, so each call is one action; the timer interrupt is another and    *)
(* may come between any two of them.                                       *)
(*                                                                         *)
(* Block is the set of PCB blocks of the pool (MAX_NUM_PROCESSES of them). *)
(* The pool is used through its contract only: an allocation returns some  *)
(* free block, or nothing.  A block that is freed keeps its contents, and  *)
(* a parent pointer that still refers to it is not cleared.  List_insert   *)
(* and List_detach are operations on sequences (on sets for the two lists  *)
(* whose order nobody reads); that is right as long as no block is in two  *)
(* lists, which is the invariant OnePlace.                                 *)
(***************************************************************************)
EXTENDS Integers, Sequences, FiniteSets, SequencesExt, FiniteSetsExt

CONSTANTS Block,      \* the PCB blocks of the pool
          NULL,       \* the null pointer
          MaxPid,     \* bound: at most MaxPid processes are ever created
          MaxTime,    \* bound: the clock stands still once it shows MaxTime
          Sleeps,     \* the arguments that sleep is called with
          IdlePids,   \* processes that loop and make no system call
          Logging     \* whether disastrOS_start was given a log file

ASSUME NullAssumption == NULL \notin Block
ASSUME FiniteAssumption == IsFiniteSet(Block) /\ Block # {}
ASSUME BoundAssumption == MaxPid \in Nat \ {0} /\ MaxTime \in Nat
ASSUME InputAssumption == Sleeps \subseteq Nat /\ Logging \in BOOLEAN

VARIABLES
  pid, parent, children,     \* fields of the blocks: identity and family
  status, wait_for, retval,  \* status; pid argument of a wait; return value
  free_pcbs, free_ptrs,      \* the PCB pool; number of free PCBPtr items
  running, ready_list, waiting_list, zombie_list,
  timer_list,                \* [time, pcb] records by awakening time
  disastrOS_time, last_pid, init_pcb,
  machine                    \* "up", "off" or the fault that stopped it

fields == <<pid, parent, children, status, wait_for, retval>>
pools  == <<free_pcbs, free_ptrs>>
lists  == <<ready_list, waiting_list, zombie_list, timer_list>>
vars   == <<fields, pools, running, lists, disastrOS_time, last_pid,
            init_pcb, machine>>

MAX_NUM_PROCESSES == Cardinality(Block)
DSOS_EWAIT  == -5
DSOS_ESLEEP == -7
NotAWait    == -1    \* wait_for of a process whose last call is no wait

Status == {"Invalid", "Ready", "Running", "Waiting", "Zombie"}
Faults == {"spawn_no_pcb", "spawn_no_ptr", "wait_no_ready", "exit_no_ready",
           "exit_no_parent", "exit_reparent_loop", "exit_not_listed",
           "sleep_log_idle", "tick_idle", "restart_no_pcb", "fork"}

-----------------------------------------------------------------------------
(* Helpers.  A definition whose name goes on after that of the next one,   *)
(* as in Elapsed_early for Elapsed, is that one with a slip of the pen in  *)
(* it; no action uses it.  The properties below tell the two apart.        *)

\* A process that is on the CPU and about to trap into the kernel.
CanTrap == machine = "up" /\ running # NULL /\ pid[running] \notin IdlePids

\* The kernel dereferences a null pointer, fails an assertion or loops for
\* ever; what it changed before that is never seen.
Fault(why) ==
  /\ machine' = why
  /\ UNCHANGED <<fields, pools, running, lists, disastrOS_time, last_pid,
                 init_pcb>>

\* PCBPtr_alloc finds a free item.
PtrAvailable == free_ptrs > 0

\* PCB_alloc, with the parent and status its caller stores next.
PCB_alloc_samepid(b, st, par) ==
  /\ free_pcbs' = free_pcbs \ {b}
  /\ pid' = [pid EXCEPT ![b] = last_pid]
  /\ last_pid' = last_pid
  /\ parent' = [parent EXCEPT ![b] = par]
  /\ status' = [status EXCEPT ![b] = st]
PCB_alloc_ahead(b, st, par) ==
  /\ free_pcbs' = free_pcbs \ {b}
  /\ pid' = [pid EXCEPT ![b] = last_pid + 1]
  /\ last_pid' = last_pid + 1
  /\ parent' = [parent EXCEPT ![b] = par]
  /\ status' = [status EXCEPT ![b] = st]
PCB_alloc(b, st, par) ==
  /\ free_pcbs' = free_pcbs \ {b}
  /\ pid' = [pid EXCEPT ![b] = last_pid]
  /\ last_pid' = last_pid + 1
  /\ parent' = [parent EXCEPT ![b] = par]
  /\ status' = [status EXCEPT ![b] = st]

\* TimerList_add: a new timer goes behind those that are due no later.
InsertionPoint_front(wake, k) == k = 0
InsertionPoint(wake, k) ==
  /\ \A i \in 1..k : timer_list[i].time <= wake
  /\ k < Len(timer_list) => wake < timer_list[k + 1].time

\* The first n timers have elapsed at time t (TimerList_current).
Elapsed_early(n, t) ==
  /\ \A i \in 1..n : timer_list[i].time <= t + 1
  /\ n < Len(timer_list) => t + 1 < timer_list[n + 1].time
Elapsed(n, t) ==
  /\ \A i \in 1..n : timer_list[i].time <= t
  /\ n < Len(timer_list) => t < timer_list[n + 1].time

\* The sleepers that the first n timers wake, in the order of the timers.
Woken(n) == [i \in 1..n |-> timer_list[i].pcb]

\* What TimerList_removeCurrent leaves of the timers after n calls.
TimersAfter_none(n) == timer_list
TimersAfter_one_more(n) == SubSeq(timer_list, n + 2, Len(timer_list))
TimersAfter(n) == SubSeq(timer_list, n + 1, Len(timer_list))

\* The return value of the call that process p is in.
Return_to_running(p, n) == retval' = [retval EXCEPT ![running] = n]
Return(p, n) == retval' = [retval EXCEPT ![p] = n]

\* The children list of the exiting process moves to the end of init's.
Reparented_copied == [children EXCEPT ![init_pcb] = @ \o children[running]]
Reparented ==
  [children EXCEPT ![init_pcb] = @ \o children[running],
                   ![running]  = <<>>]

\* The status words once the running process is a zombie.
Died_unmarked == status
Died == [status EXCEPT ![running] = "Zombie"]

\* The exiting process has a parent that waits for it, or for anybody.
ParentAwaits_any_status == wait_for[parent[running]] \in {0, pid[running]}
ParentAwaits_anybody ==
  LET p == parent[running] IN status[p] = "Waiting" /\ wait_for[p] = 0
ParentAwaits ==
  LET p == parent[running]
  IN  status[p] = "Waiting" /\ wait_for[p] \in {0, pid[running]}

\* PCBPtr_byPID: i is the first position in list kids with that pid.
ByPID(kids, n, i) ==
  /\ pid[kids[i]] = n
  /\ \A j \in 1..(i - 1) : pid[kids[j]] # n

\* The child at position i is one wait(n) looks for.
Sought(kids, n, i) ==
  IF n = 0 THEN status[kids[i]] = "Zombie" ELSE pid[kids[i]] = n

\* The scan of the children list by wait(n) stops at position i: at the first
\* child it looks for, else at the last child.
ScanStops(kids, n, i) ==
  /\ \A j \in 1..(i - 1) : ~Sought(kids, n, j)
  /\ Sought(kids, n, i) \/ i = Len(kids)

\* Timers of a process that dies are dropped.
WithoutTimersOf(b) ==
  IF \E i \in DOMAIN timer_list : timer_list[i].pcb = b
  THEN SelectSeq(timer_list, LAMBDA t : t.pcb # b)
  ELSE timer_list

-----------------------------------------------------------------------------
(* disastrOS_start: the first process runs, every other block is free.     *)

Init ==
  \E b \in Block :
    /\ pid = [x \in Block |-> 0]
    /\ parent = [x \in Block |-> NULL]
    /\ children = [x \in Block |-> <<>>]
    /\ status = [x \in Block |-> IF x = b THEN "Running" ELSE "Invalid"]
    /\ wait_for = [x \in Block |-> NotAWait]
    /\ retval = [x \in Block |-> 0]
    /\ free_pcbs = Block \ {b}
    /\ free_ptrs = MAX_NUM_PROCESSES
    /\ running = b
    /\ ready_list = <<>>
    /\ waiting_list = {}
    /\ zombie_list = {}
    /\ timer_list = <<>>
    /\ disastrOS_time = 0
    /\ last_pid = 1
    /\ init_pcb = b
    /\ machine = "up"

-----------------------------------------------------------------------------
(* internal_spawn                                                          *)

SpawnChild(c) ==
  /\ last_pid < MaxPid
  /\ PCB_alloc(c, "Ready", running)
  /\ children' = [children EXCEPT ![c] = <<>>, ![running] = Append(@, c)]
  /\ free_ptrs' = free_ptrs - 1
  /\ ready_list' = Append(ready_list, c)
  /\ Return(running, last_pid)
  /\ UNCHANGED <<wait_for, running, waiting_list, zombie_list, timer_list,
                 disastrOS_time, init_pcb, machine>>

Spawn ==
  /\ CanTrap
  /\ \/ free_pcbs = {} /\ Fault("spawn_no_pcb")
     \/ free_pcbs # {} /\ ~PtrAvailable /\ Fault("spawn_no_ptr")
     \/ PtrAvailable /\ \E c \in free_pcbs : SpawnChild(c)

-----------------------------------------------------------------------------
(* internal_wait                                                           *)

WaitFails ==
  /\ children[running] = <<>>
  /\ Return(running, DSOS_EWAIT)
  /\ UNCHANGED <<pid, parent, children, status, wait_for, pools, running,
                 lists, disastrOS_time, last_pid, init_pcb, machine>>

\* The child at position i is a zombie: its PCB and its PCBPtr are freed.
Reap_keeps_ptr(i) ==
  LET c == children[running][i]
  IN  /\ status[c] = "Zombie"
      /\ children' = [children EXCEPT ![running] = RemoveAt(@, i)]
      /\ zombie_list' = zombie_list \ {c}
      /\ Return(running, pid[c])
      /\ free_pcbs' = free_pcbs \cup {c}
      /\ UNCHANGED <<pid, parent, status, wait_for, free_ptrs, running,
                     ready_list, waiting_list, timer_list, disastrOS_time,
                     last_pid, init_pcb, machine>>
Reap(i) ==
  LET c == children[running][i]
  IN  /\ status[c] = "Zombie"
      /\ children' = [children EXCEPT ![running] = RemoveAt(@, i)]
      /\ zombie_list' = zombie_list \ {c}
      /\ Return(running, pid[c])
      /\ free_pcbs' = free_pcbs \cup {c}
      /\ free_ptrs' = free_ptrs + 1
      /\ UNCHANGED <<pid, parent, status, wait_for, running, ready_list,
                     waiting_list, timer_list, disastrOS_time, last_pid,
                     init_pcb, machine>>

BlockInWait(n) ==
  /\ ready_list # <<>>
  /\ status' = [status EXCEPT ![running] = "Waiting"]
  /\ wait_for' = [wait_for EXCEPT ![running] = n]
  /\ waiting_list' = waiting_list \cup {running}
  /\ running' = Head(ready_list)
  /\ ready_list' = Tail(ready_list)
  /\ UNCHANGED <<pid, parent, children, retval, pools, zombie_list,
                 timer_list, disastrOS_time, last_pid, init_pcb, machine>>

\* disastrOS_wait(n, ...): n is a pid, or 0 for any child.
Wait(n) ==
  /\ CanTrap
  /\ \/ WaitFails
     \/ \E i \in DOMAIN children[running] :
          /\ ScanStops(children[running], n, i)
          /\ \/ Reap(i)
             \/ /\ status[children[running][i]] # "Zombie"
                /\ \/ BlockInWait(n)
                   \/ ready_list = <<>> /\ Fault("wait_no_ready")

-----------------------------------------------------------------------------
(* internal_exit                                                           *)

\* The parent waits for this process: it gets the pid and the CPU, and the
\* block is freed.  The PCBPtr taken off the parent's list is not.
ExitToParent(i) ==
  LET p == parent[running]
  IN  /\ ByPID(Reparented[p], pid[running], i)
      /\ children' = [Reparented EXCEPT ![p] = RemoveAt(@, i)]
      /\ status' = [Died EXCEPT ![p] = "Running"]
      /\ waiting_list' = waiting_list \ {p}
      /\ Return(p, pid[running])
      /\ timer_list' = WithoutTimersOf(running)
      /\ free_pcbs' = free_pcbs \cup {running}
      /\ running' = p
      /\ UNCHANGED <<pid, parent, wait_for, free_ptrs, ready_list,
                     zombie_list, disastrOS_time, last_pid, init_pcb, machine>>

ExitToZombie ==
  /\ ready_list # <<>>
  /\ children' = Reparented
  /\ zombie_list' = zombie_list \cup {running}
  /\ status' = [Died EXCEPT ![Head(ready_list)] = "Running"]
  /\ running' = Head(ready_list)
  /\ ready_list' = Tail(ready_list)
  /\ UNCHANGED <<pid, parent, wait_for, retval, pools, waiting_list,
                 timer_list, disastrOS_time, last_pid, init_pcb, machine>>

\* init would move its children to the end of its own list, for ever.
ReparentsForEver == running = init_pcb /\ children[running] # <<>>

Exit ==
  /\ CanTrap
  /\ \/ ReparentsForEver /\ Fault("exit_reparent_loop")
     \/ /\ ~ReparentsForEver
        /\ parent[running] = NULL
        /\ Fault("exit_no_parent")
     \/ /\ parent[running] # NULL
        /\ ParentAwaits
        /\ \/ \E i \in DOMAIN Reparented[parent[running]] : ExitToParent(i)
           \/ /\ \A i \in DOMAIN Reparented[parent[running]] :
                   pid[Reparented[parent[running]][i]] # pid[running]
              /\ Fault("exit_not_listed")
     \/ /\ parent[running] # NULL
        /\ ~ParentAwaits
        /\ \/ ExitToZombie
           \/ ready_list = <<>> /\ Fault("exit_no_ready")

-----------------------------------------------------------------------------
(* internal_sleep                                                          *)

SleepFails ==
  /\ Len(timer_list) >= MAX_NUM_PROCESSES
  /\ Return(running, DSOS_ESLEEP)
  /\ UNCHANGED <<pid, parent, children, status, wait_for, pools, running,
                 lists, disastrOS_time, last_pid, init_pcb, machine>>

\* The process sleeps until wake; with nobody ready the CPU has no process.
FallAsleep(wake) ==
  /\ Len(timer_list) < MAX_NUM_PROCESSES
  /\ ready_list # <<>> \/ ~Logging
  /\ \E k \in 0..Len(timer_list) :
       /\ InsertionPoint(wake, k)
       /\ timer_list' =
            InsertAt(timer_list, k + 1, [time |-> wake, pcb |-> running])
  /\ status' = [status EXCEPT ![running] = "Waiting"]
  /\ wait_for' = [wait_for EXCEPT ![running] = NotAWait]
  /\ waiting_list' = waiting_list \cup {running}
  /\ \/ /\ ready_list # <<>>
        /\ running' = Head(ready_list)
        /\ ready_list' = Tail(ready_list)
     \/ /\ ready_list = <<>>
        /\ running' = NULL
        /\ UNCHANGED ready_list
  /\ UNCHANGED <<pid, parent, children, retval, pools, zombie_list,
                 disastrOS_time, last_pid, init_pcb, machine>>

Sleep(cycles) ==
  /\ CanTrap
  /\ disastrOS_time + cycles <= MaxTime
  /\ \/ SleepFails
     \/ FallAsleep(disastrOS_time + cycles)
     \/ /\ Len(timer_list) < MAX_NUM_PROCESSES
        /\ ready_list = <<>> /\ Logging
        /\ Fault("sleep_log_idle")

-----------------------------------------------------------------------------
(* internal_schedule: the elapsed sleepers go to the front of the ready    *)
(* list, and the running process gives way to the head of that list.       *)

Rotate_lost(queue) ==
  running' = Head(queue) /\ ready_list' = Tail(queue)
Rotate_to_front(queue) ==
  running' = Head(queue) /\ ready_list' = <<running>> \o Tail(queue)
Rotate(queue) ==
  /\ running' = Head(queue)
  /\ ready_list' = Append(Tail(queue), running)

Schedule(t) ==
  \E n \in 0..Len(timer_list) :
    LET queue == Woken(n) \o ready_list
    IN  /\ Elapsed(n, t)
        /\ timer_list' = TimersAfter(n)
        /\ waiting_list' = waiting_list \ ToSet(Woken(n))
        /\ \/ /\ queue = <<>>
              /\ UNCHANGED <<running, ready_list, status>>
           \/ /\ queue # <<>>
              /\ Rotate(queue)
              /\ status' = [b \in Block |->
                   CASE b = Head(queue) -> "Running"
                     [] b # Head(queue) /\ b \in ToSet(Woken(n)) \cup {running}
                                        -> "Ready"
                     [] OTHER -> status[b]]
        /\ UNCHANGED <<pid, parent, children, wait_for, retval, pools,
                       zombie_list, last_pid, init_pcb, machine>>

\* internal_preempt
Preempt ==
  /\ CanTrap
  /\ Schedule(disastrOS_time)
  /\ UNCHANGED disastrOS_time

\* timerHandler and timerInterrupt: with no process on the CPU the handler
\* saves the context through a null pointer.
TimerTick ==
  /\ machine = "up"
  /\ \/ running = NULL /\ Fault("tick_idle")
     \/ LET now == IF disastrOS_time < MaxTime
                   THEN disastrOS_time + 1 ELSE disastrOS_time
        IN  /\ running # NULL
            /\ disastrOS_time' = now
            /\ Schedule(now)

-----------------------------------------------------------------------------
(* internal_fork, internal_shutdown, and the end of trap_context           *)

Fork == CanTrap /\ Fault("fork")

Shutdown ==
  /\ CanTrap
  /\ machine' = "off"
  /\ UNCHANGED <<fields, pools, running, lists, disastrOS_time, last_pid,
                 init_pcb>>

\* disastrOS_trap returns when nobody runs, its context continues in
\* main_context, and disastrOS_start creates another first process.
Restart ==
  /\ machine = "up" /\ running = NULL
  /\ \/ free_pcbs = {} /\ Fault("restart_no_pcb")
     \/ \E b \in free_pcbs :
          /\ last_pid < MaxPid
          /\ PCB_alloc(b, "Running", NULL)
          /\ children' = [children EXCEPT ![b] = <<>>]
          /\ running' = b
          /\ init_pcb' = b
          /\ UNCHANGED <<wait_for, retval, free_ptrs, lists, disastrOS_time,
                         machine>>

\* After exit(0) or a fault nothing happens any more.
Halted == machine # "up" /\ UNCHANGED vars

Next ==
  \/ Spawn
  \/ \E n \in 0..MaxPid : Wait(n)
  \/ Exit
  \/ \E c \in Sleeps : Sleep(c)
  \/ Preempt
  \/ TimerTick
  \/ Fork
  \/ Shutdown
  \/ Restart
  \/ Halted

Spec == Init /\ [][Next]_vars

\* setitimer rearms the alarm for ever: ticks keep coming.
FairSpec == Spec /\ WF_vars(TimerTick)

-----------------------------------------------------------------------------
(* Type invariant                                                          *)

Timer == [time : 0..MaxTime, pcb : Block]

\* Every field and list of the kernel holds values of its kind.
TypeOK ==
  /\ pid \in [Block -> 0..(MaxPid - 1)]
  /\ parent \in [Block -> Block \cup {NULL}]
  /\ children \in [Block -> Seq(Block)]
  /\ status \in [Block -> Status]
  /\ wait_for \in [Block -> 0..MaxPid \cup {NotAWait}]
  /\ retval \in [Block -> 0..MaxPid \cup {DSOS_EWAIT, DSOS_ESLEEP}]
  /\ free_pcbs \subseteq Block
  /\ free_ptrs \in Nat
  /\ running \in Block \cup {NULL}
  /\ ready_list \in Seq(Block)
  /\ waiting_list \subseteq Block
  /\ zombie_list \subseteq Block
  /\ timer_list \in Seq(Timer)
  /\ disastrOS_time \in 0..MaxTime
  /\ last_pid \in 1..MaxPid
  /\ init_pcb \in Block
  /\ machine \in {"up", "off"} \cup Faults

-----------------------------------------------------------------------------
(* Safety                                                                  *)

OnCpu == {running} \ {NULL}
Live  == Block \ free_pcbs
Asleep == {b \in waiting_list : wait_for[b] = NotAWait}

\* Every PCB is in exactly one place: on the CPU, once in the ready list, in
\* the waiting list, in the zombie list, or in the pool.  The intrusive list
\* links of a PCB (linked_list.c) serve one list at a time.
OnePlace ==
  /\ IsInjective(ready_list)
  /\ OnCpu \cap ToSet(ready_list) = {}
  /\ OnCpu \cap waiting_list = {}
  /\ OnCpu \cap zombie_list = {}
  /\ OnCpu \cap free_pcbs = {}
  /\ ToSet(ready_list) \cap waiting_list = {}
  /\ ToSet(ready_list) \cap zombie_list = {}
  /\ ToSet(ready_list) \cap free_pcbs = {}
  /\ waiting_list \cap zombie_list = {}
  /\ waiting_list \cap free_pcbs = {}
  /\ zombie_list \cap free_pcbs = {}
  /\ Block = OnCpu \cup ToSet(ready_list) \cup waiting_list \cup zombie_list
              \cup free_pcbs

\* The status word that wait and exit decide by agrees with the list the
\* process is in: exit detaches a parent from the waiting list, and wait a
\* child from the zombie list, on the strength of the status alone.
StatusMatchesList ==
  /\ waiting_list = {b \in Block : status[b] = "Waiting"}
  /\ zombie_list = {b \in Live : status[b] = "Zombie"}

\* The timers are sorted, and exactly the processes that wait in sleep have
\* one, and one each: internal_schedule detaches every timer's process from
\* the waiting list without looking.
SleepersHaveTimers ==
  /\ \A i, j \in DOMAIN timer_list :
       /\ i < j => timer_list[i].time <= timer_list[j].time
       /\ i # j => timer_list[i].pcb # timer_list[j].pcb
  /\ Asleep = {timer_list[i].pcb : i \in DOMAIN timer_list}

\* The pool of timers, as large as that of processes, is never the reason
\* for a sleep to fail (the DSOS_ESLEEP of sleep.c).
TimerPoolSuffices ==
  machine = "up" /\ running # NULL => Len(timer_list) < MAX_NUM_PROCESSES

\* Children lists and parent pointers describe one forest of live processes:
\* only blocks in use are listed, each once; a listed process is with its
\* parent or was adopted by a first process; first processes are not listed;
\* everybody else is; a process that terminated has no children left; and
\* init_pcb, which adopts, is a first process that has not terminated.
FamilyTree ==
  /\ init_pcb \in Live \ zombie_list
  /\ parent[init_pcb] = NULL
  /\ \A p \in Block : IsInjective(children[p])
  /\ \A p, q \in Block :
       p # q => ToSet(children[p]) \cap ToSet(children[q]) = {}
  /\ \A p \in Block : \A c \in ToSet(children[p]) :
       /\ c \in Live
       /\ parent[c] # NULL
       /\ parent[c] = p \/ parent[p] = NULL
  /\ \A c \in Live : parent[c] = NULL \/ \E p \in Live : c \in ToSet(children[p])
  /\ \A b \in free_pcbs \cup zombie_list : children[b] = <<>>

\* No two processes in use have the same pid, and all had theirs from last_pid:
\* exit and wait find a process by its pid.
UniquePids ==
  /\ \A b, c \in Live : b # c => pid[b] # pid[c]
  /\ \A b \in Live : pid[b] < last_pid

\* No lost wake-up: a process blocked in wait has no terminated child that it
\* waits for, among the children it spawned itself.
NoMissedChild ==
  \A p \in waiting_list : wait_for[p] # NotAWait =>
    \A c \in ToSet(children[p]) :
      status[c] = "Zombie" /\ wait_for[p] \in {0, pid[c]} => parent[c] # p

-----------------------------------------------------------------------------
(* What a step may never do                                                *)

\* A block goes back to the pool only when the process that has it in its
\* children list is told its pid, and has the CPU then.
ReapedByItsKeeper ==
  [][\A b \in Live : b \in free_pcbs' =>
       \E p \in Live : /\ b \in ToSet(children[p])
                        /\ retval'[p] = pid[b]
                        /\ running' = p]_vars

\* Nobody leaves the waiting list without its reason: a sleeper when its
\* time has come, a process in wait with the pid of a child that is gone,
\* the one it asked for if it asked for one.
WokenForAReason ==
  [][\A b \in waiting_list \ waiting_list' :
       \/ /\ b \in Asleep
          /\ \E i \in DOMAIN timer_list :
               timer_list[i].pcb = b /\ timer_list[i].time <= disastrOS_time'
       \/ /\ wait_for[b] \in {0, retval'[b]}
          /\ \E c \in ToSet(children[b]) :
               pid[c] = retval'[b] /\ c \in free_pcbs']_vars

\* The items of the children lists: the i-th item of the list of b.
ListItems == UNION {{b} \X DOMAIN children[b] : b \in Block}

\* PCBPtrs that are neither in their pool nor in a children list.
LostPtrs == MAX_NUM_PROCESSES - free_ptrs - Cardinality(ListItems)

\* The one way to lose a PCBPtr is to exit while the parent waits, which frees
\* the block of the process that has the CPU: spawning, reaping, adoption and
\* the reuse of blocks never lose one, nor do they get a lost one back.
PtrsLostAtHandover ==
  [][LostPtrs' = LostPtrs +
       (IF running # NULL /\ running \in free_pcbs' THEN 1 ELSE 0)]_vars

-----------------------------------------------------------------------------
(* Liveness                                                                *)

\* A process in the ready list gets the CPU (or the machine stops), although
\* sleepers that wake overtake it.
ReadyRuns ==
  \A b \in Block : b \in ToSet(ready_list) ~> running = b \/ machine # "up"

\* A process that sleeps is woken (or the machine stops).
SleeperWakes ==
  \A b \in Block : b \in Asleep ~> b \notin waiting_list \/ machine # "up"

-----------------------------------------------------------------------------
(* With a process that never makes a system call                           *)

\* Once such a process exists (pid 1 here), the CPU is never without a process,
\* and no call finds the ready list empty.
IdleKeepsCpuBusy ==
  last_pid > 1 =>
    /\ running # NULL
    /\ machine \notin {"wait_no_ready", "exit_no_ready", "tick_idle",
                       "sleep_log_idle", "restart_no_pcb"}

=============================================================================
