---------------------------- MODULE KernelEntry ----------------------------
(***************************************************************************)
(* How the CPU gets into the kernel and out of it: disastrOS_start, the    *)
(* system call (disastrOS_syscall, disastrOS_trap), the timer signal       *)
(* (timerHandler, timerInterrupt) and the contexts they save and load.     *)
(*                                                                         *)
(* The other modules take a call or an interrupt for one step.  Here it is *)
(* several, and SIGALRM may come between any two of them unless it is      *)
(* blocked, as it is in the trap only.  System calls and interrupts run on *)
(* one system_stack, each from its top, over whatever is there: a context  *)
(* saved while on that stack is overwritten by what is started then.       *)
(*                                                                         *)
(* swapcontext saves the registers and then sets the signal mask;          *)
(* setcontext sets the mask and then loads the registers: so does the C    *)
(* library on the machine the system is for, and a signal that was blocked *)
(* is delivered between the two.                                           *)
(*                                                                         *)
(* A process is its PCB; which process comes next is left open, the order  *)
(* of the lists being the matter of Processes.  Shutdown is one step.      *)
(***************************************************************************)
EXTENDS Integers, FiniteSets

CONSTANTS Proc, NULL,
          MaxCalls   \* bound: system calls that a process makes

ASSUME ProcAssumption ==
  IsFiniteSet(Proc) /\ NULL \notin Proc /\ MaxCalls \in Nat

VARIABLES
  cpu,         \* what is executed: where, for which process, see Context
  blocked,     \* whether SIGALRM is blocked
  activation,  \* what was last started on system_stack and has not left it
  armed,       \* whether setupSignals has started the timer
  running,     \* the global variable
  cpu_state,   \* the context saved in each PCB
  born, gone,  \* processes that were created; those that have exited
  ready, sleeping, waiting,
  taken,       \* next_process: detached from the ready list, not yet running
  handled,     \* history: how often a call of the process was carried out
  hit,         \* history: processes harmed by a tick in the kernel (Tick)
  machine

lists == <<born, gone, ready, sleeping, waiting>>
vars  == <<cpu, blocked, activation, armed, running, cpu_state, lists, taken,
           handled, hit, machine>>

\* A context, and the state of the CPU, is a place in the program, the process
\* on whose behalf it is and the number of calls from which that has returned.
Context(at, p, n) == [at |-> at, of |-> p, returned |-> n]
User(p, n)  == Context("user", p, n)
OVERWRITTEN == Context("system_stack", NULL, 0)

Places == {"start", "first", "made",                 \* disastrOS_start
           "user",                                   \* the process's own code
           "entering",                               \* in swapcontext to the trap
           "trap", "schedule", "switch",             \* in the kernel
           "leaving"}                                \* in setcontext, mask set

Stops == {"no_pcb", "no_running", "lost", "wait_no_ready", "exit_no_ready",
          "off"}

Goto(at) == cpu' = [cpu EXCEPT !.at = at]

-----------------------------------------------------------------------------
(* disastrOS_start, entered again through uc_link when nobody is running   *)

Init ==
  /\ cpu = Context("start", NULL, 0)
  /\ blocked = FALSE /\ activation = "none" /\ armed = FALSE
  /\ running = NULL
  /\ cpu_state = [p \in Proc |-> OVERWRITTEN]
  /\ born = {} /\ gone = {} /\ ready = {} /\ sleeping = {} /\ waiting = {}
  /\ taken = NULL
  /\ handled = [p \in Proc |-> 0] /\ hit = {}
  /\ machine = "up"

Stop(why) ==
  /\ machine' = why
  /\ UNCHANGED <<cpu, blocked, activation, armed, running, cpu_state, lists,
                 taken, handled, hit>>

AllocFirst ==
  /\ machine = "up" /\ cpu.at = "start"
  /\ \/ born = Proc /\ Stop("no_pcb")
     \/ \E p \in Proc \ born :
          /\ born' = born \cup {p}
          /\ running' = p
          /\ cpu' = Context("first", p, 0)
          /\ UNCHANGED <<blocked, activation, armed, cpu_state, gone, ready,
                         sleeping, waiting, taken, handled, hit, machine>>

MakeFirst ==
  /\ machine = "up" /\ cpu.at = "first"
  /\ cpu_state' = [cpu_state EXCEPT ![running] = User(running, 0)]
  /\ armed' = TRUE
  /\ Goto("made")
  /\ UNCHANGED <<blocked, activation, running, lists, taken, handled, hit,
                 machine>>

-----------------------------------------------------------------------------
(* disastrOS_syscall and disastrOS_trap                                    *)

\* swapcontext saves the point to which the call returns ...  (As in the other
\* modules, ReturnPoint_again is ReturnPoint with a slip in it.)
ReturnPoint_again == User(running, cpu.returned)
ReturnPoint == User(running, cpu.returned + 1)

Enter ==
  /\ machine = "up" /\ cpu.at = "user" /\ cpu.returned < MaxCalls
  /\ cpu_state' = [cpu_state EXCEPT ![running] = ReturnPoint]
  /\ Goto("entering")
  /\ UNCHANGED <<blocked, activation, armed, running, lists, taken, handled,
                 hit, machine>>

\* ... and then sets the mask of trap_context and goes there.
TrapMask_empty == FALSE
TrapMask == TRUE

Trap ==
  /\ machine = "up" /\ cpu.at = "entering"
  /\ blocked' = TrapMask
  /\ activation' = "trap"
  /\ Goto("trap")
  /\ UNCHANGED <<armed, running, cpu_state, lists, taken, handled, hit, machine>>

\* The handler of the call is run: counted once more for the caller (beyond
\* MaxCalls + 1, which a call carried out for ever reaches, no more).
Handle ==
  /\ machine = "up" /\ cpu.at = "trap"
  /\ handled' = [handled EXCEPT ![running] = IF @ > MaxCalls THEN @ ELSE @ + 1]
  /\ UNCHANGED <<armed, hit>>

\* setcontext of the one that runs now begins, its mask first.
Leave == Goto("leaving") /\ blocked' = FALSE /\ UNCHANGED activation

\* A call that only returns.
Return ==
  /\ Handle
  /\ Leave
  /\ UNCHANGED <<running, cpu_state, lists, taken, machine>>

Spawn ==
  /\ Handle
  /\ \E p \in Proc \ born :
       /\ born' = born \cup {p}
       /\ ready' = ready \cup {p}
       /\ cpu_state' = [cpu_state EXCEPT ![p] = User(p, 0)]
  /\ Leave
  /\ UNCHANGED <<running, gone, sleeping, waiting, taken, machine>>

Preempt ==
  /\ Handle
  /\ Goto("schedule")
  /\ UNCHANGED <<blocked, activation, running, cpu_state, lists, taken, machine>>

\* The caller has left the CPU: the head of the ready list is detached for it.
TakeNext(left) ==
  \E p \in left : taken' = p /\ ready' = left \ {p} /\ Goto("switch")

\* sleep: with no process ready, nobody is running.
Sleep ==
  /\ Handle
  /\ sleeping' = sleeping \cup {running}
  /\ \/ ready = {} /\ running' = NULL /\ Leave /\ UNCHANGED <<ready, taken>>
     \/ TakeNext(ready) /\ UNCHANGED <<running, blocked, activation>>
  /\ UNCHANGED <<cpu_state, born, gone, waiting, machine>>

\* wait for a child that has not exited: there must be a process ready.
Wait ==
  /\ Handle
  /\ waiting' = waiting \cup {running}
  /\ \/ ready = {} /\ machine' = "wait_no_ready" /\ UNCHANGED <<cpu, ready, taken>>
     \/ TakeNext(ready) /\ UNCHANGED machine
  /\ UNCHANGED <<blocked, activation, running, cpu_state, born, gone, sleeping>>

\* exit: a parent that waits runs at once, else the next one that is ready.
Exit ==
  /\ Handle
  /\ gone' = gone \cup {running}
  /\ \/ \E p \in waiting :
          /\ waiting' = waiting \ {p} /\ running' = p
          /\ Leave
          /\ UNCHANGED <<ready, taken, machine>>
     \/ /\ ready = {}
        /\ machine' = "exit_no_ready"
        /\ UNCHANGED <<cpu, blocked, activation, running, ready, waiting, taken>>
     \/ /\ TakeNext(ready)
        /\ UNCHANGED <<running, blocked, activation, waiting, machine>>
  /\ UNCHANGED <<cpu_state, born, sleeping>>

Shutdown == machine = "up" /\ cpu.at = "trap" /\ Stop("off")

-----------------------------------------------------------------------------
(* internal_schedule, in the trap for preempt and in the interrupt, and    *)
(* the last assignments of wait, sleep and exit                            *)

Wake ==
  /\ machine = "up" /\ cpu.at = "schedule"
  /\ \E p \in sleeping : sleeping' = sleeping \ {p} /\ ready' = ready \cup {p}
  /\ UNCHANGED <<cpu, blocked, activation, armed, running, cpu_state, born,
                 gone, waiting, taken, handled, hit, machine>>

Schedule ==
  /\ machine = "up" /\ cpu.at = "schedule"
  /\ \/ ready = {} /\ Leave /\ UNCHANGED <<ready, taken>>
     \/ TakeNext(ready) /\ UNCHANGED <<blocked, activation>>
  /\ UNCHANGED <<armed, running, cpu_state, born, gone, sleeping, waiting,
                 handled, hit, machine>>

Switch ==
  /\ machine = "up" /\ cpu.at = "switch"
  /\ ready' = ready \cup ({running} \ (sleeping \cup waiting \cup gone))
  /\ running' = taken
  /\ taken' = NULL
  /\ Leave
  /\ UNCHANGED <<armed, cpu_state, born, gone, sleeping, waiting, handled, hit,
                 machine>>

-----------------------------------------------------------------------------
(* setcontext of running->cpu_state, by the trap, the interrupt and        *)
(* disastrOS_start                                                         *)

Loaded_caller == cpu_state[cpu.of]
Loaded == cpu_state[running]

\* A frame below that of disastrOS_start, as the one in which a tick after
\* makecontext is handled, may or may not be still there.
Load ==
  /\ machine = "up" /\ cpu.at \in {"made", "leaving"} /\ running # NULL
  /\ \/ Loaded.at \in {"system_stack", "made"} /\ Stop("lost")
     \/ /\ Loaded.at # "system_stack"
        /\ cpu' = Loaded
        /\ activation' = "none"
        /\ UNCHANGED <<blocked, armed, running, cpu_state, lists, taken,
                       handled, hit, machine>>

\* The trap returns to main_context when nobody is running.
StartAgain ==
  /\ machine = "up" /\ cpu.at = "leaving" /\ running = NULL
  /\ cpu' = Context("start", NULL, 0)
  /\ activation' = "none"
  /\ UNCHANGED <<blocked, armed, running, cpu_state, lists, taken, handled, hit,
                 machine>>

-----------------------------------------------------------------------------
(* timerHandler, on the stack that is in use, and timerInterrupt, from the *)
(* top of system_stack.  A tick in a process's own code does no harm, nor  *)
(* does one before a first process has its context (or before swapcontext  *)
(* has saved all registers).  Elsewhere running->cpu_state is lost or      *)
(* leads back into the kernel, and during an interrupt the process that    *)
(* was taken from the ready list is forgotten.                             *)

OnSystemStack == cpu.at \in {"trap", "schedule", "switch", "leaving"}

Tick ==
  /\ machine = "up" /\ armed /\ ~blocked
  /\ \/ running = NULL /\ Stop("no_running")
     \/ /\ running # NULL
        /\ cpu_state' = [cpu_state EXCEPT ![running] =
                           IF OnSystemStack THEN OVERWRITTEN ELSE cpu]
        /\ hit' = hit \cup (IF cpu.at \in {"user", "first"} THEN {} ELSE {running})
                      \cup (IF activation = "interrupt" THEN {taken} \ {NULL}
                            ELSE {})
        /\ cpu' = Context("schedule", running, 0)
        /\ activation' = "interrupt"
        /\ taken' = NULL
        /\ UNCHANGED <<blocked, armed, running, lists, handled, machine>>

Halted == machine # "up" /\ UNCHANGED vars

Next ==
  \/ AllocFirst \/ MakeFirst
  \/ Enter \/ Trap
  \/ Return \/ Spawn \/ Preempt \/ Sleep \/ Wait \/ Exit \/ Shutdown
  \/ Wake \/ Schedule \/ Switch
  \/ Load \/ StartAgain
  \/ Tick
  \/ Halted

Spec == Init /\ [][Next]_vars

-----------------------------------------------------------------------------
Contexts == [at : Places \cup {"system_stack"}, of : Proc \cup {NULL},
             returned : 0..MaxCalls]

\* Every variable holds values of its kind.
TypeOK ==
  /\ cpu \in Contexts /\ cpu.at # "system_stack"
  /\ blocked \in BOOLEAN /\ activation \in {"none", "trap", "interrupt"}
  /\ armed \in BOOLEAN
  /\ running \in Proc \cup {NULL} /\ taken \in Proc \cup {NULL}
  /\ cpu_state \in [Proc -> Contexts]
  /\ gone \subseteq born /\ born \subseteq Proc /\ hit \subseteq born
  /\ ready \subseteq born /\ sleeping \subseteq born /\ waiting \subseteq born
  /\ handled \in [Proc -> 0..(MaxCalls + 1)]
  /\ machine \in {"up"} \cup Stops

Unharmed == born \ (gone \cup hit)

\* A process that no tick in the kernel has hit is resumed where it left, and
\* each of its calls is carried out once: whatever befell other processes, its
\* saved context is its own, at the return from its last call handled so far.
ContextsHold ==
  machine = "up" =>
    \A p \in Unharmed :
      CASE cpu.of = p /\ cpu.at = "user"                -> cpu = User(p, handled[p])
        [] cpu.of = p /\ cpu.at \in {"entering", "trap"}
                                     -> cpu_state[p] = User(p, handled[p] + 1)
        [] cpu.of = p /\ cpu.at = "first"               -> handled[p] = 0
        [] OTHER -> cpu_state[p] \in {User(p, handled[p]), Context("first", p, 0)}

\* No such process gets lost either: at any moment of a call or an interrupt it
\* is the running one, the one about to run, or in exactly one list.
NobodyLost ==
  /\ TypeOK
  /\ machine = "up" =>
       \A p \in Unharmed :
         \/ p \in {running, taken}
         \/ Cardinality({s \in {"ready", "sleeping", "waiting"} :
                           p \in CASE s = "ready" -> ready
                                   [] s = "sleeping" -> sleeping
                                   [] s = "waiting" -> waiting}) = 1

\* Whose code is on the CPU is the running process: the arguments of a call are
\* put into running's PCB, and its result is taken from there after the switch.
CpuIsRunnings ==
  machine = "up" /\ cpu.at \in {"user", "entering", "trap"} => running = cpu.of

-----------------------------------------------------------------------------
(* What comments of the source say of the program                          *)

\* disastrOS.c:238: the alarm is disabled during a system trap; so a trap gets
\* off the system stack before an interrupt is started on it.
AlarmOffInTrap == [][activation = "trap" => activation' # "interrupt"]_vars
=============================================================================
