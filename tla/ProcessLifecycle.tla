-------------------------- MODULE ProcessLifecycle --------------------------
(***************************************************************************)
(* What process control promises, without blocks, lists, pools and         *)
(* pointers: every pid lives once.  It is ready or runs when it is given   *)
(* out; at most one process runs, and somebody does while anybody is       *)
(* ready; what terminates stays as a zombie until it is waited for, or is  *)
(* gone at once when somebody already waits.                               *)
(***************************************************************************)
EXTENDS Naturals

VARIABLES born,      \* pids given out so far: those below born
          running,   \* the process on the CPU, or none
          ready, waiting, zombies

stages == <<born, running, ready, waiting, zombies>>

Init ==
  /\ born = 1 /\ running = {0}
  /\ ready = {} /\ waiting = {} /\ zombies = {}

\* The CPU passes to a ready process.
PassCPU == \E next \in ready : running' = {next} /\ ready' = ready \ {next}

\* The running process creates another one.
Create ==
  /\ running # {}
  /\ born' = born + 1 /\ ready' = ready \cup {born}
  /\ UNCHANGED <<running, waiting, zombies>>

\* With nobody to run, a new first process starts.
Boot ==
  /\ running = {} /\ ready = {}
  /\ born' = born + 1 /\ running' = {born}
  /\ UNCHANGED <<ready, waiting, zombies>>

\* Sleepers become ready, and one of the ready ones runs instead of the
\* running process, which becomes ready itself.
Switch ==
  \E woken \in SUBSET waiting : \E next \in ready \cup woken :
    /\ running # {} /\ running' = {next}
    /\ ready' = (ready \cup woken \cup running) \ {next}
    /\ waiting' = waiting \ woken
    /\ UNCHANGED <<born, zombies>>

\* The running process waits or sleeps.
Suspend ==
  /\ running # {}
  /\ waiting' = waiting \cup running
  /\ \/ PassCPU
     \/ ready = {} /\ running' = {} /\ UNCHANGED ready
  /\ UNCHANGED <<born, zombies>>

\* The running process terminates and is not waited for yet.
Terminate ==
  /\ running # {} /\ zombies' = zombies \cup running
  /\ PassCPU
  /\ UNCHANGED <<born, waiting>>

\* The running process terminates; a process that waited for it runs.
HandOver ==
  /\ running # {}
  /\ \E q \in waiting : running' = {q} /\ waiting' = waiting \ {q}
  /\ UNCHANGED <<born, ready, zombies>>

\* The running process is told of one that has terminated.
Reap ==
  /\ running # {}
  /\ \E z \in zombies : zombies' = zombies \ {z}
  /\ UNCHANGED <<born, running, ready, waiting>>

Next == Create \/ Boot \/ Switch \/ Suspend \/ Terminate \/ HandOver \/ Reap

Spec == Init /\ [][Next]_stages
=============================================================================
