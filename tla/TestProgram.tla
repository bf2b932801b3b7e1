---------------------------- MODULE TestProgram ----------------------------
(***************************************************************************)
(* disastrOS_test.c on the kernel: init spawns childFunc, which spawns the *)
(* consumer and the producer, creates the queue and waits for both; these  *)
(* open it, read and write, close it and exit.                             *)
(*                                                                         *)
(* The calls on the queue and the scheduler are those of MessageQueue, on  *)
(* the same list pointers; spawn, wait and exit are here, with the parents *)
(* that wait in the one waiting list.  A process is its PCB: no more than  *)
(* four are created, so no block is used again.                            *)
(***************************************************************************)
EXTENDS MessageQueue

CONSTANTS init, childFunc, consumer, producer,
          ITERATIONS,
          Settled   \* whether ticks come only once both have opened the queue

\* Who is who, in the constants of MessageQueue.
Roles ==
  /\ Parent = {init, childFunc} /\ init # childFunc
  /\ Reader = {consumer} /\ Writer = {producer} /\ consumer # producer
  /\ Idle = {}
  /\ ITERATIONS \in Nat /\ Settled \in BOOLEAN

VARIABLES pc,        \* for each process, the number of its next call
          children   \* for each process, the children it has not waited for

testvars == <<vars, pc, children>>

-----------------------------------------------------------------------------
(* The programs, as the calls that they make.                              *)

Repeated(calls) ==
  [n \in 1..(ITERATIONS * Len(calls)) |-> calls[((n - 1) % Len(calls)) + 1]]

Program ==
  [p \in Proc |->
     CASE p = init      -> <<"spawn childFunc", "wait", "shutdown">>
       [] p = childFunc -> <<"spawn consumer", "spawn producer", "create",
                             "wait", "wait", "exit">>
       [] p = consumer  -> <<"open", "preempt">>
                           \o Repeated(<<"read", "preempt", "read", "preempt">>)
                           \o <<"close", "exit">>
       [] p = producer  -> <<"open", "preempt">>
                           \o Repeated(<<"write", "preempt",
                                         "write", "write", "preempt">>)
                           \o <<"close", "exit">>]

ParentOf == [p \in Proc \ {init} |-> IF p = childFunc THEN init ELSE childFunc]

HasCall(p) == pc[p] \in DOMAIN Program[p]

\* The running process makes its next call, which is the given one.
Calls(call) ==
  /\ machine = "up"
  /\ HasCall(running)
  /\ Program[running][pc[running]] = call
  /\ pc' = [pc EXCEPT ![running] = @ + 1]

Init_test ==
  /\ heap = EmptyHeap
  /\ running = init
  /\ status = [p \in Proc |-> IF p = init THEN "Running" ELSE "Invalid"]
  /\ named = FALSE /\ open = {} /\ last_fd = [p \in Caller |-> 0]
  /\ subqueues = [k \in Priority |-> <<>>] /\ size = 0
  /\ waiting_descriptors = <<>>
  /\ free_texts = MAX_NUM_MESSAGES /\ free_msgs = MAX_NUM_MESSAGES
  /\ free_ptrs = Descriptors
  /\ again = FALSE /\ answer = 0 /\ machine = "up"
  /\ pc = [p \in Proc |-> 1]
  /\ children = [p \in Proc |-> {}]

-----------------------------------------------------------------------------
(* internal_spawn, internal_wait for any child and internal_exit           *)

SpawnProcess(c) ==
  /\ status' = [status EXCEPT ![c] = "Ready"]
  /\ heap' = List_append(heap, "ready", c)
  /\ children' = [children EXCEPT ![running] = @ \cup {c}]
  /\ UNCHANGED <<running, queue, pools, again, answer, machine>>

\* The head of the ready list gets the CPU, in heap h.
TakeNext(h) ==
  /\ running' = h.head["ready"].first
  /\ heap' = List_detach(h, "ready", h.head["ready"].first)

Zombies == {c \in children[running] : status[c] = "Zombie"}

WaitForAny ==
  \/ children[running] = {} /\ UNCHANGED <<vars, children>>
  \/ \E c \in Zombies :
       /\ children' = [children EXCEPT ![running] = @ \ {c}]
       /\ heap' = List_detach(heap, "zombie", c)
       /\ UNCHANGED <<running, status, queue, pools, again, answer, machine>>
  \/ /\ children[running] # {} /\ Zombies = {}
     /\ \/ heap.head["ready"].first = NULL
           /\ Fault("wait_no_ready") /\ UNCHANGED <<again, children>>
        \/ /\ heap.head["ready"].first # NULL
           /\ status' = [status EXCEPT ![running] = "Waiting"]
           /\ TakeNext(List_append(heap, "waiting", running))
           /\ UNCHANGED <<queue, pools, again, answer, machine, children>>

\* internal_exit by a process that has waited for its children.  As in the
\* other modules, ExitProcess_unnoticed is ExitProcess with a slip.
ExitProcess_unnoticed ==
  LET dead == List_append(heap, "zombie", running)
  IN  \/ /\ dead.head["ready"].first = NULL
         /\ Fault("exit_no_ready") /\ UNCHANGED <<again, children>>
      \/ /\ dead.head["ready"].first # NULL
         /\ status' = [status EXCEPT ![running] = "Zombie",
                                     ![dead.head["ready"].first] = "Running"]
         /\ TakeNext(dead)
         /\ UNCHANGED <<queue, pools, again, answer, machine, children>>
ExitProcess_requeued ==
  LET dead == List_append(heap, "ready", running)
  IN  /\ status' = [status EXCEPT ![running] = "Zombie"]
      /\ TakeNext(dead)
      /\ UNCHANGED <<queue, pools, again, answer, machine, children>>
ExitProcess ==
  LET parent == ParentOf[running]
      dead   == List_append(heap, "zombie", running)
  IN  \/ /\ status[parent] = "Waiting"
         /\ status' = [status EXCEPT ![running] = "Zombie", ![parent] = "Running"]
         /\ heap' = List_detach(List_detach(dead, "waiting", parent),
                                "zombie", running)
         /\ children' = [children EXCEPT ![parent] = @ \ {running}]
         /\ running' = parent
         /\ UNCHANGED <<queue, pools, again, answer, machine>>
      \/ /\ status[parent] # "Waiting" /\ dead.head["ready"].first = NULL
         /\ Fault("exit_no_ready") /\ UNCHANGED <<again, children>>
      \/ /\ status[parent] # "Waiting" /\ dead.head["ready"].first # NULL
         /\ status' = [status EXCEPT ![running] = "Zombie",
                                     ![dead.head["ready"].first] = "Running"]
         /\ TakeNext(dead)
         /\ UNCHANGED <<queue, pools, again, answer, machine, children>>

Call ==
  \/ Calls("spawn childFunc") /\ SpawnProcess(childFunc)
  \/ Calls("spawn consumer") /\ SpawnProcess(consumer)
  \/ Calls("spawn producer") /\ SpawnProcess(producer)
  \/ Calls("create")   /\ CreateQueue /\ UNCHANGED <<again, children>>
  \/ Calls("open")     /\ Open /\ UNCHANGED children
  \/ Calls("read")     /\ (\E n \in Lengths : Read(n)) /\ UNCHANGED children
  \/ Calls("write")    /\ (\E n \in Lengths, k \in Priority : Write(n, k))
                       /\ UNCHANGED children
  \/ Calls("preempt")  /\ Preempt /\ UNCHANGED children
  \/ Calls("close")    /\ Close /\ UNCHANGED children
  \/ Calls("wait")     /\ WaitForAny
  \/ Calls("exit")     /\ ExitProcess
  \/ Calls("shutdown") /\ machine' = "off"
                       /\ UNCHANGED <<heap, running, status, queue, pools,
                                      again, answer, children>>

\* The timer interrupt.  Settled bounds when it comes: from the time on when both
\* have opened the queue, whoever closes it and exits then, and so not before their
\* parents wait for them.
Opened(p) == pc[p] > 1

Tick ==
  /\ Settled => \A p \in Caller : Opened(p)
  /\ TimerTick /\ UNCHANGED <<pc, children>>

Next_test == Call \/ Tick \/ (Halted /\ UNCHANGED testvars)

Spec_test == Init_test /\ [][Next_test]_testvars /\ WF_testvars(Call)

-----------------------------------------------------------------------------
\* Wherever ticks fall once both have opened a queue that has room for all, every
\* run of the test program comes to its shutdown: the producer and the consumer
\* always get on with the queue, neither calls while it is blocked, each is waited
\* for, and no call fails in the kernel.
Ends == <>(machine = "off" /\ ~again)

\* At the shutdown the program has cleaned up, unless a blocked process has made
\* a call: everybody has been waited for, and the queue, its messages, the
\* descriptors and the DescriptorPtrs of those that waited have been given back.
NothingLeft ==
  machine = "off" /\ ~again =>
    /\ \A p \in Proc : children[p] = {}
    /\ \A l \in {"ready", "waiting", "zombie"} : heap.head[l].first = NULL
    /\ ~named /\ open = {}
    /\ free_ptrs = Descriptors /\ free_msgs = MAX_NUM_MESSAGES

\* A process that has exited never has the CPU again, although it may have been
\* in the waiting list, or interrupted between its close and its exit, or be taken
\* for its waiting parent, unless a blocked process has made a call.
NobodyRunsAfterExit == machine = "up" /\ ~again => HasCall(running)
=============================================================================
