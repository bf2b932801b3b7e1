------------------------- MODULE KernelEntryProofs -------------------------
(***************************************************************************)
(* The contexts and the lists of the processes that no tick in the kernel  *)
(* has hit, for every set of processes and every number of calls.          *)
(*                                                                         *)
(* The invariants of KernelEntry speak of those processes only, but hold   *)
(* because of what is true at each place of the program whoever is there:  *)
(* Control.  Held says what a context needs for its next resumption, and   *)
(* Placed in which list a process is, the moments between two lists        *)
(* included.  None of the three is inductive without the others.           *)
(***************************************************************************)
EXTENDS KernelEntry, FiniteSetTheorems, TLAPS

\* What is true at each place of the program: whether somebody is running,
\* whose code is executed, whether a process is between two lists, and where
\* the alarm is held back.
Control ==
  /\ running = NULL => cpu.at \in {"start", "leaving"}
  /\ cpu.at = "start" => running = NULL
  /\ cpu.at \in {"first", "made", "user", "entering", "trap"} => cpu.of = running
  /\ cpu.at = "first" => cpu.returned = 0
  /\ taken # NULL <=> cpu.at = "switch"
  /\ blocked => cpu.at \in {"trap", "schedule", "switch"}
  /\ cpu.at \in {"schedule", "switch"} => activation = "interrupt" \/ blocked
  /\ cpu.at = "trap" => blocked
  /\ running \in born \cup {NULL} /\ taken \in born \cup {NULL}
  /\ \A p \in Proc \ born : handled[p] = 0

\* A saved context that is not overwritten is the process's own.
Saved ==
  \A p \in Proc :
    /\ cpu_state[p].at \in {"first", "made", "user", "entering", "system_stack"}
    /\ cpu_state[p].at # "system_stack" => cpu_state[p].of = p
    /\ cpu_state[p].at = "first" => cpu_state[p].returned = 0

\* ContextsHold, and that a process which has not got its first context has
\* made no call.
Held ==
  \A p \in Unharmed :
    /\ cpu.of = p /\ cpu.at = "user" => cpu = User(p, handled[p])
    /\ cpu.of = p /\ cpu.at \in {"entering", "trap"}
         => cpu_state[p] = User(p, handled[p] + 1)
    /\ cpu.of = p /\ cpu.at = "first" => handled[p] = 0
    /\ ~(cpu.of = p /\ cpu.at \in {"user", "entering", "trap", "first"})
         => \/ cpu_state[p] = User(p, handled[p])
            \/ cpu_state[p] = Context("first", p, 0) /\ handled[p] = 0

\* Nobody is in two lists; the running process is in none, but for the last
\* moment of its sleep, wait or exit; nor is the one that comes next.
Placed ==
  \A p \in Unharmed :
    /\ ~(p \in ready /\ p \in sleeping)
    /\ ~(p \in ready /\ p \in waiting)
    /\ ~(p \in sleeping /\ p \in waiting)
    /\ p = running => p \notin ready
    /\ p = running /\ cpu.at # "switch" => p \notin sleeping /\ p \notin waiting
    /\ p = taken => p # running /\ p \notin ready \cup sleeping \cup waiting
    /\ p \in {running, taken} \cup ready \cup sleeping \cup waiting

KInv ==
  /\ TypeOK
  /\ machine = "up" => Control /\ Saved /\ Held /\ Placed

LEMMA InitKeeps == Init => KInv
<1> SUFFICES ASSUME Init PROVE KInv
  OBVIOUS
<1>1. OVERWRITTEN \in Contexts /\ OVERWRITTEN.at = "system_stack"
  BY ProcAssumption DEF OVERWRITTEN, Context, Contexts
<1>2. cpu \in Contexts /\ cpu.at = "start"
  BY ProcAssumption DEF Init, Context, Contexts, Places
<1>3. TypeOK
  <2>1. cpu_state \in [Proc -> Contexts]
    BY <1>1 DEF Init
  <2>2. handled \in [Proc -> 0..(MaxCalls + 1)]
    BY ProcAssumption DEF Init
  <2>3. machine = "up" /\ activation = "none" /\ cpu.at # "system_stack"
    BY <1>2 DEF Init
  <2> QED
    BY <1>2, <2>1, <2>2, <2>3 DEF Init, TypeOK
<1>4. Control
  BY <1>2 DEF Init, Control
<1>5. Saved
  BY <1>1 DEF Init, Saved
<1>6. Held /\ Placed
  BY DEF Init, Held, Placed, Unharmed
<1> QED
  BY <1>3, <1>4, <1>5, <1>6 DEF KInv

-----------------------------------------------------------------------------
(* A call: its handler counts it for the running process and no other, and *)
(* leaves everybody's context as that process will resume it.              *)

LEMMA HandledOnce ==
  ASSUME KInv, Handle
  PROVE
    /\ machine = "up" /\ TypeOK /\ Control /\ Saved /\ Held /\ Placed
    /\ cpu.at = "trap" /\ cpu.of = running /\ taken = NULL /\ blocked
    /\ running \in Proc /\ running \in born
    /\ UNCHANGED <<armed, hit>>
    /\ handled' \in [Proc -> 0..(MaxCalls + 1)]
    /\ \A p \in Proc \ born : handled'[p] = 0
    /\ \A p \in Unharmed :
         \/ cpu_state[p] = User(p, handled'[p])
         \/ cpu_state[p] = Context("first", p, 0) /\ handled'[p] = 0
<1>1. machine = "up" /\ cpu.at = "trap" /\ TypeOK /\ Control /\ Saved /\ Held
      /\ Placed /\ UNCHANGED <<armed, hit>>
  BY DEF KInv, Handle
<1>2. running \in born /\ running \in Proc
  BY <1>1 DEF Control, TypeOK
<1>3. cpu.of = running /\ taken = NULL /\ blocked
  BY <1>1 DEF Control, TypeOK
<1>4. handled' = [handled EXCEPT ![running] =
                    IF handled[running] > MaxCalls THEN handled[running]
                    ELSE handled[running] + 1]
  BY DEF Handle
<1>5. handled \in [Proc -> 0..(MaxCalls + 1)]
  BY <1>1 DEF TypeOK
<1>6. handled' \in [Proc -> 0..(MaxCalls + 1)]
  BY <1>2, <1>4, <1>5, ProcAssumption
<1>7. \A p \in Proc \ {running} : handled'[p] = handled[p]
  BY <1>4, <1>5
<1>8. \A p \in Proc \ born : handled'[p] = 0
  BY <1>1, <1>2, <1>7 DEF Control
<1>9. ASSUME NEW p \in Unharmed
      PROVE  \/ cpu_state[p] = User(p, handled'[p])
             \/ cpu_state[p] = Context("first", p, 0) /\ handled'[p] = 0
  <2>1. p \in Proc
    BY <1>1 DEF Unharmed, TypeOK
  <2>2. CASE p # running
    BY <1>1, <1>3, <1>7, <2>1, <2>2 DEF Held
  <2>3. CASE p = running
    <3>1. cpu_state[p] = User(p, handled[p] + 1)
      BY <1>1, <1>3, <2>3 DEF Held
    <3>2. cpu_state[p].returned \in 0..MaxCalls
      BY <1>1, <2>1 DEF TypeOK, Contexts
    <3>3. handled[p] + 1 \in 0..MaxCalls
      BY <3>1, <3>2 DEF User, Context
    <3>4. handled'[p] = handled[p] + 1
      BY <1>4, <1>5, <2>1, <2>3, <3>3, ProcAssumption
    <3> QED
      BY <3>1, <3>4
  <2> QED
    BY <2>2, <2>3
<1> QED
  BY <1>1, <1>2, <1>3, <1>6, <1>8, <1>9

-----------------------------------------------------------------------------
(* Every action keeps the invariant                                        *)

LEMMA AllocFirstKeeps == KInv /\ AllocFirst => KInv'
<1> SUFFICES ASSUME KInv, AllocFirst PROVE KInv'
  OBVIOUS
<1>1. machine = "up" /\ TypeOK /\ Control /\ Saved /\ Held /\ Placed
  BY DEF KInv, AllocFirst
<1>2. TypeOK'
  BY <1>1, ProcAssumption
     DEF TypeOK, Contexts, Places, Stops, AllocFirst, Stop, Context, lists
<1>3. ASSUME machine' = "up" PROVE Control'
  BY <1>1, <1>3, ProcAssumption DEF Control, AllocFirst, Stop, Context
<1>4. ASSUME machine' = "up" PROVE Saved'
  BY <1>1 DEF Saved, AllocFirst, Stop
<1>5. ASSUME machine' = "up" PROVE Held'
  <2>1. PICK q \in Proc \ born : /\ born' = born \cup {q}
                                  /\ cpu' = Context("first", q, 0)
                                  /\ UNCHANGED <<cpu_state, handled, gone, hit>>
    BY <1>1, <1>5 DEF AllocFirst, Stop
  <2>2. handled[q] = 0
    BY <1>1 DEF Control
  <2> QED
    BY <1>1, <2>1, <2>2 DEF AllocFirst, Held, Unharmed, Context
<1>6. ASSUME machine' = "up" PROVE Placed'
  BY <1>1, <1>6, ProcAssumption
     DEF TypeOK, Control, Placed, Unharmed, AllocFirst, Stop
<1> QED
  BY <1>2, <1>3, <1>4, <1>5, <1>6 DEF KInv

LEMMA MakeFirstKeeps == KInv /\ MakeFirst => KInv'
<1> SUFFICES ASSUME KInv, MakeFirst PROVE KInv'
  OBVIOUS
<1>1. machine = "up" /\ TypeOK /\ Control /\ Saved /\ Held /\ Placed
  BY DEF KInv, MakeFirst
<1>2. TypeOK'
  BY <1>1
     DEF TypeOK, Control, Contexts, Places, MakeFirst, Goto, User, Context,
         lists
<1>3. ASSUME machine' = "up" PROVE Control'
  BY <1>1 DEF Control, MakeFirst, Goto, lists
<1>4. ASSUME machine' = "up" PROVE Saved'
  BY <1>1 DEF Saved, MakeFirst, User, Context
<1>5. ASSUME machine' = "up" PROVE Held'
  BY <1>1 DEF TypeOK, Contexts, Control, Held, Unharmed, MakeFirst, Goto, lists
<1>6. ASSUME machine' = "up" PROVE Placed'
  BY <1>1 DEF Placed, Unharmed, MakeFirst, lists
<1> QED
  BY <1>2, <1>3, <1>4, <1>5, <1>6 DEF KInv

LEMMA EnterKeeps == KInv /\ Enter => KInv'
<1> SUFFICES ASSUME KInv, Enter PROVE KInv'
  OBVIOUS
<1>1. machine = "up" /\ TypeOK /\ Control /\ Saved /\ Held /\ Placed
  BY DEF KInv, Enter
<1>2. TypeOK'
  BY <1>1, ProcAssumption
     DEF TypeOK, Control, Contexts, Places, Enter, Goto, ReturnPoint, User,
         Context, lists
<1>3. ASSUME machine' = "up" PROVE Control'
  BY <1>1 DEF Control, Enter, Goto, ReturnPoint, lists
<1>4. ASSUME machine' = "up" PROVE Saved'
  BY <1>1 DEF Saved, Enter, ReturnPoint, User, Context
<1>5. ASSUME machine' = "up" PROVE Held'
  <2>1. running \in Proc /\ cpu.of = running
    BY <1>1 DEF Enter, Control, TypeOK
  <2>2. cpu'.at = "entering" /\ cpu'.of = running
    BY <1>1, <2>1 DEF Enter, Goto
  <2>3. cpu_state' = [cpu_state EXCEPT ![running] = User(running, cpu.returned + 1)]
    BY DEF Enter, ReturnPoint
  <2>4. running \in Unharmed => cpu.returned = handled[running]
    <3>1. running \in Unharmed => cpu = User(running, handled[running])
      BY <1>1, <2>1 DEF Enter, Held
    <3> QED
      BY <3>1 DEF User, Context
  <2>5. UNCHANGED <<handled, Unharmed>>
    BY DEF Enter, lists, Unharmed
  <2> QED
    BY <1>1, <2>1, <2>2, <2>3, <2>4, <2>5 DEF Enter, Held, TypeOK
<1>6. ASSUME machine' = "up" PROVE Placed'
  BY <1>1 DEF Placed, Unharmed, Enter, ReturnPoint, lists
<1> QED
  BY <1>2, <1>3, <1>4, <1>5, <1>6 DEF KInv

LEMMA TrapKeeps == KInv /\ Trap => KInv'
<1> SUFFICES ASSUME KInv, Trap PROVE KInv'
  OBVIOUS
<1>1. machine = "up" /\ TypeOK /\ Control /\ Saved /\ Held /\ Placed
  BY DEF KInv, Trap
<1>2. TypeOK'
  BY <1>1 DEF TypeOK, Contexts, Places, Trap, TrapMask, Goto, lists
<1>3. ASSUME machine' = "up" PROVE Control'
  BY <1>1 DEF Control, Trap, TrapMask, Goto, lists
<1>4. ASSUME machine' = "up" PROVE Saved'
  BY <1>1 DEF Saved, Trap, TrapMask
<1>5. ASSUME machine' = "up" PROVE Held'
  BY <1>1 DEF TypeOK, Contexts, Held, Unharmed, Trap, TrapMask, Goto, lists
<1>6. ASSUME machine' = "up" PROVE Placed'
  BY <1>1 DEF Placed, Unharmed, Trap, TrapMask, lists
<1> QED
  BY <1>2, <1>3, <1>4, <1>5, <1>6 DEF KInv

LEMMA GotoGoes ==
  ASSUME cpu \in Contexts, NEW at \in Places, Goto(at)
  PROVE  cpu' \in Contexts /\ cpu'.at = at /\ cpu'.of = cpu.of
BY DEF Goto, Contexts

LEMMA LeaveGoes ==
  ASSUME cpu \in Contexts, Leave
  PROVE  /\ cpu' \in Contexts /\ cpu'.at = "leaving"
         /\ ~blocked' /\ blocked' \in BOOLEAN /\ activation' = activation
<1>1. "leaving" \in Places
  BY DEF Places
<1> QED
  BY <1>1, GotoGoes DEF Leave

LEMMA ReturnKeeps == KInv /\ Return => KInv'
<1> SUFFICES ASSUME KInv, Return PROVE KInv'
  OBVIOUS
<1>0. Handle
  BY DEF Return
<1>1. machine = "up" /\ TypeOK /\ Control /\ Saved /\ Held /\ Placed
  BY <1>0, HandledOnce
<1>2. cpu \in Contexts /\ cpu.at = "trap" /\ cpu.of = running /\ taken = NULL
      /\ blocked /\ running \in Proc /\ running \in born
  BY <1>0, <1>1, HandledOnce DEF TypeOK
<1>3. /\ UNCHANGED <<armed, hit>>
      /\ handled' \in [Proc -> 0..(MaxCalls + 1)]
      /\ \A p \in Proc \ born : handled'[p] = 0
  BY <1>0, HandledOnce
<1>4. \A p \in Unharmed :
        \/ cpu_state[p] = User(p, handled'[p])
        \/ cpu_state[p] = Context("first", p, 0) /\ handled'[p] = 0
  BY <1>0, HandledOnce
<1>5. /\ cpu' \in Contexts /\ cpu'.at = "leaving"
      /\ ~blocked' /\ blocked' \in BOOLEAN /\ activation' = activation
  BY <1>2, LeaveGoes DEF Return
<1>6. TypeOK'
  BY <1>1, <1>2, <1>3, <1>5 DEF Return, TypeOK, lists
<1>7. ASSUME machine' = "up" PROVE Control'
  BY <1>1, <1>2, <1>3, <1>5, <1>7 DEF Return, Control, lists
<1>8. Saved'
  BY <1>1, <1>2 DEF Return, Saved
<1>9. ASSUME machine' = "up" PROVE Held'
  BY <1>3, <1>4, <1>5, <1>9 DEF Return, Held, Unharmed, lists
<1>10. ASSUME machine' = "up" PROVE Placed'
  BY <1>1, <1>2, <1>3, <1>10 DEF Return, Placed, Unharmed, lists
<1> QED
  BY <1>6, <1>7, <1>8, <1>9, <1>10 DEF KInv

LEMMA SpawnKeeps == KInv /\ Spawn => KInv'
<1> SUFFICES ASSUME KInv, Spawn PROVE KInv'
  OBVIOUS
<1>0. Handle
  BY DEF Spawn
<1>1. machine = "up" /\ TypeOK /\ Control /\ Saved /\ Held /\ Placed
  BY <1>0, HandledOnce
<1>2. cpu \in Contexts /\ cpu.at = "trap" /\ cpu.of = running /\ taken = NULL
      /\ blocked /\ running \in Proc /\ running \in born
  BY <1>0, <1>1, HandledOnce DEF TypeOK
<1>3. /\ UNCHANGED <<armed, hit>>
      /\ handled' \in [Proc -> 0..(MaxCalls + 1)]
      /\ \A p \in Proc \ born : handled'[p] = 0
  BY <1>0, HandledOnce
<1>4. \A p \in Unharmed :
        \/ cpu_state[p] = User(p, handled'[p])
        \/ cpu_state[p] = Context("first", p, 0) /\ handled'[p] = 0
  BY <1>0, HandledOnce
<1>5. /\ cpu' \in Contexts /\ cpu'.at = "leaving"
      /\ ~blocked' /\ blocked' \in BOOLEAN /\ activation' = activation
  BY <1>2, LeaveGoes DEF Spawn
<1>11. PICK q \in Proc \ born : /\ born' = born \cup {q}
                               /\ ready' = ready \cup {q}
                               /\ cpu_state' = [cpu_state EXCEPT ![q] = User(q, 0)]
  BY DEF Spawn
<1>12. UNCHANGED <<running, gone, sleeping, waiting, taken, machine>>
  BY DEF Spawn
<1>13. User(q, 0) \in Contexts /\ User(q, 0).at = "user" /\ User(q, 0).of = q
  BY ProcAssumption DEF User, Context, Contexts, Places
<1>14. cpu_state \in [Proc -> Contexts]
  BY <1>1 DEF TypeOK
<1>15. cpu_state' \in [Proc -> Contexts] /\ cpu_state'[q] = User(q, 0)
  BY <1>11, <1>13, <1>14
<1>16. \A p \in Proc \ {q} : cpu_state'[p] = cpu_state[p]
  BY <1>11, <1>14
<1>6. TypeOK'
  BY <1>1, <1>2, <1>3, <1>5, <1>11, <1>12, <1>15 DEF TypeOK
<1>7. ASSUME machine' = "up" PROVE Control'
  BY <1>1, <1>2, <1>3, <1>5, <1>7 DEF Spawn, Control
<1>8. Saved'
  BY <1>1, <1>13, <1>15, <1>16 DEF Saved
<1>9. ASSUME machine' = "up" PROVE Held'
  <2>1. SUFFICES ASSUME NEW p \in Unharmed'
                 PROVE  \/ cpu_state'[p] = User(p, handled'[p])
                        \/ cpu_state'[p] = Context("first", p, 0) /\ handled'[p] = 0
    BY <1>5 DEF Held
  <2>2. CASE p = q
    BY <1>3, <1>11, <1>15, <2>2
  <2>3. CASE p # q
    <3>1. p \in Unharmed /\ p \in Proc
      BY <1>1, <1>3, <1>11, <1>12, <2>3 DEF Unharmed, TypeOK
    <3> QED
      BY <1>4, <1>16, <2>3, <3>1
  <2> QED
    BY <2>2, <2>3
<1>10. ASSUME machine' = "up" PROVE Placed'
  <2>1. SUFFICES ASSUME NEW p \in Unharmed'
                 PROVE  /\ ~(p \in ready' /\ p \in sleeping)
                        /\ ~(p \in ready' /\ p \in waiting)
                        /\ ~(p \in sleeping /\ p \in waiting)
                        /\ p = running =>
                             p \notin ready' /\ p \notin sleeping /\ p \notin waiting
                        /\ p # NULL
                        /\ p = running \/ p \in ready' \cup sleeping \cup waiting
    BY <1>2, <1>12 DEF Placed
  <2>2. CASE p = q
    BY <1>1, <1>2, <1>11, <2>2, ProcAssumption DEF TypeOK
  <2>3. CASE p # q
    <3>1. p \in Unharmed /\ p \in Proc
      BY <1>1, <1>3, <1>11, <1>12, <2>3 DEF Unharmed, TypeOK
    <3> QED
      BY <1>1, <1>2, <1>11, <2>3, <3>1, ProcAssumption DEF Placed
  <2> QED
    BY <2>2, <2>3
<1> QED
  BY <1>6, <1>7, <1>8, <1>9, <1>10 DEF KInv

LEMMA PreemptKeeps == KInv /\ Preempt => KInv'
<1> SUFFICES ASSUME KInv, Preempt PROVE KInv'
  OBVIOUS
<1>0. Handle
  BY DEF Preempt
<1>1. machine = "up" /\ TypeOK /\ Control /\ Saved /\ Held /\ Placed
  BY <1>0, HandledOnce
<1>2. cpu \in Contexts /\ cpu.at = "trap" /\ cpu.of = running /\ taken = NULL
      /\ blocked /\ running \in Proc /\ running \in born
  BY <1>0, <1>1, HandledOnce DEF TypeOK
<1>3. /\ UNCHANGED <<armed, hit>>
      /\ handled' \in [Proc -> 0..(MaxCalls + 1)]
      /\ \A p \in Proc \ born : handled'[p] = 0
  BY <1>0, HandledOnce
<1>4. \A p \in Unharmed :
        \/ cpu_state[p] = User(p, handled'[p])
        \/ cpu_state[p] = Context("first", p, 0) /\ handled'[p] = 0
  BY <1>0, HandledOnce
<1>5. cpu' \in Contexts /\ cpu'.at = "schedule" /\ cpu'.of = cpu.of
  <2>1. "schedule" \in Places
    BY DEF Places
  <2> QED
    BY <1>2, <2>1, GotoGoes DEF Preempt
<1>6. TypeOK'
  BY <1>1, <1>2, <1>3, <1>5 DEF Preempt, TypeOK, lists
<1>7. ASSUME machine' = "up" PROVE Control'
  BY <1>1, <1>2, <1>3, <1>5, <1>7 DEF Preempt, Control, lists
<1>8. Saved'
  BY <1>1, <1>2 DEF Preempt, Saved
<1>9. ASSUME machine' = "up" PROVE Held'
  BY <1>3, <1>4, <1>5, <1>9 DEF Preempt, Held, Unharmed, lists
<1>10. ASSUME machine' = "up" PROVE Placed'
  BY <1>1, <1>2, <1>3, <1>10 DEF Preempt, Placed, Unharmed, lists
<1> QED
  BY <1>6, <1>7, <1>8, <1>9, <1>10 DEF KInv

LEMMA SleepOrWaitKeeps == KInv /\ (Sleep \/ Wait) => KInv'
<1> SUFFICES ASSUME KInv, Sleep \/ Wait PROVE KInv'
  OBVIOUS
<1>0. Handle
  BY DEF Sleep, Wait
<1>1. machine = "up" /\ TypeOK /\ Control /\ Saved /\ Held /\ Placed
  BY <1>0, HandledOnce
<1>2. cpu \in Contexts /\ cpu.at = "trap" /\ cpu.of = running /\ taken = NULL
      /\ blocked /\ running \in Proc /\ running \in born
  BY <1>0, <1>1, HandledOnce DEF TypeOK
<1>3. /\ UNCHANGED <<armed, hit>>
      /\ handled' \in [Proc -> 0..(MaxCalls + 1)]
      /\ \A p \in Proc \ born : handled'[p] = 0
  BY <1>0, HandledOnce
<1>4. \A p \in Unharmed :
        \/ cpu_state[p] = User(p, handled'[p])
        \/ cpu_state[p] = Context("first", p, 0) /\ handled'[p] = 0
  BY <1>0, HandledOnce
<1>5. \/ /\ ready = {} /\ running' = NULL /\ UNCHANGED <<ready, taken, machine>>
         /\ cpu' \in Contexts /\ cpu'.at = "leaving"
         /\ ~blocked' /\ blocked' \in BOOLEAN /\ activation' = activation
      \/ /\ machine' = "wait_no_ready"
         /\ UNCHANGED <<cpu, blocked, activation, running, ready, taken>>
      \/ /\ \E p \in ready : taken' = p /\ ready' = ready \ {p}
         /\ UNCHANGED <<running, blocked, activation, machine>>
         /\ cpu' \in Contexts /\ cpu'.at = "switch" /\ cpu'.of = cpu.of
  <2>1. CASE ready = {} /\ running' = NULL /\ Leave
             /\ UNCHANGED <<ready, taken, machine>>
    BY <1>2, <2>1, LeaveGoes
  <2>2. CASE TakeNext(ready) /\ UNCHANGED <<running, blocked, activation, machine>>
    <3>1. Goto("switch") /\ "switch" \in Places
      BY <2>2 DEF TakeNext, Places
    <3>2. cpu' \in Contexts /\ cpu'.at = "switch" /\ cpu'.of = cpu.of
      BY <1>2, <3>1, GotoGoes
    <3> QED
      BY <2>2, <3>2 DEF TakeNext
  <2> QED
    BY <2>1, <2>2 DEF Sleep, Wait
<1>6. TypeOK'
  BY <1>1, <1>2, <1>3, <1>5 DEF Sleep, Wait, TypeOK, Stops
<1>7. ASSUME machine' = "up" PROVE Control'
  BY <1>1, <1>2, <1>3, <1>5, <1>7, ProcAssumption
     DEF Sleep, Wait, Control, TypeOK
<1>8. Saved'
  BY <1>1, <1>2 DEF Sleep, Wait, Saved
<1>9. ASSUME machine' = "up" PROVE Held'
  BY <1>3, <1>4, <1>5, <1>9 DEF Sleep, Wait, Held, Unharmed
<1>10. ASSUME machine' = "up" PROVE Placed'
  <2>1. \/ sleeping' = sleeping \cup {running} /\ UNCHANGED waiting
        \/ waiting' = waiting \cup {running} /\ UNCHANGED sleeping
    BY DEF Sleep, Wait
  <2>2. /\ Unharmed' = Unharmed /\ Unharmed \subseteq Proc
    BY <1>1, <1>3 DEF Sleep, Wait, Unharmed, TypeOK
  <2>3. CASE /\ ready = {} /\ running' = NULL /\ UNCHANGED <<ready, taken>>
             /\ cpu'.at = "leaving"
    BY <1>1, <1>2, <2>1, <2>2, <2>3, ProcAssumption DEF Placed
  <2>4. ASSUME NEW q \in ready, taken' = q, ready' = ready \ {q},
               running' = running, cpu'.at = "switch"
        PROVE  Placed'
    <3>1. SUFFICES ASSUME NEW p \in Unharmed
                   PROVE  /\ ~(p \in ready' /\ p \in sleeping')
                          /\ ~(p \in ready' /\ p \in waiting')
                          /\ ~(p \in sleeping' /\ p \in waiting')
                          /\ p = running => p \notin ready'
                          /\ p = q =>
                               p # running /\ p \notin ready' \cup sleeping' \cup waiting'
                          /\ p \in {running, q} \cup ready' \cup sleeping' \cup waiting'
      BY <2>2, <2>4 DEF Placed
    <3>2. p \in Proc
      BY <2>2
    <3>3. CASE p = running
      BY <1>1, <1>2, <2>1, <2>4, <3>3 DEF Placed
    <3>4. CASE p # running
      BY <1>1, <1>2, <2>1, <2>4, <3>2, <3>4, ProcAssumption DEF Placed
    <3> QED
      BY <3>3, <3>4
  <2> QED
    BY <1>5, <1>10, <2>3, <2>4
<1> QED
  BY <1>6, <1>7, <1>8, <1>9, <1>10 DEF KInv

LEMMA ExitKeeps == KInv /\ Exit => KInv'
<1> SUFFICES ASSUME KInv, Exit PROVE KInv'
  OBVIOUS
<1>0. Handle
  BY DEF Exit
<1>1. machine = "up" /\ TypeOK /\ Control /\ Saved /\ Held /\ Placed
  BY <1>0, HandledOnce
<1>2. cpu \in Contexts /\ cpu.at = "trap" /\ cpu.of = running /\ taken = NULL
      /\ blocked /\ running \in Proc /\ running \in born
  BY <1>0, <1>1, HandledOnce DEF TypeOK
<1>3. /\ UNCHANGED <<armed, hit>>
      /\ handled' \in [Proc -> 0..(MaxCalls + 1)]
      /\ \A p \in Proc \ born : handled'[p] = 0
  BY <1>0, HandledOnce
<1>4. \A p \in Unharmed :
        \/ cpu_state[p] = User(p, handled'[p])
        \/ cpu_state[p] = Context("first", p, 0) /\ handled'[p] = 0
  BY <1>0, HandledOnce
<1>5. \/ /\ \E p \in waiting : waiting' = waiting \ {p} /\ running' = p
         /\ cpu' \in Contexts /\ cpu'.at = "leaving"
         /\ ~blocked' /\ blocked' \in BOOLEAN /\ activation' = activation
         /\ UNCHANGED <<ready, taken, machine>>
      \/ /\ machine' = "exit_no_ready"
         /\ UNCHANGED <<cpu, blocked, activation, running, ready, waiting, taken>>
      \/ /\ \E p \in ready : taken' = p /\ ready' = ready \ {p}
         /\ UNCHANGED <<running, blocked, activation, waiting, machine>>
         /\ cpu' \in Contexts /\ cpu'.at = "switch" /\ cpu'.of = cpu.of
  <2>1. CASE \E p \in waiting : /\ waiting' = waiting \ {p} /\ running' = p
                               /\ Leave
                               /\ UNCHANGED <<ready, taken, machine>>
    BY <1>2, <2>1, LeaveGoes
  <2>2. CASE TakeNext(ready) /\ UNCHANGED <<running, blocked, activation, waiting,
                                          machine>>
    <3>1. Goto("switch") /\ "switch" \in Places
      BY <2>2 DEF TakeNext, Places
    <3>2. cpu' \in Contexts /\ cpu'.at = "switch" /\ cpu'.of = cpu.of
      BY <1>2, <3>1, GotoGoes
    <3> QED
      BY <2>2, <3>2 DEF TakeNext
  <2> QED
    BY <2>1, <2>2 DEF Exit
<1>6. TypeOK'
  BY <1>1, <1>2, <1>3, <1>5 DEF Exit, TypeOK, Stops
<1>7. ASSUME machine' = "up" PROVE Control'
  BY <1>1, <1>2, <1>3, <1>5, <1>7, ProcAssumption DEF Exit, Control, TypeOK
<1>8. Saved'
  BY <1>1, <1>2 DEF Exit, Saved
<1>9. ASSUME machine' = "up" PROVE Held'
  BY <1>3, <1>4, <1>5, <1>9 DEF Exit, Held, Unharmed
<1>10. ASSUME machine' = "up" PROVE Placed'
  <2>1. /\ Unharmed' = Unharmed \ {running} /\ Unharmed \subseteq Proc
        /\ sleeping' = sleeping
    BY <1>1, <1>3 DEF Exit, Unharmed, TypeOK
  <2>2. ASSUME NEW q \in waiting, waiting' = waiting \ {q}, running' = q,
               cpu'.at = "leaving", UNCHANGED <<ready, taken>>
        PROVE  Placed'
    BY <1>1, <1>2, <2>1, <2>2 DEF Placed
  <2>3. ASSUME NEW q \in ready, taken' = q, ready' = ready \ {q},
               UNCHANGED <<running, waiting>>, cpu'.at = "switch"
        PROVE  Placed'
    <3>1. SUFFICES ASSUME NEW p \in Unharmed, p # running
                   PROVE  /\ ~(p \in ready' /\ p \in sleeping)
                          /\ ~(p \in ready' /\ p \in waiting)
                          /\ ~(p \in sleeping /\ p \in waiting)
                          /\ p = q => p \notin ready' \cup sleeping \cup waiting
                          /\ p \in {running, q} \cup ready' \cup sleeping \cup waiting
      BY <2>1, <2>3 DEF Placed
    <3> QED
      BY <1>1, <1>2, <2>1, <2>3, ProcAssumption DEF Placed
  <2> QED
    BY <1>5, <1>10, <2>2, <2>3
<1> QED
  BY <1>6, <1>7, <1>8, <1>9, <1>10 DEF KInv

LEMMA WakeKeeps == KInv /\ Wake => KInv'
<1> SUFFICES ASSUME KInv, Wake PROVE KInv'
  OBVIOUS
<1>1. machine = "up" /\ TypeOK /\ Control /\ Saved /\ Held /\ Placed
  BY DEF KInv, Wake
<1>2. TypeOK'
  BY <1>1 DEF TypeOK, Control, Wake
<1>3. ASSUME machine' = "up" PROVE Control'
  BY <1>1, <1>3 DEF Control, Wake
<1>4. ASSUME machine' = "up" PROVE Saved'
  BY <1>1, <1>4 DEF Saved, Wake
<1>5. ASSUME machine' = "up" PROVE Held'
  BY <1>1 DEF Held, Unharmed, Wake
<1>6. ASSUME machine' = "up" PROVE Placed'
  BY <1>1 DEF Placed, Unharmed, Wake
<1> QED
  BY <1>2, <1>3, <1>4, <1>5, <1>6 DEF KInv

LEMMA ScheduleKeeps == KInv /\ Schedule => KInv'
<1> SUFFICES ASSUME KInv, Schedule PROVE KInv'
  OBVIOUS
<1>1. machine = "up" /\ TypeOK /\ Control /\ Saved /\ Held /\ Placed
  BY DEF KInv, Schedule
<1>2. TypeOK'
  BY <1>1 DEF TypeOK, Contexts, Places, Schedule, TakeNext, Leave, Goto
<1>3. ASSUME machine' = "up" PROVE Control'
  BY <1>1, ProcAssumption
     DEF TypeOK, Contexts, Control, Schedule, TakeNext, Leave, Goto
<1>4. ASSUME machine' = "up" PROVE Saved'
  BY <1>1 DEF Saved, Schedule, TakeNext, Leave
<1>5. ASSUME machine' = "up" PROVE Held'
  BY <1>1 DEF TypeOK, Contexts, Held, Unharmed, Schedule, TakeNext, Leave, Goto
<1>6. ASSUME machine' = "up" PROVE Placed'
  BY <1>1, ProcAssumption
     DEF TypeOK, Control, Placed, Unharmed, Schedule, TakeNext, Leave
<1> QED
  BY <1>2, <1>3, <1>4, <1>5, <1>6 DEF KInv

LEMMA SwitchKeeps == KInv /\ Switch => KInv'
<1> SUFFICES ASSUME KInv, Switch PROVE KInv'
  OBVIOUS
<1>1. machine = "up" /\ TypeOK /\ Control /\ Saved /\ Held /\ Placed
  BY DEF KInv, Switch
<1>2. TypeOK'
  BY <1>1 DEF TypeOK, Control, Contexts, Places, Switch, Leave, Goto
<1>3. ASSUME machine' = "up" PROVE Control'
  BY <1>1 DEF Control, Switch, Leave, Goto
<1>4. ASSUME machine' = "up" PROVE Saved'
  BY <1>1 DEF Saved, Switch, Leave
<1>5. ASSUME machine' = "up" PROVE Held'
  BY <1>1 DEF TypeOK, Contexts, Held, Unharmed, Switch, Leave, Goto
<1>6. ASSUME machine' = "up" PROVE Placed'
  BY <1>1, ProcAssumption DEF TypeOK, Placed, Unharmed, Switch, Leave
<1> QED
  BY <1>2, <1>3, <1>4, <1>5, <1>6 DEF KInv

LEMMA LoadKeeps == KInv /\ Load => KInv'
<1> SUFFICES ASSUME KInv, Load PROVE KInv'
  OBVIOUS
<1>1. machine = "up" /\ TypeOK /\ Control /\ Saved /\ Held /\ Placed
  BY DEF KInv, Load
<1>2. TypeOK'
  BY <1>1 DEF TypeOK, Stops, Load, Loaded, Stop, lists
<1>3. ASSUME machine' = "up" PROVE Control'
  <2>1. /\ running \in Proc /\ cpu' = cpu_state[running]
        /\ cpu_state[running].at # "system_stack"
    BY <1>1, <1>3 DEF Load, Loaded, Stop, TypeOK
  <2>2. /\ cpu'.at \in {"first", "made", "user", "entering"}
        /\ cpu'.of = running
        /\ cpu'.at = "first" => cpu'.returned = 0
    BY <1>1, <2>1 DEF Saved
  <2>3. ~blocked /\ ~blocked' /\ taken = NULL /\ taken' = NULL
    BY <1>1 DEF Load, Stop, Control
  <2> QED
    BY <1>1, <2>1, <2>2, <2>3 DEF Load, Stop, Control, lists
<1>4. ASSUME machine' = "up" PROVE Saved'
  BY <1>1 DEF Saved, Load, Loaded, Stop
<1>5. ASSUME machine' = "up" PROVE Held'
  <2>1. /\ running \in Proc /\ cpu' = cpu_state[running]
        /\ cpu_state[running].at # "system_stack"
    BY <1>1, <1>5 DEF Load, Loaded, Stop, TypeOK
  <2>2. cpu'.at \in {"first", "made", "user", "entering"} /\ cpu'.of = running
    BY <1>1, <2>1 DEF Saved
  <2>3. UNCHANGED <<cpu_state, handled>> /\ Unharmed' = Unharmed
    BY <1>1 DEF Load, Stop, lists, Unharmed
  <2>4. ASSUME NEW p \in Unharmed
        PROVE  \/ cpu_state[p] = User(p, handled[p])
               \/ cpu_state[p] = Context("first", p, 0) /\ handled[p] = 0
    BY <1>1 DEF Load, Held
  <2>5. ASSUME NEW p \in Unharmed, p = running
        PROVE  \/ cpu' = User(p, handled[p])
               \/ cpu'.at = "first" /\ handled[p] = 0
    <3>1. Context("first", p, 0).at = "first"
      BY DEF Context
    <3> QED
      BY <2>1, <2>4, <2>5, <3>1
  <2>6. ASSUME NEW p \in Unharmed PROVE User(p, handled[p]).at = "user"
    BY DEF User, Context
  <2> QED
    BY <2>1, <2>2, <2>3, <2>4, <2>5, <2>6 DEF Held
<1>6. ASSUME machine' = "up" PROVE Placed'
  BY <1>1 DEF Placed, Unharmed, Load, Loaded, Stop, lists
<1> QED
  BY <1>2, <1>3, <1>4, <1>5, <1>6 DEF KInv

LEMMA StartAgainKeeps == KInv /\ StartAgain => KInv'
<1> SUFFICES ASSUME KInv, StartAgain PROVE KInv'
  OBVIOUS
<1>1. machine = "up" /\ TypeOK /\ Control /\ Saved /\ Held /\ Placed
  BY DEF KInv, StartAgain
<1>2. TypeOK'
  BY <1>1, ProcAssumption
     DEF TypeOK, Contexts, Places, StartAgain, Context, lists
<1>3. ASSUME machine' = "up" PROVE Control'
  BY <1>1 DEF Control, StartAgain, Context, lists
<1>4. ASSUME machine' = "up" PROVE Saved'
  BY <1>1, <1>4 DEF Saved, StartAgain
<1>5. ASSUME machine' = "up" PROVE Held'
  BY <1>1 DEF Held, Unharmed, StartAgain, Context, lists
<1>6. ASSUME machine' = "up" PROVE Placed'
  BY <1>1 DEF Placed, Unharmed, StartAgain, lists
<1> QED
  BY <1>2, <1>3, <1>4, <1>5, <1>6 DEF KInv

LEMMA TickKeeps == KInv /\ Tick => KInv'
<1> SUFFICES ASSUME KInv, Tick PROVE KInv'
  OBVIOUS
<1>1. machine = "up" /\ TypeOK /\ Control /\ Saved /\ Held /\ Placed
  BY DEF KInv, Tick
<1>2. TypeOK'
  <2>1. CASE running = NULL
    BY <1>1, <2>1 DEF Tick, Stop, TypeOK, Stops, lists
  <2>2. CASE running # NULL
    <3>1. running \in Proc /\ running \in born
      BY <1>1, <2>2 DEF TypeOK, Control
    <3>2. cpu' \in Contexts /\ cpu'.at # "system_stack"
      <4>1. cpu' = Context("schedule", running, 0)
        BY <2>2 DEF Tick
      <4> QED
        BY <3>1, <4>1, ProcAssumption DEF Contexts, Context, Places
    <3>3. OVERWRITTEN \in Contexts /\ cpu \in Contexts
      BY <1>1, ProcAssumption DEF TypeOK, OVERWRITTEN, Contexts, Context
    <3>4. cpu_state' \in [Proc -> Contexts]
      <4>1. (IF OnSystemStack THEN OVERWRITTEN ELSE cpu) \in Contexts
        BY <3>3
      <4> QED
        BY <1>1, <2>2, <4>1 DEF Tick, TypeOK
    <3>5. hit' \subseteq born'
      <4>1. hit' \subseteq hit \cup {running} \cup ({taken} \ {NULL})
        BY <2>2 DEF Tick
      <4>2. taken \in born \cup {NULL} /\ hit \subseteq born /\ born' = born
        BY <1>1, <2>2 DEF Control, TypeOK, Tick, lists
      <4> QED
        BY <3>1, <4>1, <4>2
    <3> QED
      BY <1>1, <2>2, <3>2, <3>4, <3>5 DEF Tick, TypeOK, lists
  <2> QED
    BY <2>1, <2>2
<1>3. ASSUME machine' = "up" PROVE Control'
  BY <1>1, <1>3 DEF Control, Tick, Stop, Context, lists
<1>4. ASSUME machine' = "up" PROVE Saved'
  <2>1. running # NULL /\ running \in Proc
    BY <1>1, <1>4 DEF Tick, Stop, TypeOK
  <2>2. cpu_state' = [cpu_state EXCEPT ![running] =
                        IF OnSystemStack THEN OVERWRITTEN ELSE cpu]
    BY <2>1 DEF Tick
  <2>3. cpu_state'[running] = IF OnSystemStack THEN OVERWRITTEN ELSE cpu
    BY <1>1, <2>1, <2>2 DEF TypeOK
  <2>4. CASE OnSystemStack
    BY <1>1, <2>1, <2>2, <2>3, <2>4 DEF Saved, OVERWRITTEN, Context
  <2>5. CASE ~OnSystemStack
    <3>1. cpu.at \in {"first", "made", "user", "entering"}
      BY <1>1, <2>1, <2>5 DEF OnSystemStack, TypeOK, Contexts, Places, Control
    <3>2. cpu.of = running /\ (cpu.at = "first" => cpu.returned = 0)
      BY <1>1, <3>1 DEF Control
    <3> QED
      BY <1>1, <2>1, <2>2, <2>3, <2>5, <3>1, <3>2 DEF Saved
  <2> QED
    BY <2>4, <2>5
<1>5. ASSUME machine' = "up" PROVE Held'
  <2>1. running # NULL /\ running \in Proc
    BY <1>1, <1>5 DEF Tick, Stop, TypeOK
  <2>2. cpu'.at = "schedule" /\ handled' = handled
    <3>1. cpu' = Context("schedule", running, 0) /\ handled' = handled
      BY <2>1 DEF Tick
    <3> QED
      BY <3>1 DEF Context
  <2>3. SUFFICES ASSUME NEW p \in Unharmed'
                 PROVE  \/ cpu_state'[p] = User(p, handled[p])
                        \/ cpu_state'[p] = Context("first", p, 0) /\ handled[p] = 0
    BY <2>2 DEF Held
  <2>4. p \in Unharmed /\ p \in Proc
    BY <1>1, <2>1 DEF Tick, Unharmed, lists, TypeOK
  <2>5. CASE p # running
    <3>1. cpu_state'[p] = cpu_state[p]
      BY <1>1, <2>1, <2>4, <2>5 DEF Tick, TypeOK
    <3>2. ~(cpu.of = p /\ cpu.at \in {"user", "entering", "trap", "first"})
      BY <1>1, <2>5 DEF Control
    <3> QED
      BY <1>1, <2>4, <3>1, <3>2 DEF Held
  <2>6. CASE p = running
    <3>1. cpu.at \in {"user", "first"}
      BY <2>1, <2>6 DEF Tick, Unharmed
    <3>2. cpu_state'[p] = cpu
      BY <1>1, <2>1, <2>6, <3>1 DEF Tick, TypeOK, OnSystemStack
    <3>3. cpu.of = p /\ (cpu.at = "first" => cpu.returned = 0)
      BY <1>1, <2>6, <3>1 DEF Control
    <3>4. CASE cpu.at = "user"
      BY <1>1, <2>4, <3>2, <3>3, <3>4 DEF Held
    <3>5. CASE cpu.at = "first"
      <4>1. cpu = Context("first", p, 0)
        BY <1>1, <3>3, <3>5 DEF TypeOK, Contexts, Context
      <4> QED
        BY <1>1, <2>4, <3>2, <3>3, <3>5, <4>1 DEF Held
    <3> QED
      BY <3>1, <3>4, <3>5
  <2> QED
    BY <2>5, <2>6
<1>6. ASSUME machine' = "up" PROVE Placed'
  BY <1>1, <1>6, ProcAssumption
     DEF TypeOK, Control, Placed, Unharmed, Tick, Stop, lists
<1> QED
  BY <1>2, <1>3, <1>4, <1>5, <1>6 DEF KInv

LEMMA StopsKeep ==
  KInv /\ (Shutdown \/ Halted \/ UNCHANGED vars) => KInv'
<1>1. KInv /\ Shutdown => KInv'
  BY DEF KInv, Shutdown, Stop, TypeOK, Stops, lists
<1>2. KInv /\ UNCHANGED vars => KInv'
  BY DEF KInv, vars, lists, TypeOK, Control, Saved, Held, Placed, Unharmed
<1> QED
  BY <1>1, <1>2 DEF Halted

LEMMA KInvHolds == Spec => []KInv
<1>1. KInv /\ [Next]_vars => KInv'
  BY AllocFirstKeeps, MakeFirstKeeps, EnterKeeps, TrapKeeps, ReturnKeeps,
     SpawnKeeps, PreemptKeeps, SleepOrWaitKeeps, ExitKeeps, WakeKeeps,
     ScheduleKeeps, SwitchKeeps, LoadKeeps, StartAgainKeeps, TickKeeps,
     StopsKeep
     DEF Next
<1> QED
  BY InitKeeps, <1>1, PTL DEF Spec

-----------------------------------------------------------------------------
(* What follows                                                            *)

\* A process that no tick in the kernel has hit is resumed where it left, and
\* each of its calls is carried out exactly once, whatever ticks did to others.
THEOREM UnharmedContextsHold == Spec => []ContextsHold
<1>1. KInv => ContextsHold
  BY DEF KInv, Held, ContextsHold
<1> QED
  BY <1>1, KInvHolds, PTL

\* Such a process is at any moment running, next, or in exactly one of the
\* ready, the sleeping and the waiting: sleep, wait, exit and the scheduler
\* lose nobody between taking it from one and entering it in another.
THEOREM UnharmedAreNotLost == Spec => []NobodyLost
<1>1. ASSUME KInv PROVE NobodyLost
  <2>1. TypeOK
    BY <1>1 DEF KInv
  <2>2. SUFFICES ASSUME machine = "up", NEW p \in Unharmed,
                        p \notin {running, taken}
                 PROVE  Cardinality({s \in {"ready", "sleeping", "waiting"} :
                           p \in CASE s = "ready" -> ready
                                   [] s = "sleeping" -> sleeping
                                   [] s = "waiting" -> waiting}) = 1
    BY <2>1 DEF NobodyLost
  <2> DEFINE ListOf(s) == CASE s = "ready" -> ready
                            [] s = "sleeping" -> sleeping
                            [] s = "waiting" -> waiting
  <2>3. /\ ListOf("ready") = ready /\ ListOf("sleeping") = sleeping
        /\ ListOf("waiting") = waiting
    OBVIOUS
  <2> HIDE DEF ListOf
  <2>4. Placed
    BY <1>1, <2>2 DEF KInv
  <2>5. \E t \in {"ready", "sleeping", "waiting"} :
          {s \in {"ready", "sleeping", "waiting"} : p \in ListOf(s)} = {t}
    <3>1. p \in ready \/ p \in sleeping \/ p \in waiting
      BY <2>2, <2>4 DEF Placed
    <3>2. /\ ~(p \in ready /\ p \in sleeping)
          /\ ~(p \in ready /\ p \in waiting)
          /\ ~(p \in sleeping /\ p \in waiting)
      BY <2>2, <2>4 DEF Placed
    <3> QED
      BY <2>3, <3>1, <3>2
  <2>6. Cardinality({s \in {"ready", "sleeping", "waiting"} : p \in ListOf(s)}) = 1
    BY <2>5, FS_Singleton
  <2> QED
    BY <2>6 DEF ListOf
<1> QED
  BY <1>1, KInvHolds, PTL

\* The arguments of a system call are stored in, and its result is taken from,
\* the PCB of the process whose code is on the CPU.
THEOREM CallsAreOfTheRunningProcess == Spec => []CpuIsRunnings
<1>1. KInv => CpuIsRunnings
  BY DEF KInv, Control, CpuIsRunnings
<1> QED
  BY <1>1, KInvHolds, PTL
=============================================================================
