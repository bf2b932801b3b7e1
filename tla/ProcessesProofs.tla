-------------------------- MODULE ProcessesProofs --------------------------
(***************************************************************************)
(* The safety invariants of Processes for every pool, every number of      *)
(* processes, every set of sleeping times and every clock bound, and what  *)
(* every step may do: who may free a block and wake a process, where a     *)
(* PCBPtr is lost, that no wake-up is missed, and that pids go through     *)
(* ProcessLifecycle.                                                       *)
(*                                                                         *)
(* None of the invariants is inductive alone.  That every block is in one  *)
(* place needs the status words (exit detaches a parent from the waiting   *)
(* list because its status says so), the timers (the scheduler detaches    *)
(* the process of every elapsed timer), and the family tree (wait frees    *)
(* the zombie a children list leads to).  IInv is their conjunction, and   *)
(* there is one lemma for each action that preserves it.  The rest starts  *)
(* from IInv, with a lemma that sorts the steps by what they do.           *)
(***************************************************************************)
EXTENDS ProcessesRefinement, SequenceLemmas, FiniteSetTheorems, TLAPS

IInv ==
  /\ TypeOK
  /\ OnePlace
  /\ StatusMatchesList
  /\ SleepersHaveTimers
  /\ FamilyTree
  /\ UniquePids

\* A process on the CPU is in use and neither waits nor is a zombie.
LEMMA OnCpuIsLive ==
  ASSUME IInv, running # NULL
  PROVE  /\ running \in Live
         /\ running \notin ToSet(ready_list)
         /\ running \notin waiting_list
         /\ running \notin zombie_list
         /\ running \notin free_pcbs
         /\ status[running] # "Waiting"
         /\ running \in Block
  BY DEF IInv, TypeOK, OnePlace, StatusMatchesList, OnCpu, Live

\* A list that is emptied lists nothing.
LEMMA EmptyList == ToSet(<<>>) = {} /\ IsInjective(<<>>) /\ \A S : <<>> \in Seq(S)
  BY DEF ToSet, IsInjective

\* A fault changes nothing but the word that names it.
LEMMA FaultPreserves ==
  ASSUME IInv, NEW why \in Faults, Fault(why)
  PROVE  IInv'
<1> USE DEF Fault, fields, pools, lists
<1>1. TypeOK'
  BY DEF IInv, TypeOK
<1>2. OnePlace'
  BY DEF IInv, OnePlace, OnCpu
<1>3. StatusMatchesList'
  BY DEF IInv, StatusMatchesList, Live
<1>4. SleepersHaveTimers'
  BY DEF IInv, SleepersHaveTimers, Asleep
<1>5. FamilyTree'
  BY DEF IInv, FamilyTree, Live
<1>6. UniquePids'
  BY DEF IInv, UniquePids, Live
<1> QED
  BY <1>1, <1>2, <1>3, <1>4, <1>5, <1>6 DEF IInv

-----------------------------------------------------------------------------
(* spawn                                                                   *)

LEMMA SpawnChildPreserves ==
  ASSUME IInv, running # NULL, NEW c \in free_pcbs, free_ptrs > 0, SpawnChild(c)
  PROVE  IInv'
<1> USE DEF SpawnChild, PCB_alloc, Return
<1>1. TypeOK
  BY DEF IInv
<1>2. c \in Block /\ c # running /\ c \notin ToSet(ready_list)
  BY OnCpuIsLive DEF IInv, OnePlace, TypeOK
<1>3. /\ ready_list' \in Seq(Block)
      /\ ToSet(ready_list') = ToSet(ready_list) \cup {c}
      /\ IsInjective(ready_list')
  BY <1>1, <1>2, InsertLast DEF TypeOK, IInv, OnePlace
<1>4. running \in Block /\ running \in Live /\ running \notin zombie_list
  BY OnCpuIsLive
<1>5. c \notin ToSet(children[running])
  BY <1>4 DEF IInv, FamilyTree, Live
<1>6. /\ Append(children[running], c) \in Seq(Block)
      /\ ToSet(Append(children[running], c)) = ToSet(children[running]) \cup {c}
      /\ IsInjective(Append(children[running], c))
  BY <1>1, <1>2, <1>4, <1>5, InsertLast DEF IInv, FamilyTree, TypeOK
<1>7. /\ children' \in [Block -> Seq(Block)]
      /\ children'[running] = Append(children[running], c)
      /\ children'[c] = <<>>
      /\ \A p \in Block \ {running, c} : children'[p] = children[p]
  BY <1>1, <1>2, <1>4, <1>6, EmptyList DEF TypeOK
<1>8. TypeOK'
  <2>1. pid' \in [Block -> 0..(MaxPid - 1)] /\ last_pid' \in 1..MaxPid
    BY <1>1, BoundAssumption DEF TypeOK
  <2>2. retval' \in [Block -> 0..MaxPid \cup {DSOS_EWAIT, DSOS_ESLEEP}]
    BY <1>1, BoundAssumption DEF TypeOK
  <2>3. parent' \in [Block -> Block \cup {NULL}] /\ status' \in [Block -> Status]
    BY <1>1, <1>4 DEF TypeOK, Status
  <2>4. free_pcbs' \subseteq Block /\ free_ptrs' \in Nat
    BY <1>1 DEF TypeOK
  <2> QED
    BY <1>1, <1>3, <1>7, <2>1, <2>2, <2>3, <2>4 DEF TypeOK
<1>9. OnePlace'
  BY <1>2, <1>3 DEF IInv, OnePlace, OnCpu
<1>10. StatusMatchesList'
  <2>1. /\ status'[c] = "Ready"
        /\ \A b \in Block \ {c} : status'[b] = status[b]
    BY <1>1, <1>2 DEF TypeOK
  <2>2. c \notin waiting_list /\ c \notin zombie_list
    BY DEF IInv, OnePlace
  <2>3. Live' = Live \cup {c} /\ c \notin Live
    BY <1>2 DEF Live
  <2> QED
    BY <2>1, <2>2, <2>3 DEF IInv, StatusMatchesList, Live
<1>11. SleepersHaveTimers'
  BY DEF IInv, SleepersHaveTimers, Asleep
<1>12. FamilyTree'
  <2>1. /\ ToSet(children'[running]) = ToSet(children[running]) \cup {c}
        /\ ToSet(children'[c]) = {}
        /\ ToSet(children[c]) = {}
        /\ \A p \in Block \ {running, c} : ToSet(children'[p]) = ToSet(children[p])
    BY <1>2, <1>6, <1>7, EmptyList DEF IInv, FamilyTree
  <2>2. /\ Live' = Live \cup {c}
        /\ c \notin Live
    BY <1>2 DEF Live
  <2>3. \A p \in Block : IsInjective(children'[p])
    BY <1>2, <1>6, <1>7, EmptyList DEF IInv, FamilyTree
  <2>4. \A p \in Block : c \notin ToSet(children[p])
    BY <2>2 DEF IInv, FamilyTree
  <2>5. \A p, q \in Block :
          p # q => ToSet(children'[p]) \cap ToSet(children'[q]) = {}
    <3>1. \A p \in Block : ToSet(children'[p]) \subseteq ToSet(children[p]) \cup {c}
      BY <2>1
    <3>2. \A p \in Block : c \in ToSet(children'[p]) => p = running
      BY <2>1, <2>4
    <3>3. \A p, q \in Block :
            p # q => ToSet(children[p]) \cap ToSet(children[q]) = {}
      BY DEF IInv, FamilyTree
    <3> QED
      BY ONLY <3>1, <3>2, <3>3
  <2>6. /\ parent'[c] = running
        /\ \A p \in Block \ {c} : parent'[p] = parent[p]
    BY <1>1, <1>2 DEF TypeOK
  <2>7. \A p \in Block : \A x \in ToSet(children'[p]) :
          /\ x \in Live'
          /\ parent'[x] # NULL
          /\ parent'[x] = p \/ parent'[p] = NULL
    <3> TAKE p \in Block
    <3> TAKE x \in ToSet(children'[p])
    <3>1. CASE x = c
      BY <3>1, <2>1, <2>2, <2>4, <2>6, <1>2, <1>4, NullAssumption
    <3>2. CASE x # c
      BY <3>2, <2>1, <2>2, <2>6, <1>2, <1>4 DEF IInv, FamilyTree, Live
    <3> QED
      BY <3>1, <3>2
  <2>8. \A x \in Live' : parent'[x] = NULL \/ \E p \in Live' : x \in ToSet(children'[p])
    <3> TAKE x \in Live'
    <3>1. CASE x = c
      BY <3>1, <2>1, <2>2, <1>4
    <3>2. CASE x # c /\ parent[x] = NULL
      BY <3>2, <2>2, <2>6 DEF Live
    <3>3. CASE x # c /\ parent[x] # NULL
      <4>1. PICK p \in Live : x \in ToSet(children[p])
        BY <3>3, <2>2 DEF IInv, FamilyTree
      <4>2. p \in Live' /\ x \in ToSet(children'[p])
        BY <4>1, <2>1, <2>2 DEF Live
      <4> QED
        BY <4>2
    <3> QED
      BY <3>1, <3>2, <3>3
  <2>9. \A b \in free_pcbs' \cup zombie_list' : children'[b] = <<>>
    BY <1>1, <1>2, <1>4, <1>7 DEF IInv, FamilyTree, TypeOK, Live, OnePlace
  <2>10. init_pcb' \in Live' \ zombie_list' /\ parent'[init_pcb'] = NULL
    BY <1>2, <2>2, <2>6 DEF IInv, FamilyTree, Live
  <2> QED
    BY <2>3, <2>5, <2>7, <2>8, <2>9, <2>10 DEF FamilyTree
<1>13. UniquePids'
  BY <1>1, <1>2 DEF IInv, UniquePids, Live, TypeOK
<1> QED
  BY <1>8, <1>9, <1>10, <1>11, <1>12, <1>13 DEF IInv

-----------------------------------------------------------------------------
(* wait                                                                    *)

LEMMA WaitFailsPreserves ==
  ASSUME IInv, running # NULL, WaitFails
  PROVE  IInv'
<1> USE DEF WaitFails, Return, pools, lists
<1>1. TypeOK'
  BY DEF IInv, TypeOK, DSOS_EWAIT
<1>2. OnePlace' /\ StatusMatchesList'
  BY DEF IInv, OnePlace, OnCpu, StatusMatchesList, Live
<1>3. SleepersHaveTimers'
  BY DEF IInv, SleepersHaveTimers, Asleep
<1>4. FamilyTree' /\ UniquePids'
  BY DEF IInv, FamilyTree, UniquePids, Live
<1> QED
  BY <1>1, <1>2, <1>3, <1>4 DEF IInv

LEMMA ReapPreserves ==
  ASSUME IInv, running # NULL, NEW i \in DOMAIN children[running], Reap(i)
  PROVE  IInv'
<1> DEFINE c == children[running][i]
<1> USE DEF Reap, Return
<1>1. TypeOK /\ running \in Block /\ running \in Live /\ running \notin zombie_list
  BY OnCpuIsLive DEF IInv
<1>2. /\ children[running] \in Seq(Block)
      /\ i \in 1..Len(children[running])
      /\ c \in ToSet(children[running])
      /\ IsInjective(children[running])
  <2>1. children[running] \in Seq(Block) /\ IsInjective(children[running])
    BY <1>1 DEF TypeOK, IInv, FamilyTree
  <2> QED
    BY <2>1, Elements
<1>3. c \in Live /\ status[c] = "Zombie" /\ parent[c] # NULL
  BY <1>1, <1>2 DEF IInv, FamilyTree
<1>4. c \in zombie_list /\ c \in Block /\ c # running /\ c # init_pcb
  BY <1>1, <1>3 DEF IInv, StatusMatchesList, Live, FamilyTree
<1>5. /\ RemoveAt(children[running], i) \in Seq(Block)
      /\ ToSet(RemoveAt(children[running], i)) = ToSet(children[running]) \ {c}
      /\ IsInjective(RemoveAt(children[running], i))
  BY <1>2, DetachAt
<1> HIDE DEF c
<1>6. /\ children' \in [Block -> Seq(Block)]
      /\ children'[running] = RemoveAt(children[running], i)
      /\ \A p \in Block \ {running} : children'[p] = children[p]
  BY <1>1, <1>5 DEF TypeOK
<1>7. /\ zombie_list' = zombie_list \ {c}
      /\ free_pcbs' = free_pcbs \cup {c}
      /\ Live' = Live \ {c}
  BY DEF Live, c
<1>8. TypeOK'
  <2>1. retval' \in [Block -> 0..MaxPid \cup {DSOS_EWAIT, DSOS_ESLEEP}]
    <3>1. pid[c] \in 0..MaxPid
      BY <1>1, <1>4, BoundAssumption DEF TypeOK
    <3> QED
      BY <1>1, <3>1 DEF TypeOK, c
  <2> QED
    BY <1>1, <1>4, <1>6, <1>7, <2>1 DEF TypeOK
<1>9. OnePlace'
  BY <1>4, <1>7 DEF IInv, OnePlace, OnCpu
<1>10. StatusMatchesList'
  BY <1>7 DEF IInv, StatusMatchesList, Live
<1>11. SleepersHaveTimers'
  BY DEF IInv, SleepersHaveTimers, Asleep
<1>12. FamilyTree'
  <2>1. \A p \in Block : ToSet(children'[p]) = ToSet(children[p]) \ {c}
    <3> TAKE p \in Block
    <3>1. CASE p = running
      BY <3>1, <1>5, <1>6
    <3>2. CASE p # running
      <4>1. c \notin ToSet(children[p])
        BY <3>2, <1>1, <1>2 DEF IInv, FamilyTree
      <4> QED
        BY <3>2, <4>1, <1>6
    <3> QED
      BY <3>1, <3>2
  <2>2. \A p \in Block : IsInjective(children'[p])
    BY <1>5, <1>6 DEF IInv, FamilyTree
  <2>3. \A p, q \in Block :
          p # q => ToSet(children'[p]) \cap ToSet(children'[q]) = {}
    BY <2>1 DEF IInv, FamilyTree
  <2>4. \A p \in Block : \A x \in ToSet(children'[p]) :
          /\ x \in Live'
          /\ parent'[x] # NULL
          /\ parent'[x] = p \/ parent'[p] = NULL
    BY <2>1, <1>7 DEF IInv, FamilyTree
  <2>5. ASSUME NEW x \in Live', parent'[x] # NULL
        PROVE  \E p \in Live' : x \in ToSet(children'[p])
    <3>1. x \in Live /\ x # c
      BY <1>7
    <3>2. PICK p \in Live : x \in ToSet(children[p])
      BY <3>1, <2>5 DEF IInv, FamilyTree
    <3>3. p # c
      BY <3>2, <1>4, EmptyList DEF IInv, FamilyTree
    <3> QED
      BY <3>1, <3>2, <3>3, <2>1, <1>7 DEF Live
  <2>6. ASSUME NEW b \in free_pcbs' \cup zombie_list'
        PROVE  children'[b] = <<>>
    <3>1. b \in free_pcbs \cup zombie_list
      BY <1>4, <1>7
    <3>2. children[b] = <<>>
      BY <3>1 DEF IInv, FamilyTree
    <3>3. b \in Block /\ b # running
      BY <3>1, <1>1 DEF TypeOK, Live
    <3> QED
      BY <3>2, <3>3, <1>6
  <2>7. init_pcb' \in Live' \ zombie_list' /\ parent'[init_pcb'] = NULL
    BY <1>4, <1>7 DEF IInv, FamilyTree
  <2> QED
    BY <2>2, <2>3, <2>4, <2>5, <2>6, <2>7 DEF FamilyTree
<1>13. UniquePids'
  BY <1>7 DEF IInv, UniquePids
<1> QED
  BY <1>8, <1>9, <1>10, <1>11, <1>12, <1>13 DEF IInv

LEMMA BlockInWaitPreserves ==
  ASSUME IInv, running # NULL, NEW n \in 0..MaxPid, BlockInWait(n)
  PROVE  IInv'
<1> USE DEF BlockInWait, pools
<1>1. TypeOK /\ running \in Block /\ running \in Live /\ running \notin zombie_list
  BY OnCpuIsLive DEF IInv
<1>2. /\ Head(ready_list) \in Block
      /\ Tail(ready_list) \in Seq(Block)
      /\ ToSet(ready_list) = {Head(ready_list)} \cup ToSet(Tail(ready_list))
      /\ IsInjective(Tail(ready_list))
      /\ Head(ready_list) \notin ToSet(Tail(ready_list))
  BY <1>1, DetachFirst DEF TypeOK, IInv, OnePlace
<1>3. Head(ready_list) # NULL /\ Head(ready_list) # running
  BY <1>2, OnCpuIsLive, NullAssumption
<1>4. TypeOK'
  BY <1>1, <1>2 DEF TypeOK, Status
<1>5. OnePlace'
  BY <1>1, <1>2, <1>3 DEF IInv, OnePlace, OnCpu
<1>6. StatusMatchesList'
  BY <1>1 DEF IInv, StatusMatchesList, Live, TypeOK
<1>7. SleepersHaveTimers'
  <2>1. Asleep' = Asleep
    BY <1>1, OnCpuIsLive DEF Asleep, TypeOK, NotAWait
  <2> QED
    BY <2>1 DEF IInv, SleepersHaveTimers
<1>8. FamilyTree' /\ UniquePids'
  BY DEF IInv, FamilyTree, UniquePids, Live
<1> QED
  BY <1>4, <1>5, <1>6, <1>7, <1>8 DEF IInv

-----------------------------------------------------------------------------
(* exit                                                                    *)

\* Reparenting leaves a forest in which the exiting process has no children.
LEMMA ReparentedForest ==
  ASSUME IInv, running # NULL, parent[running] # NULL
  PROVE  /\ running # init_pcb
         /\ Reparented \in [Block -> Seq(Block)]
         /\ Reparented[running] = <<>>
         /\ ToSet(Reparented[init_pcb])
              = ToSet(children[init_pcb]) \cup ToSet(children[running])
         /\ \A p \in Block \ {init_pcb, running} : Reparented[p] = children[p]
         /\ \A p \in Block : IsInjective(Reparented[p])
         /\ \A p, q \in Block :
              p # q => ToSet(Reparented[p]) \cap ToSet(Reparented[q]) = {}
         /\ \A p \in Block : \A x \in ToSet(Reparented[p]) :
              /\ x \in Live
              /\ parent[x] # NULL
              /\ parent[x] = p \/ parent[p] = NULL
         /\ \A x \in Live :
              parent[x] = NULL \/ \E p \in Live : x \in ToSet(Reparented[p])
         /\ \A b \in free_pcbs \cup zombie_list : Reparented[b] = <<>>
<1> DEFINE R == Reparented
<1>1. /\ TypeOK /\ FamilyTree
      /\ running \in Block /\ running \in Live /\ running \notin zombie_list
  BY OnCpuIsLive DEF IInv
<1>2. /\ init_pcb \in Block /\ init_pcb \in Live /\ init_pcb \notin zombie_list
      /\ running # init_pcb /\ parent[init_pcb] = NULL
  BY <1>1 DEF FamilyTree, TypeOK
<1>3. /\ children[init_pcb] \in Seq(Block) /\ children[running] \in Seq(Block)
      /\ IsInjective(children[init_pcb]) /\ IsInjective(children[running])
      /\ ToSet(children[init_pcb]) \cap ToSet(children[running]) = {}
  BY <1>1, <1>2 DEF FamilyTree, TypeOK
<1>4. /\ children[init_pcb] \o children[running] \in Seq(Block)
      /\ ToSet(children[init_pcb] \o children[running])
         = ToSet(children[init_pcb]) \cup ToSet(children[running])
      /\ IsInjective(children[init_pcb] \o children[running])
  BY <1>3, Concatenate
<1>5. /\ R \in [Block -> Seq(Block)]
      /\ R[init_pcb] = children[init_pcb] \o children[running]
      /\ R[running] = <<>>
      /\ \A p \in Block \ {init_pcb, running} : R[p] = children[p]
  BY <1>1, <1>2, <1>4, EmptyList DEF TypeOK, Reparented
<1> HIDE DEF R
<1>6. /\ ToSet(R[init_pcb]) = ToSet(children[init_pcb]) \cup ToSet(children[running])
      /\ ToSet(R[running]) = {}
      /\ \A p \in Block \ {init_pcb, running} : ToSet(R[p]) = ToSet(children[p])
  BY <1>4, <1>5, EmptyList
<1>7. \A p \in Block : IsInjective(R[p])
  BY <1>1, <1>4, <1>5, EmptyList DEF FamilyTree
<1>8. \A p, q \in Block : p # q => ToSet(R[p]) \cap ToSet(R[q]) = {}
  <2>1. \A p, q \in Block : p # q => ToSet(children[p]) \cap ToSet(children[q]) = {}
    BY <1>1 DEF FamilyTree
  <2> SUFFICES ASSUME NEW p \in Block, NEW q \in Block, p # q,
                      NEW x \in ToSet(R[p]), x \in ToSet(R[q])
               PROVE  FALSE
    OBVIOUS
  <2>2. p # running /\ q # running
    BY <1>6
  <2>3. CASE p = init_pcb
    BY <2>1, <2>2, <2>3, <1>1, <1>2, <1>6
  <2>4. CASE q = init_pcb
    BY <2>1, <2>2, <2>4, <1>1, <1>2, <1>6
  <2>5. CASE p # init_pcb /\ q # init_pcb
    BY <2>1, <2>2, <2>5, <1>6
  <2> QED
    BY <2>3, <2>4, <2>5
<1>9. \A p \in Block : \A x \in ToSet(R[p]) :
        /\ x \in Live
        /\ parent[x] # NULL
        /\ parent[x] = p \/ parent[p] = NULL
  <2> TAKE p \in Block
  <2> TAKE x \in ToSet(R[p])
  <2>1. CASE p = init_pcb
    BY <2>1, <1>1, <1>2, <1>6 DEF FamilyTree
  <2>2. CASE p = running
    BY <2>2, <1>6
  <2>3. CASE p # init_pcb /\ p # running
    BY <2>3, <1>1, <1>6 DEF FamilyTree
  <2> QED
    BY <2>1, <2>2, <2>3
<1>10. \A x \in Live : parent[x] = NULL \/ \E p \in Live : x \in ToSet(R[p])
  <2> SUFFICES ASSUME NEW x \in Live, parent[x] # NULL
               PROVE  \E p \in Live : x \in ToSet(R[p])
    OBVIOUS
  <2>1. PICK p \in Live : x \in ToSet(children[p])
    BY <1>1 DEF FamilyTree
  <2>2. CASE p = running \/ p = init_pcb
    BY <2>1, <2>2, <1>2, <1>6
  <2>3. CASE p # running /\ p # init_pcb
    BY <2>1, <2>3, <1>6 DEF Live
  <2> QED
    BY <2>2, <2>3
<1>11. \A b \in free_pcbs \cup zombie_list : R[b] = <<>>
  BY <1>1, <1>2, <1>5 DEF FamilyTree, TypeOK, Live
<1> QED
  BY <1>2, <1>5, <1>6, <1>7, <1>8, <1>9, <1>10, <1>11 DEF R

LEMMA ExitToZombiePreserves ==
  ASSUME IInv, running # NULL, parent[running] # NULL, ExitToZombie
  PROVE  IInv'
<1> USE DEF ExitToZombie, Died, pools
<1>1. /\ TypeOK
      /\ running \in Block /\ running \in Live /\ running \notin zombie_list
      /\ running \notin waiting_list
  BY OnCpuIsLive DEF IInv
<1>2. /\ Head(ready_list) \in Block
      /\ Tail(ready_list) \in Seq(Block)
      /\ ToSet(ready_list) = {Head(ready_list)} \cup ToSet(Tail(ready_list))
      /\ IsInjective(Tail(ready_list))
      /\ Head(ready_list) \notin ToSet(Tail(ready_list))
  BY <1>1, DetachFirst DEF TypeOK, IInv, OnePlace
<1>3. Head(ready_list) # NULL /\ Head(ready_list) # running
  BY <1>2, OnCpuIsLive, NullAssumption
<1>4. /\ status' \in [Block -> Status]
      /\ status'[running] = "Zombie"
      /\ status'[Head(ready_list)] = "Running"
      /\ \A b \in Block \ {running, Head(ready_list)} : status'[b] = status[b]
  BY <1>1, <1>2, <1>3 DEF TypeOK, Status
<1>5. TypeOK'
  BY <1>1, <1>2, <1>4, ReparentedForest DEF TypeOK
<1>6. OnePlace'
  BY <1>1, <1>2, <1>3 DEF IInv, OnePlace, OnCpu
<1>7. StatusMatchesList'
  <2>1. /\ Head(ready_list) \notin waiting_list
        /\ Head(ready_list) \notin zombie_list
    BY <1>2 DEF IInv, OnePlace
  <2> QED
    BY <2>1, <1>1, <1>2, <1>3, <1>4 DEF IInv, StatusMatchesList, Live
<1>8. SleepersHaveTimers'
  BY DEF IInv, SleepersHaveTimers, Asleep
<1>9. FamilyTree'
  <2>1. Live' = Live
    BY DEF Live
  <2>2. init_pcb' \in Live' \ zombie_list' /\ parent'[init_pcb'] = NULL
    BY <2>1, ReparentedForest DEF IInv, FamilyTree
  <2>3. \A b \in free_pcbs' \cup zombie_list' : children'[b] = <<>>
    BY ReparentedForest
  <2> QED
    BY <2>1, <2>2, <2>3, ReparentedForest DEF FamilyTree
<1>10. UniquePids'
  BY DEF IInv, UniquePids, Live
<1> QED
  BY <1>5, <1>6, <1>7, <1>8, <1>9, <1>10 DEF IInv

\* What an exit to a waiting parent does: the family loses the process, the
\* parent gets the CPU, and the timers stay as they are.
LEMMA HandOver ==
  ASSUME IInv, running # NULL, parent[running] # NULL, ParentAwaits,
         NEW i \in DOMAIN Reparented[parent[running]], ExitToParent(i)
  PROVE  LET p == parent[running]
         IN  /\ p \in Block /\ p \in waiting_list /\ p # running /\ p # NULL
             /\ p \in Live /\ p \notin zombie_list /\ p \notin ToSet(ready_list)
             /\ wait_for[p] \in {0, pid[running]} /\ wait_for[p] # NotAWait
             /\ running \in ToSet(Reparented[p])
             /\ children' \in [Block -> Seq(Block)]
             /\ \A q \in Block : /\ IsInjective(children'[q])
                                  /\ ToSet(children'[q])
                                       = ToSet(Reparented[q]) \ {running}
             /\ \A q \in Block \ {p} : children'[q] = Reparented[q]
             /\ status' \in [Block -> Status]
             /\ status'[running] = "Zombie"
             /\ status'[p] = "Running"
             /\ \A b \in Block \ {running, p} : status'[b] = status[b]
             /\ waiting_list' = waiting_list \ {p}
             /\ free_pcbs' = free_pcbs \cup {running}
             /\ running' = p
             /\ Live' = Live \ {running}
             /\ UNCHANGED <<pid, parent, wait_for, free_ptrs, ready_list,
                            zombie_list, timer_list, disastrOS_time, last_pid,
                            init_pcb, machine>>
             /\ retval' = [retval EXCEPT ![p] = pid[running]]
<1> DEFINE p == parent[running]
           R == Reparented
           kids == RemoveAt(R[p], i)
<1>1. /\ TypeOK
      /\ running \in Block /\ running \in Live /\ running \notin zombie_list
      /\ running \notin waiting_list /\ running \notin ToSet(ready_list)
  BY OnCpuIsLive DEF IInv
<1>2. /\ p \in Block /\ p \in waiting_list /\ p # running /\ p # NULL
      /\ p \in Live /\ p \notin zombie_list /\ p \notin ToSet(ready_list)
      /\ wait_for[p] \in {0, pid[running]} /\ wait_for[p] # NotAWait
  <2>1. p \in Block /\ p \in waiting_list /\ wait_for[p] \in {0, pid[running]}
    BY <1>1 DEF ParentAwaits, TypeOK, IInv, StatusMatchesList
  <2>2. pid[running] \in Nat
    BY <1>1, BoundAssumption DEF TypeOK
  <2> QED
    BY <2>1, <2>2, <1>1, NullAssumption DEF IInv, OnePlace, Live, NotAWait
<1>3. /\ R[p] \in Seq(Block) /\ IsInjective(R[p])
      /\ i \in 1..Len(R[p]) /\ R[p][i] \in ToSet(R[p])
  <2>1. R[p] \in Seq(Block) /\ IsInjective(R[p])
    BY <1>2, ReparentedForest
  <2> QED
    BY <2>1, Elements
<1>4. R[p][i] = running
  <2>1. R[p][i] \in Live /\ pid[R[p][i]] = pid[running]
    BY <1>2, <1>3, ReparentedForest DEF ExitToParent, ByPID
  <2> QED
    BY <2>1, <1>1 DEF IInv, UniquePids
<1>5. /\ kids \in Seq(Block)
      /\ ToSet(kids) = ToSet(R[p]) \ {running}
      /\ IsInjective(kids)
  BY <1>3, <1>4, DetachAt
<1>6. /\ children' \in [Block -> Seq(Block)]
      /\ children'[p] = kids
      /\ \A q \in Block \ {p} : children'[q] = R[q]
  <2>1. children' = [R EXCEPT ![p] = kids]
    BY DEF ExitToParent
  <2>2. R \in [Block -> Seq(Block)]
    BY ReparentedForest
  <2> HIDE DEF R, kids
  <2> QED
    BY <2>1, <2>2, <1>2, <1>5
<1>7. /\ status' \in [Block -> Status]
      /\ status'[running] = "Zombie"
      /\ status'[p] = "Running"
      /\ \A b \in Block \ {running, p} : status'[b] = status[b]
  BY <1>1, <1>2 DEF ExitToParent, Died, TypeOK, Status
<1>8. timer_list' = timer_list
  <2>1. running \notin Asleep
    BY <1>1 DEF Asleep
  <2>2. \A j \in DOMAIN timer_list : timer_list[j].pcb # running
    BY <2>1 DEF IInv, SleepersHaveTimers
  <2> QED
    BY <2>2 DEF ExitToParent, WithoutTimersOf
<1>9. /\ waiting_list' = waiting_list \ {p}
      /\ free_pcbs' = free_pcbs \cup {running}
      /\ running' = p
      /\ Live' = Live \ {running}
      /\ UNCHANGED <<pid, parent, wait_for, free_ptrs, ready_list, zombie_list,
                     disastrOS_time, last_pid, init_pcb, machine>>
      /\ retval' = [retval EXCEPT ![p] = pid[running]]
  BY DEF ExitToParent, Return, Live
<1> HIDE DEF p, R, kids
<1>10. \A q \in Block : ToSet(children'[q]) = ToSet(R[q]) \ {running}
  <2> TAKE q \in Block
  <2>1. CASE q = p
    BY <2>1, <1>5, <1>6
  <2>2. CASE q # p
    <3>1. running \notin ToSet(R[q])
      BY <2>2, <1>2, <1>3, <1>4, ReparentedForest DEF R
    <3> QED
      BY <2>2, <3>1, <1>6
  <2> QED
    BY <2>1, <2>2
<1>11. \A q \in Block : IsInjective(children'[q])
  BY <1>5, <1>6, ReparentedForest DEF R
<1> QED
  BY <1>2, <1>3, <1>4, <1>6, <1>7, <1>8, <1>9, <1>10, <1>11 DEF p, R

LEMMA ExitToParentPreserves ==
  ASSUME IInv, running # NULL, parent[running] # NULL, ParentAwaits,
         NEW i \in DOMAIN Reparented[parent[running]], ExitToParent(i)
  PROVE  IInv'
<1> DEFINE p == parent[running]
           R == Reparented
<1>1. /\ TypeOK
      /\ running \in Block /\ running \in Live /\ running \notin zombie_list
      /\ running \notin waiting_list /\ running \notin ToSet(ready_list)
  BY OnCpuIsLive DEF IInv
<1>2. /\ p \in Block /\ p \in waiting_list /\ p # running /\ p # NULL
      /\ p \in Live /\ p \notin zombie_list /\ p \notin ToSet(ready_list)
      /\ wait_for[p] # NotAWait
  BY HandOver
<1>3. /\ children' \in [Block -> Seq(Block)]
      /\ \A q \in Block \ {p} : children'[q] = R[q]
  BY HandOver
<1>4. /\ status' \in [Block -> Status]
      /\ status'[running] = "Zombie"
      /\ status'[p] = "Running"
      /\ \A b \in Block \ {running, p} : status'[b] = status[b]
  BY HandOver
<1>5. /\ waiting_list' = waiting_list \ {p}
      /\ free_pcbs' = free_pcbs \cup {running}
      /\ running' = p
      /\ Live' = Live \ {running}
      /\ UNCHANGED <<pid, parent, wait_for, free_ptrs, ready_list, zombie_list,
                     timer_list, disastrOS_time, last_pid, init_pcb, machine>>
      /\ retval' = [retval EXCEPT ![p] = pid[running]]
  BY HandOver
<1>6. TypeOK'
  <2>1. retval' \in [Block -> 0..MaxPid \cup {DSOS_EWAIT, DSOS_ESLEEP}]
    BY <1>1, <1>5, BoundAssumption DEF TypeOK
  <2> QED
    BY <1>1, <1>2, <1>3, <1>4, <1>5, <2>1 DEF TypeOK
<1> HIDE DEF p, R
<1>7. OnePlace'
  BY <1>1, <1>2, <1>5 DEF IInv, OnePlace, OnCpu
<1>8. StatusMatchesList'
  BY <1>1, <1>2, <1>4, <1>5 DEF IInv, StatusMatchesList, Live
<1>9. SleepersHaveTimers'
  <2>1. Asleep' = Asleep
    BY <1>2, <1>5 DEF Asleep
  <2> QED
    BY <2>1, <1>5 DEF IInv, SleepersHaveTimers
<1>10. FamilyTree'
  <2>1. \A q \in Block : ToSet(children'[q]) = ToSet(R[q]) \ {running}
    BY HandOver DEF p, R
  <2>2. \A q \in Block : IsInjective(children'[q])
    BY HandOver
  <2>3. \A q, r \in Block :
          q # r => ToSet(children'[q]) \cap ToSet(children'[r]) = {}
    <3>1. \A q, r \in Block : q # r => ToSet(R[q]) \cap ToSet(R[r]) = {}
      BY ReparentedForest DEF R
    <3> QED
      BY <2>1, <3>1
  <2>4. \A q \in Block : \A x \in ToSet(children'[q]) :
          /\ x \in Live'
          /\ parent'[x] # NULL
          /\ parent'[x] = q \/ parent'[q] = NULL
    BY <2>1, <1>5, ReparentedForest DEF R
  <2>5. ASSUME NEW x \in Live', parent'[x] # NULL
        PROVE  \E q \in Live' : x \in ToSet(children'[q])
    <3>1. x \in Live /\ x # running
      BY <1>5
    <3>2. PICK q \in Live : x \in ToSet(R[q])
      BY <3>1, <2>5, <1>5, ReparentedForest DEF R
    <3>3. q # running
      BY <3>2, EmptyList, ReparentedForest DEF R
    <3> QED
      BY <3>1, <3>2, <3>3, <2>1, <1>5 DEF Live
  <2>6. \A b \in free_pcbs' \cup zombie_list' : children'[b] = <<>>
    <3>1. \A b \in free_pcbs \cup zombie_list \cup {running} : R[b] = <<>>
      BY ReparentedForest DEF R
    <3>2. \A b \in free_pcbs \cup zombie_list \cup {running} : b \in Block \ {p}
      BY <1>1, <1>2 DEF Live, TypeOK
    <3> QED
      BY <3>1, <3>2, <1>3, <1>5
  <2>7. init_pcb' \in Live' \ zombie_list' /\ parent'[init_pcb'] = NULL
    BY <1>5, ReparentedForest DEF IInv, FamilyTree
  <2> QED
    BY <2>2, <2>3, <2>4, <2>5, <2>6, <2>7 DEF FamilyTree
<1>11. UniquePids'
  BY <1>5 DEF IInv, UniquePids
<1> QED
  BY <1>6, <1>7, <1>8, <1>9, <1>10, <1>11 DEF IInv

-----------------------------------------------------------------------------
(* sleep                                                                   *)

LEMMA SleepFailsPreserves ==
  ASSUME IInv, running # NULL, SleepFails
  PROVE  IInv'
<1> USE DEF SleepFails, Return, pools, lists
<1>1. TypeOK'
  BY DEF IInv, TypeOK, DSOS_ESLEEP
<1>2. OnePlace' /\ StatusMatchesList'
  BY DEF IInv, OnePlace, OnCpu, StatusMatchesList, Live
<1>3. SleepersHaveTimers'
  BY DEF IInv, SleepersHaveTimers, Asleep
<1>4. FamilyTree' /\ UniquePids'
  BY DEF IInv, FamilyTree, UniquePids, Live
<1> QED
  BY <1>1, <1>2, <1>3, <1>4 DEF IInv

\* TimerList_add keeps the timers sorted and one to a process.
LEMMA TimerAdded ==
  ASSUME TypeOK, SleepersHaveTimers, NEW b \in Block, b \notin Asleep,
         NEW wake \in 0..MaxTime, NEW k \in 0..Len(timer_list),
         InsertionPoint(wake, k)
  PROVE  LET T == InsertAt(timer_list, k + 1, [time |-> wake, pcb |-> b])
         IN  /\ T \in Seq(Timer)
             /\ \A i, j \in DOMAIN T :
                  /\ i < j => T[i].time <= T[j].time
                  /\ i # j => T[i].pcb # T[j].pcb
             /\ Asleep \cup {b} = {T[i].pcb : i \in DOMAIN T}
<1> DEFINE e == [time |-> wake, pcb |-> b]
           T == InsertAt(timer_list, k + 1, e)
           s == timer_list
           n == Len(timer_list)
<1>1. /\ s \in Seq(Timer) /\ n \in Nat /\ DOMAIN s = 1..n /\ k \in 0..n
      /\ e \in Timer /\ e.time = wake /\ e.pcb = b
  <2>1. s \in Seq(Timer)
    BY DEF TypeOK
  <2> QED
    BY <2>1, Elements DEF Timer
<1>2. /\ T \in Seq(Timer)
      /\ Len(T) = n + 1
      /\ \A j \in 1..k : T[j] = s[j]
      /\ T[k + 1] = e
      /\ \A j \in (k + 2)..(n + 1) : T[j] = s[j - 1]
  <2> HIDE DEF e, s
  <2>1. s \in Seq(Timer) /\ k \in 0..Len(s) /\ e \in Timer
    BY <1>1 DEF s
  <2>2. PICK m : m = k + 1
    OBVIOUS
  <2> DEFINE I == InsertAt(s, m, e)
  <2>3. I \in Seq(Timer)
    BY <2>1, <2>2, InsertBehind
  <2>4. Len(I) = Len(s) + 1
    BY <2>1, <2>2, InsertBehind
  <2>5. \A j \in 1..k : I[j] = s[j]
    BY <2>1, <2>2, InsertBehind
  <2>6. I[k + 1] = e
    BY <2>1, <2>2, InsertBehind
  <2>7. \A j \in (k + 2)..(Len(s) + 1) : I[j] = s[j - 1]
    BY <2>1, <2>2, InsertBehind
  <2>8. T = I
    BY <2>2 DEF s
  <2> HIDE DEF I
  <2> QED
    BY <2>3, <2>4, <2>5, <2>6, <2>7, <2>8 DEF s
<1>3. DOMAIN T = 1..(n + 1)
  BY <1>1, <1>2, Elements
<1> HIDE DEF T, e
<1>4. \A i \in 1..n : s[i].time \in Int
  <2>1. \A i \in 1..n : s[i] \in Timer
    BY <1>1, ElementOfSeq
  <2> QED
    BY <2>1, BoundAssumption DEF Timer
<1>5. /\ \A i \in 1..k : s[i].time <= wake
      /\ \A i \in (k + 1)..n : wake < s[i].time
  <2>1. \A i, j \in 1..n : i < j => s[i].time <= s[j].time
    BY <1>1 DEF SleepersHaveTimers
  <2>2. k < n => wake < s[k + 1].time
    BY <1>1 DEF InsertionPoint
  <2>3. ASSUME NEW i \in (k + 1)..n
        PROVE  wake < s[i].time
    <3>1. k < n /\ k + 1 \in 1..n /\ i \in 1..n /\ (i = k + 1 \/ k + 1 < i)
      BY <1>1
    <3> QED
      BY <2>1, <2>2, <3>1, <1>4
  <2> QED
    BY <2>3 DEF InsertionPoint
<1>6. /\ \A i \in 1..n : s[i].pcb # b
      /\ \A i, j \in 1..n : i # j => s[i].pcb # s[j].pcb
      /\ \A i, j \in 1..n : i < j => s[i].time <= s[j].time
  BY <1>1 DEF SleepersHaveTimers
<1>7. \A i \in 1..(n + 1) : \/ i \in 1..k /\ T[i] = s[i]
                            \/ i = k + 1 /\ T[i] = e
                            \/ i \in (k + 2)..(n + 1) /\ i - 1 \in (k + 1)..n /\ T[i] = s[i - 1]
  BY <1>1, <1>2
<1>8. ASSUME NEW i \in 1..(n + 1), NEW j \in 1..(n + 1), i < j
      PROVE  T[i].time <= T[j].time /\ T[i].pcb # T[j].pcb
  <2>1. CASE i \in 1..k /\ T[i] = s[i]
    <3>1. CASE j \in 1..k /\ T[j] = s[j]
      BY <2>1, <3>1, <1>1, <1>6, <1>8
    <3>2. CASE j = k + 1 /\ T[j] = e
      BY <2>1, <3>2, <1>1, <1>5, <1>6
    <3>3. CASE j \in (k + 2)..(n + 1) /\ T[j] = s[j - 1]
      <4>1. i \in 1..n /\ j - 1 \in 1..n /\ i < j - 1
        BY <2>1, <3>3, <1>1
      <4> QED
        BY <2>1, <3>3, <4>1, <1>6
    <3> QED
      BY <3>1, <3>2, <3>3, <1>7
  <2>2. CASE i = k + 1 /\ T[i] = e
    <3>1. j \in (k + 2)..(n + 1) /\ T[j] = s[j - 1] /\ j - 1 \in (k + 1)..n /\ j - 1 \in 1..n
      BY <2>2, <1>1, <1>7, <1>8
    <3> QED
      BY <2>2, <3>1, <1>1, <1>4, <1>5, <1>6
  <2>3. CASE i \in (k + 2)..(n + 1) /\ T[i] = s[i - 1]
    <3>1. /\ j \in (k + 2)..(n + 1) /\ T[j] = s[j - 1]
          /\ i - 1 \in 1..n /\ j - 1 \in 1..n /\ i - 1 < j - 1
      BY <2>3, <1>1, <1>7, <1>8
    <3> QED
      BY <2>3, <3>1, <1>6
  <2> QED
    BY <2>1, <2>2, <2>3, <1>7
<1>9. Asleep \cup {b} = {T[i].pcb : i \in 1..(n + 1)}
  <2>1. Asleep = {s[i].pcb : i \in 1..n}
    BY <1>1 DEF SleepersHaveTimers
  <2>2. \A i \in 1..(n + 1) : T[i].pcb \in Asleep \cup {b}
    <3> TAKE i \in 1..(n + 1)
    <3>1. CASE i \in 1..k /\ T[i] = s[i]
      BY <3>1, <2>1, <1>1
    <3>2. CASE i = k + 1 /\ T[i] = e
      BY <3>2, <1>1
    <3>3. CASE i - 1 \in (k + 1)..n /\ T[i] = s[i - 1]
      BY <3>3, <2>1, <1>1
    <3> QED
      BY <3>1, <3>2, <3>3, <1>7
  <2>3. ASSUME NEW i \in 1..n
        PROVE  \E j \in 1..(n + 1) : T[j].pcb = s[i].pcb
    <3>1. CASE i <= k
      BY <3>1, <1>1, <1>2
    <3>2. CASE i > k
      <4>1. i + 1 \in (k + 2)..(n + 1) /\ (i + 1) - 1 = i /\ i + 1 \in 1..(n + 1)
        BY <3>2, <1>1
      <4>2. T[i + 1] = s[i]
        BY <4>1, <1>2
      <4> QED
        BY <4>1, <4>2
    <3> QED
      BY <3>1, <3>2, <1>1
  <2>4. T[k + 1].pcb = b /\ k + 1 \in 1..(n + 1)
    BY <1>1, <1>2
  <2> QED
    BY <2>1, <2>2, <2>3, <2>4
<1>10. \A i, j \in 1..(n + 1) : i # j => T[i].pcb # T[j].pcb
  <2> TAKE i, j \in 1..(n + 1)
  <2>1. i < j \/ j < i \/ i = j
    BY <1>1
  <2> QED
    BY <2>1, <1>8
<1> QED
  BY <1>2, <1>3, <1>8, <1>9, <1>10 DEF T, e

LEMMA FallAsleepPreserves ==
  ASSUME IInv, running # NULL, NEW wake \in 0..MaxTime, FallAsleep(wake)
  PROVE  IInv'
<1> USE DEF FallAsleep, pools
<1>1. /\ TypeOK
      /\ running \in Block /\ running \in Live /\ running \notin zombie_list
      /\ running \notin waiting_list /\ running \notin ToSet(ready_list)
  BY OnCpuIsLive DEF IInv
<1>2. ready_list # <<>> =>
        /\ Head(ready_list) \in Block
        /\ Tail(ready_list) \in Seq(Block)
        /\ ToSet(ready_list) = {Head(ready_list)} \cup ToSet(Tail(ready_list))
        /\ IsInjective(Tail(ready_list))
        /\ Head(ready_list) \notin ToSet(Tail(ready_list))
        /\ Head(ready_list) # NULL
  BY <1>1, DetachFirst, NullAssumption DEF TypeOK, IInv, OnePlace
<1>3. /\ timer_list' \in Seq(Timer)
      /\ \A i, j \in DOMAIN timer_list' :
           /\ i < j => timer_list'[i].time <= timer_list'[j].time
           /\ i # j => timer_list'[i].pcb # timer_list'[j].pcb
      /\ Asleep \cup {running} = {timer_list'[i].pcb : i \in DOMAIN timer_list'}
  <2>1. PICK k \in 0..Len(timer_list) :
          /\ InsertionPoint(wake, k)
          /\ timer_list' = InsertAt(timer_list, k + 1, [time |-> wake, pcb |-> running])
    OBVIOUS
  <2>2. running \notin Asleep /\ SleepersHaveTimers
    BY <1>1 DEF Asleep, IInv
  <2> QED
    BY ONLY <2>1, <2>2, <1>1, TimerAdded
<1>4. /\ status' \in [Block -> Status]
      /\ status'[running] = "Waiting"
      /\ \A b \in Block \ {running} : status'[b] = status[b]
      /\ wait_for' \in [Block -> 0..MaxPid \cup {NotAWait}]
      /\ wait_for'[running] = NotAWait
      /\ \A b \in Block \ {running} : wait_for'[b] = wait_for[b]
  BY <1>1 DEF TypeOK, Status
<1>5. TypeOK'
  BY <1>1, <1>2, <1>3, <1>4 DEF TypeOK
<1>6. OnePlace'
  <2>1. CASE ready_list # <<>>
    BY <2>1, <1>1, <1>2 DEF IInv, OnePlace, OnCpu
  <2>2. CASE ready_list = <<>>
    BY <2>2, <1>1, EmptyList DEF IInv, OnePlace, OnCpu
  <2> QED
    BY <2>1, <2>2
<1>7. StatusMatchesList'
  BY <1>1, <1>4 DEF IInv, StatusMatchesList, Live
<1>8. SleepersHaveTimers'
  <2>1. Asleep' = Asleep \cup {running}
    BY <1>1, <1>4 DEF Asleep, TypeOK
  <2> QED
    BY <2>1, <1>3 DEF SleepersHaveTimers
<1>9. FamilyTree' /\ UniquePids'
  BY DEF IInv, FamilyTree, UniquePids, Live
<1> QED
  BY <1>5, <1>6, <1>7, <1>8, <1>9 DEF IInv

-----------------------------------------------------------------------------
(* The scheduler                                                           *)

\* The processes of the first n timers: distinct ones, all asleep.
LEMMA WokenAreAsleep ==
  ASSUME IInv, NEW n \in 0..Len(timer_list)
  PROVE  /\ Woken(n) \in Seq(Block)
         /\ ToSet(Woken(n)) = {timer_list[i].pcb : i \in 1..n}
         /\ ToSet(Woken(n)) \subseteq Asleep
         /\ IsInjective(Woken(n))
<1>1. /\ timer_list \in Seq(Timer) /\ Len(timer_list) \in Nat
      /\ DOMAIN timer_list = 1..Len(timer_list)
      /\ n \in Nat /\ \A i \in 1..n : i \in 1..Len(timer_list)
  <2>1. timer_list \in Seq(Timer)
    BY DEF IInv, TypeOK
  <2> QED
    BY <2>1, Elements
<1>2. \A i \in 1..n : timer_list[i].pcb \in Block
  <2>1. \A i \in 1..n : timer_list[i] \in Timer
    BY <1>1, ElementOfSeq
  <2> QED
    BY <2>1 DEF Timer
<1>3. Woken(n) \in Seq(Block) /\ Len(Woken(n)) = n
  BY <1>1, <1>2 DEF Woken
<1>4. \A i \in 1..n : Woken(n)[i] = timer_list[i].pcb
  BY DEF Woken
<1>5. ToSet(Woken(n)) = {timer_list[i].pcb : i \in 1..n}
  <2>1. ToSet(Woken(n)) = {Woken(n)[i] : i \in 1..n}
    BY <1>3, Elements
  <2> QED
    BY <2>1, <1>4
<1>6. {timer_list[i].pcb : i \in 1..n} \subseteq Asleep
  BY <1>1 DEF IInv, SleepersHaveTimers
<1>7. IsInjective(Woken(n))
  <2>1. \A i, j \in 1..n : Woken(n)[i] = Woken(n)[j] => i = j
    BY <1>1, <1>4 DEF IInv, SleepersHaveTimers
  <2> QED
    BY <2>1, <1>3, Elements
<1> QED
  BY <1>3, <1>5, <1>6, <1>7

\* What the scheduler does: the elapsed sleepers W leave the waiting list, one
\* of them or of the ready ones gets the CPU, and everybody else among them is
\* ready, the process that had the CPU included.
LEMMA ScheduleMoves ==
  ASSUME IInv, running # NULL, NEW t, Schedule(t)
  PROVE  \E n \in 0..Len(timer_list) :
           LET W == ToSet(Woken(n))
           IN  /\ Elapsed(n, t)
               /\ W = {timer_list[i].pcb : i \in 1..n}
               /\ W \subseteq Asleep
               /\ timer_list' = TimersAfter(n)
               /\ waiting_list' = waiting_list \ W
               /\ UNCHANGED <<pid, parent, children, wait_for, retval, pools,
                              zombie_list, last_pid, init_pcb, machine>>
               /\ \/ /\ W = {} /\ ready_list = <<>>
                     /\ UNCHANGED <<running, ready_list, status>>
                  \/ \E next \in W \cup ToSet(ready_list) :
                       /\ next \in Block /\ next # running
                       /\ running' = next
                       /\ ready_list' \in Seq(Block)
                       /\ IsInjective(ready_list')
                       /\ ToSet(ready_list')
                            = (W \cup ToSet(ready_list) \cup {running}) \ {next}
                       /\ status' \in [Block -> Status]
                       /\ status'[next] = "Running"
                       /\ \A b \in (W \cup {running}) \ {next} :
                            status'[b] = "Ready"
                       /\ \A b \in Block \ (W \cup {running, next}) :
                            status'[b] = status[b]
<1>1. /\ TypeOK
      /\ running \in Block /\ running \in Live /\ running \notin zombie_list
      /\ running \notin waiting_list /\ running \notin ToSet(ready_list)
  BY OnCpuIsLive DEF IInv
<1>2. PICK n \in 0..Len(timer_list) :
        LET queue == Woken(n) \o ready_list
        IN  /\ Elapsed(n, t)
            /\ timer_list' = TimersAfter(n)
            /\ waiting_list' = waiting_list \ ToSet(Woken(n))
            /\ \/ /\ queue = <<>>
                  /\ UNCHANGED <<running, ready_list, status>>
               \/ /\ queue # <<>>
                  /\ Rotate(queue)
                  /\ status' = [b \in Block |->
                       CASE b = Head(queue) -> "Running"
                         [] b # Head(queue) /\ b \in ToSet(Woken(n)) \cup {running}
                                            -> "Ready"
                         [] OTHER -> status[b]]
            /\ UNCHANGED <<pid, parent, children, wait_for, retval, pools,
                           zombie_list, last_pid, init_pcb, machine>>
  BY Zenon DEF Schedule
<1> DEFINE W == ToSet(Woken(n))
           queue == Woken(n) \o ready_list
<1>3. /\ Woken(n) \in Seq(Block)
      /\ W = {timer_list[i].pcb : i \in 1..n}
      /\ W \subseteq Asleep
      /\ IsInjective(Woken(n))
  BY WokenAreAsleep
<1>4. /\ ready_list \in Seq(Block)
      /\ IsInjective(ready_list)
      /\ W \cap ToSet(ready_list) = {}
  BY <1>1, <1>3 DEF IInv, TypeOK, OnePlace, Asleep
<1>5. /\ queue \in Seq(Block)
      /\ ToSet(queue) = W \cup ToSet(ready_list)
      /\ IsInjective(queue)
      /\ queue = <<>> <=> Woken(n) = <<>> /\ ready_list = <<>>
  BY <1>3, <1>4, Concatenate
<1>6. /\ running \notin ToSet(queue)
      /\ waiting_list' = waiting_list \ W
      /\ W \subseteq waiting_list
      /\ UNCHANGED <<pid, parent, children, wait_for, retval, free_pcbs, free_ptrs,
                     zombie_list, last_pid, init_pcb, machine>>
  BY <1>1, <1>2, <1>3, <1>5 DEF Asleep, pools
<1>7. CASE queue = <<>>
  <2>1. W = {} /\ ready_list = <<>> /\ UNCHANGED <<running, ready_list, status>>
    BY <1>2, <1>5, <1>7, EmptyList
  <2> QED
    BY <2>1, <1>2, <1>3, <1>6
<1>8. CASE queue # <<>>
  <2>1. /\ Head(queue) \in Block
        /\ Tail(queue) \in Seq(Block)
        /\ ToSet(queue) = {Head(queue)} \cup ToSet(Tail(queue))
        /\ IsInjective(Tail(queue))
        /\ Head(queue) \notin ToSet(Tail(queue))
    BY <1>5, <1>8, DetachFirst
  <2>2. running' = Head(queue) /\ ready_list' = Append(Tail(queue), running)
    BY <1>2, <1>8 DEF Rotate
  <2>3. /\ ready_list' \in Seq(Block)
        /\ ToSet(ready_list') = ToSet(Tail(queue)) \cup {running}
        /\ IsInjective(ready_list')
    <3>1. running \notin ToSet(Tail(queue))
      BY <2>1, <1>6
    <3> DEFINE rest == Tail(queue)
    <3>2. rest \in Seq(Block) /\ IsInjective(rest) /\ running \notin ToSet(rest)
      BY <3>1, <2>1
    <3>3. ready_list' = Append(rest, running)
      BY <2>2
    <3> HIDE DEF rest, queue
    <3>4. /\ ready_list' \in Seq(Block)
          /\ ToSet(ready_list') = ToSet(rest) \cup {running}
          /\ IsInjective(ready_list')
      BY <3>2, <3>3, <1>1, InsertLast
    <3> QED
      BY <3>4 DEF rest
  <2>4. /\ status' \in [Block -> Status]
        /\ status'[Head(queue)] = "Running"
        /\ \A b \in W \cup {running} : b # Head(queue) => status'[b] = "Ready"
        /\ \A b \in Block \ (W \cup {running, Head(queue)}) : status'[b] = status[b]
    <3>1. status' = [b \in Block |->
                       CASE b = Head(queue) -> "Running"
                         [] b # Head(queue) /\ b \in W \cup {running} -> "Ready"
                         [] OTHER -> status[b]]
      BY <1>2, <1>8
    <3>2. W \cup {running} \subseteq Block /\ status \in [Block -> Status]
      BY <1>1, <1>6 DEF TypeOK
    <3> HIDE DEF W, queue
    <3> QED
      BY <3>1, <3>2, <2>1 DEF Status
  <2> HIDE DEF W, queue
  <2>5. Head(queue) \in W \cup ToSet(ready_list) /\ Head(queue) # running
    BY <2>1, <1>5, <1>6
  <2>6. ToSet(ready_list') = (W \cup ToSet(ready_list) \cup {running}) \ {Head(queue)}
    BY <2>1, <2>3, <2>5, <1>5
  <2> QED
    BY <2>1, <2>2, <2>3, <2>4, <2>5, <2>6, <1>2, <1>3, <1>6 DEF W
<1> QED
  BY <1>7, <1>8

LEMMA SchedulePreserves ==
  ASSUME IInv, running # NULL, NEW t, Schedule(t), disastrOS_time' \in 0..MaxTime
  PROVE  IInv'
<1>1. /\ TypeOK
      /\ running \in Block /\ running \in Live /\ running \notin zombie_list
      /\ running \notin waiting_list /\ running \notin ToSet(ready_list)
  BY OnCpuIsLive DEF IInv
<1>2. PICK n \in 0..Len(timer_list) :
        LET W == ToSet(Woken(n))
        IN  /\ Elapsed(n, t)
            /\ W = {timer_list[i].pcb : i \in 1..n}
            /\ W \subseteq Asleep
            /\ timer_list' = TimersAfter(n)
            /\ waiting_list' = waiting_list \ W
            /\ UNCHANGED <<pid, parent, children, wait_for, retval, pools,
                           zombie_list, last_pid, init_pcb, machine>>
            /\ \/ /\ W = {} /\ ready_list = <<>>
                  /\ UNCHANGED <<running, ready_list, status>>
               \/ \E next \in W \cup ToSet(ready_list) :
                    /\ next \in Block /\ next # running
                    /\ running' = next
                    /\ ready_list' \in Seq(Block)
                    /\ IsInjective(ready_list')
                    /\ ToSet(ready_list')
                         = (W \cup ToSet(ready_list) \cup {running}) \ {next}
                    /\ status' \in [Block -> Status]
                    /\ status'[next] = "Running"
                    /\ \A b \in (W \cup {running}) \ {next} :
                         status'[b] = "Ready"
                    /\ \A b \in Block \ (W \cup {running, next}) :
                         status'[b] = status[b]
  BY ScheduleMoves
<1> DEFINE W == ToSet(Woken(n))
<1>3. /\ W = {timer_list[i].pcb : i \in 1..n}
      /\ W \subseteq Asleep
  BY <1>2
<1>4. /\ waiting_list' = waiting_list \ W
      /\ W \subseteq waiting_list
      /\ UNCHANGED <<pid, parent, children, wait_for, retval, free_pcbs, free_ptrs,
                     zombie_list, last_pid, init_pcb, machine>>
  BY <1>2, <1>3 DEF Asleep, pools
<1>5. /\ timer_list' \in Seq(Timer)
      /\ DOMAIN timer_list' = 1..(Len(timer_list) - n)
      /\ \A j \in 1..(Len(timer_list) - n) : timer_list'[j] = timer_list[n + j]
  <2>1. timer_list \in Seq(Timer)
    BY <1>1 DEF TypeOK
  <2>2. /\ timer_list' \in Seq(Timer)
        /\ Len(timer_list') = Len(timer_list) - n
        /\ \A j \in 1..(Len(timer_list) - n) : timer_list'[j] = timer_list[n + j]
    BY <2>1, <1>2, DetachPrefix DEF TimersAfter
  <2> QED
    BY <2>2, Elements
<1>6. SleepersHaveTimers'
  <2>1. /\ timer_list \in Seq(Timer) /\ Len(timer_list) \in Nat
        /\ DOMAIN timer_list = 1..Len(timer_list)
    <3>1. timer_list \in Seq(Timer)
      BY <1>1 DEF TypeOK
    <3> QED
      BY <3>1, Elements
  <2>2. /\ \A i, j \in 1..Len(timer_list) :
             /\ i < j => timer_list[i].time <= timer_list[j].time
             /\ i # j => timer_list[i].pcb # timer_list[j].pcb
        /\ Asleep = {timer_list[i].pcb : i \in 1..Len(timer_list)}
    BY <2>1 DEF IInv, SleepersHaveTimers
  <2>3. \A j \in 1..(Len(timer_list) - n) : n + j \in 1..Len(timer_list) /\ n + j > n
    BY <2>1
  <2>4. \A i, j \in 1..(Len(timer_list) - n) :
          /\ i < j => timer_list'[i].time <= timer_list'[j].time
          /\ i # j => timer_list'[i].pcb # timer_list'[j].pcb
    <3> TAKE i, j \in 1..(Len(timer_list) - n)
    <3>1. /\ n + i \in 1..Len(timer_list) /\ n + j \in 1..Len(timer_list)
          /\ i < j => n + i < n + j
          /\ i # j => n + i # n + j
      BY <2>1
    <3> QED
      BY <3>1, <2>2, <1>5
  <2>5. Asleep' = Asleep \ W
    BY <1>4 DEF Asleep
  <2>6. \A j \in 1..(Len(timer_list) - n) : timer_list'[j].pcb \in Asleep \ W
    <3> TAKE j \in 1..(Len(timer_list) - n)
    <3>1. timer_list[n + j].pcb \in Asleep
      BY <2>2, <2>3
    <3>2. \A i \in 1..n : i \in 1..Len(timer_list) /\ i # n + j
      BY <2>1
    <3>3. timer_list[n + j].pcb \notin W
      BY <3>2, <2>2, <2>3, <1>3
    <3> QED
      BY <3>1, <3>3, <1>5
  <2>7. ASSUME NEW b \in Asleep \ W
        PROVE  \E j \in 1..(Len(timer_list) - n) : timer_list'[j].pcb = b
    <3>1. PICK i \in 1..Len(timer_list) : timer_list[i].pcb = b
      BY <2>2
    <3>2. i \notin 1..n
      BY <3>1, <2>7, <1>3
    <3>3. i - n \in 1..(Len(timer_list) - n) /\ n + (i - n) = i
      BY <3>2, <2>1
    <3>4. timer_list'[i - n].pcb = b
      BY <3>1, <3>3, <1>5
    <3> QED
      BY <3>3, <3>4
  <2>8. Asleep' = {timer_list'[j].pcb : j \in 1..(Len(timer_list) - n)}
    BY <2>5, <2>6, <2>7
  <2> QED
    BY <2>4, <2>8, <1>5 DEF SleepersHaveTimers
<1>7. FamilyTree' /\ UniquePids'
  BY <1>4 DEF IInv, FamilyTree, UniquePids, Live
<1>8. CASE W = {} /\ UNCHANGED <<running, ready_list, status>>
  <2>1. TypeOK'
    BY <1>8, <1>1, <1>4, <1>5 DEF TypeOK
  <2>2. OnePlace' /\ StatusMatchesList'
    BY <1>8, <1>4 DEF IInv, OnePlace, OnCpu, StatusMatchesList, Live
  <2> QED
    BY <2>1, <2>2, <1>6, <1>7 DEF IInv
<1>9. ASSUME NEW next \in W \cup ToSet(ready_list),
              next \in Block, next # running, running' = next,
              ready_list' \in Seq(Block),
              IsInjective(ready_list'),
              ToSet(ready_list')
                = (W \cup ToSet(ready_list) \cup {running}) \ {next},
              status' \in [Block -> Status],
              status'[next] = "Running",
              \A b \in (W \cup {running}) \ {next} : status'[b] = "Ready",
              \A b \in Block \ (W \cup {running, next}) : status'[b] = status[b]
       PROVE  IInv'
  <2> HIDE DEF W
  <2>1. TypeOK'
    BY <1>9, <1>1, <1>4, <1>5 DEF TypeOK
  <2>2. next # NULL
    BY <1>9, NullAssumption
  <2>3. OnePlace'
    BY <1>9, <2>2, <1>1, <1>4 DEF IInv, OnePlace, OnCpu
  <2>4. StatusMatchesList'
    <3>1. /\ next \in W \/ next \notin waiting_list
          /\ next \notin zombie_list
          /\ W \cap zombie_list = {}
      BY <1>4 DEF IInv, OnePlace
    <3>2. \A b \in W \cup {running, next} : status'[b] \in {"Ready", "Running"}
      BY <1>9
    <3> QED
      BY <3>1, <3>2, <1>9, <1>1, <1>4 DEF IInv, StatusMatchesList, Live
  <2> QED
    BY <2>1, <2>3, <2>4, <1>6, <1>7 DEF IInv
<1> QED
  BY <1>2, <1>8, <1>9

-----------------------------------------------------------------------------
(* The entry code, run again                                               *)

LEMMA RestartPreserves ==
  ASSUME IInv, running = NULL, NEW b \in free_pcbs, last_pid < MaxPid,
         PCB_alloc(b, "Running", NULL),
         children' = [children EXCEPT ![b] = <<>>],
         running' = b, init_pcb' = b,
         UNCHANGED <<wait_for, retval, free_ptrs, lists, disastrOS_time, machine>>
  PROVE  IInv'
<1> USE DEF PCB_alloc, lists
<1>1. TypeOK /\ b \in Block /\ b # NULL
  BY NullAssumption DEF IInv, TypeOK
<1>2. /\ status' \in [Block -> Status]
      /\ status'[b] = "Running"
      /\ \A x \in Block \ {b} : status'[x] = status[x]
      /\ parent' \in [Block -> Block \cup {NULL}]
      /\ parent'[b] = NULL
      /\ \A x \in Block \ {b} : parent'[x] = parent[x]
      /\ pid' \in [Block -> 0..(MaxPid - 1)]
      /\ pid'[b] = last_pid
      /\ \A x \in Block \ {b} : pid'[x] = pid[x]
      /\ last_pid' \in 1..MaxPid
      /\ last_pid' = last_pid + 1
  BY <1>1, BoundAssumption DEF TypeOK, Status
<1>3. children' = children
  BY <1>1 DEF IInv, FamilyTree, TypeOK
<1>4. Live' = Live \cup {b} /\ b \notin Live
  BY <1>1 DEF Live
<1>5. /\ b \notin ToSet(ready_list) /\ b \notin waiting_list /\ b \notin zombie_list
  BY DEF IInv, OnePlace
<1>6. TypeOK'
  BY <1>1, <1>2, <1>3 DEF TypeOK
<1>7. OnePlace'
  BY <1>1, <1>5 DEF IInv, OnePlace, OnCpu
<1>8. StatusMatchesList'
  BY <1>1, <1>2, <1>4, <1>5 DEF IInv, StatusMatchesList, Live
<1>9. SleepersHaveTimers'
  BY DEF IInv, SleepersHaveTimers, Asleep
<1>10. FamilyTree'
  <2>1. \A p \in Block : b \notin ToSet(children[p])
    BY <1>4 DEF IInv, FamilyTree
  <2>2. ToSet(children[b]) = {}
    BY EmptyList DEF IInv, FamilyTree
  <2>3. \A p \in Block : \A x \in ToSet(children'[p]) :
          /\ x \in Live'
          /\ parent'[x] # NULL
          /\ parent'[x] = p \/ parent'[p] = NULL
    <3> TAKE p \in Block
    <3> TAKE x \in ToSet(children'[p])
    <3>1. p # b /\ x # b /\ x \in ToSet(children[p])
      BY <2>1, <2>2, <1>3
    <3>2. x \in Live /\ x \in Block
      BY <3>1 DEF IInv, FamilyTree, Live
    <3> QED
      BY <3>1, <3>2, <1>2, <1>4 DEF IInv, FamilyTree
  <2>4. \A x \in Live' :
          parent'[x] = NULL \/ \E p \in Live' : x \in ToSet(children'[p])
    <3> TAKE x \in Live'
    <3>1. CASE x = b
      BY <3>1, <1>2
    <3>2. CASE x # b
      BY <3>2, <1>2, <1>3, <1>4 DEF IInv, FamilyTree, Live
    <3> QED
      BY <3>1, <3>2
  <2>5. /\ \A p \in Block : IsInjective(children'[p])
        /\ \A p, q \in Block :
             p # q => ToSet(children'[p]) \cap ToSet(children'[q]) = {}
        /\ \A x \in free_pcbs' \cup zombie_list' : children'[x] = <<>>
    BY <1>3 DEF IInv, FamilyTree
  <2>6. init_pcb' \in Live' \ zombie_list' /\ parent'[init_pcb'] = NULL
    BY <1>2, <1>4, <1>5
  <2> QED
    BY <2>3, <2>4, <2>5, <2>6 DEF FamilyTree
<1>11. UniquePids'
  BY <1>1, <1>2, <1>4 DEF IInv, UniquePids, Live, TypeOK
<1> QED
  BY <1>6, <1>7, <1>8, <1>9, <1>10, <1>11 DEF IInv

-----------------------------------------------------------------------------
(* The invariant of the specification                                      *)

LEMMA InitEstablishes == Init => IInv
<1> SUFFICES ASSUME Init PROVE IInv
  OBVIOUS
<1>1. PICK b \in Block :
        /\ pid = [x \in Block |-> 0]
        /\ parent = [x \in Block |-> NULL]
        /\ children = [x \in Block |-> <<>>]
        /\ status = [x \in Block |-> IF x = b THEN "Running" ELSE "Invalid"]
        /\ wait_for = [x \in Block |-> NotAWait]
        /\ retval = [x \in Block |-> 0]
        /\ free_pcbs = Block \ {b}
        /\ free_ptrs = MAX_NUM_PROCESSES
        /\ running = b
        /\ ready_list = <<>>
        /\ waiting_list = {}
        /\ zombie_list = {}
        /\ timer_list = <<>>
        /\ disastrOS_time = 0
        /\ last_pid = 1
        /\ init_pcb = b
        /\ machine = "up"
  BY DEF Init
<1>2. free_ptrs \in Nat
  BY <1>1, FiniteAssumption, FS_CardinalityType DEF MAX_NUM_PROCESSES
<1>3. b # NULL
  BY NullAssumption
<1>4. TypeOK
  <2>1. /\ ready_list \in Seq(Block) /\ timer_list \in Seq(Timer)
        /\ children \in [Block -> Seq(Block)]
    BY <1>1, EmptyList
  <2> QED
    BY <1>1, <1>2, <2>1, BoundAssumption DEF TypeOK, Status
<1>5. OnePlace
  BY <1>1, <1>3, EmptyList DEF OnePlace, OnCpu
<1>6. StatusMatchesList
  BY <1>1 DEF StatusMatchesList, Live
<1>7. SleepersHaveTimers
  <2>1. DOMAIN timer_list = {}
    BY <1>1
  <2> QED
    BY <1>1, <2>1 DEF SleepersHaveTimers, Asleep
<1>8. FamilyTree
  BY <1>1, EmptyList DEF FamilyTree, Live
<1>9. UniquePids
  BY <1>1 DEF UniquePids, Live
<1> QED
  BY <1>4, <1>5, <1>6, <1>7, <1>8, <1>9 DEF IInv

LEMMA NextPreserves == IInv /\ [Next]_vars => IInv'
<1> SUFFICES ASSUME IInv, [Next]_vars PROVE IInv'
  OBVIOUS
<1>1. CASE Spawn
  <2>1. CASE Fault("spawn_no_pcb") \/ Fault("spawn_no_ptr")
    BY <2>1, FaultPreserves DEF Faults
  <2>2. CASE running # NULL /\ free_ptrs > 0 /\ \E c \in free_pcbs : SpawnChild(c)
    BY <2>2, SpawnChildPreserves DEF PtrAvailable
  <2> QED
    BY <1>1, <2>1, <2>2 DEF Spawn, CanTrap, PtrAvailable
<1>2. ASSUME NEW n \in 0..MaxPid, Wait(n)
      PROVE  IInv'
  <2>1. CASE WaitFails
    BY <2>1, <1>2, WaitFailsPreserves DEF Wait, CanTrap
  <2>2. CASE \E i \in DOMAIN children[running] : Reap(i)
    BY <2>2, <1>2, ReapPreserves DEF Wait, CanTrap
  <2>3. CASE BlockInWait(n)
    BY <2>3, <1>2, BlockInWaitPreserves DEF Wait, CanTrap
  <2>4. CASE Fault("wait_no_ready")
    BY <2>4, FaultPreserves DEF Faults
  <2> QED
    BY <1>2, <2>1, <2>2, <2>3, <2>4 DEF Wait
<1>3. CASE Exit
  <2>1. CASE \/ Fault("exit_reparent_loop") \/ Fault("exit_no_parent")
             \/ Fault("exit_not_listed") \/ Fault("exit_no_ready")
    BY <2>1, FaultPreserves DEF Faults
  <2>2. CASE /\ parent[running] # NULL /\ ParentAwaits
             /\ \E i \in DOMAIN Reparented[parent[running]] : ExitToParent(i)
    BY <2>2, <1>3, ExitToParentPreserves DEF Exit, CanTrap
  <2>3. CASE parent[running] # NULL /\ ExitToZombie
    BY <2>3, <1>3, ExitToZombiePreserves DEF Exit, CanTrap
  <2> QED
    BY <1>3, <2>1, <2>2, <2>3 DEF Exit
<1>4. ASSUME NEW c \in Sleeps, Sleep(c)
      PROVE  IInv'
  <2>1. CASE SleepFails
    BY <2>1, <1>4, SleepFailsPreserves DEF Sleep, CanTrap
  <2>2. CASE FallAsleep(disastrOS_time + c)
    <3>1. disastrOS_time + c \in 0..MaxTime
      BY <1>4, InputAssumption, BoundAssumption DEF Sleep, IInv, TypeOK
    <3> QED
      BY <2>2, <3>1, <1>4, FallAsleepPreserves DEF Sleep, CanTrap
  <2>3. CASE Fault("sleep_log_idle")
    BY <2>3, FaultPreserves DEF Faults
  <2> QED
    BY <1>4, <2>1, <2>2, <2>3 DEF Sleep
<1>5. CASE Preempt
  <2>1. disastrOS_time' \in 0..MaxTime
    BY <1>5 DEF Preempt, IInv, TypeOK
  <2> QED
    BY <1>5, <2>1, SchedulePreserves DEF Preempt, CanTrap
<1>6. CASE TimerTick
  <2>1. CASE Fault("tick_idle")
    BY <2>1, FaultPreserves DEF Faults
  <2>2. CASE /\ running # NULL
             /\ disastrOS_time' \in 0..MaxTime
             /\ \E t \in Int : Schedule(t)
    BY <2>2, SchedulePreserves
  <2>3. disastrOS_time \in 0..MaxTime
    BY DEF IInv, TypeOK
  <2> QED
    BY <1>6, <2>1, <2>2, <2>3, BoundAssumption DEF TimerTick
<1>7. CASE Fork
  BY <1>7, FaultPreserves DEF Fork, Faults
<1>8. CASE Shutdown
  <2> USE <1>8 DEF Shutdown, fields, pools, lists
  <2>1. TypeOK' /\ OnePlace' /\ StatusMatchesList'
    BY DEF IInv, TypeOK, OnePlace, OnCpu, StatusMatchesList, Live
  <2>2. SleepersHaveTimers' /\ FamilyTree' /\ UniquePids'
    BY DEF IInv, SleepersHaveTimers, Asleep, FamilyTree, UniquePids, Live
  <2> QED
    BY <2>1, <2>2 DEF IInv
<1>9. CASE Restart
  <2>1. CASE Fault("restart_no_pcb")
    BY <2>1, FaultPreserves DEF Faults
  <2>2. CASE \E b \in free_pcbs :
               /\ last_pid < MaxPid
               /\ PCB_alloc(b, "Running", NULL)
               /\ children' = [children EXCEPT ![b] = <<>>]
               /\ running' = b
               /\ init_pcb' = b
               /\ UNCHANGED <<wait_for, retval, free_ptrs, lists, disastrOS_time,
                              machine>>
    BY <2>2, <1>9, RestartPreserves DEF Restart
  <2> QED
    BY <1>9, <2>1, <2>2 DEF Restart
<1>10. CASE UNCHANGED vars
  <2> USE <1>10 DEF vars, fields, pools, lists
  <2>1. TypeOK' /\ OnePlace' /\ StatusMatchesList'
    BY DEF IInv, TypeOK, OnePlace, OnCpu, StatusMatchesList, Live
  <2>2. SleepersHaveTimers' /\ FamilyTree' /\ UniquePids'
    BY DEF IInv, SleepersHaveTimers, Asleep, FamilyTree, UniquePids, Live
  <2> QED
    BY <2>1, <2>2 DEF IInv
<1> QED
  BY <1>1, <1>2, <1>3, <1>4, <1>5, <1>6, <1>7, <1>8, <1>9, <1>10
     DEF Next, Halted

\* The inductive invariant holds in every state of every behaviour.
THEOREM Invariance == Spec => []IInv
  BY InitEstablishes, NextPreserves, PTL DEF Spec

\* Every field and list of the kernel holds values of its kind.
THEOREM TypeCorrect == Spec => []TypeOK
<1>1. IInv => TypeOK
  BY DEF IInv
<1> QED
  BY <1>1, Invariance, PTL

\* Every PCB is on the CPU, in exactly one list, once, or in the pool.
THEOREM EveryBlockInOnePlace == Spec => []OnePlace
<1>1. IInv => OnePlace
  BY DEF IInv
<1> QED
  BY <1>1, Invariance, PTL

\* The status words agree with the lists.
THEOREM StatusFollowsLists == Spec => []StatusMatchesList
<1>1. IInv => StatusMatchesList
  BY DEF IInv
<1> QED
  BY <1>1, Invariance, PTL

\* The timers are sorted; exactly the sleeping processes have one, one each.
THEOREM TimersFollowSleepers == Spec => []SleepersHaveTimers
<1>1. IInv => SleepersHaveTimers
  BY DEF IInv
<1> QED
  BY <1>1, Invariance, PTL

\* Children lists and parent pointers describe a forest of live processes.
THEOREM FamilyIsForest == Spec => []FamilyTree
<1>1. IInv => FamilyTree
  BY DEF IInv
<1> QED
  BY <1>1, Invariance, PTL

\* Processes in use have distinct pids.
THEOREM PidsAreUnique == Spec => []UniquePids
<1>1. IInv => UniquePids
  BY DEF IInv
<1> QED
  BY <1>1, Invariance, PTL

\* A process that calls sleep finds a free timer: those asleep have one each
\* and it is not among them.
THEOREM TimersSuffice == Spec => []TimerPoolSuffices
<1>1. IInv => TimerPoolSuffices
  <2> SUFFICES ASSUME IInv, running # NULL
               PROVE  Len(timer_list) < MAX_NUM_PROCESSES
    BY DEF TimerPoolSuffices
  <2> DEFINE N == Len(timer_list)
             f == [i \in 1..N |-> timer_list[i].pcb]
             A == Block \ {running}
  <2>1. timer_list \in Seq(Timer) /\ N \in Nat /\ DOMAIN timer_list = 1..N
    <3>1. timer_list \in Seq(Timer)
      BY DEF IInv, TypeOK
    <3> QED
      BY <3>1, Elements
  <2>2. running \in Block /\ running \notin Asleep
    BY OnCpuIsLive DEF Asleep
  <2>3. \A i \in 1..N : f[i] \in A
    <3> TAKE i \in 1..N
    <3>1. timer_list[i].pcb \in Asleep
      BY <2>1 DEF IInv, SleepersHaveTimers
    <3>2. Asleep \subseteq Block
      BY DEF Asleep, IInv, TypeOK
    <3> QED
      BY <3>1, <3>2, <2>2
  <2>4. f \in Injection(1..N, A)
    <3>1. f \in [1..N -> A]
      BY <2>3
    <3>2. \A i, j \in 1..N : f[i] = f[j] => i = j
      BY <2>1 DEF IInv, SleepersHaveTimers
    <3> QED
      BY <3>1, <3>2 DEF Injection, IsInjective
  <2>5. IsFiniteSet(A) /\ Cardinality(A) = Cardinality(Block) - 1
    BY <2>2, FiniteAssumption, FS_RemoveElement
  <2>6. Cardinality(1..N) = N
    BY <2>1, FS_Interval
  <2>7. Cardinality(1..N) <= Cardinality(A)
    BY <2>4, <2>5, FS_Injection DEF ExistsInjection
  <2>8. Cardinality(Block) \in Nat
    BY FiniteAssumption, FS_CardinalityType
  <2> QED
    BY <2>1, <2>5, <2>6, <2>7, <2>8 DEF MAX_NUM_PROCESSES
<1> QED
  BY <1>1, Invariance, PTL

-----------------------------------------------------------------------------
(* The cases of a step                                                     *)

\* The steps that change the state of a process, with what their system call
\* has checked by then.
Creates(c) == CanTrap /\ free_ptrs > 0 /\ SpawnChild(c)
Reaps(i) == CanTrap /\ i \in DOMAIN children[running] /\ Reap(i)
Waits(n, i) ==
  /\ CanTrap
  /\ i \in DOMAIN children[running]
  /\ ScanStops(children[running], n, i)
  /\ status[children[running][i]] # "Zombie"
  /\ BlockInWait(n)
HandsOver(i) ==
  /\ CanTrap /\ parent[running] # NULL /\ ParentAwaits
  /\ i \in DOMAIN Reparented[parent[running]]
  /\ ExitToParent(i)
Terminates ==
  /\ CanTrap /\ parent[running] # NULL /\ ~ParentAwaits
  /\ ExitToZombie
FallsAsleep(wake) == CanTrap /\ wake \in 0..MaxTime /\ FallAsleep(wake)
Schedules ==
  /\ machine = "up" /\ running # NULL
  /\ disastrOS_time' \in 0..MaxTime
  /\ Schedule(disastrOS_time')
Boots(b) ==
  /\ machine = "up" /\ running = NULL
  /\ last_pid < MaxPid
  /\ PCB_alloc(b, "Running", NULL)
  /\ children' = [children EXCEPT ![b] = <<>>]
  /\ running' = b
  /\ init_pcb' = b
  /\ UNCHANGED <<wait_for, retval, free_ptrs, lists, disastrOS_time, machine>>

\* The others change at most the return value of the process on the CPU and
\* the word that says whether the machine is up.
ChangesNothing ==
  UNCHANGED <<pid, parent, children, status, wait_for, pools, running, lists,
              disastrOS_time, last_pid, init_pcb>>

LEMMA StepCases ==
  ASSUME IInv, [Next]_vars
  PROVE  \/ \E c \in free_pcbs : Creates(c)
         \/ \E i \in DOMAIN children[running] : Reaps(i)
         \/ \E n \in 0..MaxPid : \E i \in DOMAIN children[running] : Waits(n, i)
         \/ \E i \in DOMAIN Reparented[parent[running]] : HandsOver(i)
         \/ Terminates
         \/ \E wake \in 0..MaxTime : FallsAsleep(wake)
         \/ Schedules
         \/ \E b \in free_pcbs : Boots(b)
         \/ ChangesNothing
<1>1. ASSUME NEW why, Fault(why) PROVE ChangesNothing
  BY <1>1 DEF Fault, ChangesNothing, fields
<1>2. CASE Spawn
  BY <1>1, <1>2 DEF Spawn, CanTrap, PtrAvailable, Creates
<1>3. ASSUME NEW n \in 0..MaxPid, Wait(n)
      PROVE  \/ \E i \in DOMAIN children[running] : Reaps(i)
             \/ \E i \in DOMAIN children[running] : Waits(n, i)
             \/ ChangesNothing
  <2>1. WaitFails => ChangesNothing
    BY DEF WaitFails, ChangesNothing
  <2> QED
    BY <1>1, <1>3, <2>1 DEF Wait, CanTrap, Reaps, Waits
<1>4. CASE Exit
  BY <1>1, <1>4 DEF Exit, CanTrap, HandsOver, Terminates
<1>5. ASSUME NEW c \in Sleeps, Sleep(c)
      PROVE  (\E wake \in 0..MaxTime : FallsAsleep(wake)) \/ ChangesNothing
  <2>1. SleepFails => ChangesNothing
    BY DEF SleepFails, ChangesNothing
  <2>2. disastrOS_time + c \in 0..MaxTime
    BY <1>5, InputAssumption, BoundAssumption DEF Sleep, IInv, TypeOK
  <2> QED
    BY <1>1, <1>5, <2>1, <2>2 DEF Sleep, CanTrap, FallsAsleep
<1>6. CASE Preempt
  BY <1>6 DEF Preempt, CanTrap, Schedules, IInv, TypeOK
<1>7. CASE TimerTick
  <2>1. disastrOS_time \in 0..MaxTime
    BY DEF IInv, TypeOK
  <2> QED
    BY <1>1, <1>7, <2>1, BoundAssumption DEF TimerTick, Schedules
<1>8. CASE Fork
  BY <1>1, <1>8 DEF Fork
<1>9. CASE Shutdown
  BY <1>9 DEF Shutdown, ChangesNothing, fields
<1>10. CASE Restart
  BY <1>1, <1>10 DEF Restart, Boots
<1>11. CASE UNCHANGED vars
  BY <1>11 DEF vars, fields, ChangesNothing
<1> QED
  BY <1>2, <1>3, <1>4, <1>5, <1>6, <1>7, <1>8, <1>9, <1>10, <1>11
     DEF Next, Halted

\* What each case does to the blocks of the pool and to the waiting list.
LEMMA FreedBlocks ==
  ASSUME IInv, [Next]_vars, NEW b \in Live, b \in free_pcbs'
  PROVE  \/ \E i \in DOMAIN children[running] :
              Reaps(i) /\ b = children[running][i]
         \/ \E i \in DOMAIN Reparented[parent[running]] :
              HandsOver(i) /\ b = running
<1> USE DEF Live
<1>1. ASSUME NEW c \in free_pcbs, Creates(c) PROVE FALSE
  BY <1>1 DEF CanTrap, Creates, SpawnChild, PCB_alloc
<1>2. ASSUME NEW n, NEW i, Waits(n, i) PROVE FALSE
  BY <1>2 DEF CanTrap, Waits, BlockInWait, pools
<1>3. ASSUME Terminates PROVE FALSE
  BY <1>3 DEF CanTrap, Terminates, ExitToZombie, pools
<1>4. ASSUME NEW wake, FallsAsleep(wake) PROVE FALSE
  BY <1>4 DEF CanTrap, FallsAsleep, FallAsleep, pools
<1>5. ASSUME Schedules PROVE FALSE
  BY <1>5 DEF Schedules, Schedule, pools
<1>6. ASSUME NEW c, Boots(c) PROVE FALSE
  BY <1>6 DEF Boots, PCB_alloc
<1>7. ASSUME ChangesNothing PROVE FALSE
  BY <1>7 DEF ChangesNothing, pools
<1>8. ASSUME NEW i \in DOMAIN children[running], Reaps(i)
      PROVE  b = children[running][i]
  BY <1>8 DEF CanTrap, Reaps, Reap
<1>9. ASSUME NEW i, HandsOver(i) PROVE b = running
  BY <1>9 DEF CanTrap, HandsOver, ExitToParent
<1> QED
  BY <1>1, <1>2, <1>3, <1>4, <1>5, <1>6, <1>7, <1>8, <1>9, StepCases

LEMMA LeavesWaiting ==
  ASSUME IInv, [Next]_vars, NEW b \in waiting_list, b \notin waiting_list'
  PROVE  \/ Schedules
         \/ \E i \in DOMAIN Reparented[parent[running]] :
              HandsOver(i) /\ b = parent[running]
<1>1. ASSUME NEW c \in free_pcbs, Creates(c) PROVE FALSE
  BY <1>1 DEF CanTrap, Creates, SpawnChild
<1>2. ASSUME NEW n, NEW i, Waits(n, i) PROVE FALSE
  BY <1>2 DEF CanTrap, Waits, BlockInWait
<1>3. ASSUME Terminates PROVE FALSE
  BY <1>3 DEF CanTrap, Terminates, ExitToZombie
<1>4. ASSUME NEW wake, FallsAsleep(wake) PROVE FALSE
  BY <1>4 DEF CanTrap, FallsAsleep, FallAsleep
<1>5. ASSUME NEW i, Reaps(i) PROVE FALSE
  BY <1>5 DEF CanTrap, Reaps, Reap
<1>6. ASSUME NEW c, Boots(c) PROVE FALSE
  BY <1>6 DEF Boots, lists
<1>7. ASSUME ChangesNothing PROVE FALSE
  BY <1>7 DEF ChangesNothing, lists
<1>8. ASSUME NEW i, HandsOver(i) PROVE b = parent[running]
  BY <1>8 DEF CanTrap, HandsOver, ExitToParent
<1> QED
  BY <1>1, <1>2, <1>3, <1>4, <1>5, <1>6, <1>7, <1>8, StepCases

\* The zombie that wait reaps is another process, in use and listed.
LEMMA ReapedChild ==
  ASSUME IInv, NEW i \in DOMAIN children[running], Reaps(i)
  PROVE  LET c == children[running][i]
         IN  /\ c \in ToSet(children[running]) /\ c \in Live /\ c \in zombie_list
             /\ c # running /\ status[c] = "Zombie"
             /\ \A p \in Block : ToSet(children'[p]) = ToSet(children[p]) \ {c}
<1> DEFINE c == children[running][i]
<1>1. TypeOK /\ running \in Block /\ running \in Live /\ running \notin zombie_list
  BY OnCpuIsLive DEF IInv, CanTrap, Reaps
<1>2. children[running] \in Seq(Block) /\ IsInjective(children[running])
  BY <1>1 DEF TypeOK, IInv, FamilyTree
<1>3. i \in 1..Len(children[running]) /\ c \in ToSet(children[running])
  BY <1>2, Elements
<1>4. c \in Live /\ status[c] = "Zombie"
  BY <1>1, <1>3 DEF IInv, FamilyTree, CanTrap, Reaps, Reap
<1>5. c \in zombie_list /\ c # running
  BY <1>1, <1>4 DEF IInv, StatusMatchesList, Live
<1>6. children' = [children EXCEPT ![running] = RemoveAt(@, i)]
  BY DEF CanTrap, Reaps, Reap
<1>7. ToSet(RemoveAt(children[running], i)) = ToSet(children[running]) \ {c}
  BY <1>2, <1>3, DetachAt
<1>8. \A p \in Block : p # running => c \notin ToSet(children[p])
  BY <1>1, <1>3 DEF IInv, FamilyTree
<1> HIDE DEF c
<1>9. \A p \in Block : ToSet(children'[p]) = ToSet(children[p]) \ {c}
  BY <1>1, <1>6, <1>7, <1>8 DEF TypeOK
<1> QED
  BY <1>3, <1>4, <1>5, <1>9 DEF c

\* The process that hands over is in its parent's list before reparenting.
LEMMA HandsOverToKeeper ==
  ASSUME IInv, NEW i \in DOMAIN Reparented[parent[running]], HandsOver(i)
  PROVE  /\ running \in ToSet(children[parent[running]])
         /\ parent[running] \in Live /\ parent[running] \in Block
         /\ parent[running] \in waiting_list /\ parent[running] # running
         /\ wait_for[parent[running]] \in {0, pid[running]}
         /\ retval' = [retval EXCEPT ![parent[running]] = pid[running]]
         /\ running' = parent[running]
         /\ free_pcbs' = free_pcbs \cup {running}
         /\ waiting_list' = waiting_list \ {parent[running]}
<1> DEFINE p == parent[running]
<1> USE DEF CanTrap, HandsOver
<1>1. running \in Block /\ running \in Live
  BY OnCpuIsLive
<1>2. /\ p \in Block /\ p \in Live /\ p \in waiting_list /\ p # running
      /\ wait_for[p] \in {0, pid[running]}
      /\ running \in ToSet(Reparented[p])
      /\ free_pcbs' = free_pcbs \cup {running}
      /\ waiting_list' = waiting_list \ {p}
      /\ running' = p
      /\ retval' = [retval EXCEPT ![p] = pid[running]]
  BY HandOver
<1>3. running \notin ToSet(children[running])
  BY <1>1, <1>2 DEF IInv, FamilyTree
<1>4. running \in ToSet(children[p])
  <2>1. CASE p = init_pcb
    BY <2>1, <1>2, <1>3, ReparentedForest
  <2>2. CASE p # init_pcb
    BY <2>2, <1>2, ReparentedForest
  <2> QED
    BY <2>1, <2>2
<1> QED
  BY <1>2, <1>4

-----------------------------------------------------------------------------
(* What a step may never do                                                *)

\* A block is freed only by a process that lists it, is told its pid and has
\* the CPU then: by wait for a zombie, or by exit for the parent that waits.
THEOREM BlocksAreReapedByTheirKeeper == Spec => ReapedByItsKeeper
<1>1. IInv /\ [Next]_vars
        => [\A b \in Live : b \in free_pcbs' =>
              \E p \in Live : /\ b \in ToSet(children[p])
                               /\ retval'[p] = pid[b]
                               /\ running' = p]_vars
  <2> SUFFICES ASSUME IInv, [Next]_vars, NEW b \in Live, b \in free_pcbs'
               PROVE  \E p \in Live : /\ b \in ToSet(children[p])
                                       /\ retval'[p] = pid[b]
                                       /\ running' = p
    OBVIOUS
  <2>1. CASE \E i \in DOMAIN children[running] :
               Reaps(i) /\ b = children[running][i]
    <3>1. PICK i \in DOMAIN children[running] :
            Reaps(i) /\ b = children[running][i]
      BY <2>1
    <3>2. /\ running \in Live /\ running \in Block
          /\ retval \in [Block -> 0..MaxPid \cup {DSOS_EWAIT, DSOS_ESLEEP}]
      BY <3>1, OnCpuIsLive DEF CanTrap, Reaps, IInv, TypeOK
    <3>3. retval'[running] = pid[b] /\ running' = running
      BY <3>1, <3>2 DEF CanTrap, Reaps, Reap, Return
    <3>4. b \in ToSet(children[running])
      BY <3>1, ReapedChild
    <3> QED
      BY <3>2, <3>3, <3>4
  <2>2. CASE \E i \in DOMAIN Reparented[parent[running]] :
               HandsOver(i) /\ b = running
    BY <2>2, HandsOverToKeeper DEF IInv, TypeOK
  <2> QED
    BY <2>1, <2>2, FreedBlocks
<1> QED
  BY <1>1, Invariance, PTL DEF Spec, ReapedByItsKeeper

\* The scheduler wakes those whose time has come, and an exit wakes the parent
\* that waits for the process that is gone then.  Nothing else wakes anybody.
THEOREM EveryWakeUpHasAReason == Spec => WokenForAReason
<1>1. IInv /\ [Next]_vars
        => [\A b \in waiting_list \ waiting_list' :
              \/ /\ b \in Asleep
                 /\ \E i \in DOMAIN timer_list :
                      timer_list[i].pcb = b /\ timer_list[i].time <= disastrOS_time'
              \/ /\ wait_for[b] \in {0, retval'[b]}
                 /\ \E c \in ToSet(children[b]) :
                      pid[c] = retval'[b] /\ c \in free_pcbs']_vars
  <2> SUFFICES ASSUME IInv, [Next]_vars,
                      NEW b \in waiting_list, b \notin waiting_list'
               PROVE  \/ /\ b \in Asleep
                         /\ \E i \in DOMAIN timer_list :
                              /\ timer_list[i].pcb = b
                              /\ timer_list[i].time <= disastrOS_time'
                      \/ /\ wait_for[b] \in {0, retval'[b]}
                         /\ \E c \in ToSet(children[b]) :
                              pid[c] = retval'[b] /\ c \in free_pcbs'
    OBVIOUS
  <2>1. CASE Schedules
    <3>1. PICK n \in 0..Len(timer_list) :
            /\ Elapsed(n, disastrOS_time')
            /\ ToSet(Woken(n)) = {timer_list[i].pcb : i \in 1..n}
            /\ ToSet(Woken(n)) \subseteq Asleep
            /\ waiting_list' = waiting_list \ ToSet(Woken(n))
      BY <2>1, ScheduleMoves DEF Schedules
    <3>2. b \in Asleep /\ \E i \in 1..n : timer_list[i].pcb = b
      BY <3>1
    <3>3. \A i \in 1..n : timer_list[i].time <= disastrOS_time'
      BY <3>1 DEF Elapsed
    <3>4. 1..n \subseteq DOMAIN timer_list
      BY Elements DEF IInv, TypeOK
    <3> QED
      BY <3>2, <3>3, <3>4
  <2>2. CASE \E i \in DOMAIN Reparented[parent[running]] :
               HandsOver(i) /\ b = parent[running]
    <3>1. retval \in [Block -> 0..MaxPid \cup {DSOS_EWAIT, DSOS_ESLEEP}]
      BY DEF IInv, TypeOK
    <3>2. retval'[b] = pid[running]
      BY <2>2, <3>1, HandsOverToKeeper
    <3> QED
      BY <2>2, <3>2, HandsOverToKeeper
  <2> QED
    BY <2>1, <2>2, LeavesWaiting
<1> QED
  BY <1>1, Invariance, PTL DEF Spec, WokenForAReason

-----------------------------------------------------------------------------
(* PCBPtrs                                                                 *)

\* The items of any family of lists, and what the lists hold.
ItemsOf(f)  == UNION {{b} \X DOMAIN f[b] : b \in Block}
ListedIn(f) == UNION {ToSet(f[b]) : b \in Block}

\* Lists that share nothing have as many items as they hold things.
LEMMA ItemsCountChildren ==
  ASSUME NEW f \in [Block -> Seq(Block)],
         \A p \in Block : IsInjective(f[p]),
         \A p, q \in Block : p # q => ToSet(f[p]) \cap ToSet(f[q]) = {}
  PROVE  /\ IsFiniteSet(ListedIn(f))
         /\ Cardinality(ItemsOf(f)) = Cardinality(ListedIn(f))
<1> DEFINE I == ItemsOf(f)
           K == ListedIn(f)
           g == [x \in I |-> f[x[1]][x[2]]]
<1>1. ASSUME NEW p \in Block
      PROVE  /\ DOMAIN f[p] = 1..Len(f[p])
             /\ \A i \in DOMAIN f[p] : f[p][i] \in ToSet(f[p])
             /\ \A e \in ToSet(f[p]) : \E i \in DOMAIN f[p] : e = f[p][i]
             /\ \A i, j \in DOMAIN f[p] : f[p][i] = f[p][j] => i = j
             /\ ToSet(f[p]) \subseteq Block
  <2> DEFINE s == f[p]
  <2>1. s \in Seq(Block) /\ IsInjective(s)
    OBVIOUS
  <2> HIDE DEF s
  <2>2. /\ DOMAIN s = 1..Len(s)
        /\ \A e : e \in ToSet(s) <=> \E i \in 1..Len(s) : e = s[i]
        /\ \A i \in 1..Len(s) : s[i] \in ToSet(s)
        /\ ToSet(s) \subseteq Block
        /\ \A i, j \in 1..Len(s) : s[i] = s[j] => i = j
    BY ONLY <2>1, Elements
  <2> QED
    BY ONLY <2>2 DEF s
<1>2. IsFiniteSet(K)
  <2>1. K \in SUBSET Block
    BY <1>1 DEF ListedIn
  <2> QED
    BY <2>1, FiniteAssumption, FS_Subset
<1>3. \A x \in I : x[1] \in Block /\ x[2] \in DOMAIN f[x[1]] /\ x = <<x[1], x[2]>>
  BY DEF ItemsOf
<1>4. \A p \in Block : \A i \in DOMAIN f[p] : <<p, i>> \in I
  BY DEF ItemsOf
<1>5. g \in [I -> K]
  BY <1>1, <1>3 DEF ListedIn
<1>6. \A x, y \in I : g[x] = g[y] => x = y
  <2> SUFFICES ASSUME NEW x \in I, NEW y \in I, g[x] = g[y] PROVE x = y
    OBVIOUS
  <2>1. g[x] \in ToSet(f[x[1]]) /\ g[y] \in ToSet(f[y[1]])
    BY <1>1, <1>3
  <2>2. x[1] = y[1]
    BY <2>1, <1>3
  <2>3. x[2] = y[2]
    BY <2>2, <1>1, <1>3
  <2> QED
    BY <2>2, <2>3, <1>3
<1>7. \A e \in K : \E x \in I : g[x] = e
  <2> SUFFICES ASSUME NEW p \in Block, NEW e \in ToSet(f[p])
               PROVE  \E x \in I : g[x] = e
    BY DEF ListedIn
  <2>1. PICK i \in DOMAIN f[p] : e = f[p][i]
    BY <1>1
  <2>2. <<p, i>> \in I /\ g[<<p, i>>] = e
    BY <2>1, <1>4
  <2> QED
    BY <2>2
<1> HIDE DEF g, I, K
<1>8. g \in Injection(I, K) /\ g \in Surjection(I, K)
  BY <1>5, <1>6, <1>7 DEF Injection, IsInjective, Surjection
<1>9. Cardinality(I) = Cardinality(K)
  BY <1>2, <1>8, FS_Injection
<1> QED
  BY <1>2, <1>9 DEF I, K

\* The number of PCBPtrs that are lost, in a state and after a step.
LEMMA LostByChildren ==
  ASSUME IInv, IInv'
  PROVE  /\ IsFiniteSet(ListedIn(children))
         /\ LostPtrs = MAX_NUM_PROCESSES - free_ptrs - Cardinality(ListedIn(children))
         /\ LostPtrs' = MAX_NUM_PROCESSES - free_ptrs' - Cardinality(ListedIn(children'))
         /\ MAX_NUM_PROCESSES \in Nat /\ free_ptrs \in Nat
         /\ Cardinality(ListedIn(children)) \in Nat
<1>1. /\ IsFiniteSet(ListedIn(children))
      /\ Cardinality(ItemsOf(children)) = Cardinality(ListedIn(children))
  BY ItemsCountChildren DEF IInv, TypeOK, FamilyTree
<1>2. Cardinality(ItemsOf(children')) = Cardinality(ListedIn(children'))
  BY ItemsCountChildren DEF IInv, TypeOK, FamilyTree
<1>3. ListItems = ItemsOf(children) /\ ListItems' = ItemsOf(children')
  BY DEF ListItems, ItemsOf
<1>4. MAX_NUM_PROCESSES \in Nat /\ Cardinality(ListedIn(children)) \in Nat
  BY <1>1, FiniteAssumption, FS_CardinalityType DEF MAX_NUM_PROCESSES
<1> QED
  BY <1>1, <1>2, <1>3, <1>4 DEF LostPtrs, MAX_NUM_PROCESSES, IInv, TypeOK

\* Who is listed by somebody, after each step that changes the lists.
LEMMA ListedAfterSpawn ==
  ASSUME IInv, NEW c \in free_pcbs, Creates(c)
  PROVE  /\ ListedIn(children') = ListedIn(children) \cup {c}
         /\ c \notin ListedIn(children)
<1>1. /\ children \in [Block -> Seq(Block)] /\ running \in Block /\ c \in Block
      /\ c # running
  BY OnCpuIsLive DEF IInv, TypeOK, CanTrap, Creates
<1>2. ToSet(Append(children[running], c)) = ToSet(children[running]) \cup {c}
  BY <1>1, InsertLast
<1>3. children' = [children EXCEPT ![c] = <<>>, ![running] = Append(@, c)]
  BY DEF CanTrap, Creates, SpawnChild
<1>4. ToSet(children[c]) = {} /\ \A p \in Block : c \notin ToSet(children[p])
  BY EmptyList DEF IInv, FamilyTree, Live
<1>5. /\ ToSet(children'[running]) = ToSet(children[running]) \cup {c}
      /\ \A p \in Block \ {running} : ToSet(children'[p]) = ToSet(children[p])
  BY <1>1, <1>2, <1>3, <1>4, EmptyList
<1>6. \A e : (\E p \in Block : e \in ToSet(children'[p]))
               <=> (\E p \in Block : e \in ToSet(children[p])) \/ e = c
  BY <1>1, <1>5
<1>7. \A e : /\ e \in ListedIn(children') <=> \E p \in Block : e \in ToSet(children'[p])
             /\ e \in ListedIn(children) <=> \E p \in Block : e \in ToSet(children[p])
  BY DEF ListedIn
<1> QED
  BY <1>4, <1>6, <1>7

LEMMA ListedAfterReap ==
  ASSUME IInv, NEW i \in DOMAIN children[running], Reaps(i)
  PROVE  /\ ListedIn(children') = ListedIn(children) \ {children[running][i]}
         /\ children[running][i] \in ListedIn(children)
<1>1. running \in Block
  BY OnCpuIsLive DEF CanTrap, Reaps
<1> QED
  BY <1>1, ReapedChild DEF ListedIn

LEMMA ReparentingListsTheSame ==
  ASSUME IInv, running # NULL, parent[running] # NULL
  PROVE  ListedIn(Reparented) = ListedIn(children)
<1>1. running \in Block /\ init_pcb \in Block /\ running # init_pcb
  BY OnCpuIsLive, ReparentedForest DEF IInv, TypeOK
<1>2. /\ ToSet(Reparented[init_pcb])
           = ToSet(children[init_pcb]) \cup ToSet(children[running])
      /\ ToSet(Reparented[running]) = {}
      /\ \A p \in Block \ {init_pcb, running} :
           ToSet(Reparented[p]) = ToSet(children[p])
  BY ReparentedForest, EmptyList
<1> QED
  BY <1>1, <1>2 DEF ListedIn

LEMMA ListedAfterHandOver ==
  ASSUME IInv, NEW i \in DOMAIN Reparented[parent[running]], HandsOver(i)
  PROVE  /\ ListedIn(children') = ListedIn(children) \ {running}
         /\ running \in ListedIn(children)
<1>1. \A q \in Block : ToSet(children'[q]) = ToSet(Reparented[q]) \ {running}
  BY HandOver DEF CanTrap, HandsOver
<1>2. ListedIn(children') = ListedIn(Reparented) \ {running}
  BY <1>1 DEF ListedIn
<1>3. running \in ListedIn(children)
  BY HandsOverToKeeper DEF ListedIn
<1> QED
  BY <1>2, <1>3, ReparentingListsTheSame DEF CanTrap, HandsOver

\* Spawn takes one item out of the pool and puts it in a list, wait puts one
\* back that it takes out of a list; only the exit that frees the block of the
\* process on the CPU takes one out of a list and keeps it.
THEOREM PtrsAreLostAtHandoverOnly == Spec => PtrsLostAtHandover
<1>1. IInv /\ IInv' /\ [Next]_vars
        => [LostPtrs' = LostPtrs +
              (IF running # NULL /\ running \in free_pcbs' THEN 1 ELSE 0)]_vars
  <2> SUFFICES ASSUME IInv, IInv', [Next]_vars
               PROVE  LostPtrs' = LostPtrs +
                 (IF running # NULL /\ running \in free_pcbs' THEN 1 ELSE 0)
    OBVIOUS
  <2> DEFINE K == ListedIn(children)
  <2>1. /\ LostPtrs = MAX_NUM_PROCESSES - free_ptrs - Cardinality(K)
        /\ LostPtrs' = MAX_NUM_PROCESSES - free_ptrs' - Cardinality(ListedIn(children'))
        /\ MAX_NUM_PROCESSES \in Nat /\ free_ptrs \in Nat /\ Cardinality(K) \in Nat
        /\ IsFiniteSet(K)
    BY LostByChildren
  <2>2. running # NULL => running \notin free_pcbs /\ running \in Live
    BY OnCpuIsLive
  <2>3. ASSUME NEW c \in free_pcbs, Creates(c)
        PROVE  /\ free_ptrs' = free_ptrs - 1
               /\ Cardinality(ListedIn(children')) = Cardinality(K) + 1
               /\ ~(running # NULL /\ running \in free_pcbs')
    <3>1. Cardinality(ListedIn(children')) = Cardinality(K) + 1
      BY <2>1, <2>3, ListedAfterSpawn, FS_AddElement
    <3> QED
      BY <2>2, <2>3, <3>1 DEF CanTrap, Creates, SpawnChild, PCB_alloc
  <2>4. ASSUME NEW i \in DOMAIN children[running], Reaps(i)
        PROVE  /\ free_ptrs' = free_ptrs + 1
               /\ Cardinality(ListedIn(children')) = Cardinality(K) - 1
               /\ ~(running # NULL /\ running \in free_pcbs')
    <3>1. Cardinality(ListedIn(children')) = Cardinality(K) - 1
      BY <2>1, <2>4, ListedAfterReap, FS_RemoveElement
    <3>2. children[running][i] # running
      BY <2>4, ReapedChild
    <3> QED
      BY <2>2, <2>4, <3>1, <3>2 DEF CanTrap, Reaps, Reap
  <2>5. ASSUME NEW i \in DOMAIN Reparented[parent[running]], HandsOver(i)
        PROVE  /\ free_ptrs' = free_ptrs
               /\ Cardinality(ListedIn(children')) = Cardinality(K) - 1
               /\ running # NULL /\ running \in free_pcbs'
    <3>1. Cardinality(ListedIn(children')) = Cardinality(K) - 1
      BY <2>1, <2>5, ListedAfterHandOver, FS_RemoveElement
    <3> QED
      BY <2>5, <3>1 DEF CanTrap, HandsOver, ExitToParent
  <2>6. ASSUME ListedIn(children') = K, free_ptrs' = free_ptrs,
               ~(running # NULL /\ running \in free_pcbs')
        PROVE  LostPtrs' = LostPtrs
    BY <2>1, <2>6
  <2>7. ASSUME Terminates
        PROVE  /\ ListedIn(children') = K /\ free_ptrs' = free_ptrs
               /\ free_pcbs' = free_pcbs
    BY <2>7, ReparentingListsTheSame DEF CanTrap, Terminates, ExitToZombie, pools
  <2>8. ASSUME NEW b \in free_pcbs, Boots(b)
        PROVE  ListedIn(children') = K /\ free_ptrs' = free_ptrs /\ running = NULL
    <3>1. children' = children
      BY <2>8 DEF Boots, IInv, TypeOK, FamilyTree
    <3> QED
      BY <2>8, <3>1 DEF Boots
  <2>9. ASSUME \/ \E n \in 0..MaxPid : \E i \in DOMAIN children[running] : Waits(n, i)
               \/ \E wake \in 0..MaxTime : FallsAsleep(wake)
               \/ Schedules
               \/ ChangesNothing
        PROVE  children' = children /\ free_ptrs' = free_ptrs /\ free_pcbs' = free_pcbs
    BY <2>9 DEF CanTrap, Waits, BlockInWait, FallsAsleep, FallAsleep, Schedules, Schedule,
                ChangesNothing, pools
  <2>10. CASE \E c \in free_pcbs : Creates(c)
    BY <2>10, <2>1, <2>3
  <2>11. CASE \E i \in DOMAIN children[running] : Reaps(i)
    BY <2>11, <2>1, <2>4
  <2>12. CASE \E i \in DOMAIN Reparented[parent[running]] : HandsOver(i)
    BY <2>12, <2>1, <2>5
  <2>13. CASE Terminates \/ \E b \in free_pcbs : Boots(b)
    BY <2>13, <2>1, <2>2, <2>6, <2>7, <2>8
  <2>14. CASE \/ \E n \in 0..MaxPid : \E i \in DOMAIN children[running] : Waits(n, i)
              \/ \E wake \in 0..MaxTime : FallsAsleep(wake)
              \/ Schedules
              \/ ChangesNothing
    BY <2>14, <2>1, <2>2, <2>6, <2>9
  <2> QED
    BY <2>10, <2>11, <2>12, <2>13, <2>14, StepCases
<1> QED
  BY <1>1, Invariance, PTL DEF Spec, PtrsLostAtHandover

-----------------------------------------------------------------------------
(* No lost wake-up                                                         *)

\* That p, blocked in wait, waits for its own child c, which has terminated.
Missed(p, c) ==
  /\ p \in waiting_list /\ wait_for[p] # NotAWait
  /\ c \in ToSet(children[p])
  /\ status[c] = "Zombie" /\ wait_for[p] \in {0, pid[c]}
  /\ parent[c] = p

LEMMA NoMissedChildMeans ==
  ASSUME TypeOK
  PROVE  NoMissedChild <=> \A p, c \in Block : ~Missed(p, c)
<1>1. \A p \in waiting_list : p \in Block /\ ToSet(children[p]) \subseteq Block
  BY Elements DEF TypeOK
<1> QED
  BY <1>1 DEF NoMissedChild, Missed

\* The scan by wait has passed every child: when it stops at one that is alive,
\* there is no zombie that it looks for.
LEMMA ScanMissesNone ==
  ASSUME IInv, running # NULL, NEW n \in 0..MaxPid,
         NEW i \in DOMAIN children[running], ScanStops(children[running], n, i),
         status[children[running][i]] # "Zombie",
         NEW c \in ToSet(children[running]), status[c] = "Zombie", n \in {0, pid[c]}
  PROVE  FALSE
<1> DEFINE kids == children[running]
<1>1. running \in Block /\ kids \in Seq(Block)
  BY OnCpuIsLive DEF IInv, TypeOK
<1>2. /\ DOMAIN kids = 1..Len(kids) /\ Len(kids) \in Nat
      /\ \E j \in 1..Len(kids) : c = kids[j]
      /\ kids[i] \in ToSet(kids)
  BY <1>1, Elements
<1>3. PICK j \in 1..Len(kids) : c = kids[j]
  BY <1>2
<1>4. c \in Live /\ kids[i] \in Live
  BY <1>1, <1>2 DEF IInv, FamilyTree
<1>5. Sought(kids, n, j)
  BY <1>3 DEF Sought
<1>6. ~Sought(kids, n, i)
  <2>1. pid[kids[i]] = pid[c] => kids[i] = c
    BY <1>4 DEF IInv, UniquePids
  <2>2. n = 0 \/ n = pid[c]
    OBVIOUS
  <2>3. pid[kids[i]] = pid[c] => status[kids[i]] = "Zombie"
    BY <2>1
  <2> QED
    BY <2>2, <2>3 DEF Sought
<1>7. i = Len(kids)
  BY <1>6 DEF ScanStops
<1>8. \A k \in 1..(i - 1) : ~Sought(kids, n, k)
  BY DEF ScanStops
<1>9. j \in 1..(i - 1)
  <2>1. j # i
    BY <1>5, <1>6
  <2> DEFINE m == Len(kids)
  <2>2. m \in Nat /\ j \in 1..m /\ i = m
    BY <1>2, <1>7
  <2> HIDE DEF m
  <2> QED
    BY ONLY <2>1, <2>2
<1> QED
  BY <1>5, <1>8, <1>9

\* Only a wait that blocks and a process that terminates could miss each other.
LEMMA MissedBefore ==
  ASSUME IInv, [Next]_vars, NEW p \in Block, NEW c \in Block, Missed(p, c)'
  PROVE  Missed(p, c)
<1>1. TypeOK /\ (running # NULL => running \in Block /\ running \notin waiting_list)
  BY OnCpuIsLive DEF IInv
<1>2. ASSUME NEW k \in free_pcbs, Creates(k) PROVE Missed(p, c)
  <2>1. /\ waiting_list' = waiting_list /\ wait_for' = wait_for
        /\ status' = [status EXCEPT ![k] = "Ready"]
        /\ pid' = [pid EXCEPT ![k] = last_pid]
        /\ parent' = [parent EXCEPT ![k] = running]
        /\ children' = [children EXCEPT ![k] = <<>>, ![running] = Append(@, k)]
    BY <1>2 DEF CanTrap, Creates, SpawnChild, PCB_alloc
  <2>2. p # running /\ p # k /\ c # k
    BY <1>1, <1>2, <2>1 DEF Missed, CanTrap, Creates, IInv, OnePlace, TypeOK
  <2> QED
    BY <1>1, <1>2, <2>1, <2>2 DEF Missed, TypeOK, CanTrap, Creates
<1>3. ASSUME NEW i \in DOMAIN children[running], Reaps(i) PROVE Missed(p, c)
  BY <1>3, ReapedChild DEF Missed, CanTrap, Reaps, Reap
<1>4. ASSUME NEW n \in 0..MaxPid, NEW i \in DOMAIN children[running], Waits(n, i)
      PROVE  Missed(p, c)
  <2>1. /\ status' = [status EXCEPT ![running] = "Waiting"]
        /\ wait_for' = [wait_for EXCEPT ![running] = n]
        /\ waiting_list' = waiting_list \cup {running}
        /\ UNCHANGED <<pid, parent, children>>
    BY <1>4 DEF CanTrap, Waits, BlockInWait
  <2>2. c # running /\ status[c] = "Zombie"
    BY <1>1, <1>4, <2>1 DEF Missed, TypeOK, CanTrap, Waits
  <2>3. CASE p = running
    <3>1. c \in ToSet(children[running]) /\ n \in {0, pid[c]}
      BY <1>1, <2>1, <2>3 DEF Missed, TypeOK
    <3> QED
      BY <3>1, <2>2, <1>4, ScanMissesNone DEF CanTrap, Waits
  <2>4. CASE p # running
    BY <2>1, <2>2, <2>4, <1>1 DEF Missed, TypeOK
  <2> QED
    BY <2>3, <2>4
<1>5. ASSUME NEW i \in DOMAIN Reparented[parent[running]], HandsOver(i)
      PROVE  Missed(p, c)
  <2>1. /\ \A q \in Block : ToSet(children'[q]) = ToSet(Reparented[q]) \ {running}
        /\ \A b \in Block \ {running, parent[running]} : status'[b] = status[b]
        /\ status'[parent[running]] = "Running"
        /\ waiting_list' = waiting_list \ {parent[running]}
        /\ UNCHANGED <<pid, parent, wait_for>>
    BY <1>5, HandOver DEF CanTrap, HandsOver
  <2>2. /\ p \in waiting_list /\ p # parent[running] /\ wait_for[p] # NotAWait
        /\ c \in ToSet(Reparented[p]) /\ c # running /\ parent[c] = p
        /\ status'[c] = "Zombie" /\ wait_for[p] \in {0, pid[c]}
    BY <2>1 DEF Missed
  <2>3. status[c] = "Zombie"
    BY <2>1, <2>2
  <2>4. c \in ToSet(children[p])
    <3>1. running # NULL /\ parent[running] # NULL /\ running \in Block
      BY <1>1, <1>5 DEF CanTrap, HandsOver
    <3>2. p # running
      BY <2>2, <1>1, <3>1
    <3>3. CASE p = init_pcb
      <4>1. c \in ToSet(children[running]) => parent[c] = running
        BY <3>1 DEF IInv, FamilyTree
      <4> QED
        BY <3>1, <3>2, <3>3, <4>1, <2>2, ReparentedForest
    <3>4. CASE p # init_pcb
      BY <3>1, <3>2, <3>4, <2>2, ReparentedForest
    <3> QED
      BY <3>3, <3>4
  <2> QED
    BY <2>2, <2>3, <2>4 DEF Missed
<1>6. ASSUME Terminates PROVE Missed(p, c)
  <2>1. /\ children' = Reparented
        /\ status' = [Died EXCEPT ![Head(ready_list)] = "Running"]
        /\ UNCHANGED <<pid, parent, wait_for, waiting_list>>
        /\ running \in Block /\ parent[running] # NULL /\ running # NULL
    BY <1>1, <1>6 DEF CanTrap, Terminates, ExitToZombie
  <2>2. /\ p \in waiting_list /\ wait_for[p] # NotAWait
        /\ c \in ToSet(Reparented[p]) /\ parent[c] = p
        /\ status'[c] = "Zombie" /\ wait_for[p] \in {0, pid[c]}
    BY <2>1 DEF Missed
  <2>3. c # running
    <3> SUFFICES ASSUME c = running PROVE FALSE
      OBVIOUS
    <3>1. p = parent[running] /\ status[p] = "Waiting"
      BY <2>2 DEF IInv, StatusMatchesList
    <3> QED
      BY <3>1, <2>2, <1>6 DEF CanTrap, Terminates, ParentAwaits
  <2>4. status[c] = "Zombie"
    BY <1>1, <2>1, <2>2, <2>3 DEF Died, TypeOK
  <2>5. c \in ToSet(children[p])
    <3>1. p # running
      BY <1>1, <2>1, <2>2
    <3>2. CASE p = init_pcb
      <4>1. c \in ToSet(children[running]) => parent[c] = running
        BY <2>1 DEF IInv, FamilyTree
      <4> QED
        BY <2>1, <2>2, <3>1, <3>2, <4>1, ReparentedForest
    <3>3. CASE p # init_pcb
      BY <2>1, <2>2, <3>1, <3>3, ReparentedForest
    <3> QED
      BY <3>2, <3>3
  <2> QED
    BY <2>2, <2>4, <2>5 DEF Missed
<1>7. ASSUME NEW wake, FallsAsleep(wake) PROVE Missed(p, c)
  <2>1. /\ status' = [status EXCEPT ![running] = "Waiting"]
        /\ wait_for' = [wait_for EXCEPT ![running] = NotAWait]
        /\ waiting_list' = waiting_list \cup {running}
        /\ UNCHANGED <<pid, parent, children>>
        /\ running \in Block
    BY <1>1, <1>7 DEF CanTrap, FallsAsleep, FallAsleep
  <2> QED
    BY <1>1, <2>1 DEF Missed, TypeOK
<1>8. ASSUME Schedules PROVE Missed(p, c)
  <2>1. /\ waiting_list' \subseteq waiting_list
        /\ UNCHANGED <<pid, parent, children, wait_for>>
        /\ status'[c] = "Zombie" => status[c] = "Zombie"
    <3>1. PICK n \in 0..Len(timer_list) :
            LET W == ToSet(Woken(n))
            IN  /\ waiting_list' = waiting_list \ W
                /\ UNCHANGED <<pid, parent, children, wait_for>>
                /\ \/ UNCHANGED status
                   \/ \E next \in Block :
                        /\ status'[next] = "Running"
                        /\ \A b \in (W \cup {running}) \ {next} :
                             status'[b] = "Ready"
                        /\ \A b \in Block \ (W \cup {running, next}) :
                             status'[b] = status[b]
      BY <1>8, ScheduleMoves DEF Schedules
    <3> QED
      BY <3>1
  <2> QED
    BY <2>1 DEF Missed
<1>9. ASSUME NEW b \in free_pcbs, Boots(b) PROVE Missed(p, c)
  <2>1. /\ waiting_list' = waiting_list /\ wait_for' = wait_for
        /\ status' = [status EXCEPT ![b] = "Running"]
        /\ pid' = [pid EXCEPT ![b] = last_pid]
        /\ parent' = [parent EXCEPT ![b] = NULL]
        /\ children' = [children EXCEPT ![b] = <<>>]
    BY <1>9 DEF Boots, PCB_alloc, lists
  <2>2. p # b /\ c # b
    <3>1. p # b
      BY <2>1 DEF Missed, IInv, OnePlace
    <3>2. c \in ToSet(children[p])
      BY <1>1, <2>1, <3>1 DEF Missed, TypeOK
    <3> QED
      BY <3>1, <3>2 DEF IInv, FamilyTree, Live
  <2> QED
    BY <1>1, <2>1, <2>2 DEF Missed, TypeOK
<1>10. ASSUME ChangesNothing PROVE Missed(p, c)
  BY <1>10 DEF ChangesNothing, lists, Missed
<1> QED
  BY <1>2, <1>3, <1>4, <1>5, <1>6, <1>7, <1>8, <1>9, <1>10, StepCases

\* A process blocked in wait has no terminated child of its own that it waits
\* for: the wait has seen them all, and whoever terminates later sees it wait.
THEOREM NoWakeUpIsMissed == Spec => []NoMissedChild
<1>1. Init => NoMissedChild
  BY DEF Init, NoMissedChild
<1>2. IInv /\ IInv' /\ NoMissedChild /\ [Next]_vars => NoMissedChild'
  <2> SUFFICES ASSUME IInv, IInv', NoMissedChild, [Next]_vars
               PROVE  NoMissedChild'
    OBVIOUS
  <2>1. \A p, c \in Block : ~Missed(p, c)
    BY NoMissedChildMeans DEF IInv
  <2>2. \A p, c \in Block : ~Missed(p, c)'
    BY <2>1, MissedBefore
  <2>3. \A p \in waiting_list' : p \in Block /\ ToSet(children'[p]) \subseteq Block
    BY Elements DEF IInv, TypeOK
  <2> QED
    BY <2>2, <2>3 DEF NoMissedChild, Missed
<1> QED
  BY <1>1, <1>2, Invariance, PTL DEF Spec

-----------------------------------------------------------------------------
(* With a process that makes no system call                                *)

\* The process with pid 1 never leaves the CPU but for the ready list.
IdleProcess ==
  last_pid > 1 =>
    \E b \in Block : pid[b] = 1 /\ b \in OnCpu \cup ToSet(ready_list)

\* The faults of a kernel that finds nobody to run.
Starved == {"wait_no_ready", "exit_no_ready", "tick_idle", "sleep_log_idle",
            "restart_no_pcb"}

LEMMA StarvedFor ==
  ASSUME [Next]_vars, machine' \in Starved
  PROVE  \/ machine \in Starved
         \/ CanTrap /\ ready_list = <<>>
         \/ machine = "up" /\ running = NULL
<1>1. ASSUME NEW why, Fault(why) PROVE machine' = why
  BY <1>1 DEF Fault
<1>2. CASE Spawn
  BY <1>1, <1>2 DEF Spawn, SpawnChild, Starved
<1>3. ASSUME NEW n \in 0..MaxPid, Wait(n)
      PROVE  machine \in Starved \/ (CanTrap /\ ready_list = <<>>)
  BY <1>1, <1>3 DEF Wait, WaitFails, Reap, BlockInWait, Starved
<1>4. CASE Exit
  BY <1>1, <1>4 DEF Exit, ExitToParent, ExitToZombie, Starved
<1>5. ASSUME NEW c \in Sleeps, Sleep(c)
      PROVE  machine \in Starved \/ (CanTrap /\ ready_list = <<>>)
  BY <1>1, <1>5 DEF Sleep, SleepFails, FallAsleep, Starved
<1>6. ASSUME NEW t, Schedule(t) PROVE machine \in Starved
  BY <1>6 DEF Schedule
<1>7. CASE Preempt \/ TimerTick
  BY <1>1, <1>6, <1>7 DEF Preempt, TimerTick, Starved
<1>8. CASE Fork \/ Shutdown
  BY <1>1, <1>8 DEF Fork, Shutdown, Starved
<1>9. CASE Restart
  BY <1>9 DEF Restart
<1>10. CASE UNCHANGED vars
  BY <1>10 DEF vars
<1> QED
  BY <1>2, <1>3, <1>4, <1>5, <1>7, <1>8, <1>9, <1>10 DEF Next, Halted

\* As long as the idle process is there, whoever else has the CPU finds it in
\* the ready list.
LEMMA SomebodyIsReady ==
  ASSUME 1 \in IdlePids, IInv, IdleProcess, last_pid > 1
  PROVE  CanTrap => ready_list # <<>>
<1>1. PICK b \in Block : pid[b] = 1 /\ b \in OnCpu \cup ToSet(ready_list)
  BY DEF IdleProcess
<1>2. CanTrap => b \in ToSet(ready_list)
  BY <1>1 DEF CanTrap, OnCpu
<1> QED
  BY <1>2, EmptyList

\* Who is on the CPU or ready stays so, unless its own system call ends that.
LEMMA RunnableStays ==
  ASSUME IInv, [Next]_vars,
         NEW b \in Block, b \in OnCpu \cup ToSet(ready_list), pid[b] \in IdlePids
  PROVE  b \in (OnCpu \cup ToSet(ready_list))' /\ pid'[b] = pid[b]
<1>1. /\ TypeOK /\ NULL \notin Block
      /\ b # NULL /\ b \notin free_pcbs
      /\ CanTrap => running # b /\ b \in ToSet(ready_list)
  BY NullAssumption DEF IInv, TypeOK, OnePlace, OnCpu, CanTrap
<1>2. ready_list # <<>> =>
        ToSet(ready_list) = {Head(ready_list)} \cup ToSet(Tail(ready_list))
  BY <1>1, DetachFirst DEF TypeOK
<1>3. b \in ToSet(ready_list) => ready_list # <<>>
  BY EmptyList
<1>4. ASSUME NEW c \in free_pcbs, Creates(c)
      PROVE  b \in ToSet(ready_list') /\ pid'[b] = pid[b]
  <2>1. ToSet(ready_list') = ToSet(ready_list) \cup {c}
    BY <1>1, <1>4, InsertLast DEF TypeOK, Creates, SpawnChild
  <2> QED
    BY <1>1, <1>4, <2>1 DEF Creates, SpawnChild, PCB_alloc, TypeOK
<1>5. ASSUME NEW i, Reaps(i) PROVE b \in ToSet(ready_list') /\ pid' = pid
  BY <1>1, <1>5 DEF Reaps, Reap
<1>6. ASSUME NEW n, NEW i, Waits(n, i)
      PROVE  b \in {running'} \cup ToSet(ready_list') /\ pid' = pid
  BY <1>1, <1>2, <1>3, <1>6 DEF Waits, BlockInWait
<1>7. ASSUME NEW i, HandsOver(i) PROVE b \in ToSet(ready_list') /\ pid' = pid
  BY <1>1, <1>7 DEF HandsOver, ExitToParent
<1>8. ASSUME Terminates
      PROVE  b \in {running'} \cup ToSet(ready_list') /\ pid' = pid
  BY <1>1, <1>2, <1>3, <1>8 DEF Terminates, ExitToZombie
<1>9. ASSUME NEW wake, FallsAsleep(wake)
      PROVE  b \in {running'} \cup ToSet(ready_list') /\ pid' = pid
  BY <1>1, <1>2, <1>3, <1>9 DEF FallsAsleep, FallAsleep
<1>10. ASSUME Schedules
       PROVE  b \in {running'} \cup ToSet(ready_list') /\ pid' = pid
  <2>1. PICK n \in 0..Len(timer_list) :
          /\ pid' = pid
          /\ \/ UNCHANGED <<running, ready_list>>
             \/ \E next \in ToSet(Woken(n)) \cup ToSet(ready_list) :
                  /\ running' = next
                  /\ ToSet(ready_list')
                       = (ToSet(Woken(n)) \cup ToSet(ready_list) \cup {running})
                           \ {next}
    BY <1>10, ScheduleMoves DEF Schedules
  <2> QED
    BY <2>1 DEF OnCpu
<1>11. ASSUME NEW c \in free_pcbs, Boots(c)
       PROVE  b \in ToSet(ready_list') /\ pid'[b] = pid[b]
  BY <1>1, <1>11 DEF Boots, PCB_alloc, lists, OnCpu, TypeOK
<1>12. ASSUME ChangesNothing
       PROVE  b \in {running'} \cup ToSet(ready_list') /\ pid' = pid
  BY <1>12 DEF ChangesNothing, lists, OnCpu
<1> QED
  BY <1>1, <1>4, <1>5, <1>6, <1>7, <1>8, <1>9, <1>10, <1>11, <1>12, StepCases
     DEF OnCpu

\* The CPU is without a process only after a sleep with nobody ready.
LEMMA NothingLeavesCpuEmpty ==
  ASSUME IInv, [Next]_vars, running # NULL, CanTrap => ready_list # <<>>
  PROVE  running' # NULL
<1>1. TypeOK /\ NULL \notin Block
  BY NullAssumption DEF IInv
<1>2. ready_list # <<>> => Head(ready_list) \in Block
  BY <1>1, DetachFirst DEF TypeOK
<1>3. ASSUME Schedules PROVE running' # NULL
  <2>1. \/ running' = running
        \/ running' \in Block
    BY <1>3, ScheduleMoves DEF Schedules
  <2> QED
    BY <1>1, <2>1
<1>4. ASSUME NEW i \in DOMAIN Reparented[parent[running]], HandsOver(i)
      PROVE  running' # NULL
  BY <1>1, <1>4, HandsOverToKeeper
<1>5. ASSUME \/ \E c \in free_pcbs : Creates(c)
             \/ \E i \in DOMAIN children[running] : Reaps(i)
             \/ ChangesNothing
      PROVE  running' # NULL
  BY <1>5 DEF Creates, SpawnChild, Reaps, Reap, ChangesNothing
<1>6. ASSUME \/ \E n \in 0..MaxPid : \E i \in DOMAIN children[running] : Waits(n, i)
             \/ Terminates
             \/ \E wake \in 0..MaxTime : FallsAsleep(wake)
      PROVE  running' # NULL
  BY <1>1, <1>2, <1>6
     DEF Waits, BlockInWait, Terminates, ExitToZombie, FallsAsleep, FallAsleep
<1>7. ASSUME NEW b, Boots(b) PROVE running' # NULL
  BY <1>7 DEF Boots
<1> QED
  BY <1>3, <1>4, <1>5, <1>6, <1>7, StepCases

\* The process with pid 1 is spawned, or starts as another first process.
LEMMA FirstIdleProcess ==
  ASSUME IInv, [Next]_vars, last_pid = 1, last_pid' > 1
  PROVE  /\ \E b \in Block : pid'[b] = 1 /\ b \in (OnCpu \cup ToSet(ready_list))'
         /\ running' # NULL
         /\ machine' \notin Starved
<1>1. TypeOK /\ NULL \notin Block
  BY NullAssumption DEF IInv
<1>2. CASE \E c \in free_pcbs : Creates(c)
  <2>1. PICK c \in free_pcbs : Creates(c)
    BY <1>2
  <2>2. ToSet(ready_list') = ToSet(ready_list) \cup {c}
    BY <1>1, <2>1, InsertLast DEF TypeOK, Creates, SpawnChild
  <2>3. c \in Block /\ pid'[c] = 1 /\ running' = running /\ machine' = machine
    BY <1>1, <2>1 DEF TypeOK, Creates, SpawnChild, PCB_alloc
  <2> QED
    BY <2>1, <2>2, <2>3 DEF Creates, CanTrap, Starved
<1>3. CASE \E b \in free_pcbs : Boots(b)
  <2>1. PICK b \in free_pcbs : Boots(b)
    BY <1>3
  <2>2. b \in Block /\ pid'[b] = 1 /\ running' = b /\ machine' = machine
    BY <1>1, <2>1 DEF TypeOK, Boots, PCB_alloc
  <2> QED
    BY <1>1, <2>1, <2>2 DEF Boots, OnCpu, Starved
<1>4. ASSUME \/ \E i \in DOMAIN children[running] : Reaps(i)
             \/ \E n \in 0..MaxPid : \E i \in DOMAIN children[running] : Waits(n, i)
             \/ \E i \in DOMAIN Reparented[parent[running]] : HandsOver(i)
             \/ Terminates
             \/ \E wake \in 0..MaxTime : FallsAsleep(wake)
             \/ Schedules
             \/ ChangesNothing
      PROVE  last_pid' = last_pid
  BY <1>4 DEF Reaps, Reap, Waits, BlockInWait, HandsOver, ExitToParent, Terminates,
              ExitToZombie, FallsAsleep, FallAsleep, Schedules, Schedule,
              ChangesNothing
<1> QED
  BY <1>2, <1>3, <1>4, StepCases

\* A process that loops, once it exists, is on the CPU or ready for ever, so
\* the CPU is never without a process and no call finds the ready list empty.
THEOREM IdleProcessKeepsCpuBusy ==
  ASSUME 1 \in IdlePids
  PROVE  Spec => []IdleKeepsCpuBusy
<1>1. Init => IdleProcess /\ IdleKeepsCpuBusy
  BY DEF Init, IdleProcess, IdleKeepsCpuBusy
<1>2. IInv /\ IdleProcess /\ IdleKeepsCpuBusy /\ [Next]_vars
        => (IdleProcess /\ IdleKeepsCpuBusy)'
  <2> SUFFICES ASSUME IInv, IdleProcess, IdleKeepsCpuBusy, [Next]_vars,
                      last_pid' > 1
               PROVE  /\ \E b \in Block :
                           pid'[b] = 1 /\ b \in (OnCpu \cup ToSet(ready_list))'
                      /\ running' # NULL
                      /\ machine' \notin Starved
    BY DEF IdleProcess, IdleKeepsCpuBusy, Starved
  <2>1. CASE last_pid > 1
    <3>1. running # NULL /\ machine \notin Starved
      BY <2>1 DEF IdleKeepsCpuBusy, Starved
    <3>2. CanTrap => ready_list # <<>>
      BY <2>1, SomebodyIsReady
    <3>3. PICK b \in Block : pid[b] = 1 /\ b \in OnCpu \cup ToSet(ready_list)
      BY <2>1 DEF IdleProcess
    <3>4. pid'[b] = 1 /\ b \in (OnCpu \cup ToSet(ready_list))'
      BY <3>3, RunnableStays
    <3>5. machine' \notin Starved
      BY <3>1, <3>2, StarvedFor
    <3>6. running' # NULL
      BY <3>1, <3>2, <2>1, NothingLeavesCpuEmpty
    <3> QED
      BY <3>4, <3>5, <3>6
  <2>2. CASE last_pid = 1
    BY <2>2, FirstIdleProcess
  <2>3. last_pid \in Int /\ last_pid >= 1
    BY BoundAssumption DEF IInv, TypeOK
  <2> QED
    BY <2>1, <2>2, <2>3
<1> QED
  BY <1>1, <1>2, Invariance, PTL DEF Spec

-----------------------------------------------------------------------------
(* The life cycle of processes                                             *)

\* When the CPU has no process, nobody is ready either.
IdleMeansNobodyReady == running = NULL => ready_list = <<>>

\* The sets of pids that the life cycle speaks of.
LEMMA PidsWithout ==
  ASSUME IInv, NEW S \in SUBSET Live, NEW T \in SUBSET Live
  PROVE  /\ PidsOf(S \ T) = PidsOf(S) \ PidsOf(T)
         /\ PidsOf(S \cup T) = PidsOf(S) \cup PidsOf(T)
         /\ S \subseteq T => PidsOf(S) \subseteq PidsOf(T)
  BY DEF IInv, UniquePids, PidsOf

LEMMA PidsOfOne == \A b : PidsOf({b}) = {pid[b]}
  BY DEF PidsOf

LEMMA PidsWithoutOne ==
  ASSUME IInv, NEW S \in SUBSET Live, NEW b \in Live
  PROVE  PidsOf(S \ {b}) = PidsOf(S) \ {pid[b]}
<1>1. \A x \in S : x # b => pid[x] # pid[b]
  BY DEF IInv, UniquePids
<1> QED
  BY <1>1 DEF PidsOf

LEMMA Places ==
  ASSUME IInv
  PROVE  /\ OnCpu \in SUBSET Live /\ ToSet(ready_list) \in SUBSET Live
         /\ waiting_list \in SUBSET Live /\ zombie_list \in SUBSET Live
         /\ running # NULL => OnCpu = {running} /\ PidsOf(OnCpu) = {pid[running]}
         /\ running = NULL => OnCpu = {} /\ PidsOf(OnCpu) = {}
         /\ PidsOf({}) = {}
<1>1. TypeOK /\ OnePlace
  BY DEF IInv
<1>2. ToSet(ready_list) \subseteq Block
  BY <1>1, Elements DEF TypeOK
<1> QED
  BY <1>1, <1>2, PidsOfOne DEF TypeOK, OnePlace, OnCpu, Live, PidsOf

\* The CPU passes to the head of the ready list.
LEMMA HeadGetsCpu ==
  ASSUME IInv, ready_list # <<>>, running' = Head(ready_list),
         ready_list' = Tail(ready_list), pid' = pid
  PROVE  \E next \in PidsOf(ToSet(ready_list)) :
           /\ PidsOf(OnCpu)' = {next}
           /\ PidsOf(ToSet(ready_list))' = PidsOf(ToSet(ready_list)) \ {next}
<1> DEFINE h == Head(ready_list)
<1>1. /\ h \in Block
      /\ ToSet(ready_list) = {h} \cup ToSet(Tail(ready_list))
      /\ h \notin ToSet(Tail(ready_list))
  BY DetachFirst DEF IInv, TypeOK, OnePlace
<1>2. h # NULL
  BY <1>1, NullAssumption
<1> HIDE DEF h
<1>3. OnCpu' = {h}
  BY <1>2 DEF OnCpu, h
<1>4. ToSet(ready_list') = ToSet(ready_list) \ {h}
  BY <1>1
<1>5. {h} \in SUBSET Live /\ ToSet(ready_list) \in SUBSET Live
  BY <1>1, Places
<1>6. PidsOf(ToSet(ready_list) \ {h}) = PidsOf(ToSet(ready_list)) \ {pid[h]}
  BY <1>5, PidsWithoutOne
<1>7. PidsOf(OnCpu)' = {pid[h]}
  BY <1>3 DEF PidsOf
<1>8. PidsOf(ToSet(ready_list))' = PidsOf(ToSet(ready_list)) \ {pid[h]}
  BY <1>4, <1>6 DEF PidsOf
<1>9. pid[h] \in PidsOf(ToSet(ready_list))
  BY <1>1 DEF PidsOf
<1> QED
  BY <1>7, <1>8, <1>9

\* The process on the CPU joins the waiting list.
LEMMA RunningJoinsWaiting ==
  ASSUME IInv, running # NULL, pid' = pid,
         waiting_list' = waiting_list \cup {running}
  PROVE  PidsOf(waiting_list)' = PidsOf(waiting_list) \cup PidsOf(OnCpu)
  BY Places DEF PidsOf

LEMMA SpawnIsCreate ==
  ASSUME IInv, NEW c \in free_pcbs, Creates(c)
  PROVE  Lifecycle!Create
<1>1. /\ running # NULL /\ pid \in [Block -> 0..(MaxPid - 1)] /\ c \in Block
      /\ pid' = [pid EXCEPT ![c] = last_pid]
      /\ last_pid' = last_pid + 1
      /\ UNCHANGED <<running, waiting_list, zombie_list>>
  BY DEF IInv, TypeOK, Creates, CanTrap, SpawnChild, PCB_alloc
<1>2. ToSet(ready_list') = ToSet(ready_list) \cup {c}
  BY <1>1, InsertLast DEF IInv, TypeOK, Creates, SpawnChild
<1>3. \A b \in Live : pid'[b] = pid[b]
  BY <1>1 DEF Live
<1>4. pid'[c] = last_pid
  BY <1>1
<1>5. PidsOf(OnCpu)' = PidsOf(OnCpu) /\ PidsOf(OnCpu) # {}
  BY <1>1, <1>3, Places DEF PidsOf, OnCpu
<1>6. PidsOf(waiting_list)' = PidsOf(waiting_list)
  BY <1>1, <1>3, Places DEF PidsOf
<1>7. PidsOf(zombie_list)' = PidsOf(zombie_list)
  BY <1>1, <1>3, Places DEF PidsOf
<1>8. PidsOf(ToSet(ready_list))' = PidsOf(ToSet(ready_list)) \cup {last_pid}
  BY <1>2, <1>3, <1>4, Places DEF PidsOf
<1> QED
  BY <1>1, <1>5, <1>6, <1>7, <1>8 DEF Lifecycle!Create

LEMMA ReapIsReap ==
  ASSUME IInv, NEW i \in DOMAIN children[running], Reaps(i)
  PROVE  Lifecycle!Reap
<1> DEFINE c == children[running][i]
<1>1. /\ running # NULL /\ zombie_list' = zombie_list \ {c}
      /\ UNCHANGED <<pid, last_pid, running, ready_list, waiting_list>>
  BY DEF Reaps, CanTrap, Reap
<1>2. c \in zombie_list
  BY ReapedChild
<1> HIDE DEF c
<1>3. {c} \in SUBSET Live
  BY <1>2, Places
<1>4. PidsOf(zombie_list \ {c}) = PidsOf(zombie_list) \ {pid[c]}
  BY <1>3, Places, PidsWithoutOne
<1>5. /\ PidsOf(zombie_list)' = PidsOf(zombie_list) \ {pid[c]}
      /\ pid[c] \in PidsOf(zombie_list)
  BY <1>1, <1>2, <1>4 DEF PidsOf
<1> QED
  BY <1>1, <1>5, Places DEF Lifecycle!Reap, PidsOf, OnCpu

LEMMA WaitIsSuspend ==
  ASSUME IInv, NEW n, NEW i, Waits(n, i)
  PROVE  Lifecycle!Suspend
<1>1. /\ running # NULL /\ ready_list # <<>> /\ running' = Head(ready_list)
      /\ ready_list' = Tail(ready_list)
      /\ waiting_list' = waiting_list \cup {running}
      /\ UNCHANGED <<pid, last_pid, zombie_list>>
  BY DEF Waits, CanTrap, BlockInWait
<1>2. Lifecycle!PassCPU
  BY <1>1, HeadGetsCpu DEF Lifecycle!PassCPU
<1> QED
  BY <1>1, <1>2, Places, RunningJoinsWaiting DEF Lifecycle!Suspend, PidsOf

LEMMA SleepIsSuspend ==
  ASSUME IInv, NEW wake, FallsAsleep(wake)
  PROVE  Lifecycle!Suspend
<1>1. /\ running # NULL
      /\ waiting_list' = waiting_list \cup {running}
      /\ UNCHANGED <<pid, last_pid, zombie_list>>
  BY DEF FallsAsleep, CanTrap, FallAsleep
<1>2. CASE ready_list # <<>>
  <2>1. Lifecycle!PassCPU
    BY <1>1, <1>2, HeadGetsCpu DEF Lifecycle!PassCPU, FallsAsleep, FallAsleep
  <2> QED
    BY <1>1, <2>1, Places, RunningJoinsWaiting DEF Lifecycle!Suspend, PidsOf
<1>3. CASE ready_list = <<>>
  <2>1. running' = NULL /\ ready_list' = ready_list
    BY <1>3 DEF FallsAsleep, FallAsleep
  <2>2. ToSet(ready_list) = {}
    BY <1>3, EmptyList
  <2>3. PidsOf(ToSet(ready_list)) = {} /\ PidsOf(ToSet(ready_list))' = {}
    BY <2>1, <2>2 DEF PidsOf
  <2>4. PidsOf(OnCpu)' = {}
    BY <2>1 DEF PidsOf, OnCpu
  <2>5. PidsOf(zombie_list)' = PidsOf(zombie_list)
    BY <1>1 DEF PidsOf
  <2> QED
    BY <1>1, <2>3, <2>4, <2>5, Places, RunningJoinsWaiting DEF Lifecycle!Suspend
<1> QED
  BY <1>2, <1>3

LEMMA ExitIsTerminate ==
  ASSUME IInv, Terminates
  PROVE  Lifecycle!Terminate
<1>1. /\ running # NULL /\ ready_list # <<>> /\ running' = Head(ready_list)
      /\ ready_list' = Tail(ready_list)
      /\ zombie_list' = zombie_list \cup {running}
      /\ UNCHANGED <<pid, last_pid, waiting_list>>
  BY DEF Terminates, CanTrap, ExitToZombie
<1>2. Lifecycle!PassCPU
  BY <1>1, HeadGetsCpu DEF Lifecycle!PassCPU
<1>3. PidsOf(zombie_list)' = PidsOf(zombie_list) \cup PidsOf(OnCpu)
  BY <1>1, Places DEF PidsOf
<1> QED
  BY <1>1, <1>2, <1>3, Places DEF Lifecycle!Terminate, PidsOf

LEMMA ExitIsHandOver ==
  ASSUME IInv, NEW i \in DOMAIN Reparented[parent[running]], HandsOver(i)
  PROVE  Lifecycle!HandOver
<1> DEFINE p == parent[running]
<1>1. /\ running # NULL /\ p \in waiting_list /\ p \in Block
      /\ running' = p /\ waiting_list' = waiting_list \ {p}
      /\ UNCHANGED <<pid, last_pid, ready_list, zombie_list>>
  BY HandsOverToKeeper DEF HandsOver, CanTrap, ExitToParent
<1> HIDE DEF p
<1>2. {p} \in SUBSET Live /\ p # NULL
  BY <1>1, Places, NullAssumption
<1>3. PidsOf(waiting_list \ {p}) = PidsOf(waiting_list) \ {pid[p]}
  BY <1>2, Places, PidsWithoutOne
<1>4. /\ PidsOf(waiting_list)' = PidsOf(waiting_list) \ {pid[p]}
      /\ pid[p] \in PidsOf(waiting_list)
  BY <1>1, <1>3 DEF PidsOf
<1>5. PidsOf(OnCpu)' = {pid[p]}
  BY <1>1, <1>2 DEF PidsOf, OnCpu
<1>6. /\ PidsOf(ToSet(ready_list))' = PidsOf(ToSet(ready_list))
      /\ PidsOf(zombie_list)' = PidsOf(zombie_list)
  BY <1>1 DEF PidsOf
<1> QED
  BY <1>1, <1>4, <1>5, <1>6, Places DEF Lifecycle!HandOver

LEMMA ScheduleIsSwitch ==
  ASSUME IInv, Schedules
  PROVE  Lifecycle!Switch
         \/ UNCHANGED <<pid, last_pid, running, ready_list, waiting_list, zombie_list>>
<1>1. PICK n \in 0..Len(timer_list) :
        LET W == ToSet(Woken(n))
        IN  /\ W \subseteq Asleep
            /\ waiting_list' = waiting_list \ W
            /\ UNCHANGED <<pid, zombie_list, last_pid>>
            /\ \/ W = {} /\ UNCHANGED <<running, ready_list>>
               \/ \E next \in W \cup ToSet(ready_list) :
                    /\ next \in Block
                    /\ running' = next
                    /\ ToSet(ready_list')
                         = (W \cup ToSet(ready_list) \cup {running}) \ {next}
  BY ScheduleMoves DEF Schedules
<1> DEFINE W == ToSet(Woken(n))
<1>2. /\ W \in SUBSET waiting_list /\ waiting_list' = waiting_list \ W
      /\ UNCHANGED <<pid, zombie_list, last_pid>>
  BY <1>1 DEF Asleep
<1> HIDE DEF W
<1>3. CASE W = {} /\ UNCHANGED <<running, ready_list>>
  BY <1>2, <1>3
<1>4. ASSUME NEW next \in W \cup ToSet(ready_list), next \in Block,
             running' = next,
             ToSet(ready_list')
               = (W \cup ToSet(ready_list) \cup {running}) \ {next}
      PROVE  Lifecycle!Switch
  <2>1. /\ running # NULL /\ next # NULL
        /\ W \in SUBSET Live /\ ToSet(ready_list) \in SUBSET Live
        /\ {running} \in SUBSET Live /\ {next} \in SUBSET Live
        /\ waiting_list \in SUBSET Live
    BY <1>2, <1>4, Places, NullAssumption DEF Schedules
  <2>2. /\ PidsOf(waiting_list \ W) = PidsOf(waiting_list) \ PidsOf(W)
        /\ PidsOf(W) \subseteq PidsOf(waiting_list)
    BY <2>1, <1>2, PidsWithout
  <2>3. PidsOf((W \cup ToSet(ready_list) \cup {running}) \ {next})
          = (PidsOf(ToSet(ready_list)) \cup PidsOf(W) \cup PidsOf(OnCpu)) \ {pid[next]}
    <3> DEFINE A == W \cup ToSet(ready_list) \cup {running}
    <3>1. A \in SUBSET Live
      BY <2>1
    <3>2. PidsOf(A) = PidsOf(ToSet(ready_list)) \cup PidsOf(W) \cup PidsOf(OnCpu)
      BY <2>1, Places DEF PidsOf
    <3> HIDE DEF A
    <3>3. PidsOf(A \ {next}) = PidsOf(A) \ {pid[next]}
      BY <3>1, <2>1, PidsWithoutOne
    <3> QED
      BY <3>2, <3>3 DEF A
  <2>4. /\ PidsOf(waiting_list)' = PidsOf(waiting_list) \ PidsOf(W)
        /\ PidsOf(zombie_list)' = PidsOf(zombie_list)
    BY <1>2, <2>2 DEF PidsOf
  <2>5. PidsOf(ToSet(ready_list))'
          = (PidsOf(ToSet(ready_list)) \cup PidsOf(W) \cup PidsOf(OnCpu)) \ {pid[next]}
    BY <1>2, <1>4, <2>3 DEF PidsOf
  <2>6. PidsOf(OnCpu)' = {pid[next]}
    BY <1>2, <1>4, <2>1 DEF PidsOf, OnCpu
  <2>7. pid[next] \in PidsOf(ToSet(ready_list)) \cup PidsOf(W)
    BY <1>4 DEF PidsOf
  <2>8. PidsOf(OnCpu) # {}
    BY <2>1, Places
  <2> QED
    BY <1>2, <2>2, <2>4, <2>5, <2>6, <2>7, <2>8 DEF Lifecycle!Switch
<1> QED
  BY <1>1, <1>3, <1>4 DEF W

LEMMA RestartIsBoot ==
  ASSUME IInv, IdleMeansNobodyReady, NEW b \in free_pcbs, Boots(b)
  PROVE  Lifecycle!Boot
<1>1. /\ running = NULL /\ ready_list = <<>> /\ running' = b
      /\ b \in Block /\ pid \in [Block -> 0..(MaxPid - 1)]
      /\ pid' = [pid EXCEPT ![b] = last_pid]
      /\ last_pid' = last_pid + 1
      /\ UNCHANGED <<ready_list, waiting_list, zombie_list>>
  BY DEF IInv, TypeOK, Boots, PCB_alloc, lists, IdleMeansNobodyReady
<1>2. b # NULL /\ pid'[b] = last_pid
  BY <1>1, NullAssumption
<1>3. \A x \in Live : pid'[x] = pid[x]
  BY <1>1 DEF Live
<1>4. PidsOf(OnCpu) = {} /\ PidsOf(OnCpu)' = {last_pid}
  BY <1>1, <1>2, Places DEF PidsOf, OnCpu
<1>5. PidsOf(ToSet(ready_list)) = {} /\ PidsOf(ToSet(ready_list))' = {}
  <2>1. ToSet(ready_list) = {} /\ ToSet(ready_list') = {}
    BY <1>1, EmptyList
  <2> QED
    BY <2>1 DEF PidsOf
<1>6. PidsOf(waiting_list)' = PidsOf(waiting_list)
  BY <1>1, <1>3, Places DEF PidsOf
<1>7. PidsOf(zombie_list)' = PidsOf(zombie_list)
  BY <1>1, <1>3, Places DEF PidsOf
<1> QED
  BY <1>1, <1>4, <1>5, <1>6, <1>7 DEF Lifecycle!Boot

LEMMA NobodyReadyStays ==
  IInv /\ IdleMeansNobodyReady /\ [Next]_vars => IdleMeansNobodyReady'
<1> SUFFICES ASSUME IInv, IdleMeansNobodyReady, [Next]_vars, running' = NULL
             PROVE  ready_list' = <<>>
  BY DEF IdleMeansNobodyReady
<1>1. CASE running = NULL
  BY <1>1, StepCases, NullAssumption
     DEF IdleMeansNobodyReady, Creates, Reaps, Waits, HandsOver, Terminates,
         FallsAsleep, CanTrap, Schedules, Boots, ChangesNothing, lists
<1>2. CASE running # NULL
  <2>1. CanTrap /\ ready_list = <<>>
    BY <1>2, NothingLeavesCpuEmpty
  <2>2. ASSUME NEW wake, FallsAsleep(wake) PROVE ready_list' = <<>>
    BY <2>1, <2>2 DEF FallsAsleep, FallAsleep
  <2>3. ASSUME \/ \E c \in free_pcbs : Creates(c)
               \/ \E i \in DOMAIN children[running] : Reaps(i)
               \/ \E i \in DOMAIN Reparented[parent[running]] : HandsOver(i)
               \/ Schedules
               \/ \E b \in free_pcbs : Boots(b)
               \/ ChangesNothing
        PROVE  running' # NULL
    <3>1. ASSUME Schedules PROVE running' \in Block
      BY <3>1, <1>2, ScheduleMoves DEF Schedules, IInv, TypeOK
    <3>2. ASSUME NEW i \in DOMAIN Reparented[parent[running]], HandsOver(i)
          PROVE  running' \in Block
      BY <3>2, HandsOverToKeeper
    <3> QED
      BY <3>1, <3>2, <2>3, <1>2, NullAssumption
         DEF Creates, SpawnChild, Reaps, Reap, Boots, ChangesNothing
  <2>4. ~\E n \in 0..MaxPid : \E i \in DOMAIN children[running] : Waits(n, i)
    BY <2>1 DEF Waits, BlockInWait
  <2>5. ~Terminates
    BY <2>1 DEF Terminates, ExitToZombie
  <2> QED
    BY <2>2, <2>3, <2>4, <2>5, StepCases
<1> QED
  BY <1>1, <1>2

\* Every step of the kernel is a step of the life cycle: a pid is given out
\* once, somebody runs while anybody is ready, nobody is on the CPU twice, and
\* a process that terminates stays a zombie until somebody is told of it.
THEOREM KernelImplementsLifecycle == Spec => ImplementsLifecycle
<1>1. Init => Lifecycle!Init /\ IdleMeansNobodyReady
  <2> SUFFICES ASSUME Init PROVE Lifecycle!Init /\ running # NULL
    BY DEF IdleMeansNobodyReady
  <2>1. /\ running # NULL /\ pid[running] = 0 /\ last_pid = 1
        /\ ready_list = <<>> /\ waiting_list = {} /\ zombie_list = {}
    BY NullAssumption DEF Init
  <2>2. ToSet(ready_list) = {} /\ OnCpu = {running}
    BY <2>1, EmptyList DEF OnCpu
  <2> QED
    BY <2>1, <2>2 DEF Lifecycle!Init, PidsOf
<1>2. IInv /\ IdleMeansNobodyReady /\ [Next]_vars => [Lifecycle!Next]_(Lifecycle!stages)
  <2> SUFFICES ASSUME IInv, IdleMeansNobodyReady, [Next]_vars
               PROVE  Lifecycle!Next \/ UNCHANGED Lifecycle!stages
    OBVIOUS
  <2>1. ASSUME UNCHANGED <<pid, last_pid, running, ready_list, waiting_list,
                           zombie_list>>
        PROVE  UNCHANGED Lifecycle!stages
    BY <2>1 DEF Lifecycle!stages, PidsOf, OnCpu
  <2>2. ChangesNothing => UNCHANGED Lifecycle!stages
    BY <2>1 DEF ChangesNothing, lists
  <2> QED
    BY <2>1, <2>2, StepCases, SpawnIsCreate, ReapIsReap, WaitIsSuspend,
       SleepIsSuspend, ExitIsTerminate, ExitIsHandOver, ScheduleIsSwitch,
       RestartIsBoot DEF Lifecycle!Next
<1> QED
  BY <1>1, <1>2, NobodyReadyStays, Invariance, PTL
     DEF Spec, ImplementsLifecycle, Lifecycle!Spec
=============================================================================
