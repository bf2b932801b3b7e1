-------------------------- MODULE ResourcesProofs --------------------------
(***************************************************************************)
(* Descriptors and resources, for every number of processes, blocks, names *)
(* and identifiers.                                                        *)
(*                                                                         *)
(* The three invariants are inductive together only: that no descriptor    *)
(* refers to a freed resource needs that what a search of a list finds is  *)
(* not in a pool (NothingLost), and the exit of a process may free its     *)
(* descriptors because they are nobody else's (desc[d].pcb).  A block that *)
(* wait has freed still has the descriptors of the process that was in it; *)
(* so the invariants speak of blocks in use, and Spawn clears the list.    *)
(***************************************************************************)
EXTENDS Resources, SequenceLemmas

\* TypeOK in three parts, for who changes what.
HandleTypes ==
  /\ descriptors \in [Proc -> SUBSET Desc]
  /\ last_fd \in [Proc -> Fds]
  /\ desc \in [Desc -> [pcb : Proc \cup {NULL}, res : Object \cup {NULL},
                       fd : Fds]]
  /\ free_descs \subseteq Desc
  /\ descriptors_ptrs \in [Object -> SUBSET Desc]

ObjectTypes ==
  /\ free_res \subseteq Res /\ free_que \subseteq Que
  /\ resources_list \in Seq(Object) /\ msg_queues_list \in Seq(Que)
  /\ name \in [Que -> Name \cup {NULL}]
  /\ rid \in [Object -> Ids \cup 0..MaxRid]
  /\ type \in [Object -> Types]
  /\ last_rid \in 0..MaxRid

OtherTypes ==
  /\ alive \subseteq Proc /\ zombies \subseteq Proc
  /\ answer \in Fds \cup (DSOS_EMQ_UNLINK..DSOS_ERESOURCECREATE)
  /\ machine \in {"up"} \cup Faults

\* What a process has open, and what a resource is open for, apart; and that
\* an open descriptor refers to a resource at all.
OpenSound ==
  \A p \in alive \cup zombies : \A d \in descriptors[p] :
    /\ d \in Used /\ desc[d].pcb = p
    /\ desc[d].res \in Object /\ d \in descriptors_ptrs[desc[d].res]

PtrsSound ==
  \A o \in Object : \A d \in descriptors_ptrs[o] :
    d \in Used /\ desc[d].res = o /\ o \notin free_res \cup free_que

RInv ==
  /\ HandleTypes /\ ObjectTypes /\ OtherTypes
  /\ UniqueFds /\ OpenSound /\ PtrsSound
  /\ NothingLost

LEMMA TypesApart == TypeOK <=> HandleTypes /\ ObjectTypes /\ OtherTypes
BY DEF TypeOK, HandleTypes, ObjectTypes, OtherTypes

LEMMA SoundApart == UniqueFds /\ OpenSound /\ PtrsSound => DescriptorsSound
BY DEF DescriptorsSound, OpenSound, PtrsSound

LEMMA AnswerNumbers ==
  /\ 0 \in Fds
  /\ {DSOS_ERESOURCECREATE, DSOS_ERESOURCEOPEN, DSOS_ERESOURCENOEXCL,
      DSOS_ERESOURCENOFD, DSOS_ERESOURCECLOSE, DSOS_ERESOURCEINUSE,
      DSOS_EMQ_NOFD, DSOS_EMQ_CREATE, DSOS_EMQ_UNLINK}
       \subseteq DSOS_EMQ_UNLINK..DSOS_ERESOURCECREATE
BY BoundsAssumption
   DEF Fds, DSOS_ERESOURCECREATE, DSOS_ERESOURCEOPEN, DSOS_ERESOURCENOEXCL,
       DSOS_ERESOURCENOFD, DSOS_ERESOURCECLOSE, DSOS_ERESOURCEINUSE,
       DSOS_EMQ_NOFD, DSOS_EMQ_CREATE, DSOS_EMQ_UNLINK

-----------------------------------------------------------------------------
(* What a search finds is in its list, and so in no pool.                  *)

LEMMA ByIdFinds ==
  ASSUME ObjectTypes, NothingLost, NEW id, ById(id) # 0
  PROVE  /\ resources_list[ById(id)] \in Object
         /\ resources_list[ById(id)] \in ToSet(resources_list)
         /\ resources_list[ById(id)] \notin free_res \cup free_que
<1> DEFINE I == {i \in 1..Len(resources_list) : rid[resources_list[i]] = id}
           k == IF I # {} THEN Min(I) ELSE 0
<1>1. ById(id) = k
  BY DEF ById, SelectInSeq
<1>2. resources_list \in Seq(Object) /\ I \in SUBSET (1..Len(resources_list))
  BY DEF ObjectTypes
<1> HIDE DEF I
<1>3. k # 0 => resources_list[k] \in Object /\ resources_list[k] \in ToSet(resources_list)
  BY <1>2, FirstFound
<1> HIDE DEF k
<1>4. \A o \in ToSet(resources_list) : o \in Object => o \notin free_res \cup free_que
  BY BlocksAssumption DEF NothingLost, ObjectTypes, Object
<1> QED
  BY <1>1, <1>3, <1>4

LEMMA FindByNameFinds ==
  ASSUME ObjectTypes, NothingLost, NEW nm, FindByName(nm) # 0
  PROVE  /\ msg_queues_list[FindByName(nm)] \in Que
         /\ msg_queues_list[FindByName(nm)] \in Object
         /\ msg_queues_list[FindByName(nm)] \in ToSet(msg_queues_list)
         /\ msg_queues_list[FindByName(nm)] \notin free_res \cup free_que
<1> DEFINE I == {i \in 1..Len(msg_queues_list) : name[msg_queues_list[i]] = nm}
           k == IF I # {} THEN Min(I) ELSE 0
<1>1. FindByName(nm) = k
  BY DEF FindByName, SelectInSeq
<1>2. msg_queues_list \in Seq(Que) /\ I \in SUBSET (1..Len(msg_queues_list))
  BY DEF ObjectTypes
<1> HIDE DEF I
<1>3. k # 0 => msg_queues_list[k] \in Que /\ msg_queues_list[k] \in ToSet(msg_queues_list)
  BY <1>2, FirstFound
<1> HIDE DEF k
<1>4. \A q \in ToSet(msg_queues_list) : q \in Que => q \notin free_res \cup free_que
  BY BlocksAssumption DEF NothingLost, ObjectTypes
<1> QED
  BY <1>1, <1>3, <1>4 DEF Object

-----------------------------------------------------------------------------
(* Descriptors come and go                                                 *)

LEMMA NewDescriptorKeeps ==
  ASSUME HandleTypes, OtherTypes, UniqueFds, OpenSound, PtrsSound,
         NEW p \in alive, NEW o \in Object, NEW d \in free_descs,
         last_fd[p] < MaxFd, NewDescriptor(p, o, d),
         o \notin free_res' \cup free_que',
         free_res' \subseteq free_res, free_que' = free_que,
         UNCHANGED <<processes, machine>>
  PROVE  HandleTypes' /\ OtherTypes' /\ UniqueFds' /\ OpenSound' /\ PtrsSound'
<1>1. p \in Proc /\ d \in Desc /\ last_fd[p] \in Fds /\ last_fd[p] + 1 \in Fds
  BY BoundsAssumption DEF HandleTypes, OtherTypes, Fds
<1>2. /\ desc' = [desc EXCEPT ![d] = [pcb |-> p, res |-> o, fd |-> last_fd[p]]]
      /\ free_descs' = free_descs \ {d}
      /\ last_fd' = [last_fd EXCEPT ![p] = last_fd[p] + 1]
      /\ descriptors' = [descriptors EXCEPT ![p] = descriptors[p] \cup {d}]
      /\ descriptors_ptrs' =
           [descriptors_ptrs EXCEPT ![o] = descriptors_ptrs[o] \cup {d}]
      /\ answer' = last_fd[p]
      /\ alive' = alive /\ zombies' = zombies /\ machine' = machine
  BY DEF NewDescriptor, processes
<1>3. HandleTypes'
  <2>1. [pcb |-> p, res |-> o, fd |-> last_fd[p]]
          \in [pcb : Proc \cup {NULL}, res : Object \cup {NULL}, fd : Fds]
    BY <1>1
  <2>2. desc' \in [Desc -> [pcb : Proc \cup {NULL}, res : Object \cup {NULL},
                           fd : Fds]]
    BY <1>1, <1>2, <2>1 DEF HandleTypes
  <2>3. last_fd' \in [Proc -> Fds]
    BY <1>1, <1>2 DEF HandleTypes
  <2>4. descriptors' \in [Proc -> SUBSET Desc]
    BY <1>1, <1>2 DEF HandleTypes
  <2>5. descriptors_ptrs' \in [Object -> SUBSET Desc]
    BY <1>1, <1>2 DEF HandleTypes
  <2> QED
    BY <1>2, <2>2, <2>3, <2>4, <2>5 DEF HandleTypes
<1>4. OtherTypes'
  BY <1>1, <1>2 DEF OtherTypes
<1>5. \A e \in Used : e \in Desc /\ e # d /\ desc'[e] = desc[e]
  BY <1>1, <1>2 DEF Used, HandleTypes
<1>6. /\ desc'[d].pcb = p /\ desc'[d].res = o /\ desc'[d].fd = last_fd[p]
      /\ Used' = Used \cup {d}
  BY <1>1, <1>2 DEF HandleTypes, Used
<1>7. \A q \in Proc : descriptors'[q] = IF q = p THEN descriptors[p] \cup {d}
                                        ELSE descriptors[q]
  BY <1>1, <1>2 DEF HandleTypes
<1>8. \A q \in Object : descriptors_ptrs'[q] =
                          IF q = o THEN descriptors_ptrs[o] \cup {d}
                          ELSE descriptors_ptrs[q]
  BY <1>2 DEF HandleTypes
<1>9. UniqueFds'
  <2> SUFFICES ASSUME NEW q \in alive, NEW e \in descriptors'[q],
                      NEW f \in descriptors'[q]
               PROVE  /\ e # f => desc'[e].fd # desc'[f].fd
                      /\ desc'[e].fd < last_fd'[q]
    BY <1>2 DEF UniqueFds
  <2>1. q \in Proc
    BY DEF OtherTypes
  <2>2. CASE q # p
    <3>1. e \in descriptors[q] /\ f \in descriptors[q] /\ last_fd'[q] = last_fd[q]
      BY <1>2, <1>7, <2>1, <2>2 DEF HandleTypes
    <3>2. e \in Used /\ f \in Used
      BY <3>1 DEF OpenSound
    <3> QED
      BY <1>5, <3>1, <3>2 DEF UniqueFds
  <2>3. CASE q = p
    <3>1. last_fd'[q] = last_fd[p] + 1 /\ last_fd[p] \in Nat
      BY <1>1, <1>2, <2>3, BoundsAssumption DEF HandleTypes, Fds
    <3>2. \A g \in descriptors[p] : /\ g \in Used /\ desc'[g].fd < last_fd[p]
                                    /\ desc'[g].fd \in Nat
      BY <1>5, BoundsAssumption DEF OpenSound, UniqueFds, HandleTypes, Fds
    <3>3. \A g, h \in descriptors[p] : g # h => desc'[g].fd # desc'[h].fd
      BY <1>5, <3>2 DEF UniqueFds
    <3>4. e \in descriptors[p] \cup {d} /\ f \in descriptors[p] \cup {d}
      BY <1>7, <2>1, <2>3
    <3> QED
      BY <1>6, <3>1, <3>2, <3>3, <3>4
  <2> QED
    BY <2>2, <2>3
<1>10. OpenSound'
  <2> SUFFICES ASSUME NEW q \in alive \cup zombies, NEW e \in descriptors'[q]
               PROVE  /\ e \in Used' /\ desc'[e].pcb = q
                      /\ desc'[e].res \in Object
                      /\ e \in descriptors_ptrs'[desc'[e].res]
    BY <1>2 DEF OpenSound
  <2>1. q \in Proc
    BY DEF OtherTypes
  <2>2. CASE e \in descriptors[q]
    <3>1. /\ e \in Used /\ desc[e].pcb = q
          /\ desc[e].res \in Object /\ e \in descriptors_ptrs[desc[e].res]
      BY <2>2 DEF OpenSound
    <3>2. desc'[e] = desc[e] /\ e \in Desc /\ e \in Used'
      BY <1>5, <1>6, <3>1
    <3>3. e \in descriptors_ptrs'[desc[e].res]
      BY <1>2, <3>1 DEF HandleTypes
    <3> QED
      BY <3>1, <3>2, <3>3
  <2>3. CASE e = d /\ q = p
    BY <1>6, <1>8, <2>3
  <2> QED
    BY <1>7, <2>1, <2>2, <2>3
<1>11. PtrsSound'
  <2> SUFFICES ASSUME NEW q \in Object, NEW e \in descriptors_ptrs'[q]
               PROVE  /\ e \in Used' /\ desc'[e].res = q
                      /\ q \notin free_res' \cup free_que'
    BY DEF PtrsSound
  <2>1. CASE e \in descriptors_ptrs[q]
    <3>1. e \in Used /\ desc[e].res = q /\ q \notin free_res \cup free_que
      BY <2>1 DEF PtrsSound
    <3> QED
      BY <1>5, <1>6, <3>1
  <2>2. CASE e = d /\ q = o
    BY <1>6, <2>2
  <2> QED
    BY <1>8, <2>1, <2>2
<1> QED
  BY <1>3, <1>4, <1>9, <1>10, <1>11

LEMMA DropDescriptorsKeeps ==
  ASSUME HandleTypes, UniqueFds, OpenSound, PtrsSound,
         alive \subseteq Proc, zombies \subseteq Proc,
         NEW p \in alive, NEW ds \in SUBSET descriptors[p],
         DropDescriptors(p, ds), alive' \subseteq alive, zombies' = zombies
  PROVE  /\ HandleTypes' /\ UniqueFds' /\ OpenSound'
         /\ \A o \in Object : \A d \in descriptors_ptrs'[o] :
              d \in Used' /\ desc'[d].res = o /\ d \in descriptors_ptrs[o]
<1>1. /\ descriptors' = [descriptors EXCEPT ![p] = descriptors[p] \ ds]
      /\ descriptors_ptrs' = [o \in Object |-> descriptors_ptrs[o] \ ds]
      /\ free_descs' = free_descs \cup ds
      /\ desc' = [d \in Desc |-> IF d \in ds THEN FreeDesc ELSE desc[d]]
      /\ last_fd' = last_fd
  BY DEF DropDescriptors
<1>2. p \in Proc /\ ds \subseteq Desc
  BY DEF HandleTypes
<1>3. HandleTypes'
  <2>1. FreeDesc \in [pcb : Proc \cup {NULL}, res : Object \cup {NULL}, fd : Fds]
    BY BoundsAssumption DEF FreeDesc, Fds
  <2>2. desc' \in [Desc -> [pcb : Proc \cup {NULL}, res : Object \cup {NULL},
                           fd : Fds]]
    BY <1>1, <2>1 DEF HandleTypes
  <2>3. descriptors' \in [Proc -> SUBSET Desc]
    BY <1>1, <1>2 DEF HandleTypes
  <2>4. descriptors_ptrs' \in [Object -> SUBSET Desc]
    BY <1>1 DEF HandleTypes
  <2> QED
    BY <1>1, <1>2, <2>2, <2>3, <2>4 DEF HandleTypes
<1>4. /\ Used' = Used \ ds
      /\ \A d \in Used' : d \in Desc /\ d \notin ds /\ desc'[d] = desc[d]
  BY <1>1 DEF Used
<1>5. \A q \in Proc : descriptors'[q] = IF q = p THEN descriptors[p] \ ds
                                        ELSE descriptors[q]
  BY <1>1, <1>2 DEF HandleTypes
\* The descriptors of another process are none of those that are freed.
<1>6. ASSUME NEW q \in alive \cup zombies, NEW d \in descriptors'[q]
      PROVE  /\ d \in descriptors[q] /\ d \in Used' /\ desc'[d] = desc[d]
             /\ desc[d].pcb = q /\ desc[d].res \in Object
             /\ d \in descriptors_ptrs[desc[d].res]
  <2>1. q \in Proc /\ d \in descriptors[q]
    BY <1>5
  <2>2. /\ d \in Used /\ desc[d].pcb = q /\ desc[d].res \in Object
        /\ d \in descriptors_ptrs[desc[d].res]
    BY <2>1 DEF OpenSound
  <2>3. d \notin ds
    <3>1. CASE q = p
      BY <1>5, <2>1, <3>1
    <3>2. CASE q # p
      <4>1. \A e \in ds : desc[e].pcb = p
        BY DEF OpenSound
      <4> QED
        BY <2>2, <3>2, <4>1
    <3> QED
      BY <3>1, <3>2
  <2> QED
    BY <1>4, <2>1, <2>2, <2>3
<1>7. UniqueFds'
  BY <1>1, <1>6 DEF UniqueFds
<1>8. OpenSound'
  <2> SUFFICES ASSUME NEW q \in alive' \cup zombies', NEW d \in descriptors'[q]
               PROVE  /\ d \in Used' /\ desc'[d].pcb = q
                      /\ desc'[d].res \in Object
                      /\ d \in descriptors_ptrs'[desc'[d].res]
    BY DEF OpenSound
  <2>1. q \in alive \cup zombies
    OBVIOUS
  <2>2. /\ d \in Used' /\ desc'[d] = desc[d] /\ desc[d].pcb = q
        /\ desc[d].res \in Object /\ d \in descriptors_ptrs[desc[d].res]
    BY <1>6, <2>1
  <2>3. d \in Desc /\ d \notin ds
    BY <1>4, <2>2
  <2> QED
    BY <1>1, <2>2, <2>3
<1>9. ASSUME NEW o \in Object, NEW d \in descriptors_ptrs'[o]
      PROVE  d \in Used' /\ desc'[d].res = o /\ d \in descriptors_ptrs[o]
  <2>1. d \in descriptors_ptrs[o] /\ d \notin ds
    BY <1>1
  <2>2. d \in Used /\ desc[d].res = o
    BY <2>1 DEF PtrsSound
  <2> QED
    BY <1>4, <2>1, <2>2
<1> QED
  BY <1>3, <1>7, <1>8, <1>9

LEMMA HandlesStay ==
  ASSUME HandleTypes, UniqueFds, OpenSound, PtrsSound, UNCHANGED handles,
         alive' \subseteq alive, alive' \cup zombies' \subseteq alive \cup zombies
  PROVE  /\ HandleTypes' /\ UniqueFds' /\ OpenSound'
         /\ \A o \in Object : \A d \in descriptors_ptrs'[o] :
              d \in Used' /\ desc'[d].res = o /\ d \in descriptors_ptrs[o]
<1> USE DEF handles
<1>1. HandleTypes'
  BY DEF HandleTypes
<1>2. UniqueFds'
  BY DEF UniqueFds
<1>3. OpenSound'
  BY DEF OpenSound, Used
<1>4. \A o \in Object : \A d \in descriptors_ptrs'[o] :
        d \in Used' /\ desc'[d].res = o /\ d \in descriptors_ptrs[o]
  BY DEF PtrsSound, Used
<1> QED
  BY <1>1, <1>2, <1>3, <1>4

\* A resource may be freed that no descriptor refers to.
LEMMA OnlyUnusedAreFreed ==
  ASSUME PtrsSound,
         \A o \in Object : \A d \in descriptors_ptrs'[o] :
           d \in Used' /\ desc'[d].res = o /\ d \in descriptors_ptrs[o],
         \A o \in free_res' \cup free_que' :
           o \in free_res \cup free_que \/ descriptors_ptrs'[o] = {}
  PROVE  PtrsSound'
BY DEF PtrsSound

-----------------------------------------------------------------------------
(* Resources come and go                                                   *)

LEMMA ObjectsStay ==
  ASSUME ObjectTypes, NothingLost, UNCHANGED objects
  PROVE  /\ ObjectTypes' /\ NothingLost'
         /\ free_res' = free_res /\ free_que' = free_que
BY DEF ObjectTypes, NothingLost, objects

LEMMA DestroyKeeps ==
  ASSUME ObjectTypes, NothingLost, NEW q \in Que, Destroy(q)
  PROVE  /\ ObjectTypes' /\ NothingLost'
         /\ free_res' = free_res /\ free_que' = free_que \cup {q}
<1>1. /\ msg_queues_list' = RemoveFirst(msg_queues_list, q)
      /\ resources_list' = RemoveFirst(resources_list, q)
      /\ free_que' = free_que \cup {q}
      /\ UNCHANGED <<free_res, name, rid, type, last_rid>>
  BY DEF Destroy
<1>2. /\ msg_queues_list' \in Seq(Que)
      /\ IsInjective(msg_queues_list')
      /\ ToSet(msg_queues_list') = ToSet(msg_queues_list) \ {q}
  BY <1>1, DetachElement DEF ObjectTypes, NothingLost
<1>3. /\ resources_list' \in Seq(Object)
      /\ IsInjective(resources_list')
      /\ ToSet(resources_list') = ToSet(resources_list) \ {q}
  BY <1>1, DetachElement DEF ObjectTypes, NothingLost
<1>4. ObjectTypes'
  BY <1>1, <1>2, <1>3 DEF ObjectTypes
<1>5. q \notin Res
  BY BlocksAssumption
<1>6. NothingLost'
  BY <1>1, <1>2, <1>3, <1>5 DEF NothingLost
<1> QED
  BY <1>1, <1>4, <1>6

-----------------------------------------------------------------------------
(* Calls that are refused, and those that stop the machine                 *)

LEMMA RefuseKeeps ==
  ASSUME RInv,
         NEW n \in Fds \cup (DSOS_EMQ_UNLINK..DSOS_ERESOURCECREATE), Refuse(n)
  PROVE  RInv'
<1> USE DEF RInv
<1>1. UNCHANGED <<processes, objects, handles, machine>> /\ answer' = n
  BY DEF Refuse
<1>2. HandleTypes' /\ UniqueFds' /\ OpenSound' /\ ObjectTypes' /\ NothingLost'
  BY <1>1, HandlesStay, ObjectsStay DEF processes
<1>3. PtrsSound'
  BY <1>1, HandlesStay, ObjectsStay, OnlyUnusedAreFreed DEF processes
<1>4. OtherTypes'
  BY <1>1 DEF OtherTypes, processes
<1> QED
  BY <1>2, <1>3, <1>4

LEMMA FaultKeeps ==
  ASSUME RInv, NEW why \in Faults, Fault(why)
  PROVE  RInv'
<1> USE DEF RInv
<1>1. UNCHANGED <<processes, objects, handles, answer>> /\ machine' = why
  BY DEF Fault
<1>2. HandleTypes' /\ UniqueFds' /\ OpenSound' /\ ObjectTypes' /\ NothingLost'
  BY <1>1, HandlesStay, ObjectsStay DEF processes
<1>3. PtrsSound'
  BY <1>1, HandlesStay, ObjectsStay, OnlyUnusedAreFreed DEF processes
<1>4. OtherTypes'
  BY <1>1 DEF OtherTypes, processes
<1> QED
  BY <1>2, <1>3, <1>4

-----------------------------------------------------------------------------
(* openResource and closeResource                                          *)

LEMMA OpenExistingKeeps ==
  ASSUME RInv, NEW p \in alive, NEW id, NEW ty, NEW mode, OpenExisting(p, id, ty, mode)
  PROVE  RInv'
<1> DEFINE o == resources_list[ById(id)]
<1>1. ASSUME NEW n \in {DSOS_ERESOURCEOPEN, DSOS_ERESOURCENOEXCL,
                        DSOS_ERESOURCENOFD}, Refuse(n)
      PROVE  RInv'
  BY <1>1, AnswerNumbers, RefuseKeeps
<1>2. ASSUME ById(id) # 0, last_fd[p] < MaxFd, NEW d \in free_descs,
             NewDescriptor(p, o, d), UNCHANGED <<processes, objects, machine>>
      PROVE  RInv'
  <2>1. o \in Object /\ o \notin free_res \cup free_que
    BY <1>2, ByIdFinds DEF RInv
  <2> HIDE DEF o
  <2>2. ObjectTypes' /\ NothingLost' /\ free_res' = free_res /\ free_que' = free_que
    BY <1>2, ObjectsStay DEF RInv
  <2>3. HandleTypes' /\ OtherTypes' /\ UniqueFds' /\ OpenSound' /\ PtrsSound'
    BY <1>2, <2>1, <2>2, NewDescriptorKeeps DEF RInv
  <2> QED
    BY <2>2, <2>3 DEF RInv
<1> QED
  BY <1>1, <1>2 DEF OpenExisting

LEMMA OpenCreatingKeeps ==
  ASSUME RInv, NEW p \in alive, NEW id \in Ids, NEW ty \in OpenTypes,
         OpenCreating(p, id, ty)
  PROVE  RInv'
<1>1. CASE ById(id) # 0 /\ Refuse(DSOS_ERESOURCECREATE)
  BY <1>1, AnswerNumbers, RefuseKeeps
<1>2. CASE Fault("open_no_resource")
  BY <1>2, FaultKeeps DEF Faults
<1>3. ASSUME NEW o \in free_res,
             free_res' = free_res \ {o},
             rid' = [rid EXCEPT ![o] = id], type' = [type EXCEPT ![o] = ty],
             resources_list' = Append(resources_list, o),
             \/ free_descs = {} /\ answer' = DSOS_ERESOURCENOFD /\ UNCHANGED handles
             \/ last_fd[p] < MaxFd /\ \E d \in free_descs : NewDescriptor(p, o, d),
             UNCHANGED <<processes, free_que, msg_queues_list, name, last_rid, machine>>
      PROVE  RInv'
  <2>1. o \in Res /\ o \in Object /\ o \notin free_que /\ ty \in Types
    BY BlocksAssumption, BoundsAssumption
       DEF RInv, ObjectTypes, Object, Types, STANDARD_RESOURCE, MSG_QUEUE_RESOURCE
  <2>2. /\ resources_list' \in Seq(Object) /\ IsInjective(resources_list')
        /\ ToSet(resources_list') = ToSet(resources_list) \cup {o}
    <3>1. o \notin ToSet(resources_list)
      BY <2>1 DEF RInv, NothingLost
    <3> QED
      BY <1>3, <2>1, <3>1, InsertLast DEF RInv, ObjectTypes, NothingLost
  <2>3. ObjectTypes'
    <3>1. rid' \in [Object -> Ids \cup 0..MaxRid] /\ type' \in [Object -> Types]
      BY <1>3, <2>1 DEF RInv, ObjectTypes
    <3> QED
      BY <1>3, <2>2, <3>1 DEF RInv, ObjectTypes
  <2>4. NothingLost'
    BY <1>3, <2>1, <2>2, BlocksAssumption DEF RInv, NothingLost, ObjectTypes
  <2>5. CASE free_descs = {} /\ answer' = DSOS_ERESOURCENOFD /\ UNCHANGED handles
    <3>1. HandleTypes' /\ UniqueFds' /\ OpenSound' /\ PtrsSound'
      BY <1>3, <2>5, HandlesStay, OnlyUnusedAreFreed DEF RInv, processes
    <3>2. OtherTypes'
      BY <1>3, <2>5, AnswerNumbers DEF RInv, OtherTypes, processes
    <3> QED
      BY <2>3, <2>4, <3>1, <3>2 DEF RInv
  <2>6. ASSUME NEW d \in free_descs, last_fd[p] < MaxFd, NewDescriptor(p, o, d)
        PROVE  RInv'
    <3>1. o \notin free_res' \cup free_que' /\ free_res' \subseteq free_res
          /\ free_que' = free_que /\ UNCHANGED <<processes, machine>>
      BY <1>3, <2>1
    <3>2. HandleTypes' /\ OtherTypes' /\ UniqueFds' /\ OpenSound' /\ PtrsSound'
      BY <2>1, <2>6, <3>1, NewDescriptorKeeps DEF RInv
    <3> QED
      BY <2>3, <2>4, <3>2 DEF RInv
  <2> QED
    BY <1>3, <2>5, <2>6
<1> QED
  BY <1>1, <1>2, <1>3 DEF OpenCreating

LEMMA CloseResourceKeeps ==
  ASSUME RInv, NEW p \in Proc, NEW fd, CloseResource(p, fd)
  PROVE  RInv'
<1>1. CASE Refuse(DSOS_ERESOURCECLOSE)
  BY <1>1, AnswerNumbers, RefuseKeeps
<1>2. CASE /\ DropDescriptors(p, ByFd(p, fd)) /\ answer' = 0
           /\ UNCHANGED <<processes, objects, machine>>
  <2>1. p \in alive /\ ByFd(p, fd) \in SUBSET descriptors[p]
    BY DEF CloseResource, CanCall, ByFd
  <2>2. ObjectTypes' /\ NothingLost' /\ free_res' = free_res /\ free_que' = free_que
    BY <1>2, ObjectsStay DEF RInv
  <2>3. /\ HandleTypes' /\ UniqueFds' /\ OpenSound'
        /\ \A o \in Object : \A d \in descriptors_ptrs'[o] :
             d \in Used' /\ desc'[d].res = o /\ d \in descriptors_ptrs[o]
    BY <1>2, <2>1, DropDescriptorsKeeps DEF RInv, OtherTypes, processes
  <2>4. PtrsSound'
    BY <2>2, <2>3, OnlyUnusedAreFreed DEF RInv
  <2>5. OtherTypes'
    BY <1>2, AnswerNumbers DEF RInv, OtherTypes, processes
  <2> QED
    BY <2>2, <2>3, <2>4, <2>5 DEF RInv
<1> QED
  BY <1>1, <1>2 DEF CloseResource

LEMMA DestroyResourceKeeps ==
  ASSUME RInv, NEW p \in Proc, NEW id, DestroyResource(p, id)
  PROVE  RInv'
<1> DEFINE o == resources_list[ById(id)]
<1>1. ASSUME NEW n \in {DSOS_ERESOURCECLOSE, DSOS_ERESOURCEINUSE}, Refuse(n)
      PROVE  RInv'
  BY <1>1, AnswerNumbers, RefuseKeeps
<1>2. ASSUME ById(id) # 0, ~InUse(o),
             resources_list' = RemoveFirst(resources_list, o),
             free_res' = free_res \cup ({o} \cap Res), answer' = 0,
             UNCHANGED <<processes, free_que, msg_queues_list, name, rid, type,
                         last_rid, handles, machine>>
      PROVE  RInv'
  <2>1. o \in Object
    BY <1>2, ByIdFinds DEF RInv
  <2> HIDE DEF o
  <2>2. /\ resources_list' \in Seq(Object) /\ IsInjective(resources_list')
        /\ ToSet(resources_list') = ToSet(resources_list) \ {o}
    BY <1>2, DetachElement DEF RInv, ObjectTypes, NothingLost
  <2>3. ObjectTypes'
    BY <1>2, <2>2 DEF RInv, ObjectTypes
  <2>4. NothingLost'
    BY <1>2, <2>2 DEF RInv, NothingLost
  <2>5. /\ HandleTypes' /\ UniqueFds' /\ OpenSound'
        /\ \A q \in Object : \A d \in descriptors_ptrs'[q] :
             d \in Used' /\ desc'[d].res = q /\ d \in descriptors_ptrs[q]
    BY <1>2, HandlesStay DEF RInv, processes
  <2>6. PtrsSound'
    <3>1. descriptors_ptrs'[o] = {}
      BY <1>2 DEF InUse, handles
    <3> QED
      BY <1>2, <2>5, <3>1, OnlyUnusedAreFreed DEF RInv
  <2>7. OtherTypes'
    BY <1>2, AnswerNumbers DEF RInv, OtherTypes, processes
  <2> QED
    BY <2>3, <2>4, <2>5, <2>6, <2>7 DEF RInv
<1> QED
  BY <1>1, <1>2 DEF DestroyResource

-----------------------------------------------------------------------------
(* msgQueueCreate, msgQueueOpen, msgQueueUnlink, msgQueueClose             *)

LEMMA MsgQueueCreateKeeps ==
  ASSUME RInv, NEW p \in Proc, NEW nm \in Name \cup {NULL}, MsgQueueCreate(p, nm)
  PROVE  RInv'
<1>1. last_rid \in 0..MaxRid /\ last_rid + 1 \in 0..MaxRid
  BY BoundsAssumption DEF MsgQueueCreate, RInv, ObjectTypes
<1>2. CASE Fault("create_no_queue")
  BY <1>2, FaultKeeps DEF Faults
<1>3. CASE /\ last_rid' = last_rid + 1 /\ answer' = DSOS_EMQ_CREATE
           /\ UNCHANGED <<processes, free_res, free_que, resources_list,
                          msg_queues_list, name, rid, type, handles, machine>>
  <2>1. HandleTypes' /\ UniqueFds' /\ OpenSound' /\ PtrsSound'
    BY <1>3, HandlesStay, OnlyUnusedAreFreed DEF RInv, processes
  <2>2. ObjectTypes' /\ NothingLost'
    BY <1>1, <1>3 DEF RInv, ObjectTypes, NothingLost
  <2>3. OtherTypes'
    BY <1>3, AnswerNumbers DEF RInv, OtherTypes, processes
  <2> QED
    BY <2>1, <2>2, <2>3 DEF RInv
<1>4. ASSUME NEW q \in free_que,
             last_rid' = last_rid + 1, free_que' = free_que \ {q},
             name' = [name EXCEPT ![q] = nm], rid' = [rid EXCEPT ![q] = last_rid],
             type' = [type EXCEPT ![q] = MSG_QUEUE_RESOURCE],
             resources_list' = Append(resources_list, q),
             msg_queues_list' = Append(msg_queues_list, q),
             answer' = 0, UNCHANGED <<processes, free_res, handles, machine>>
      PROVE  RInv'
  <2>1. q \in Que /\ q \in Object /\ q \notin Res
    BY BlocksAssumption DEF RInv, ObjectTypes, Object
  <2>2. /\ resources_list' \in Seq(Object) /\ IsInjective(resources_list')
        /\ ToSet(resources_list') = ToSet(resources_list) \cup {q}
    <3>1. q \notin ToSet(resources_list)
      BY <2>1 DEF RInv, NothingLost
    <3> QED
      BY <1>4, <2>1, <3>1, InsertLast DEF RInv, ObjectTypes, NothingLost
  <2>3. /\ msg_queues_list' \in Seq(Que) /\ IsInjective(msg_queues_list')
        /\ ToSet(msg_queues_list') = ToSet(msg_queues_list) \cup {q}
    <3>1. q \notin ToSet(msg_queues_list)
      BY <2>1 DEF RInv, NothingLost
    <3> QED
      BY <1>4, <2>1, <3>1, InsertLast DEF RInv, ObjectTypes, NothingLost
  <2>4. ObjectTypes'
    <3>1. MSG_QUEUE_RESOURCE \in Types
      BY DEF Types
    <3>2. /\ name' \in [Que -> Name \cup {NULL}]
          /\ rid' \in [Object -> Ids \cup 0..MaxRid]
          /\ type' \in [Object -> Types]
      BY <1>1, <1>4, <2>1, <3>1 DEF RInv, ObjectTypes
    <3> QED
      BY <1>1, <1>4, <2>2, <2>3, <3>2 DEF RInv, ObjectTypes
  <2>5. NothingLost'
    BY <1>4, <2>1, <2>2, <2>3 DEF RInv, NothingLost, ObjectTypes
  <2>6. HandleTypes' /\ UniqueFds' /\ OpenSound' /\ PtrsSound'
    BY <1>4, HandlesStay, OnlyUnusedAreFreed DEF RInv, processes
  <2>7. OtherTypes'
    BY <1>4, AnswerNumbers DEF RInv, OtherTypes, processes
  <2> QED
    BY <2>4, <2>5, <2>6, <2>7 DEF RInv
<1> QED
  BY <1>2, <1>3, <1>4 DEF MsgQueueCreate

LEMMA MsgQueueOpenKeeps ==
  ASSUME RInv, NEW p \in Proc, NEW nm, MsgQueueOpen(p, nm)
  PROVE  RInv'
<1> DEFINE q == msg_queues_list[FindByName(nm)]
<1>1. CASE Fault("open_unknown")
  BY <1>1, FaultKeeps DEF Faults
<1>2. CASE Refuse(DSOS_EMQ_NOFD)
  BY <1>2, AnswerNumbers, RefuseKeeps
<1>3. ASSUME FindByName(nm) # 0, last_fd[p] < MaxFd, NEW d \in free_descs,
             NewDescriptor(p, q, d), UNCHANGED <<processes, objects, machine>>
      PROVE  RInv'
  <2>1. q \in Object /\ q \notin free_res \cup free_que
    BY <1>3, FindByNameFinds DEF RInv
  <2> HIDE DEF q
  <2>2. p \in alive
    BY DEF MsgQueueOpen, CanCall
  <2>3. ObjectTypes' /\ NothingLost' /\ free_res' = free_res /\ free_que' = free_que
    BY <1>3, ObjectsStay DEF RInv
  <2>4. HandleTypes' /\ OtherTypes' /\ UniqueFds' /\ OpenSound' /\ PtrsSound'
    BY <1>3, <2>1, <2>2, <2>3, NewDescriptorKeeps DEF RInv
  <2> QED
    BY <2>3, <2>4 DEF RInv
<1> QED
  BY <1>1, <1>2, <1>3 DEF MsgQueueOpen

LEMMA MsgQueueUnlinkKeeps ==
  ASSUME RInv, NEW p \in Proc, NEW nm, MsgQueueUnlink(p, nm)
  PROVE  RInv'
<1> DEFINE q == msg_queues_list[FindByName(nm)]
<1>1. ASSUME NEW n \in {DSOS_EMQ_UNLINK, 0}, Refuse(n) PROVE RInv'
  BY <1>1, AnswerNumbers, RefuseKeeps
<1>2. ASSUME FindByName(nm) # 0, ~InUse(q), Destroy(q), answer' = 0,
             UNCHANGED <<processes, handles, machine>>
      PROVE  RInv'
  <2>1. q \in Que
    BY <1>2, FindByNameFinds DEF RInv
  <2> HIDE DEF q
  <2>2. /\ ObjectTypes' /\ NothingLost'
        /\ free_res' = free_res /\ free_que' = free_que \cup {q}
    BY <1>2, <2>1, DestroyKeeps DEF RInv
  <2>3. /\ HandleTypes' /\ UniqueFds' /\ OpenSound'
        /\ \A o \in Object : \A d \in descriptors_ptrs'[o] :
             d \in Used' /\ desc'[d].res = o /\ d \in descriptors_ptrs[o]
    BY <1>2, HandlesStay DEF RInv, processes
  <2>4. PtrsSound'
    <3>1. descriptors_ptrs'[q] = {}
      BY <1>2 DEF InUse, handles
    <3> QED
      BY <2>2, <2>3, <3>1, OnlyUnusedAreFreed DEF RInv
  <2>5. OtherTypes'
    BY <1>2, AnswerNumbers DEF RInv, OtherTypes, processes
  <2> QED
    BY <2>2, <2>3, <2>4, <2>5 DEF RInv
<1> QED
  BY <1>1, <1>2 DEF MsgQueueUnlink

LEMMA MsgQueueCloseKeeps ==
  ASSUME RInv, NEW p \in Proc, NEW fd, MsgQueueClose(p, fd)
  PROVE  RInv'
<1>1. CASE Fault("close_unknown")
  BY <1>1, FaultKeeps DEF Faults
<1>2. ASSUME NEW d \in ByFd(p, fd), NEW found,
             DropDescriptors(p, {d}), answer' = 0, UNCHANGED <<processes, machine>>,
             \/ found \in Que /\ descriptors_ptrs'[found] = {} /\ Destroy(found)
             \/ UNCHANGED objects
      PROVE  RInv'
  <2>1. p \in alive /\ {d} \in SUBSET descriptors[p]
    BY DEF MsgQueueClose, CanCall, ByFd
  <2>2. /\ HandleTypes' /\ UniqueFds' /\ OpenSound'
        /\ \A o \in Object : \A e \in descriptors_ptrs'[o] :
             e \in Used' /\ desc'[e].res = o /\ e \in descriptors_ptrs[o]
    BY <1>2, <2>1, DropDescriptorsKeeps DEF RInv, OtherTypes, processes
  <2>3. OtherTypes'
    BY <1>2, AnswerNumbers DEF RInv, OtherTypes, processes
  <2>4. CASE found \in Que /\ descriptors_ptrs'[found] = {} /\ Destroy(found)
    <3>1. /\ ObjectTypes' /\ NothingLost'
          /\ free_res' = free_res /\ free_que' = free_que \cup {found}
      BY <2>4, DestroyKeeps DEF RInv
    <3>2. PtrsSound'
      BY <2>2, <2>4, <3>1, OnlyUnusedAreFreed DEF RInv
    <3> QED
      BY <2>2, <2>3, <3>1, <3>2 DEF RInv
  <2>5. CASE UNCHANGED objects
    <3>1. /\ ObjectTypes' /\ NothingLost'
          /\ free_res' = free_res /\ free_que' = free_que
      BY <2>5, ObjectsStay DEF RInv
    <3>2. PtrsSound'
      BY <2>2, <3>1, OnlyUnusedAreFreed DEF RInv
    <3> QED
      BY <2>2, <2>3, <3>1, <3>2 DEF RInv
  <2> QED
    BY <1>2, <2>4, <2>5
<1>3. CASE \E d \in ByFd(p, fd) :
             LET q == desc[d].res
             IN  /\ q \in Que
                 /\ DropDescriptors(p, {d})
                 /\ LET k == FindByName(name[q])
                        found == msg_queues_list[k]
                    IN  IF /\ descriptors_ptrs'[q] = {}
                           /\ k # 0
                           /\ descriptors_ptrs'[found] = {}
                        THEN Destroy(found)
                        ELSE UNCHANGED objects
                 /\ answer' = 0
                 /\ UNCHANGED <<processes, machine>>
  <2>1. PICK d \in ByFd(p, fd) :
          /\ DropDescriptors(p, {d}) /\ answer' = 0
          /\ UNCHANGED <<processes, machine>>
          /\ IF /\ descriptors_ptrs'[desc[d].res] = {}
                /\ FindByName(name[desc[d].res]) # 0
                /\ descriptors_ptrs'[msg_queues_list[FindByName(name[desc[d].res])]] = {}
             THEN Destroy(msg_queues_list[FindByName(name[desc[d].res])])
             ELSE UNCHANGED objects
    BY <1>3
  <2> DEFINE nm == name[desc[d].res]
             found == msg_queues_list[FindByName(nm)]
  <2>2. FindByName(nm) # 0 => found \in Que
    BY FindByNameFinds DEF RInv
  <2>3. \/ found \in Que /\ descriptors_ptrs'[found] = {} /\ Destroy(found)
        \/ UNCHANGED objects
    BY <2>1, <2>2
  <2> HIDE DEF found
  <2> QED
    BY <1>2, <2>1, <2>3
<1> QED
  BY <1>1, <1>3 DEF MsgQueueClose

-----------------------------------------------------------------------------
(* spawn, exit and wait                                                    *)

LEMMA SpawnKeeps ==
  ASSUME RInv, NEW p \in Proc, Spawn(p)
  PROVE  RInv'
<1>1. /\ alive' = alive \cup {p} /\ zombies' = zombies
      /\ p \notin alive \cup zombies
      /\ descriptors' = [descriptors EXCEPT ![p] = {}]
      /\ last_fd' = [last_fd EXCEPT ![p] = 0]
      /\ UNCHANGED <<objects, desc, free_descs, descriptors_ptrs, answer, machine>>
  BY DEF Spawn
<1>2. /\ ObjectTypes' /\ NothingLost'
      /\ free_res' = free_res /\ free_que' = free_que
  BY <1>1, ObjectsStay DEF RInv
<1>3. OtherTypes'
  BY <1>1 DEF RInv, OtherTypes
<1>4. HandleTypes'
  BY <1>1, AnswerNumbers DEF RInv, HandleTypes
<1>5. \A q \in alive \cup zombies :
        q \in Proc /\ q # p /\ descriptors'[q] = descriptors[q]
                   /\ last_fd'[q] = last_fd[q]
  BY <1>1 DEF RInv, HandleTypes, OtherTypes
<1>6. descriptors'[p] = {}
  BY <1>1 DEF RInv, HandleTypes
<1>7. UniqueFds'
  BY <1>1, <1>5, <1>6 DEF RInv, UniqueFds
<1>8. OpenSound'
  BY <1>1, <1>5, <1>6 DEF RInv, OpenSound, Used
<1>9. PtrsSound'
  BY <1>1, <1>2 DEF RInv, PtrsSound, Used
<1> QED
  BY <1>2, <1>3, <1>4, <1>7, <1>8, <1>9 DEF RInv

\* The descriptors of a process that hands over to its parent are freed, and
\* leave the lists of their resources; the resources stay.
LEMMA ExitToParentKeeps ==
  ASSUME RInv, NEW p \in Proc, ExitToParent(p)
  PROVE  RInv'
<1>1. /\ p \in alive /\ alive' = alive \ {p} /\ zombies' = zombies
      /\ DropDescriptors(p, descriptors[p])
      /\ UNCHANGED <<objects, answer, machine>>
  BY DEF ExitToParent, CanCall
<1>2. /\ ObjectTypes' /\ NothingLost'
      /\ free_res' = free_res /\ free_que' = free_que
  BY <1>1, ObjectsStay DEF RInv
<1>3. /\ HandleTypes' /\ UniqueFds' /\ OpenSound'
      /\ \A o \in Object : \A d \in descriptors_ptrs'[o] :
           d \in Used' /\ desc'[d].res = o /\ d \in descriptors_ptrs[o]
  BY <1>1, DropDescriptorsKeeps DEF RInv, OtherTypes
<1>4. PtrsSound'
  BY <1>2, <1>3, OnlyUnusedAreFreed DEF RInv
<1>5. OtherTypes'
  BY <1>1 DEF RInv, OtherTypes
<1> QED
  BY <1>2, <1>3, <1>4, <1>5 DEF RInv

LEMMA LivesEndKeeps ==
  ASSUME RInv, NEW p \in Proc, ExitToZombie(p) \/ Reap(p)
  PROVE  RInv'
<1>1. /\ alive' \subseteq alive /\ alive' \cup zombies' \subseteq alive \cup zombies
      /\ UNCHANGED <<objects, handles, answer, machine>>
  BY DEF ExitToZombie, Reap, CanCall
<1>2. /\ ObjectTypes' /\ NothingLost'
      /\ free_res' = free_res /\ free_que' = free_que
  BY <1>1, ObjectsStay DEF RInv
<1>3. HandleTypes' /\ UniqueFds' /\ OpenSound' /\ PtrsSound'
  BY <1>1, <1>2, HandlesStay, OnlyUnusedAreFreed DEF RInv
<1>4. OtherTypes'
  BY <1>1 DEF RInv, OtherTypes
<1> QED
  BY <1>2, <1>3, <1>4 DEF RInv

-----------------------------------------------------------------------------

LEMMA InitSound == Init => RInv
<1> SUFFICES ASSUME Init PROVE RInv
  OBVIOUS
<1>1. HandleTypes
  <2>1. FreeDesc \in [pcb : Proc \cup {NULL}, res : Object \cup {NULL}, fd : Fds]
    BY AnswerNumbers DEF FreeDesc
  <2> QED
    BY <2>1, AnswerNumbers DEF Init, HandleTypes
<1>2. ObjectTypes
  BY BoundsAssumption DEF Init, ObjectTypes, Types
<1>3. OtherTypes
  BY BlocksAssumption, AnswerNumbers DEF Init, OtherTypes
<1>4. UniqueFds /\ OpenSound /\ PtrsSound
  BY BlocksAssumption DEF Init, UniqueFds, OpenSound, PtrsSound
<1>5. NothingLost
  <2>1. ToSet(<<>>) = {} /\ IsInjective(<<>>)
    BY DEF ToSet, IsInjective
  <2> QED
    BY <2>1 DEF Init, NothingLost
<1> QED
  BY <1>1, <1>2, <1>3, <1>4, <1>5 DEF RInv

LEMMA RInvStep ==
  ASSUME RInv, [Next]_vars
  PROVE  RInv'
<1>1. CASE UNCHANGED vars
  <2>1. /\ alive' = alive /\ zombies' = zombies /\ UNCHANGED <<objects, handles>>
        /\ answer' = answer /\ machine' = machine
    BY <1>1 DEF vars, processes
  <2>2. /\ ObjectTypes' /\ NothingLost'
        /\ free_res' = free_res /\ free_que' = free_que
    BY <2>1, ObjectsStay DEF RInv
  <2>3. HandleTypes' /\ UniqueFds' /\ OpenSound' /\ PtrsSound'
    BY <2>1, <2>2, HandlesStay, OnlyUnusedAreFreed DEF RInv
  <2>4. OtherTypes'
    BY <2>1 DEF RInv, OtherTypes
  <2> QED
    BY <2>2, <2>3, <2>4 DEF RInv
<1>2. ASSUME NEW p \in Proc, NEW id \in Ids, NEW ty \in OpenTypes,
             NEW mode \in Modes, OpenResource(p, id, ty, mode)
      PROVE  RInv'
  BY <1>2, OpenExistingKeeps, OpenCreatingKeeps DEF OpenResource, CanCall
<1>3. ASSUME NEW p \in Proc, NEW fd \in 0..MaxFd,
             CloseResource(p, fd) \/ MsgQueueClose(p, fd)
      PROVE  RInv'
  BY <1>3, CloseResourceKeeps, MsgQueueCloseKeeps
<1>4. ASSUME NEW p \in Proc, NEW id \in Ids, DestroyResource(p, id)
      PROVE  RInv'
  BY <1>4, DestroyResourceKeeps
<1>5. ASSUME NEW p \in Proc, NEW nm \in Name \cup {NULL}, MsgQueueCreate(p, nm)
      PROVE  RInv'
  BY <1>5, MsgQueueCreateKeeps
<1>6. ASSUME NEW p \in Proc, NEW nm \in Name,
             MsgQueueOpen(p, nm) \/ MsgQueueUnlink(p, nm)
      PROVE  RInv'
  BY <1>6, MsgQueueOpenKeeps, MsgQueueUnlinkKeeps
<1>7. ASSUME NEW p \in Proc,
             Spawn(p) \/ ExitToParent(p) \/ ExitToZombie(p) \/ Reap(p)
      PROVE  RInv'
  BY <1>7, SpawnKeeps, ExitToParentKeeps, LivesEndKeeps
<1> QED
  BY <1>1, <1>2, <1>3, <1>4, <1>5, <1>6, <1>7 DEF Next, Halted

LEMMA RInvHolds == Spec => []RInv
<1>1. RInv /\ [Next]_vars => RInv'
  BY RInvStep
<1> QED
  BY InitSound, <1>1, PTL DEF Spec

-----------------------------------------------------------------------------
(* What follows                                                            *)

\* Whatever is opened, closed, created, destroyed and left behind in any order,
\* the variables keep their kinds.
THEOREM ResourceTypes == Spec => []TypeOK
<1>1. RInv => TypeOK
  BY TypesApart DEF RInv
<1> QED
  BY <1>1, RInvHolds, PTL

\* What a process has open is recorded at the resource and the other way round,
\* no recorded descriptor and no resource with one has been freed, and the file
\* descriptors of a process differ.
THEOREM DescriptorsStaySound == Spec => []DescriptorsSound
<1>1. RInv => DescriptorsSound
  BY SoundApart DEF RInv
<1> QED
  BY <1>1, RInvHolds, PTL

\* A queue is in its pool or in msg_queues_list, a plain resource in its pool or
\* in resources_list, and in neither list twice.
THEOREM NoResourceIsLost == Spec => []NothingLost
<1>1. RInv => NothingLost
  BY DEF RInv
<1> QED
  BY <1>1, RInvHolds, PTL

-----------------------------------------------------------------------------
(* Several queues may have one name; which of them is open                 *)

\* Callers use resource ids for plain resources and, at the most, for the queue
\* that was created first; the ids of all other queues are theirs alone.
OnlyOldestById == \A id \in Ids : id = 0 \/ id >= MaxRid

\* Only the first queue of a name is open.  That the queue with id 0 is the first
\* of all makes this hold when a queue is opened by that id.
FirstIsOpen ==
  \A i, j \in 1..Len(msg_queues_list) :
    /\ i < j
    /\ name[msg_queues_list[i]] = name[msg_queues_list[j]]
    => descriptors_ptrs[msg_queues_list[j]] = {}

OldestIsFirst ==
  \A i \in 1..Len(msg_queues_list) :
    /\ rid[msg_queues_list[i]] < last_rid
    /\ rid[msg_queues_list[i]] = 0 => i = 1

OrderInv == RInv /\ FirstIsOpen /\ OldestIsFirst

LEMMA ListedQueues ==
  ASSUME RInv
  PROVE  /\ Len(msg_queues_list) \in Nat
         /\ \A i \in 1..Len(msg_queues_list) :
              /\ msg_queues_list[i] \in Que /\ msg_queues_list[i] \in Object
              /\ msg_queues_list[i] \notin free_que /\ msg_queues_list[i] \notin Res
              /\ rid[msg_queues_list[i]] \in Nat
         /\ \A i, j \in 1..Len(msg_queues_list) :
              msg_queues_list[i] = msg_queues_list[j] => i = j
         /\ \A q \in Que \ free_que : \E i \in 1..Len(msg_queues_list) :
              q = msg_queues_list[i]
         /\ last_rid \in 0..MaxRid /\ MaxRid \in Nat
<1>1. msg_queues_list \in Seq(Que) /\ IsInjective(msg_queues_list)
      /\ ToSet(msg_queues_list) = Que \ free_que
  BY DEF RInv, ObjectTypes, NothingLost
<1>2. /\ Len(msg_queues_list) \in Nat
      /\ \A i \in 1..Len(msg_queues_list) :
           msg_queues_list[i] \in Que /\ msg_queues_list[i] \notin free_que
  BY <1>1, Elements
<1>3. \A i, j \in 1..Len(msg_queues_list) :
        msg_queues_list[i] = msg_queues_list[j] => i = j
  BY <1>1, Elements
<1>4. \A q \in Que \ free_que : \E i \in 1..Len(msg_queues_list) :
        q = msg_queues_list[i]
  BY <1>1, Elements
<1>5. \A q \in Que : q \in Object /\ q \notin Res /\ rid[q] \in Nat
  <2>1. rid \in [Object -> Nat]
    <3>1. Ids \cup 0..MaxRid \subseteq Nat
      BY BoundsAssumption
    <3> QED
      BY <3>1 DEF RInv, ObjectTypes
  <2> QED
    BY <2>1, BlocksAssumption DEF Object
<1> QED
  BY <1>2, <1>3, <1>4, <1>5, BoundsAssumption DEF RInv, ObjectTypes

\* A call that leaves the list and its queues alone and opens none of them.
LEMMA NothingOpened ==
  ASSUME OrderInv, UNCHANGED <<msg_queues_list, name>>, last_rid' \in Nat,
         last_rid <= last_rid',
         \A q \in Que : rid'[q] = rid[q] /\ descriptors_ptrs'[q] \subseteq descriptors_ptrs[q]
  PROVE  FirstIsOpen' /\ OldestIsFirst'
<1>1. FirstIsOpen'
  BY ListedQueues DEF OrderInv, FirstIsOpen
<1>2. OldestIsFirst'
  BY ListedQueues DEF OrderInv, OldestIsFirst
<1> QED
  BY <1>1, <1>2

\* A queue is opened that is the first of its name.
LEMMA FirstOpened ==
  ASSUME OrderInv, NEW p, NEW d, NEW k \in 1..Len(msg_queues_list),
         NewDescriptor(p, msg_queues_list[k], d), UNCHANGED objects,
         \A i \in 1..Len(msg_queues_list) :
           i < k => name[msg_queues_list[i]] # name[msg_queues_list[k]]
  PROVE  FirstIsOpen' /\ OldestIsFirst'
<1> DEFINE o == msg_queues_list[k]
<1>1. UNCHANGED <<msg_queues_list, name, rid, last_rid>>
  BY DEF objects
<1>2. \A i \in 1..Len(msg_queues_list) : i # k =>
        descriptors_ptrs'[msg_queues_list[i]] = descriptors_ptrs[msg_queues_list[i]]
  <2>1. descriptors_ptrs' = [descriptors_ptrs EXCEPT ![o] = descriptors_ptrs[o] \cup {d}]
    BY DEF NewDescriptor
  <2>2. \A i \in 1..Len(msg_queues_list) : i # k => msg_queues_list[i] # o
    BY ListedQueues DEF OrderInv
  <2> HIDE DEF o
  <2> QED
    BY <2>1, <2>2, ListedQueues DEF OrderInv, RInv, HandleTypes
<1>3. FirstIsOpen'
  <2> SUFFICES ASSUME NEW i \in 1..Len(msg_queues_list),
                      NEW j \in 1..Len(msg_queues_list), i < j,
                      name[msg_queues_list[i]] = name[msg_queues_list[j]]
               PROVE  descriptors_ptrs'[msg_queues_list[j]] = {}
    BY <1>1 DEF FirstIsOpen
  <2>1. j # k
    OBVIOUS
  <2>2. descriptors_ptrs[msg_queues_list[j]] = {}
    BY DEF OrderInv, FirstIsOpen
  <2> QED
    BY <1>2, <2>1, <2>2
<1>4. OldestIsFirst'
  BY <1>1 DEF OrderInv, OldestIsFirst
<1> QED
  BY <1>3, <1>4

\* A queue is destroyed, while no descriptor is added anywhere.
LEMMA OrderAfterDestroy ==
  ASSUME OrderInv, NEW q \in Que, Destroy(q),
         \A o \in Que : descriptors_ptrs'[o] \subseteq descriptors_ptrs[o]
  PROVE  FirstIsOpen' /\ OldestIsFirst'
<1>1. /\ msg_queues_list' = RemoveFirst(msg_queues_list, q)
      /\ UNCHANGED <<name, rid, last_rid>>
  BY DEF Destroy
<1>2. PICK k \in Nat : \A i \in 1..Len(msg_queues_list') :
        LET j == IF i < k THEN i ELSE i + 1
        IN  j \in 1..Len(msg_queues_list) /\ msg_queues_list'[i] = msg_queues_list[j]
  BY <1>1, DetachKeepsOrder DEF OrderInv, RInv, ObjectTypes
<1> DEFINE was(i) == IF i < k THEN i ELSE i + 1
<1>3. \A i \in 1..Len(msg_queues_list') :
        /\ was(i) \in 1..Len(msg_queues_list)
        /\ msg_queues_list'[i] = msg_queues_list[was(i)]
  BY <1>2
<1>4. msg_queues_list' \in Seq(Que) /\ Len(msg_queues_list') \in Nat
  BY <1>1, DetachElement, Elements DEF OrderInv, RInv, ObjectTypes, NothingLost
<1>5. \A i, j \in 1..Len(msg_queues_list') :
        (i < j => was(i) < was(j)) /\ (was(i) = 1 => i = 1)
  BY <1>4
<1> HIDE DEF was
<1>6. FirstIsOpen'
  <2> SUFFICES ASSUME NEW i \in 1..Len(msg_queues_list'),
                      NEW j \in 1..Len(msg_queues_list'), i < j,
                      name[msg_queues_list'[i]] = name[msg_queues_list'[j]]
               PROVE  descriptors_ptrs'[msg_queues_list'[j]] = {}
    BY <1>1 DEF FirstIsOpen
  <2>1. /\ was(i) < was(j)
        /\ was(i) \in 1..Len(msg_queues_list) /\ was(j) \in 1..Len(msg_queues_list)
        /\ msg_queues_list'[i] = msg_queues_list[was(i)]
        /\ msg_queues_list'[j] = msg_queues_list[was(j)]
    BY <1>3, <1>5
  <2>2. descriptors_ptrs[msg_queues_list[was(j)]] = {}
    BY <2>1 DEF OrderInv, FirstIsOpen
  <2>3. msg_queues_list[was(j)] \in Que
    BY <2>1, ListedQueues DEF OrderInv
  <2> QED
    BY <2>1, <2>2, <2>3
<1>7. OldestIsFirst'
  BY <1>1, <1>3, <1>5 DEF OrderInv, OldestIsFirst
<1> QED
  BY <1>6, <1>7

\* What a search by name or id finds among the queues is the first of its name.
LEMMA FoundByName ==
  ASSUME OrderInv, NEW nm, FindByName(nm) # 0
  PROVE  /\ FindByName(nm) \in 1..Len(msg_queues_list)
         /\ name[msg_queues_list[FindByName(nm)]] = nm
         /\ \A i \in 1..Len(msg_queues_list) :
              name[msg_queues_list[i]] = nm => FindByName(nm) <= i
<1> DEFINE I == {i \in 1..Len(msg_queues_list) : name[msg_queues_list[i]] = nm}
           k == IF I # {} THEN Min(I) ELSE 0
<1>1. FindByName(nm) = k
  BY DEF FindByName, SelectInSeq
<1>2. k # 0 => k \in I /\ \A i \in I : k <= i
  <2>1. msg_queues_list \in Seq(Que) /\ I \in SUBSET (1..Len(msg_queues_list))
    BY DEF OrderInv, RInv, ObjectTypes
  <2> HIDE DEF I
  <2> QED
    BY <2>1, FirstFound
<1> HIDE DEF k
<1> QED
  BY <1>1, <1>2

LEMMA FoundById ==
  ASSUME OrderInv, OnlyOldestById, NEW id \in Ids, ById(id) # 0,
         resources_list[ById(id)] \in Que
  PROVE  /\ 1 \in 1..Len(msg_queues_list)
         /\ resources_list[ById(id)] = msg_queues_list[1]
<1> DEFINE I == {i \in 1..Len(resources_list) : rid[resources_list[i]] = id}
           k == IF I # {} THEN Min(I) ELSE 0
           o == resources_list[ById(id)]
<1>1. ById(id) = k
  BY DEF ById, SelectInSeq
<1>2. k # 0 => k \in I
  <2>1. resources_list \in Seq(Object) /\ I \in SUBSET (1..Len(resources_list))
    BY DEF OrderInv, RInv, ObjectTypes
  <2> HIDE DEF I
  <2> QED
    BY <2>1, FirstFound
<1> HIDE DEF k
<1>3. rid[o] = id
  BY <1>1, <1>2
<1>4. o \in Que \ free_que
  BY ByIdFinds DEF OrderInv, RInv
<1> HIDE DEF o
<1>5. PICK i \in 1..Len(msg_queues_list) : o = msg_queues_list[i]
  BY <1>4, ListedQueues DEF OrderInv
<1>6. rid[o] < MaxRid /\ rid[o] \in Nat
  BY <1>5, ListedQueues DEF OrderInv, OldestIsFirst
<1>7. i = 1
  BY <1>3, <1>5, <1>6, ListedQueues, BoundsAssumption
     DEF OnlyOldestById, OrderInv, OldestIsFirst
<1> QED
  BY <1>5, <1>7 DEF o

LEMMA DropOpensNothing ==
  ASSUME NEW p, NEW ds, DropDescriptors(p, ds)
  PROVE  \A o \in Object : descriptors_ptrs'[o] \subseteq descriptors_ptrs[o]
BY DEF DropDescriptors

LEMMA OpenResourceOrder ==
  ASSUME OnlyOldestById, OrderInv, NEW p \in Proc, NEW id \in Ids, NEW ty, NEW mode,
         OpenResource(p, id, ty, mode)
  PROVE  FirstIsOpen' /\ OldestIsFirst'
<1> DEFINE o == resources_list[ById(id)]
<1>1. CASE /\ UNCHANGED <<msg_queues_list, name, last_rid>>
           /\ \A q \in Que : rid'[q] = rid[q]
                          /\ descriptors_ptrs'[q] \subseteq descriptors_ptrs[q]
  BY <1>1, NothingOpened, ListedQueues DEF OrderInv
<1>2. CASE UNCHANGED <<objects, handles>>
  BY <1>1, <1>2 DEF objects, handles
<1>3. CASE \E n \in Int : Refuse(n)
  BY <1>2, <1>3 DEF Refuse
<1>4. CASE Fault("open_no_resource")
  BY <1>2, <1>4 DEF Fault
<1>5. ASSUME ById(id) # 0, NEW d, NewDescriptor(p, o, d), UNCHANGED objects
      PROVE  FirstIsOpen' /\ OldestIsFirst'
  <2>1. CASE o \in Que
    <3>1. 1 \in 1..Len(msg_queues_list) /\ o = msg_queues_list[1]
      BY <1>5, <2>1, FoundById
    <3> HIDE DEF o
    <3>2. \A i \in 1..Len(msg_queues_list) : ~(i < 1)
      BY ListedQueues DEF OrderInv
    <3> QED
      BY <1>5, <3>1, <3>2, FirstOpened
  <2>2. CASE o \notin Que
    <3> HIDE DEF o
    <3>1. \A q \in Que : descriptors_ptrs'[q] = descriptors_ptrs[q]
      BY <1>5, <2>2 DEF NewDescriptor, OrderInv, RInv, HandleTypes, Object
    <3> QED
      BY <1>1, <1>5, <3>1 DEF objects
  <2> QED
    BY <2>1, <2>2
<1>6. ASSUME NEW r \in free_res, rid' = [rid EXCEPT ![r] = id],
             UNCHANGED <<msg_queues_list, name, last_rid>>,
             UNCHANGED handles \/ \E d \in free_descs : NewDescriptor(p, r, d)
      PROVE  FirstIsOpen' /\ OldestIsFirst'
  <2>1. \A q \in Que : q \in Object /\ q # r
    BY BlocksAssumption DEF OrderInv, RInv, ObjectTypes, Object
  <2>2. \A q \in Que : rid'[q] = rid[q]
    BY <1>6, <2>1 DEF OrderInv, RInv, ObjectTypes
  <2>3. \A q \in Que : descriptors_ptrs'[q] = descriptors_ptrs[q]
    <3>1. CASE UNCHANGED handles
      BY <3>1 DEF handles
    <3>2. CASE \E d \in free_descs : NewDescriptor(p, r, d)
      BY <2>1, <3>2 DEF NewDescriptor, OrderInv, RInv, HandleTypes
    <3> QED
      BY <1>6, <3>1, <3>2
  <2> QED
    BY <1>1, <1>6, <2>2, <2>3
<1>7. CASE OpenExisting(p, id, ty, mode)
  <2>1. \A n \in {DSOS_ERESOURCEOPEN, DSOS_ERESOURCENOEXCL, DSOS_ERESOURCENOFD} :
          n \in Int
    BY DEF DSOS_ERESOURCEOPEN, DSOS_ERESOURCENOEXCL, DSOS_ERESOURCENOFD
  <2> QED
    BY <1>3, <1>5, <1>7, <2>1 DEF OpenExisting
<1>8. CASE OpenCreating(p, id, ty)
  <2>1. DSOS_ERESOURCECREATE \in Int
    BY DEF DSOS_ERESOURCECREATE
  <2> QED
    BY <1>3, <1>4, <1>6, <1>8, <2>1 DEF OpenCreating
<1> QED
  BY <1>7, <1>8 DEF OpenResource

LEMMA MsgQueueCreateOrder ==
  ASSUME OrderInv, NEW p \in Proc, NEW nm, MsgQueueCreate(p, nm)
  PROVE  FirstIsOpen' /\ OldestIsFirst'
<1>1. last_rid \in Nat /\ Len(msg_queues_list) \in Nat
  BY ListedQueues DEF OrderInv
<1>2. CASE /\ UNCHANGED <<msg_queues_list, name, rid, handles>>
           /\ last_rid' \in {last_rid, last_rid + 1}
  BY <1>1, <1>2, NothingOpened DEF handles
<1>3. CASE Fault("create_no_queue")
  BY <1>2, <1>3 DEF Fault, objects
<1>4. ASSUME NEW q \in free_que,
             last_rid' = last_rid + 1,
             name' = [name EXCEPT ![q] = nm], rid' = [rid EXCEPT ![q] = last_rid],
             msg_queues_list' = Append(msg_queues_list, q), UNCHANGED handles
      PROVE  FirstIsOpen' /\ OldestIsFirst'
  <2> DEFINE n == Len(msg_queues_list)
  <2>1. q \in Que /\ q \in Object /\ descriptors_ptrs'[q] = {}
    BY <1>4 DEF OrderInv, RInv, ObjectTypes, PtrsSound, Object, handles
  <2>2. /\ Len(msg_queues_list') = n + 1 /\ n \in Nat
        /\ msg_queues_list'[n + 1] = q
        /\ \A i \in 1..n : msg_queues_list'[i] = msg_queues_list[i]
    <3>1. msg_queues_list \in Seq(Que)
      BY DEF OrderInv, RInv, ObjectTypes
    <3> QED
      BY <1>1, <1>4, <2>1, <3>1, AppendProperties
  <2>3. \A i \in 1..n :
          /\ msg_queues_list[i] # q
          /\ name'[msg_queues_list[i]] = name[msg_queues_list[i]]
          /\ rid'[msg_queues_list[i]] = rid[msg_queues_list[i]]
    BY <1>4, ListedQueues DEF OrderInv, RInv, ObjectTypes
  <2>4. rid'[q] = last_rid
    BY <1>4, <2>1 DEF OrderInv, RInv, ObjectTypes
  <2>5. last_rid = 0 => n = 0
    BY <2>2, ListedQueues DEF OrderInv, OldestIsFirst
  <2> HIDE DEF n
  <2>6. FirstIsOpen'
    <3> SUFFICES ASSUME NEW i \in 1..(n + 1), NEW j \in 1..(n + 1), i < j,
                        name'[msg_queues_list'[i]] = name'[msg_queues_list'[j]]
                 PROVE  descriptors_ptrs'[msg_queues_list'[j]] = {}
      BY <2>2 DEF FirstIsOpen
    <3>1. CASE j = n + 1
      BY <2>1, <2>2, <3>1
    <3>2. CASE j # n + 1
      <4>1. i \in 1..n /\ j \in 1..n
        BY <2>2, <3>2
      <4> QED
        BY <1>4, <2>2, <2>3, <4>1 DEF OrderInv, FirstIsOpen, handles, n
    <3> QED
      BY <3>1, <3>2
  <2>7. OldestIsFirst'
    <3> SUFFICES ASSUME NEW i \in 1..(n + 1)
                 PROVE  /\ rid'[msg_queues_list'[i]] < last_rid + 1
                        /\ rid'[msg_queues_list'[i]] = 0 => i = 1
      BY <1>4, <2>2 DEF OldestIsFirst
    <3>1. CASE i = n + 1
      BY <1>1, <2>2, <2>4, <2>5, <3>1
    <3>2. CASE i # n + 1
      <4>1. i \in 1..n
        BY <2>2, <3>2
      <4>2. /\ rid[msg_queues_list[i]] \in Nat /\ rid[msg_queues_list[i]] < last_rid
            /\ rid[msg_queues_list[i]] = 0 => i = 1
        BY <4>1, ListedQueues DEF OrderInv, OldestIsFirst, n
      <4> QED
        BY <1>1, <2>2, <2>3, <4>1, <4>2
    <3> QED
      BY <3>1, <3>2
  <2> QED
    BY <2>6, <2>7
<1> QED
  BY <1>2, <1>3, <1>4 DEF MsgQueueCreate

LEMMA MsgQueueOpenOrder ==
  ASSUME OrderInv, NEW p \in Proc, NEW nm, MsgQueueOpen(p, nm)
  PROVE  FirstIsOpen' /\ OldestIsFirst'
<1> DEFINE k == FindByName(nm)
<1>1. CASE UNCHANGED <<objects, handles>>
  BY <1>1, NothingOpened, ListedQueues DEF OrderInv, objects, handles
<1>2. CASE Fault("open_unknown") \/ Refuse(DSOS_EMQ_NOFD)
  BY <1>1, <1>2 DEF Fault, Refuse
<1>3. ASSUME k # 0, NEW d, NewDescriptor(p, msg_queues_list[k], d),
             UNCHANGED objects
      PROVE  FirstIsOpen' /\ OldestIsFirst'
  <2>1. /\ k \in 1..Len(msg_queues_list)
        /\ name[msg_queues_list[k]] = nm
        /\ \A i \in 1..Len(msg_queues_list) :
             name[msg_queues_list[i]] = nm => k <= i
    BY <1>3, FoundByName
  <2> HIDE DEF k
  <2>2. \A i \in 1..Len(msg_queues_list) :
          i < k => name[msg_queues_list[i]] # name[msg_queues_list[k]]
    BY <2>1
  <2> QED
    BY <1>3, <2>1, <2>2, FirstOpened
<1> QED
  BY <1>2, <1>3 DEF MsgQueueOpen

LEMMA MsgQueueUnlinkOrder ==
  ASSUME OrderInv, NEW p \in Proc, NEW nm, MsgQueueUnlink(p, nm)
  PROVE  FirstIsOpen' /\ OldestIsFirst'
<1>1. CASE \E n \in {DSOS_EMQ_UNLINK, 0} : Refuse(n)
  BY <1>1, NothingOpened, ListedQueues DEF OrderInv, Refuse, objects, handles
<1>2. ASSUME FindByName(nm) # 0, Destroy(msg_queues_list[FindByName(nm)]),
             UNCHANGED handles
      PROVE  FirstIsOpen' /\ OldestIsFirst'
  <2>1. msg_queues_list[FindByName(nm)] \in Que
    BY <1>2, FindByNameFinds DEF OrderInv, RInv
  <2> QED
    BY <1>2, <2>1, OrderAfterDestroy DEF handles
<1> QED
  BY <1>1, <1>2 DEF MsgQueueUnlink

LEMMA MsgQueueCloseOrder ==
  ASSUME OrderInv, NEW p \in Proc, NEW fd, MsgQueueClose(p, fd)
  PROVE  FirstIsOpen' /\ OldestIsFirst'
<1>1. CASE Fault("close_unknown")
  BY <1>1, NothingOpened, ListedQueues DEF OrderInv, Fault, objects, handles
<1>2. ASSUME NEW d \in ByFd(p, fd), desc[d].res \in Que,
             DropDescriptors(p, {d}),
             LET k == FindByName(name[desc[d].res])
             IN  IF /\ descriptors_ptrs'[desc[d].res] = {}
                    /\ k # 0
                    /\ descriptors_ptrs'[msg_queues_list[k]] = {}
                 THEN Destroy(msg_queues_list[k]) ELSE UNCHANGED objects
      PROVE  FirstIsOpen' /\ OldestIsFirst'
  <2> DEFINE k == FindByName(name[desc[d].res])
  <2>1. \A o \in Que : descriptors_ptrs'[o] \subseteq descriptors_ptrs[o]
    BY <1>2, DropOpensNothing, ListedQueues DEF Object
  <2>2. CASE k # 0 /\ Destroy(msg_queues_list[k])
    <3>1. msg_queues_list[k] \in Que
      BY <2>2, FindByNameFinds DEF OrderInv, RInv
    <3> QED
      BY <2>1, <2>2, <3>1, OrderAfterDestroy
  <2>3. CASE UNCHANGED objects
    BY <2>1, <2>3, NothingOpened, ListedQueues DEF OrderInv, objects
  <2> QED
    BY <1>2, <2>2, <2>3
<1> QED
  BY <1>1, <1>2 DEF MsgQueueClose

\* A call that makes, lists, names and opens no queue.
LEMMA OtherCallsOrder ==
  ASSUME OrderInv,
         \/ \E p \in Proc, fd \in Fds : CloseResource(p, fd)
         \/ \E p \in Proc, id \in Ids : DestroyResource(p, id)
         \/ \E p \in Proc : \/ Spawn(p) \/ ExitToParent(p)
                            \/ ExitToZombie(p) \/ Reap(p)
         \/ UNCHANGED vars
  PROVE  FirstIsOpen' /\ OldestIsFirst'
<1>1. CASE /\ UNCHANGED <<msg_queues_list, name, rid, last_rid>>
           /\ \A q \in Que : descriptors_ptrs'[q] \subseteq descriptors_ptrs[q]
  BY <1>1, NothingOpened, ListedQueues DEF OrderInv
<1>2. CASE UNCHANGED <<objects, descriptors_ptrs>>
  BY <1>1, <1>2 DEF objects
<1>3. ASSUME NEW p, NEW ds, DropDescriptors(p, ds), UNCHANGED objects
      PROVE  FirstIsOpen' /\ OldestIsFirst'
  <2>1. \A q \in Que : descriptors_ptrs'[q] \subseteq descriptors_ptrs[q]
    BY <1>3, DropOpensNothing DEF Object
  <2> QED
    BY <1>1, <1>3, <2>1 DEF objects
<1>4. ASSUME NEW p \in Proc, NEW fd, CloseResource(p, fd)
      PROVE  FirstIsOpen' /\ OldestIsFirst'
  BY <1>2, <1>3, <1>4 DEF CloseResource, Refuse, handles
<1>5. ASSUME NEW p \in Proc, NEW id, DestroyResource(p, id)
      PROVE  FirstIsOpen' /\ OldestIsFirst'
  BY <1>1, <1>2, <1>5 DEF DestroyResource, Refuse, handles
<1>6. ASSUME NEW p \in Proc, ExitToParent(p)
      PROVE  FirstIsOpen' /\ OldestIsFirst'
  BY <1>3, <1>6 DEF ExitToParent
<1>7. ASSUME NEW p \in Proc, Spawn(p) \/ ExitToZombie(p) \/ Reap(p)
      PROVE  FirstIsOpen' /\ OldestIsFirst'
  BY <1>2, <1>7 DEF Spawn, ExitToZombie, Reap, handles
<1>8. CASE UNCHANGED vars
  BY <1>2, <1>8 DEF vars, handles
<1> QED
  BY <1>4, <1>5, <1>6, <1>7, <1>8

LEMMA OrderInvHolds ==
  ASSUME OnlyOldestById
  PROVE  Spec => []OrderInv
<1>1. Init => OrderInv
  <2>1. Init => RInv
    BY InitSound
  <2>2. Init => FirstIsOpen /\ OldestIsFirst
    BY DEF Init, FirstIsOpen, OldestIsFirst
  <2> QED
    BY <2>1, <2>2 DEF OrderInv
<1>2. OrderInv /\ [Next]_vars => OrderInv'
  <2> SUFFICES ASSUME OrderInv, [Next]_vars
               PROVE  FirstIsOpen' /\ OldestIsFirst'
    BY RInvStep DEF OrderInv
  <2>1. ASSUME NEW p \in Proc, NEW id \in Ids, NEW ty \in OpenTypes,
               NEW mode \in Modes, OpenResource(p, id, ty, mode)
        PROVE  FirstIsOpen' /\ OldestIsFirst'
    BY <2>1, OpenResourceOrder
  <2>2. ASSUME NEW p \in Proc, NEW fd \in Fds, MsgQueueClose(p, fd)
        PROVE  FirstIsOpen' /\ OldestIsFirst'
    BY <2>2, MsgQueueCloseOrder
  <2>3. ASSUME NEW p \in Proc, NEW nm \in Name \cup {NULL},
               MsgQueueCreate(p, nm)
        PROVE  FirstIsOpen' /\ OldestIsFirst'
    BY <2>3, MsgQueueCreateOrder
  <2>4. ASSUME NEW p \in Proc, NEW nm \in Name,
               MsgQueueOpen(p, nm) \/ MsgQueueUnlink(p, nm)
        PROVE  FirstIsOpen' /\ OldestIsFirst'
    BY <2>4, MsgQueueOpenOrder, MsgQueueUnlinkOrder
  <2> QED
    BY <2>1, <2>2, <2>3, <2>4, OtherCallsOrder DEF Next, Halted, Fds
<1> QED
  BY <1>1, <1>2, PTL DEF Spec

\* Closing by the name of a queue hits that very queue.
LEMMA CloseHitsItsQueue ==
  ASSUME OrderInv, NEW p \in Proc, NEW fd \in Fds, NEW d \in ByFd(p, fd),
         MsgQueueClose(p, fd)
  PROVE  free_que' = free_que \cup
           (IF descriptors_ptrs[desc[d].res] = {d} THEN {desc[d].res} ELSE {})
<1> DEFINE q == desc[d].res
           k == FindByName(name[q])
<1>1. p \in alive /\ d \in descriptors[p] /\ desc[d].fd = fd
  BY DEF MsgQueueClose, CanCall, ByFd
<1>2. \A e \in ByFd(p, fd) : e = d
  BY <1>1 DEF OrderInv, RInv, UniqueFds, ByFd
<1>3. /\ q \in Que
      /\ DropDescriptors(p, {d})
      /\ IF /\ descriptors_ptrs'[q] = {}
            /\ k # 0
            /\ descriptors_ptrs'[msg_queues_list[k]] = {}
         THEN Destroy(msg_queues_list[k]) ELSE UNCHANGED objects
  BY <1>2 DEF MsgQueueClose
<1>4. d \in descriptors_ptrs[q] /\ q \in Object /\ q \notin free_que
  BY <1>1, <1>3 DEF OrderInv, RInv, OpenSound, PtrsSound, Object
<1> HIDE DEF q
<1>5. PICK i \in 1..Len(msg_queues_list) : q = msg_queues_list[i]
  BY <1>3, <1>4, ListedQueues DEF OrderInv
<1>6. k # 0 /\ msg_queues_list[k] = q
  <2>1. k # 0
    <3> DEFINE I == {j \in 1..Len(msg_queues_list) :
                       name[msg_queues_list[j]] = name[q]}
               m == IF I # {} THEN Min(I) ELSE 0
    <3>1. k = m
      BY DEF FindByName, SelectInSeq
    <3>2. msg_queues_list \in Seq(Que) /\ I \in SUBSET (1..Len(msg_queues_list))
          /\ i \in I
      BY <1>5 DEF OrderInv, RInv, ObjectTypes
    <3> HIDE DEF I
    <3>3. m # 0
      BY <3>2, FirstFound
    <3> QED
      BY <3>1, <3>3
  <2>2. k \in 1..Len(msg_queues_list) /\ name[msg_queues_list[k]] = name[q]
        /\ k <= i
    BY <1>5, <2>1, FoundByName
  <2> HIDE DEF k
  <2>3. ~(k < i)
    BY <1>4, <1>5, <2>2 DEF OrderInv, FirstIsOpen
  <2> QED
    BY <1>5, <2>1, <2>2, <2>3
<1> HIDE DEF k
<1>7. descriptors_ptrs'[q] = descriptors_ptrs[q] \ {d}
  BY <1>3, <1>4 DEF DropDescriptors
<1>8. CASE descriptors_ptrs[q] = {d}
  BY <1>3, <1>6, <1>7, <1>8 DEF Destroy, q
<1>9. CASE descriptors_ptrs[q] # {d}
  <2>1. descriptors_ptrs'[q] # {}
    BY <1>4, <1>7, <1>9
  <2>2. free_que' = free_que
    BY <1>3, <2>1 DEF objects
  <2> QED
    BY <1>9, <2>2 DEF q
<1> QED
  BY <1>8, <1>9

\* msgQueueClose passes the name of its queue on to msgQueueUnlink, although any
\* number of queues may have that name.  It destroys its own queue if it closed the
\* last descriptor of it, and no queue otherwise, as long as callers keep to
\* OnlyOldestById: were a later queue of a name opened by its id, closing it could
\* destroy an earlier one or leave it behind.
THEOREM LastCloseDestroysItsQueue ==
  ASSUME OnlyOldestById
  PROVE  Spec => LastCloseDestroys
<1> DEFINE A == \A p \in Proc, fd \in Fds : \A d \in ByFd(p, fd) :
       MsgQueueClose(p, fd) =>
         free_que' = free_que \cup
           (IF descriptors_ptrs[desc[d].res] = {d} THEN {desc[d].res} ELSE {})
<1>1. OrderInv => A
  BY CloseHitsItsQueue
<1>2. LastCloseDestroys <=> [][A]_vars
  BY DEF LastCloseDestroys
<1> HIDE DEF A
<1> QED
  BY <1>1, <1>2, OrderInvHolds, PTL
=============================================================================
