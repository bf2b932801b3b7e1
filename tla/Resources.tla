----------------------------- MODULE Resources -----------------------------
(***************************************************************************)
(* Resources, message queues and their descriptors: openResource,          *)
(* closeResource, destroyResource, msgQueueCreate, msgQueueOpen,           *)
(* msgQueueClose, msgQueueUnlink, and what exit and spawn do to them.      *)
(*                                                                         *)
(* Any process that lives may make the next call: who has the CPU is the   *)
(* matter of the module Processes, and blocking and waking in read, write  *)
(* and close that of MessageQueue.                                         *)
(*                                                                         *)
(* Plain resources and queues come from pools of their own and share       *)
(* resources_list; queues are in msg_queues_list too.  A DescriptorPtr is  *)
(* allocated and freed with its Descriptor, from a pool of the same size,  *)
(* and is identified with it.  Nothing reads a descriptor after it was     *)
(* freed: its contents are blank then.  A descriptor list is a set:        *)
(* nothing depends on its order as long as file descriptors are unique,    *)
(* which is the invariant UniqueFds.                                       *)
(***************************************************************************)
EXTENDS Integers, Sequences, FiniteSets, SequencesExt

CONSTANTS Proc,     \* PCB blocks
          init_pcb, \* that of the first process
          NULL,
          Res, Que, \* the blocks of the two pools
          Desc,     \* the blocks of the descriptor pool
          Name,     \* names of queues
          MaxRid,   \* bound: msgQueueCreate is called at most MaxRid times
          MaxFd,    \* bound: a process opens at most MaxFd times
          Ids,      \* resource ids that callers use
          Modes,    \* modes of openResource that callers use
          OpenTypes \* types of resource that callers open by id

ASSUME BlocksAssumption ==
  /\ init_pcb \in Proc /\ IsFiniteSet(Desc)
  /\ Res \cap Que = {} /\ NULL \notin Res \cup Que \cup Name
ASSUME BoundsAssumption ==
  /\ MaxRid \in Nat /\ MaxFd \in Nat /\ Ids \subseteq Nat
  /\ Modes \subseteq 0..7 /\ OpenTypes \subseteq 0..1

Object == Res \cup Que

VARIABLES
  alive,                     \* blocks of processes that can make calls
  zombies,                   \* terminated, not waited for yet
  descriptors, last_fd,      \* of a process: its descriptors; the next fd
  desc,                      \* of a descriptor: pcb, resource and fd
  free_descs, free_res, free_que,
  resources_list, msg_queues_list,
  name, rid, type,           \* of a resource
  descriptors_ptrs,          \* of a resource: descriptors that refer to it
  last_rid, answer, machine

processes == <<alive, zombies>>
objects   == <<free_res, free_que, resources_list, msg_queues_list, name, rid,
               type, last_rid>>
handles   == <<descriptors, last_fd, desc, free_descs, descriptors_ptrs>>
vars      == <<processes, objects, handles, answer, machine>>

DSOS_ERESOURCECREATE == -8
DSOS_ERESOURCEOPEN   == -9
DSOS_ERESOURCENOEXCL == -10
DSOS_ERESOURCENOFD   == -11
DSOS_ERESOURCECLOSE  == -12
DSOS_ERESOURCEINUSE  == -13
DSOS_EMQ_NOFD        == -14
DSOS_EMQ_CREATE      == -16
DSOS_EMQ_UNLINK      == -20

STANDARD_RESOURCE == 0
MSG_QUEUE_RESOURCE == 1
Types == {STANDARD_RESOURCE, MSG_QUEUE_RESOURCE}

Faults == {"open_no_resource", "create_no_queue", "open_unknown",
           "close_unknown"}

\* The bits of an open mode: DSOS_CREATE is 1, DSOS_READ 2, DSOS_WRITE 3 and
\* DSOS_EXCL 4, so that to open for writing is to create.
DSOS_WRITE == 3
Creates(mode)  == mode % 2 = 1
Excludes(mode) == (mode \div 4) % 2 = 1

-----------------------------------------------------------------------------
(* Helpers; one that goes on after another's name is that one with a slip. *)

\* ResourceList_byId and MsgQueuePtrList_findByName: the first in the list.
ById(id) == SelectInSeq(resources_list, LAMBDA o : rid[o] = id)
FindByName_any(nm) == SelectLastInSeq(msg_queues_list, LAMBDA q : name[q] = nm)
FindByName(nm) == SelectInSeq(msg_queues_list, LAMBDA q : name[q] = nm)

Fault(why) ==
  machine' = why /\ UNCHANGED <<processes, objects, handles, answer>>

\* The call returns n and changes nothing.
Refuse(n) ==
  answer' = n /\ UNCHANGED <<processes, objects, handles, machine>>

\* What stands for the contents of a free descriptor.
FreeDesc == [pcb |-> NULL, res |-> NULL, fd |-> 0]

\* A new descriptor of process p for object o, under the next fd of p.
NewDescriptor(p, o, d) ==
  /\ desc' = [desc EXCEPT ![d] = [pcb |-> p, res |-> o, fd |-> last_fd[p]]]
  /\ free_descs' = free_descs \ {d}
  /\ last_fd' = [last_fd EXCEPT ![p] = @ + 1]
  /\ descriptors' = [descriptors EXCEPT ![p] = @ \cup {d}]
  /\ descriptors_ptrs' = [descriptors_ptrs EXCEPT ![o] = @ \cup {d}]
  /\ answer' = last_fd[p]

\* The descriptors ds of process p are freed.
DropDescriptors_unlinked(p, ds) ==
  /\ descriptors' = [descriptors EXCEPT ![p] = @ \ ds]
  /\ free_descs' = free_descs \cup ds
  /\ desc' = [d \in Desc |-> IF d \in ds THEN FreeDesc ELSE desc[d]]
  /\ UNCHANGED <<last_fd, descriptors_ptrs>>
DropDescriptors(p, ds) ==
  /\ descriptors' = [descriptors EXCEPT ![p] = @ \ ds]
  /\ descriptors_ptrs' = [o \in Object |-> descriptors_ptrs[o] \ ds]
  /\ free_descs' = free_descs \cup ds
  /\ desc' = [d \in Desc |-> IF d \in ds THEN FreeDesc ELSE desc[d]]
  /\ UNCHANGED last_fd

\* DescriptorList_byFd
ByFd(p, fd) == {d \in descriptors[p] : desc[d].fd = fd}

InUse(o) == descriptors_ptrs[o] # {}

-----------------------------------------------------------------------------
Init ==
  /\ alive = {init_pcb}
  /\ zombies = {}
  /\ descriptors = [p \in Proc |-> {}]
  /\ last_fd = [p \in Proc |-> 0]
  /\ desc = [d \in Desc |-> FreeDesc]
  /\ free_descs = Desc
  /\ free_res = Res
  /\ free_que = Que
  /\ resources_list = <<>>
  /\ msg_queues_list = <<>>
  /\ name = [q \in Que |-> NULL]
  /\ rid = [o \in Object |-> 0]
  /\ type = [o \in Object |-> STANDARD_RESOURCE]
  /\ descriptors_ptrs = [o \in Object |-> {}]
  /\ last_rid = 0
  /\ answer = 0
  /\ machine = "up"

CanCall(p) == machine = "up" /\ p \in alive

-----------------------------------------------------------------------------
(* internal_openResource                                                   *)

OpenExisting(p, id, ty, mode) ==
  LET k == ById(id)
      o == resources_list[k]
  IN  \/ k = 0 /\ Refuse(DSOS_ERESOURCEOPEN)
      \/ k # 0 /\ type[o] # ty /\ Refuse(DSOS_ERESOURCEOPEN)
      \/ /\ k # 0 /\ type[o] = ty
         /\ \/ Excludes(mode) /\ InUse(o) /\ Refuse(DSOS_ERESOURCENOEXCL)
            \/ /\ ~(Excludes(mode) /\ InUse(o))
               /\ \/ free_descs = {} /\ Refuse(DSOS_ERESOURCENOFD)
                  \/ /\ last_fd[p] < MaxFd
                     /\ \E d \in free_descs : NewDescriptor(p, o, d)
                     /\ UNCHANGED <<processes, objects, machine>>

\* A resource that is created stays when there is no descriptor left for it.
OpenCreating(p, id, ty) ==
  \/ ById(id) # 0 /\ Refuse(DSOS_ERESOURCECREATE)
  \/ ById(id) = 0 /\ free_res = {} /\ Fault("open_no_resource")
  \/ /\ ById(id) = 0
     /\ \E o \in free_res :
          /\ free_res' = free_res \ {o}
          /\ rid' = [rid EXCEPT ![o] = id]
          /\ type' = [type EXCEPT ![o] = ty]
          /\ resources_list' = Append(resources_list, o)
          /\ \/ /\ free_descs = {}
                /\ answer' = DSOS_ERESOURCENOFD
                /\ UNCHANGED handles
             \/ /\ last_fd[p] < MaxFd
                /\ \E d \in free_descs : NewDescriptor(p, o, d)
     /\ UNCHANGED <<processes, free_que, msg_queues_list, name, last_rid,
                    machine>>

OpenResource(p, id, ty, mode) ==
  /\ CanCall(p)
  /\ \/ Creates(mode) /\ OpenCreating(p, id, ty)
     \/ ~Creates(mode) /\ OpenExisting(p, id, ty, mode)

-----------------------------------------------------------------------------
(* internal_closeResource                                                  *)

CloseResource(p, fd) ==
  /\ CanCall(p)
  /\ \/ ByFd(p, fd) = {} /\ Refuse(DSOS_ERESOURCECLOSE)
     \/ /\ ByFd(p, fd) # {}
        /\ DropDescriptors(p, ByFd(p, fd))
        /\ answer' = 0
        /\ UNCHANGED <<processes, objects, machine>>

-----------------------------------------------------------------------------
(* internal_destroyResource.  A queue leaves resources_list as well, but   *)
(* the pool of plain resources does not take its block back.               *)

DestroyResource(p, id) ==
  /\ CanCall(p)
  /\ \/ ById(id) = 0 /\ Refuse(DSOS_ERESOURCECLOSE)
     \/ /\ ById(id) # 0
        /\ LET o == resources_list[ById(id)]
           IN  \/ InUse(o) /\ Refuse(DSOS_ERESOURCEINUSE)
               \/ /\ ~InUse(o)
                  /\ resources_list' = RemoveFirst(resources_list, o)
                  /\ free_res' = free_res \cup ({o} \cap Res)
                  /\ answer' = 0
                  /\ UNCHANGED <<processes, free_que, msg_queues_list, name,
                                 rid, type, last_rid, handles, machine>>

-----------------------------------------------------------------------------
(* internal_msgQueueCreate.  NULL stands for a null name, which uses up a  *)
(* resource id all the same.  A name that is taken is no reason to refuse. *)

MsgQueueCreate(p, nm) ==
  /\ CanCall(p)
  /\ last_rid < MaxRid
  /\ \/ /\ nm = NULL
        /\ last_rid' = last_rid + 1
        /\ answer' = DSOS_EMQ_CREATE
        /\ UNCHANGED <<processes, free_res, free_que, resources_list,
                       msg_queues_list, name, rid, type, handles, machine>>
     \/ nm # NULL /\ free_que = {} /\ Fault("create_no_queue")
     \/ /\ nm # NULL
        /\ \E q \in free_que :
             /\ last_rid' = last_rid + 1
             /\ free_que' = free_que \ {q}
             /\ name' = [name EXCEPT ![q] = nm]
             /\ rid' = [rid EXCEPT ![q] = last_rid]
             /\ type' = [type EXCEPT ![q] = MSG_QUEUE_RESOURCE]
             /\ resources_list' = Append(resources_list, q)
             /\ msg_queues_list' = Append(msg_queues_list, q)
             /\ answer' = 0
             /\ UNCHANGED <<processes, free_res, handles, machine>>

-----------------------------------------------------------------------------
(* internal_msgQueueOpen                                                   *)

MsgQueueOpen(p, nm) ==
  /\ CanCall(p)
  /\ LET k == FindByName(nm)
     IN  \/ k = 0 /\ Fault("open_unknown")
         \/ k # 0 /\ free_descs = {} /\ Refuse(DSOS_EMQ_NOFD)
         \/ /\ k # 0 /\ last_fd[p] < MaxFd
            /\ \E d \in free_descs : NewDescriptor(p, msg_queues_list[k], d)
            /\ UNCHANGED <<processes, objects, machine>>

-----------------------------------------------------------------------------
(* internal_msgQueueUnlink, also called by internal_msgQueueClose          *)

\* The queue leaves both lists and its block is freed.
Destroy_as_resource(q) ==
  /\ msg_queues_list' = RemoveFirst(msg_queues_list, q)
  /\ resources_list' = RemoveFirst(resources_list, q)
  /\ free_res' = free_res \cup {q}
  /\ UNCHANGED <<free_que, name, rid, type, last_rid>>
Destroy_half(q) ==
  /\ resources_list' = RemoveFirst(resources_list, q)
  /\ free_que' = free_que \cup {q}
  /\ UNCHANGED <<msg_queues_list, free_res, name, rid, type, last_rid>>
Destroy(q) ==
  /\ msg_queues_list' = RemoveFirst(msg_queues_list, q)
  /\ resources_list' = RemoveFirst(resources_list, q)
  /\ free_que' = free_que \cup {q}
  /\ UNCHANGED <<free_res, name, rid, type, last_rid>>

MsgQueueUnlink(p, nm) ==
  /\ CanCall(p)
  /\ LET k == FindByName(nm)
         q == msg_queues_list[k]
     IN  \/ k = 0 /\ Refuse(DSOS_EMQ_UNLINK)
         \/ k # 0 /\ InUse(q) /\ Refuse(0)
         \/ /\ k # 0 /\ ~InUse(q)
            /\ Destroy(q)
            /\ answer' = 0
            /\ UNCHANGED <<processes, handles, machine>>

-----------------------------------------------------------------------------
(* internal_msgQueueClose.  Only descriptors of queues are offered to it:  *)
(* it would take a plain resource for a queue.  Closing the last one       *)
(* unlinks the queue, by its name.                                         *)

MsgQueueClose(p, fd) ==
  /\ CanCall(p)
  /\ \/ ByFd(p, fd) = {} /\ Fault("close_unknown")
     \/ \E d \in ByFd(p, fd) :
          LET q == desc[d].res
          IN  /\ q \in Que
              /\ DropDescriptors(p, {d})
              /\ LET k == FindByName(name[q])
                     found == msg_queues_list[k]
                 IN  IF /\ descriptors_ptrs'[q] = {}
                        /\ k # 0
                        /\ descriptors_ptrs'[found] = {}
                     THEN Destroy(found)
                     ELSE UNCHANGED objects
              /\ answer' = 0
              /\ UNCHANGED <<processes, machine>>

-----------------------------------------------------------------------------
(* What spawn, exit and wait do to descriptors                             *)

\* PCB_alloc: a block that had descriptors of a former process forgets them.
Spawn(p) ==
  /\ machine = "up"
  /\ p \notin alive \cup zombies
  /\ alive' = alive \cup {p}
  /\ descriptors' = [descriptors EXCEPT ![p] = {}]
  /\ last_fd' = [last_fd EXCEPT ![p] = 0]
  /\ UNCHANGED <<zombies, objects, desc, free_descs, descriptors_ptrs, answer,
                 machine>>

\* internal_exit of a process whose parent waits for it.
ExitToParent(p) ==
  /\ CanCall(p) /\ p # init_pcb
  /\ alive' = alive \ {p}
  /\ DropDescriptors(p, descriptors[p])
  /\ UNCHANGED <<zombies, objects, answer, machine>>

\* internal_exit of any other process: its descriptors stay.
ExitToZombie(p) ==
  /\ CanCall(p) /\ p # init_pcb
  /\ alive' = alive \ {p}
  /\ zombies' = zombies \cup {p}
  /\ UNCHANGED <<objects, handles, answer, machine>>

\* internal_wait frees the block of a zombie, and nothing else.
Reap(p) ==
  /\ machine = "up" /\ p \in zombies
  /\ zombies' = zombies \ {p}
  /\ UNCHANGED <<alive, objects, handles, answer, machine>>

Halted == machine # "up" /\ UNCHANGED vars

Next ==
  \/ \E p \in Proc :
       \/ \E id \in Ids, ty \in OpenTypes, mode \in Modes :
            OpenResource(p, id, ty, mode)
       \/ \E fd \in 0..MaxFd : CloseResource(p, fd) \/ MsgQueueClose(p, fd)
       \/ \E id \in Ids : DestroyResource(p, id)
       \/ \E nm \in Name \cup {NULL} : MsgQueueCreate(p, nm)
       \/ \E nm \in Name : MsgQueueOpen(p, nm) \/ MsgQueueUnlink(p, nm)
       \/ Spawn(p) \/ ExitToParent(p) \/ ExitToZombie(p) \/ Reap(p)
  \/ Halted

Spec == Init /\ [][Next]_vars

-----------------------------------------------------------------------------
Fds == 0..MaxFd
Used == Desc \ free_descs

\* Every variable holds values of its kind.
TypeOK ==
  /\ alive \subseteq Proc /\ zombies \subseteq Proc
  /\ descriptors \in [Proc -> SUBSET Desc]
  /\ last_fd \in [Proc -> Fds]
  /\ desc \in [Desc -> [pcb : Proc \cup {NULL}, res : Object \cup {NULL},
                       fd : Fds]]
  /\ free_descs \subseteq Desc
  /\ free_res \subseteq Res /\ free_que \subseteq Que
  /\ resources_list \in Seq(Object) /\ msg_queues_list \in Seq(Que)
  /\ name \in [Que -> Name \cup {NULL}]
  /\ rid \in [Object -> Ids \cup 0..MaxRid]
  /\ type \in [Object -> Types]
  /\ descriptors_ptrs \in [Object -> SUBSET Desc]
  /\ last_rid \in 0..MaxRid
  /\ answer \in Fds \cup (DSOS_EMQ_UNLINK..DSOS_ERESOURCECREATE)
  /\ machine \in {"up"} \cup Faults

\* The file descriptors of a process differ, so the first that DescriptorList_byFd
\* finds is the one the process means.
UniqueFds ==
  \A p \in alive : \A d, e \in descriptors[p] :
    /\ d # e => desc[d].fd # desc[e].fd
    /\ desc[d].fd < last_fd[p]

\* What a process has open is recorded at the resource and the other way round
\* a recorded descriptor is one in use for that resource, which has not been
\* freed: close, destroy, unlink and exit never follow a dangling pointer, and
\* close drops the descriptor that is meant.
DescriptorsSound ==
  /\ UniqueFds
  /\ \A p \in alive \cup zombies : \A d \in descriptors[p] :
       d \in Used /\ desc[d].pcb = p /\ d \in descriptors_ptrs[desc[d].res]
  /\ \A o \in Object : \A d \in descriptors_ptrs[o] :
       d \in Used /\ desc[d].res = o /\ o \notin free_res \cup free_que

\* The queue pool and msg_queues_list share the queues out, and so do, for the
\* plain resources, their pool and resources_list: none is lost, none is listed
\* that has been freed.
NothingLost ==
  /\ IsInjective(msg_queues_list) /\ IsInjective(resources_list)
  /\ ToSet(msg_queues_list) = Que \ free_que
  /\ ToSet(resources_list) \cap Res = Res \ free_res
  /\ ToSet(resources_list) \cap Que \subseteq Que \ free_que

\* The last process to close a queue destroys that queue, and nobody but the
\* last destroys one, although msgQueueClose passes on the name and several queues
\* may have it: an open queue is the first of its name, as long as the only queue
\* that openResource opens by its id is the oldest of all.
LastCloseDestroys ==
  [][\A p \in Proc, fd \in Fds : \A d \in ByFd(p, fd) :
       MsgQueueClose(p, fd) =>
         free_que' = free_que \cup
           (IF descriptors_ptrs[desc[d].res] = {d} THEN {desc[d].res} ELSE {})]_vars
=============================================================================
