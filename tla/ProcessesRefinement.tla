------------------------ MODULE ProcessesRefinement ------------------------
(* The kernel's lists implement the life cycle of processes.               *)
EXTENDS Processes

PidsOf(S) == {pid[b] : b \in S}

Lifecycle ==
  INSTANCE ProcessLifecycle WITH born    <- last_pid,
                                 running <- PidsOf(OnCpu),
                                 ready   <- PidsOf(ToSet(ready_list)),
                                 waiting <- PidsOf(waiting_list),
                                 zombies <- PidsOf(zombie_list)

\* Whatever the kernel does to its lists and pools, every pid goes through its
\* life once and in the order of ProcessLifecycle.
ImplementsLifecycle == Lifecycle!Spec
=============================================================================
