------------------------------- MODULE MC_Sched -------------------------------
(* Instances of Sched.  Thread 0 is the bootstrap thread (kernel_main and *)
(* the shell): it creates the other threads and never calls sched_yield, *)
(* as in kernel.c.                                                        *)
EXTENDS Sched

\* The created threads all call sched_yield in a loop.
MCCoopYielders == {1, 2, 3, 4}
\* Threads 2 and 3 may also return from their fn (and park).
MCSafeYielders == {1, 2, 3, 4}
MCSafeReturners == {2, 3}
MCBoot == {0}
\* The bootstrap thread also calls sched_yield.
MCBootYields == {0, 1}
\* A created thread also calls kthread_create.
MCTwoCreators == {0, 1}
MCCreatedYield == {1, 2, 3}
MCOne == {1}
=============================================================================
