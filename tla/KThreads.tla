------------------------------- MODULE KThreads -------------------------------
(***************************************************************************)
(* What the kernel-thread scheduler promises (spec.md 4.6 and the         *)
(* process/thread core): a fixed pool of thread slots, slot 0 the         *)
(* bootstrap thread; exactly one thread RUNNING, the current one; a      *)
(* created thread is READY; a switch hands the CPU to the first READY    *)
(* slot after current in cyclic order, and the timer keeps switching, so *)
(* every READY thread gets to run.                                        *)
(***************************************************************************)
EXTENDS Integers

CONSTANT NThreads

VARIABLES th, current

Slot == 0 .. NThreads - 1

Ready == {t \in Slot : th[t] = "READY"}

\* How far t lies after c in cyclic order.
Dist(c, t) == (t - c) % NThreads

\* The round-robin successor of c.
Succ(c) == CHOOSE t \in Ready : \A u \in Ready : Dist(c, t) <= Dist(c, u)

Init ==
  /\ th = [i \in Slot |-> IF i = 0 THEN "RUNNING" ELSE "UNUSED"]
  /\ current = 0

Create(i) ==
  /\ th[i] = "UNUSED"
  /\ th' = [th EXCEPT ![i] = "READY"]
  /\ UNCHANGED current

Switch ==
  /\ Ready # {}
  /\ current' = Succ(current)
  /\ th' = [th EXCEPT ![current] = "READY", ![Succ(current)] = "RUNNING"]

Next == (\E i \in Slot \ {0} : Create(i)) \/ Switch

Spec == Init /\ [][Next]_<<th, current>> /\ WF_<<th, current>>(Switch)
=============================================================================
