------------------------------ MODULE JointCalls ------------------------------
(***************************************************************************)
(* What a group-collective potential promises the hosts of one calculator, *)
(* without caches, engines or messages: call after call, the ranks decide  *)
(* once how many kernels the call needs, every rank runs all of them, and  *)
(* no rank's call completes before every peer has run them too.            *)
(* CollectiveForce implements it.                                          *)
(***************************************************************************)
EXTENDS Integers, Sequences

CONSTANT Member     \* the ranks of one calculator

VARIABLES
  due,      \* per decided call, the kernels due once it and all before it end
  done,     \* calls each rank has completed
  joined,   \* kernels each rank has entered
  down      \* the world was aborted

jointVars == <<due, done, joined, down>>

Init ==
  /\ due = << >>
  /\ done = [r \in Member |-> 0]
  /\ joined = [r \in Member |-> 0]
  /\ down = FALSE

Total == IF due = << >> THEN 0 ELSE due[Len(due)]

\* One decision per call, once every rank is through with the one before.
Decide ==
  /\ \A r \in Member : done[r] = Len(due)
  /\ Len(due') = Len(due) + 1
  /\ SubSeq(due', 1, Len(due)) = due
  /\ due'[Len(due')] >= Total
  /\ UNCHANGED <<done, joined, down>>

Join(r) ==
  /\ joined[r] < Total
  /\ joined' = [joined EXCEPT ![r] = @ + 1]
  /\ UNCHANGED <<due, done, down>>

Complete(r) ==
  /\ done[r] < Len(due)
  /\ \A q \in Member : joined[q] >= due[done[r] + 1]
  /\ done' = [done EXCEPT ![r] = @ + 1]
  /\ UNCHANGED <<due, joined, down>>

GoDown == down' = TRUE /\ UNCHANGED <<due, done, joined>>

Next ==
  /\ ~down
  /\ \/ Decide
     \/ \E r \in Member : Join(r) \/ Complete(r)
     \/ GoDown

Spec == Init /\ [][Next]_jointVars

=============================================================================
