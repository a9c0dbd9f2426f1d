------------------------------ MODULE JointForce ------------------------------
(***************************************************************************)
(* The force calls of one calculator, seen as the JointCalls of its ranks. *)
(***************************************************************************)
EXTENDS CollectiveForce

CONSTANT Watched    \* the calculator that is looked at

Team == {r \in Rank : CalcOf[r] = Watched}

\* A calculator of one rank decides alone, without a collective.
ASSUME WatchedAssumption == Watched \in Calculator /\ Cardinality(Team) >= 2

\* Calls whose joint decision is complete, and the engine calls that they and
\* those before them ask for.
DecidedCalls == {k \in UNION {DOMAIN agreed[q] : q \in Team} :
                   \A q \in Team : k \in DOMAIN agreed[q]}
AskedFor(k)  == UNION {agreed[q][k] : q \in Team}
DueUpTo(k)   == UNION {{n} \X AskedFor(n) : n \in {m \in DecidedCalls : m <= k}}

\* The state of JointCalls: what the decisions have made due, and how far each
\* rank is with its calls and its engine calls.
JointDue  == [k \in DecidedCalls |-> Cardinality(DueUpTo(k))]
Completed == [r \in Team |-> call[r] - 1]
Joined    == [r \in Team |-> Len(kernels[r])]

Joint == INSTANCE JointCalls WITH
  Member <- Team, due <- JointDue, done <- Completed, joined <- Joined, down <- aborted

\* The cached, failing, abortable force calls implement JointCalls: a rank's call
\* completes only when every rank of its calculator has entered every engine call
\* the joint decisions asked for (Potential.hpp:190-225, 273-342).
ImplementsJointCalls == Joint!Spec
=============================================================================
