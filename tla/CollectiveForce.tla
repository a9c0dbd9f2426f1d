--------------------------- MODULE CollectiveForce ---------------------------
(***************************************************************************)
(* Force calls of a group-collective potential: the ranks of a calculator  *)
(* decide hit or miss jointly (CppCore/rgpot/Potential.hpp), run the engine *)
(* together, exchange its errors (CPMDPot.cc, CalculatorGroupMpi.cc), then *)
(* share results with the other calculators and finalize MPI.              *)
(*                                                                         *)
(* A collective on a communicator is a log per rank: the n-th call of one  *)
(* rank matches the n-th call of every other, whatever either meant by it. *)
(***************************************************************************)
EXTENDS Integers, Sequences, FiniteSets

CONSTANTS
  Rank,         \* ranks of MPI_COMM_WORLD
  Calculator,   \* calculators the world is split into
  CalcOf,       \* [Rank -> Calculator]
  System,       \* geometries, as the result cache keys them
  Workloads,    \* what a host asks of each calculator: a sequence of batches,
                \* a batch being a sequence of [Rank -> System]
  InitialCaches,\* what the ranks' cache directories hold: [Rank -> [System -> Record]]
  Refusals,     \* ranks whose binding a callback refused: subsets of Rank
  Owners,       \* the owner each rank names to shareFromCalculator
  MaxFaults     \* bound on the failures the engine and its inputs produce

Record == {"none", "whole", "short"}   \* absent, complete, truncated

\* A batch of no systems returns before any lookup (Potential.hpp:265-267).
Batch == Seq([Rank -> System]) \ {<< >>}

ASSUME WorldAssumption ==
  /\ IsFiniteSet(Rank)
  /\ CalcOf \in [Rank -> Calculator]
  /\ MaxFaults \in Nat
ASSUME HostAssumption ==
  /\ Workloads \subseteq [Calculator -> Seq(Batch)]
  /\ InitialCaches \subseteq [Rank -> [System -> Record]]
  /\ Refusals \subseteq SUBSET Rank

VARIABLES
  work, refused, opened, owner,    \* the environment, fixed by Init
  pc, call,                        \* where the host program of each rank is
  misses, todo,                    \* systems of this call to compute, still to compute
  failed,                          \* a force call of this rank has an error message
  cache,                           \* the rank's result cache
  agreed, kernels, counts, texts,  \* collectives each rank has entered
  faults, aborted                  \* failures so far; MPI_Abort(MPI_COMM_WORLD)

envVars == <<work, refused, opened, owner>>
logVars == <<agreed, kernels, counts, texts>>
vars == <<envVars, pc, call, misses, todo, failed, cache, logVars, faults, aborted>>

Init ==
  /\ work \in Workloads /\ refused \in Refusals /\ owner \in Owners
  /\ cache \in InitialCaches
  \* RocksDB opens a directory for one process only; a rank whose open failed
  \* still takes part, with a cache that never holds anything.
  /\ opened \in {S \in SUBSET Rank :
                  \A r \in Rank \ S : \A s \in System : cache[r][s] = "none"}
  /\ pc = [r \in Rank |-> "host"]
  /\ call = [r \in Rank |-> 1]
  /\ misses = [r \in Rank |-> {}]
  /\ todo = [r \in Rank |-> {}]
  /\ failed = [r \in Rank |-> FALSE]
  /\ agreed = [r \in Rank |-> << >>]
  /\ kernels = [r \in Rank |-> << >>]
  /\ counts = [r \in Rank |-> << >>]
  /\ texts = [r \in Rank |-> 0]
  /\ faults = 0
  /\ aborted = FALSE

Members(r) == {q \in Rank : CalcOf[q] = CalcOf[r]}
Single(r)  == Cardinality(Members(r)) < 2
Job(r)     == work[CalcOf[r]][call[r]]            \* the batch of the current call
Item(r)    == CHOOSE i \in todo[r] : \A j \in todo[r] : i <= j

Go(r, where) == pc' = [pc EXCEPT ![r] = where]

-----------------------------------------------------------------------------
(* The cache-aware entry points, operator() and forceBatch.                *)

\* A record without the metadata that a caller of stresses needs is a miss too; CPMD, the
\* one potential that is group collective, has no stress in its caps.
Lookup(r, i) == cache[r][Job(r)[i][r]]
Absent(r)    == {i \in DOMAIN Job(r) : Lookup(r, i) = "none"}

\* Each system is looked up in this rank's cache; the flags go into an
\* Allreduce over the calculator, which a calculator of one rank skips.
BeginCall(r) ==
  /\ pc[r] = "host" /\ call[r] <= Len(work[CalcOf[r]])
  /\ misses' = [misses EXCEPT ![r] = Absent(r)]
  /\ IF Single(r)
     THEN Go(r, "serve") /\ UNCHANGED agreed
     ELSE /\ Go(r, "agree")
          /\ agreed' = [agreed EXCEPT ![r] = Append(@, Absent(r))]
  /\ UNCHANGED <<envVars, call, todo, failed, cache, kernels, counts, texts,
                 faults, aborted>>

\* Mutant: each rank keeps its own decision.
OwnMisses(r) == agreed[r][Len(agreed[r])]

\* A system that any rank of the calculator misses is a miss on all of them.
JointMisses(r) == UNION {agreed[q][Len(agreed[r])] : q \in Members(r)}

AgreeReturns(r) ==
  /\ pc[r] = "agree"
  /\ \A q \in Members(r) : Len(agreed[q]) >= Len(agreed[r])
  /\ misses' = [misses EXCEPT ![r] = JointMisses(r)]
  /\ Go(r, "serve")
  /\ UNCHANGED <<envVars, call, todo, failed, cache, logVars, faults, aborted>>

Hits(r) == DOMAIN Job(r) \ misses[r]

Throws(r) == \E i \in Hits(r) : Lookup(r, i) = "short"

\* Hits are deserialized; what is left goes to the kernel.
ServeHits(r) ==
  /\ pc[r] = "serve"
  /\ ~Throws(r)
  /\ todo' = [todo EXCEPT ![r] = misses[r]]
  /\ Go(r, "force")
  /\ UNCHANGED <<envVars, call, misses, failed, cache, logVars, faults, aborted>>

\* deserialize_hit throws on a record shorter than the system needs.  A host
\* that catches it leaves the run or goes on with its next call.
ServeThrows(r) ==
  /\ pc[r] = "serve"
  /\ Throws(r)
  /\ misses' = [misses EXCEPT ![r] = {}]
  /\ \/ Go(r, "exit") /\ UNCHANGED call
     \/ Go(r, "host") /\ call' = [call EXCEPT ![r] = @ + 1]
  /\ UNCHANGED <<envVars, todo, failed, cache, logVars, faults, aborted>>

\* Every computed result is written back once the kernel is through.
EndCall(r) ==
  /\ pc[r] = "force" /\ todo[r] = {}
  /\ cache' = [cache EXCEPT ![r] =
       [s \in System |->
          IF r \in opened /\ \E i \in misses[r] : Job(r)[i][r] = s
          THEN "whole" ELSE @[s]]]
  /\ misses' = [misses EXCEPT ![r] = {}]
  /\ call' = [call EXCEPT ![r] = @ + 1]
  /\ Go(r, "host")
  /\ UNCHANGED <<envVars, todo, failed, logVars, faults, aborted>>

-----------------------------------------------------------------------------
(* CPMDPot::forceImpl: the engine call and the exchange of errors that     *)
(* ends it on every path.                                                  *)

\* publishCalculatorError(error): without peers, an error aborts at once.
Publish(r, error) ==
  /\ failed' = [failed EXCEPT ![r] = error]
  /\ IF Single(r)
     THEN /\ UNCHANGED counts
          /\ IF error
             THEN aborted' = TRUE /\ UNCHANGED <<pc, todo>>
             ELSE /\ todo' = [todo EXCEPT ![r] = @ \ {Item(r)}]
                  /\ Go(r, "force")
                  /\ UNCHANGED aborted
     ELSE /\ counts' = [counts EXCEPT ![r] =
               Append(@, [call |-> call[r], item |-> Item(r), error |-> error])]
          /\ Go(r, "counts")
          /\ UNCHANGED <<todo, aborted>>

\* A refused binding, an engine that is not loaded, a bad buffer.
ForceRejected(r) ==
  /\ pc[r] = "force" /\ todo[r] # {}
  /\ \/ r \in refused /\ UNCHANGED faults
     \/ r \notin refused /\ faults < MaxFaults /\ faults' = faults + 1
  /\ Publish(r, TRUE)
  /\ UNCHANGED <<envVars, call, misses, cache, agreed, kernels, texts>>

EnterEngine(r) ==
  /\ pc[r] = "force" /\ todo[r] # {}
  /\ r \notin refused
  /\ kernels' = [kernels EXCEPT ![r] = Append(@, <<call[r], Item(r)>>)]
  /\ Go(r, "engine")
  /\ UNCHANGED <<envVars, call, misses, todo, failed, cache, agreed, counts, texts,
                 faults, aborted>>

EngineMet(r) == \A q \in Members(r) : Len(kernels[q]) >= Len(kernels[r])

\* The engine's collectives end when every rank of the calculator is in them.
EngineReturns(r) ==
  /\ pc[r] = "engine"
  /\ EngineMet(r)
  /\ \A q \in Members(r) : ~failed[q]
  /\ Publish(r, FALSE)
  /\ UNCHANGED <<envVars, call, misses, cache, agreed, kernels, texts, faults>>

\* After a peer has failed inside the call this rank may hang in a later
\* collective of the engine, or still come back.
EngineReturnsAnyway(r) ==
  /\ pc[r] = "engine"
  /\ EngineMet(r)
  /\ \E q \in Members(r) : failed[q]
  /\ Publish(r, FALSE)
  /\ UNCHANGED <<envVars, call, misses, cache, agreed, kernels, texts, faults>>

\* The engine reports an error on this rank, before or after its peers came.
EngineFails(r) ==
  /\ pc[r] = "engine"
  /\ faults < MaxFaults /\ faults' = faults + 1
  /\ Publish(r, TRUE)
  /\ UNCHANGED <<envVars, call, misses, cache, agreed, kernels, texts>>

CountsMet(r) == \A q \in Members(r) : Len(counts[q]) >= Len(counts[r])
TextsMet(r)  == \A q \in Members(r) : texts[q] >= texts[r]

\* Mutant: a rank looks at the counts of its peers only.
PeerError(r) == \E q \in Members(r) \ {r} : counts[q][Len(counts[r])].error

AnyError(r) == \E q \in Members(r) : counts[q][Len(counts[r])].error

\* The first Iallgather: nobody failed, and the force call returns ...
CountsClean(r) ==
  /\ pc[r] = "counts"
  /\ CountsMet(r) /\ ~AnyError(r)
  /\ todo' = [todo EXCEPT ![r] = @ \ {Item(r)}]
  /\ Go(r, "force")
  /\ UNCHANGED <<envVars, call, misses, failed, cache, logVars, faults, aborted>>

\* ... or somebody did, and the messages follow in a second one.
CountsDirty(r) ==
  /\ pc[r] = "counts"
  /\ CountsMet(r) /\ AnyError(r)
  /\ texts' = [texts EXCEPT ![r] = @ + 1]
  /\ Go(r, "text")
  /\ UNCHANGED <<envVars, call, misses, todo, failed, cache, agreed, kernels, counts,
                 faults, aborted>>

\* Mutant: the message is printed and the world goes on.
TextsPrinted(r) ==
  /\ pc[r] = "text"
  /\ TextsMet(r)
  /\ todo' = [todo EXCEPT ![r] = @ \ {Item(r)}]
  /\ Go(r, "force")
  /\ UNCHANGED <<envVars, call, misses, failed, cache, logVars, faults, aborted>>

TextsReturn(r) ==
  /\ pc[r] = "text"
  /\ TextsMet(r)
  /\ aborted' = TRUE
  /\ UNCHANGED <<envVars, pc, call, misses, todo, failed, cache, logVars, faults>>

\* Mutants: nobody gives up; everybody does.
Patient(r) == FALSE
Hasty(r)   == TRUE

\* Only a rank with a message of its own gives up on its peers.
Impatient(r) == failed[r]

WaitTimesOut(r) ==
  /\ \/ pc[r] = "counts" /\ ~CountsMet(r)
     \/ pc[r] = "text" /\ ~TextsMet(r)
  /\ Impatient(r)
  /\ aborted' = TRUE
  /\ UNCHANGED <<envVars, pc, call, misses, todo, failed, cache, logVars, faults>>

-----------------------------------------------------------------------------
(* After the calls: shareFromCalculator on the world, then MPI_Finalize.   *)

EnterShare(r) ==
  /\ pc[r] = "host" /\ call[r] > Len(work[CalcOf[r]])
  /\ Go(r, "share")
  /\ UNCHANGED <<envVars, call, misses, todo, failed, cache, logVars, faults, aborted>>

\* The Allgather of every rank's owner, which only the whole world completes.
ShareMet    == \A q \in Rank : pc[q] \in {"share", "leave"}
OwnersAgree == \A q, r \in Rank : owner[q] = owner[r] /\ owner[r] \in Calculator

ShareReturns(r) ==
  /\ pc[r] = "share"
  /\ ShareMet /\ OwnersAgree
  /\ Go(r, "leave")
  /\ UNCHANGED <<envVars, call, misses, todo, failed, cache, logVars, faults, aborted>>

\* A bad or disagreeing owner aborts the world.
ShareRejected(r) ==
  /\ pc[r] = "share"
  /\ ShareMet /\ ~OwnersAgree
  /\ aborted' = TRUE
  /\ UNCHANGED <<envVars, pc, call, misses, todo, failed, cache, logVars, faults>>

\* MPI_Finalize, from the exit handler, is a collective of the world as well.
Leaving(r) == pc[r] \in {"exit", "leave"}
Finalized  == \A r \in Rank : Leaving(r)

-----------------------------------------------------------------------------

\* What a rank does as long as it is scheduled.
Proceed(r) ==
  \/ BeginCall(r) \/ AgreeReturns(r) \/ ServeHits(r) \/ ServeThrows(r) \/ EndCall(r)
  \/ EnterEngine(r) \/ EngineReturns(r)
  \/ (r \in refused /\ ForceRejected(r))
  \/ CountsClean(r) \/ CountsDirty(r) \/ TextsReturn(r) \/ WaitTimesOut(r)
  \/ EnterShare(r) \/ ShareReturns(r) \/ ShareRejected(r)

\* What may happen to it instead.
Mishap(r) ==
  \/ (r \notin refused /\ ForceRejected(r))
  \/ EngineFails(r) \/ EngineReturnsAnyway(r)

Next ==
  \/ ~aborted /\ \E r \in Rank : Proceed(r) \/ Mishap(r)
  \/ (aborted \/ Finalized) /\ UNCHANGED vars

Spec == Init /\ [][Next]_vars

\* The operating system schedules every rank, MPI completes a collective all of
\* whose ranks have arrived, and the ten seconds of waitRequest run out.  No
\* fairness on failures, nor on an engine call that a peer has abandoned.
FairSpec == Spec /\ \A r \in Rank : WF_vars(~aborted /\ Proceed(r))

-----------------------------------------------------------------------------
(* Properties.                                                             *)

Post == [call : Nat, item : Nat, error : BOOLEAN]

\* Every variable has its type.
TypeOK ==
  /\ work \in [Calculator -> Seq(Batch)]
  /\ refused \subseteq Rank /\ opened \subseteq Rank
  /\ pc \in [Rank -> {"host", "agree", "serve", "force", "engine", "counts",
                       "text", "share", "leave", "exit"}]
  /\ call \in [Rank -> Nat \ {0}]
  /\ misses \in [Rank -> SUBSET Nat]
  /\ todo \in [Rank -> SUBSET Nat]
  /\ \A r \in Rank : todo[r] \subseteq misses[r]
  /\ failed \in [Rank -> BOOLEAN]
  /\ cache \in [Rank -> [System -> Record]]
  /\ agreed \in [Rank -> Seq(SUBSET Nat)]
  /\ kernels \in [Rank -> Seq(Nat \X Nat)]
  /\ counts \in [Rank -> Seq(Post)]
  /\ texts \in [Rank -> Nat]
  /\ faults \in Nat
  /\ aborted \in BOOLEAN

Decided(r) == pc[r] \in {"serve", "force", "engine", "counts", "text"}

\* Two ranks of a calculator that are past the joint decision of the same call
\* compute the same systems of it, whatever their own caches held and however
\* far apart they run ("Every rank must agree before any skips the collective
\* call", Potential.hpp:197, 291-292).
JointDecision ==
  \A q, r \in Rank :
    /\ CalcOf[q] = CalcOf[r] /\ call[q] = call[r]
    /\ Decided(q) /\ Decided(r)
    => misses[q] = misses[r]

Prefix(s, t) == \A n \in 1 .. Len(s) : n <= Len(t) => s[n] = t[n]

\* MPI matches the n-th collective of one rank with the n-th of its peers: the
\* engine calls and error exchanges that are matched belong to the same system
\* of the same call (Potential.hpp:286-317, CPMDPot.cc:584-596).
CollectivesMatch ==
  \A q, r \in Rank : CalcOf[q] = CalcOf[r] =>
    /\ Prefix(kernels[q], kernels[r])
    /\ Prefix([n \in DOMAIN counts[q] |-> [counts[q][n] EXCEPT !.error = FALSE]],
              [n \in DOMAIN counts[r] |-> [counts[r][n] EXCEPT !.error = FALSE]])

\* A force call with an error never returns to its host: until the world is
\* aborted, the rank is inside the error exchange (CalculatorGroup.hpp:133-138).
FailureNeverReturns ==
  \A r \in Rank : failed[r] => aborted \/ pc[r] \in {"counts", "text"}

\* The world is aborted only for a cause: a failure or refusal of a calculator
\* that computed, or a bad share; a rank that merely waits for a slow peer never
\* aborts it (CalculatorGroupMpi.cc:293-298, 323-328).
AbortHasCause ==
  aborted => (\E r \in Rank : failed[r]) \/ ~OwnersAgree

\* The guards of Proceed: where a rank may have to wait for others.
CanProceed(r) ==
  /\ ~Leaving(r)
  /\ pc[r] = "agree"  => \A q \in Members(r) : Len(agreed[q]) >= Len(agreed[r])
  /\ pc[r] = "engine" => EngineMet(r) /\ \A q \in Members(r) : ~failed[q]
  /\ pc[r] = "counts" => CountsMet(r) \/ Impatient(r)
  /\ pc[r] = "text"   => TextsMet(r) \/ Impatient(r)
  /\ pc[r] = "share"  => ShareMet

\* No ranks wait for each other, in decisions, engine, exchange and share together:
\* until all ranks meet in MPI_Finalize or the world is aborted, one of them goes on
\* by itself, without a failure and without an engine that peers have left
\* (Potential.hpp:190-225, CalculatorGroupMpi.cc:259-298, docs/orgmode/reference/
\* mpi.org:53-54).
NobodyStuck == aborted \/ Finalized \/ \E r \in Rank : CanProceed(r)

\* "A geometry that any rank of the calculator misses is computed on all of its
\* ranks, so no rank waits alone inside the call" (docs/orgmode/reference/
\* mpi.org:53-54): every engine call ends.
NoRankWaitsAlone == \A r \in Rank : (pc[r] = "engine") ~> (aborted \/ pc[r] # "engine")

\* With uneven batches, idle calculators and failures anywhere, the run ends: all
\* ranks meet in MPI_Finalize and none has failed, or the world goes down, with the
\* peers of a failed rank, which wait in the engine or in the exchange, and the idle
\* calculators, which wait in the share (CalculatorGroupMpi.cc:259-264).
RunEnds == <>(aborted \/ (Finalized /\ \A r \in Rank : ~failed[r]))

=============================================================================
