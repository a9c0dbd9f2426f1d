------------------------ MODULE CollectiveForceProofs ------------------------
(***************************************************************************)
(* Safety of the force calls for every number of ranks, calculators,       *)
(* systems, calls and failures.  IInv says where a rank is in its call,    *)
(* what the joint decisions are, and where error messages are.  LogsInv,   *)
(* for caches without truncated records, says in which order the engine    *)
(* calls and the error exchanges are logged; from it follow what MPI       *)
(* matches, that the calls implement JointCalls, and that nobody is stuck. *)
(***************************************************************************)
EXTENDS JointForce, FiniteSetTheorems, SequenceTheorems,
        WellFoundedInduction, TLAPS

\* Where a rank is: inside a call of its workload, with nothing left over from
\* the call before, and something to compute while it is in the engine.
InCall == {"agree", "serve", "force", "engine", "counts", "text"}

CallInv(r) ==
  /\ pc[r] \in InCall => call[r] <= Len(work[CalcOf[r]])
  /\ pc[r] \in {"engine", "counts", "text"} => todo[r] # {}
  /\ pc[r] \notin {"force", "engine", "counts", "text"} => todo[r] = {}
  /\ pc[r] = "agree" => ~Single(r)

\* What was decided: a rank has posted its flags for the calls it has begun, and
\* keeps the union of what its calculator posted for the call it is in.
AgreedInv(r) ==
  ~Single(r) =>
    /\ Len(agreed[r]) = IF pc[r] \in {"host", "share", "leave"} THEN call[r] - 1 ELSE call[r]
    /\ Decided(r) =>
         /\ \A q \in Members(r) : Len(agreed[q]) >= call[r]
         /\ misses[r] = UNION {agreed[q][call[r]] : q \in Members(r)}

\* Where errors are: a failed rank is in the exchange, what it posted last there
\* says so, and a rank waits for messages only when somebody failed.
ErrorInv(r) ==
  /\ failed[r] => aborted \/ pc[r] \in {"counts", "text"}
  /\ pc[r] = "counts" =>
       /\ counts[r] # << >>
       /\ counts[r][Len(counts[r])].error = failed[r]
  /\ \A n \in DOMAIN counts[r] : counts[r][n].error => failed[r]
  /\ pc[r] = "text" => \E q \in Rank : failed[q]

IInv ==
  /\ TypeOK
  /\ \A r \in Rank : CallInv(r) /\ AgreedInv(r) /\ ErrorInv(r)
  /\ AbortHasCause

-----------------------------------------------------------------------------
(* Lemmas about the operators.                                             *)

\* A set of natural numbers that is not empty has a least element (the initial
\* segments it bounds are finite, and strict inclusion of those is well-founded).
LEMMA LeastNat ==
  ASSUME NEW S \in SUBSET Nat, S # {}
  PROVE  \E i \in S : \A j \in S : i <= j
<1> DEFINE Initial == {0 .. i : i \in S}
<1>1. Initial \subseteq FiniteSubsetsOf(Nat) /\ Initial # {}
  <2>1. ASSUME NEW i \in S PROVE IsFiniteSet(0 .. i) /\ 0 .. i \in SUBSET Nat
    <3>1. i \in Int
      OBVIOUS
    <3> QED BY <3>1, FS_Interval
  <2> QED BY <2>1 DEF FiniteSubsetsOf
<1>2. PICK I \in Initial : \A J \in Initial : <<J, I>> \notin StrictSubsetOrdering(Nat)
  <2> HIDE DEF Initial
  <2>1. IsWellFoundedOn(StrictSubsetOrdering(Nat), FiniteSubsetsOf(Nat))
    BY FS_StrictSubsetOrderingWellFounded
  <2> QED BY <1>1, <2>1, WFMin
<1>3. PICK i \in S : I = 0 .. i
  OBVIOUS
<1>4. ASSUME NEW j \in S, ~(i <= j) PROVE FALSE
  <2>1. 0 .. j \in Initial
    OBVIOUS
  <2>2. /\ 0 .. j \subseteq 0 .. i /\ 0 .. j # 0 .. i
        /\ 0 .. j \in SUBSET Nat /\ 0 .. i \in SUBSET Nat
    <3>1. i \in 0 .. i /\ i \notin 0 .. j
      BY <1>4
    <3> QED BY <1>4, <3>1
  <2>3. <<0 .. j, 0 .. i>> \in StrictSubsetOrdering(Nat)
    BY <2>2 DEF StrictSubsetOrdering
  <2> QED BY <1>2, <1>3, <2>1, <2>3
<1> QED BY <1>4

\* The item a rank computes next is one of those it still has to compute.
LEMMA ItemType ==
  ASSUME TypeOK, NEW r \in Rank, todo[r] # {}
  PROVE  Item(r) \in todo[r] /\ Item(r) \in Nat
<1>1. todo[r] \in SUBSET Nat
  BY DEF TypeOK
<1>2. \E i \in todo[r] : \A j \in todo[r] : i <= j
  BY <1>1, LeastNat
<1> QED BY <1>1, <1>2 DEF Item

\* What a rank misses in its own cache are positions in its batch.
LEMMA AbsentType ==
  ASSUME TypeOK, NEW r \in Rank, call[r] <= Len(work[CalcOf[r]])
  PROVE  Absent(r) \in SUBSET Nat
<1>1. work[CalcOf[r]] \in Seq(Batch) /\ call[r] \in 1 .. Len(work[CalcOf[r]])
  BY WorldAssumption DEF TypeOK
<1>2. Job(r) \in Batch
  BY <1>1 DEF Job
<1>3. DOMAIN Job(r) \in SUBSET Nat
  BY <1>2 DEF Batch
<1> QED BY <1>3 DEF Absent

\* A rank that arrived in the Allreduce finds natural numbers there.
LEMMA JointMissesType ==
  ASSUME TypeOK, NEW r \in Rank,
         agreed[r] # << >>,
         \A q \in Members(r) : Len(agreed[q]) >= Len(agreed[r])
  PROVE  JointMisses(r) \in SUBSET Nat
<1>1. ASSUME NEW q \in Members(r) PROVE agreed[q][Len(agreed[r])] \in SUBSET Nat
  <2>1. agreed[q] \in Seq(SUBSET Nat) /\ agreed[r] \in Seq(SUBSET Nat)
    BY DEF TypeOK, Members
  <2>2. Len(agreed[r]) \in 1 .. Len(agreed[q])
    BY <2>1
  <2> QED BY <2>1, <2>2
<1> QED BY <1>1 DEF JointMisses

\* Two ranks of a calculator of one rank are the same rank.
LEMMA SingleMember ==
  ASSUME NEW q \in Rank, NEW r \in Rank, CalcOf[q] = CalcOf[r], Single(r)
  PROVE  q = r
<1>1. SUFFICES ASSUME q # r PROVE FALSE
  OBVIOUS
<1>2. {q, r} \subseteq Members(r) /\ IsFiniteSet(Members(r))
  BY WorldAssumption, FS_Subset DEF Members
<1>3. IsFiniteSet({q}) /\ Cardinality({q}) = 1
  BY FS_Singleton
<1>4. Cardinality({q, r}) = 2
  <2>1. {q} \cup {r} = {q, r}
    OBVIOUS
  <2> QED BY <1>1, <1>3, <2>1, FS_AddElement
<1>5. Cardinality({q, r}) <= Cardinality(Members(r))
  BY <1>2, FS_Subset
<1>6. Cardinality(Members(r)) \in Nat
  BY <1>2, FS_CardinalityType
<1>7. Cardinality(Members(r)) < 2
  BY DEF Single
<1> QED BY <1>4, <1>5, <1>6, <1>7

-----------------------------------------------------------------------------
(* Each part of the invariant, step by step.                               *)

\* A step of one rank leaves the others where they are.
LEMMA CallFrame ==
  ASSUME \A s \in Rank : CallInv(s), NEW r \in Rank, UNCHANGED work,
         \A s \in Rank \ {r} : /\ pc'[s] = pc[s]
                               /\ call'[s] = call[s]
                               /\ todo'[s] = todo[s]
  PROVE  \A s \in Rank \ {r} : CallInv(s)'
BY DEF CallInv, InCall, Single, Members

\* Every way out of a force call, with or without an error.
LEMMA PublishCall ==
  ASSUME TypeOK, \A s \in Rank : CallInv(s),
         NEW r \in Rank, pc[r] \in {"force", "engine"}, todo[r] # {},
         NEW error \in BOOLEAN, Publish(r, error),
         UNCHANGED <<envVars, call, misses>>
  PROVE  /\ pc' \in [Rank -> {"host", "agree", "serve", "force", "engine", "counts",
                               "text", "share", "leave", "exit"}]
         /\ todo' \in [Rank -> SUBSET Nat]
         /\ \A s \in Rank : todo'[s] \subseteq misses'[s]
         /\ failed' \in [Rank -> BOOLEAN]
         /\ counts' \in [Rank -> Seq(Post)]
         /\ aborted' \in BOOLEAN
         /\ \A s \in Rank : CallInv(s)'
<1> USE DEF envVars, Go
<1>1. Item(r) \in Nat
  BY ItemType
<1>2. failed' \in [Rank -> BOOLEAN] /\ aborted' \in BOOLEAN
  BY DEF TypeOK, Publish
<1>3. CASE Single(r) /\ error
  BY <1>2, <1>3 DEF TypeOK, Publish, CallInv, InCall, Single, Members
<1>4. CASE Single(r) /\ ~error
  <2>1. /\ pc' = [pc EXCEPT ![r] = "force"]
        /\ todo' = [todo EXCEPT ![r] = @ \ {Item(r)}]
        /\ UNCHANGED <<counts, aborted>>
    BY <1>4 DEF Publish
  <2>2. \A s \in Rank \ {r} : CallInv(s)'
    BY <2>1, CallFrame DEF TypeOK
  <2>3. CallInv(r)'
    BY <2>1 DEF TypeOK, CallInv, InCall
  <2> QED BY <1>2, <2>1, <2>2, <2>3 DEF TypeOK
<1>5. CASE ~Single(r)
  <2>1. [call |-> call[r], item |-> Item(r), error |-> error] \in Post
    BY <1>1 DEF TypeOK, Post
  <2>2. counts' \in [Rank -> Seq(Post)]
    <3> DEFINE post == [call |-> call[r], item |-> Item(r), error |-> error]
    <3>1. counts' = [counts EXCEPT ![r] = Append(@, post)]
      BY <1>5 DEF Publish
    <3>2. counts \in [Rank -> Seq(Post)] /\ post \in Post
      BY <2>1 DEF TypeOK
    <3> HIDE DEF post
    <3> QED BY <3>1, <3>2
  <2>3. /\ pc' = [pc EXCEPT ![r] = "counts"]
        /\ UNCHANGED <<todo, aborted>>
    BY <1>5 DEF Publish
  <2>4. \A s \in Rank : CallInv(s)'
    BY <2>3 DEF TypeOK, CallInv, InCall, Single, Members
  <2> QED BY <1>2, <2>2, <2>3, <2>4 DEF TypeOK
<1> QED BY <1>3, <1>4, <1>5

\* Types, and where a rank is in its call.
LEMMA CallStep ==
  ASSUME TypeOK, \A s \in Rank : CallInv(s), \A s \in Rank : AgreedInv(s),
         NEW r \in Rank, Proceed(r) \/ Mishap(r)
  PROVE  TypeOK' /\ \A s \in Rank : CallInv(s)'
<1> USE DEF envVars, logVars, Go
<1>1. CASE BeginCall(r)
  <2>1. Absent(r) \in SUBSET Nat
    BY <1>1, AbsentType DEF BeginCall
  <2>2. /\ misses' = [misses EXCEPT ![r] = Absent(r)]
        /\ \/ Single(r) /\ pc' = [pc EXCEPT ![r] = "serve"] /\ UNCHANGED agreed
           \/ /\ ~Single(r) /\ pc' = [pc EXCEPT ![r] = "agree"]
              /\ agreed' = [agreed EXCEPT ![r] = Append(@, Absent(r))]
        /\ UNCHANGED <<envVars, call, todo, failed, cache, kernels, counts, texts,
                       faults, aborted>>
    BY <1>1 DEF BeginCall
  <2>3. pc[r] = "host" /\ todo[r] = {} /\ call[r] <= Len(work[CalcOf[r]])
    BY <1>1 DEF BeginCall, CallInv
  <2>4. agreed' \in [Rank -> Seq(SUBSET Nat)]
    <3>1. agreed \in [Rank -> Seq(SUBSET Nat)]
      BY DEF TypeOK
    <3>2. CASE UNCHANGED agreed
      BY <3>1, <3>2
    <3>3. CASE agreed' = [agreed EXCEPT ![r] = Append(@, Absent(r))]
      <4>1. agreed[r] \in Seq(SUBSET Nat)
        BY <3>1
      <4>2. Append(agreed[r], Absent(r)) \in Seq(SUBSET Nat)
        BY <2>1, <4>1, AppendProperties
      <4> QED BY <3>1, <3>3, <4>2
    <3> QED BY <2>2, <3>2, <3>3
  <2>5. misses' \in [Rank -> SUBSET Nat] /\ \A s \in Rank : todo'[s] \subseteq misses'[s]
    BY <2>1, <2>2, <2>3 DEF TypeOK
  <2>6. TypeOK'
    BY <2>2, <2>4, <2>5 DEF TypeOK
  <2>7. \A s \in Rank : CallInv(s)'
    <3>1. \A s \in Rank \ {r} : CallInv(s)'
      BY <2>2, CallFrame DEF TypeOK
    <3>2. pc'[r] \in {"serve", "agree"} /\ (pc'[r] = "agree" => ~Single(r))
      BY <2>2 DEF TypeOK
    <3>3. CallInv(r)'
      BY <2>2, <2>3, <3>2 DEF TypeOK, CallInv, InCall, Single, Members
    <3> QED BY <3>1, <3>3
  <2> QED BY <2>6, <2>7
<1>2. CASE AgreeReturns(r)
  <2>1. agreed[r] # << >>
    <3>1. ~Single(r) /\ pc[r] = "agree"
      BY <1>2 DEF AgreeReturns, CallInv
    <3>2. Len(agreed[r]) = call[r] /\ call[r] \in Nat \ {0}
      BY <3>1 DEF AgreedInv, TypeOK
    <3> QED BY <3>2
  <2>2. JointMisses(r) \in SUBSET Nat
    BY <1>2, <2>1, JointMissesType DEF AgreeReturns
  <2>3. todo[r] = {}
    BY <1>2 DEF AgreeReturns, CallInv
  <2> QED BY <1>2, <2>2, <2>3 DEF AgreeReturns, TypeOK, CallInv, InCall, Single, Members
<1>3. CASE ServeHits(r)
  BY <1>3 DEF ServeHits, TypeOK, CallInv, InCall, Single, Members
<1>4. CASE ServeThrows(r)
  <2>1. todo[r] = {} /\ pc[r] = "serve"
    BY <1>4 DEF ServeThrows, CallInv
  <2>2. CASE pc' = [pc EXCEPT ![r] = "exit"] /\ UNCHANGED call
    BY <1>4, <2>1, <2>2 DEF ServeThrows, TypeOK, CallInv, InCall, Single, Members
  <2>3. CASE pc' = [pc EXCEPT ![r] = "host"] /\ call' = [call EXCEPT ![r] = @ + 1]
    <3>1. TypeOK'
      BY <1>4, <2>1, <2>3 DEF ServeThrows, TypeOK
    <3>2. \A s \in Rank \ {r} : CallInv(s)'
      BY <1>4, <2>3, CallFrame DEF ServeThrows, TypeOK
    <3>3. CallInv(r)'
      BY <1>4, <2>1, <2>3 DEF ServeThrows, TypeOK, CallInv, InCall
    <3> QED BY <3>1, <3>2, <3>3
  <2> QED BY <1>4, <2>2, <2>3 DEF ServeThrows
<1>5. CASE EndCall(r)
  <2>1. cache' \in [Rank -> [System -> Record]]
    <3> DEFINE new == [s \in System |->
                 IF r \in opened /\ \E i \in misses[r] : Job(r)[i][r] = s
                 THEN "whole" ELSE cache[r][s]]
    <3>1. new \in [System -> Record]
      BY DEF TypeOK, Record
    <3>2. cache' = [cache EXCEPT ![r] = new]
      BY <1>5 DEF EndCall
    <3> HIDE DEF new
    <3> QED BY <3>1, <3>2 DEF TypeOK
  <2>2. TypeOK'
    BY <1>5, <2>1, SMTT(40) DEF EndCall, TypeOK
  <2>3. \A s \in Rank \ {r} : CallInv(s)'
    BY <1>5, CallFrame DEF EndCall, TypeOK
  <2>4. CallInv(r)'
    BY <1>5 DEF EndCall, TypeOK, CallInv, InCall
  <2> QED BY <2>2, <2>3, <2>4
<1>6. CASE EnterEngine(r)
  <2>1. Item(r) \in Nat
    BY <1>6, ItemType DEF EnterEngine
  <2>2. kernels' \in [Rank -> Seq(Nat \X Nat)]
    BY <1>6, <2>1 DEF EnterEngine, TypeOK
  <2> QED BY <1>6, <2>2 DEF EnterEngine, TypeOK, CallInv, InCall, Single, Members
<1>7. CASE EngineReturns(r) \/ EngineReturnsAnyway(r)
  <2>1. /\ pc[r] = "engine" /\ Publish(r, FALSE)
        /\ UNCHANGED <<envVars, call, misses, cache, agreed, kernels, texts, faults>>
    BY <1>7 DEF EngineReturns, EngineReturnsAnyway
  <2>2. todo[r] # {}
    BY <2>1 DEF CallInv
  <2> QED BY <2>1, <2>2, PublishCall DEF TypeOK
<1>8. CASE ForceRejected(r) \/ EngineFails(r)
  <2>1. /\ pc[r] \in {"force", "engine"} /\ todo[r] # {} /\ Publish(r, TRUE)
        /\ UNCHANGED <<envVars, call, misses, cache, agreed, kernels, texts>>
    BY <1>8 DEF ForceRejected, EngineFails, CallInv
  <2>2. faults' \in Nat
    <3>1. faults \in Nat
      BY DEF TypeOK
    <3>2. UNCHANGED faults \/ faults' = faults + 1
      BY <1>8 DEF ForceRejected, EngineFails
    <3> QED BY <3>1, <3>2
  <2> QED BY <2>1, <2>2, PublishCall DEF TypeOK
<1>9. CASE CountsClean(r)
  BY <1>9 DEF CountsClean, TypeOK, CallInv, InCall, Single, Members
<1>10. CASE CountsDirty(r)
  <2>1. TypeOK'
    BY <1>10 DEF CountsDirty, TypeOK
  <2>2. \A s \in Rank : CallInv(s)'
    BY <1>10 DEF CountsDirty, TypeOK, CallInv, InCall, Single, Members
  <2> QED BY <2>1, <2>2
<1>11. CASE TextsReturn(r) \/ WaitTimesOut(r) \/ ShareRejected(r)
  BY <1>11 DEF TextsReturn, WaitTimesOut, ShareRejected, TypeOK, CallInv, InCall,
               Single, Members
<1>12. CASE EnterShare(r) \/ ShareReturns(r)
  BY <1>12, ZenonT(60) DEF EnterShare, ShareReturns, TypeOK, CallInv, InCall, Single, Members
<1> QED
  BY <1>1, <1>2, <1>3, <1>4, <1>5, <1>6, <1>7, <1>8, <1>9, <1>10, <1>11, <1>12
  DEF Proceed, Mishap

\* A step that decides nothing keeps what was decided.
LEMMA AgreedKept ==
  ASSUME \A s \in Rank : AgreedInv(s), UNCHANGED <<call, misses, agreed>>,
         \A s \in Rank : /\ pc'[s] \in {"host", "share", "leave"}
                              <=> pc[s] \in {"host", "share", "leave"}
                         /\ Decided(s)' => Decided(s)
  PROVE  \A s \in Rank : AgreedInv(s)'
BY DEF AgreedInv, Decided, Single, Members

\* The end of a call on one rank does not concern the others.
LEMMA AgreedLeft ==
  ASSUME TypeOK, \A s \in Rank : AgreedInv(s), NEW r \in Rank, UNCHANGED agreed,
         \A s \in Rank \ {r} : pc'[s] = pc[s] /\ call'[s] = call[s] /\ misses'[s] = misses[s],
         pc[r] \in InCall \ {"agree"},
         \/ pc'[r] = "exit" /\ call'[r] = call[r]
         \/ pc'[r] = "host" /\ call'[r] = call[r] + 1
  PROVE  \A s \in Rank : AgreedInv(s)'
<1>1. \A s \in Rank \ {r} : AgreedInv(s)'
  BY DEF AgreedInv, Decided, Single, Members
<1>2. AgreedInv(r)'
  <2>1. call[r] \in Nat
    BY DEF TypeOK
  <2> QED BY <2>1 DEF AgreedInv, Decided, Single, Members, InCall
<1> QED BY <1>1, <1>2

\* The joint decisions.
LEMMA AgreedStep ==
  ASSUME TypeOK, \A s \in Rank : AgreedInv(s), \A s \in Rank : CallInv(s),
         NEW r \in Rank, Proceed(r) \/ Mishap(r)
  PROVE  \A s \in Rank : AgreedInv(s)'
<1> USE DEF envVars, logVars, Go
<1>1. CASE BeginCall(r)
  <2>1. CASE Single(r)
    <3>1. UNCHANGED <<call, agreed>>
      BY <1>1, <2>1 DEF BeginCall
    <3>2. \A s \in Rank \ {r} : pc'[s] = pc[s] /\ misses'[s] = misses[s]
      BY <1>1, <2>1 DEF BeginCall, TypeOK
    <3>3. \A s \in Rank \ {r} : AgreedInv(s)'
      BY <3>1, <3>2 DEF AgreedInv, Decided, Single, Members
    <3>4. AgreedInv(r)'
      BY <2>1 DEF AgreedInv, Single, Members
    <3> QED BY <3>3, <3>4
  <2>2. CASE ~Single(r)
    <3>1. /\ agreed' = [agreed EXCEPT ![r] = Append(@, Absent(r))]
          /\ pc' = [pc EXCEPT ![r] = "agree"]
          /\ misses' = [misses EXCEPT ![r] = Absent(r)]
          /\ UNCHANGED call
      BY <1>1, <2>2 DEF BeginCall
    <3>2. Len(agreed[r]) = call[r] - 1 /\ call[r] \in Nat
      BY <1>1, <2>2 DEF BeginCall, AgreedInv, TypeOK
    <3>3. \A q \in Rank : /\ Len(agreed'[q]) >= Len(agreed[q])
                          /\ \A n \in 1 .. Len(agreed[q]) : agreed'[q][n] = agreed[q][n]
      <4>1. agreed[r] \in Seq(SUBSET Nat) /\ Absent(r) \in SUBSET Nat
        BY <1>1, AbsentType DEF BeginCall, TypeOK
      <4>2. /\ Len(agreed'[r]) = Len(agreed[r]) + 1
            /\ \A n \in 1 .. Len(agreed[r]) : agreed'[r][n] = agreed[r][n]
        BY <3>1, <4>1, AppendProperties DEF TypeOK
      <4>3. \A q \in Rank \ {r} : agreed'[q] = agreed[q]
        BY <3>1 DEF TypeOK
      <4>4. \A q \in Rank : Len(agreed[q]) \in Nat
        BY DEF TypeOK
      <4> QED BY <4>2, <4>3, <4>4
    <3>4. ASSUME NEW s \in Rank \ {r} PROVE AgreedInv(s)'
      <4>1. UNCHANGED <<pc[s], call[s], misses[s], agreed[s]>> /\ call[s] \in Nat \ {0}
        BY <3>1 DEF TypeOK
      <4>2. SUFFICES ASSUME ~Single(s), Decided(s)
                     PROVE  /\ \A q \in Members(s) : Len(agreed'[q]) >= call[s]
                            /\ misses[s] = UNION {agreed'[q][call[s]] : q \in Members(s)}
        BY <4>1 DEF AgreedInv, Decided, Single, Members
      <4>3. /\ \A q \in Members(s) : Len(agreed[q]) >= call[s]
            /\ misses[s] = UNION {agreed[q][call[s]] : q \in Members(s)}
        BY <4>2 DEF AgreedInv
      <4>4. ASSUME NEW q \in Members(s)
            PROVE  Len(agreed'[q]) >= call[s] /\ agreed'[q][call[s]] = agreed[q][call[s]]
        <5>1. q \in Rank
          BY DEF Members
        <5>2. Len(agreed[q]) \in Nat /\ Len(agreed'[q]) \in Nat
          <6>1. agreed'[q] \in Seq(SUBSET Nat)
            BY <1>1, <5>1, CallStep DEF TypeOK, Proceed
          <6> QED BY <5>1, <6>1, SMTT(40) DEF TypeOK
        <5>3. call[s] \in 1 .. Len(agreed[q])
          BY <4>1, <4>3, <5>2
        <5> QED BY <3>3, <4>1, <5>1, <5>2, <5>3
      <4> QED BY <4>3, <4>4
    <3>5. AgreedInv(r)'
      <4>1. Len(agreed'[r]) = call[r]
        <5>1. agreed[r] \in Seq(SUBSET Nat) /\ Absent(r) \in SUBSET Nat
          BY <1>1, AbsentType DEF BeginCall, TypeOK
        <5> QED BY <3>1, <3>2, <5>1, AppendProperties DEF TypeOK
      <4>2. pc'[r] = "agree" /\ call'[r] = call[r]
        BY <3>1 DEF TypeOK
      <4> QED BY <4>1, <4>2 DEF AgreedInv, Decided, Single, Members
    <3> QED BY <3>4, <3>5
  <2> QED BY <2>1, <2>2
<1>2. CASE AgreeReturns(r)
  <2>1. \A s \in Rank \ {r} : AgreedInv(s)'
    <3>1. /\ UNCHANGED <<call, agreed>>
          /\ \A s \in Rank \ {r} : pc'[s] = pc[s] /\ misses'[s] = misses[s]
      BY <1>2 DEF AgreeReturns, TypeOK
    <3> QED BY <3>1 DEF AgreedInv, Decided, Single, Members
  <2>2. AgreedInv(r)'
    <3>1. ~Single(r) /\ Len(agreed[r]) = call[r]
      BY <1>2 DEF AgreeReturns, CallInv, AgreedInv
    <3>2. /\ UNCHANGED <<call, agreed>>
          /\ misses'[r] = UNION {agreed[q][call[r]] : q \in Members(r)}
          /\ \A q \in Members(r) : Len(agreed[q]) >= call[r]
          /\ pc'[r] = "serve"
      BY <1>2, <3>1 DEF AgreeReturns, TypeOK, JointMisses
    <3> QED BY <3>1, <3>2 DEF AgreedInv, Decided, Single, Members
  <2> QED BY <2>1, <2>2
<1>3. CASE ServeThrows(r) \/ EndCall(r)
  <2>1. /\ UNCHANGED agreed
        /\ \A s \in Rank \ {r} : pc'[s] = pc[s] /\ call'[s] = call[s] /\ misses'[s] = misses[s]
    BY <1>3 DEF ServeThrows, EndCall, TypeOK
  <2>2. /\ pc[r] \in InCall \ {"agree"}
        /\ \/ pc'[r] = "exit" /\ call'[r] = call[r]
           \/ pc'[r] = "host" /\ call'[r] = call[r] + 1
    BY <1>3 DEF ServeThrows, EndCall, TypeOK, InCall
  <2> QED BY <2>1, <2>2, AgreedLeft
<1>4. CASE ServeHits(r) \/ EnterEngine(r) \/ CountsClean(r) \/ CountsDirty(r)
           \/ EnterShare(r) \/ ShareReturns(r)
  <2>1. UNCHANGED <<call, misses, agreed>>
    BY <1>4 DEF ServeHits, EnterEngine, CountsClean, CountsDirty, EnterShare, ShareReturns
  <2>2. \A s \in Rank : /\ pc'[s] \in {"host", "share", "leave"}
                              <=> pc[s] \in {"host", "share", "leave"}
                        /\ Decided(s)' => Decided(s)
    BY <1>4 DEF ServeHits, EnterEngine, CountsClean, CountsDirty, EnterShare, ShareReturns,
                TypeOK, Decided
  <2> QED BY <2>1, <2>2, AgreedKept
<1>5. CASE EngineReturns(r) \/ EngineReturnsAnyway(r) \/ EngineFails(r) \/ ForceRejected(r)
  <2>1. /\ UNCHANGED <<call, misses, agreed>>
        /\ pc[r] \in {"force", "engine"} /\ (Publish(r, TRUE) \/ Publish(r, FALSE))
    BY <1>5 DEF EngineReturns, EngineReturnsAnyway, EngineFails, ForceRejected
  <2>2. UNCHANGED pc \/ pc' = [pc EXCEPT ![r] = "force"] \/ pc' = [pc EXCEPT ![r] = "counts"]
    BY <2>1 DEF Publish
  <2>3. \A s \in Rank : /\ pc'[s] \in {"host", "share", "leave"}
                              <=> pc[s] \in {"host", "share", "leave"}
                        /\ Decided(s)' => Decided(s)
    BY <2>1, <2>2 DEF TypeOK, Decided
  <2> QED BY <2>1, <2>3, AgreedKept
<1>6. CASE TextsReturn(r) \/ WaitTimesOut(r) \/ ShareRejected(r)
  BY <1>6, AgreedKept DEF TextsReturn, WaitTimesOut, ShareRejected, Decided
<1> QED BY <1>1, <1>2, <1>3, <1>4, <1>5, <1>6 DEF Proceed, Mishap

\* A step of a rank that has no error, to a place outside the exchange.
LEMMA ErrorQuiet ==
  ASSUME TypeOK, \A s \in Rank : ErrorInv(s), NEW r \in Rank, ~failed[r],
         UNCHANGED <<failed, counts, aborted>>,
         NEW where, where \notin {"counts", "text"}, pc' = [pc EXCEPT ![r] = where]
  PROVE  \A s \in Rank : ErrorInv(s)'
<1>1. \A s \in Rank \ {r} : pc'[s] = pc[s]
  BY DEF TypeOK
<1>2. pc'[r] = where
  BY DEF TypeOK
<1>3. \A s \in Rank \ {r} : ErrorInv(s)'
  BY <1>1 DEF ErrorInv
<1>4. ErrorInv(r)'
  BY <1>2 DEF ErrorInv
<1> QED BY <1>3, <1>4

\* A force call that ends with or without an error.
LEMMA ErrorPublished ==
  ASSUME TypeOK, \A s \in Rank : ErrorInv(s), \A s \in Rank : CallInv(s), ~aborted,
         NEW r \in Rank, pc[r] \in {"force", "engine"}, todo[r] # {},
         NEW error \in BOOLEAN, Publish(r, error)
  PROVE  (\A s \in Rank : ErrorInv(s)') /\ (aborted' => failed'[r])
<1>1. ~failed[r]
  BY DEF ErrorInv
<1>2. failed'[r] = error /\ \A s \in Rank \ {r} : failed'[s] = failed[s]
  BY DEF Publish, TypeOK
<1>3. CASE Single(r)
  <2>1. UNCHANGED counts /\ aborted' = error
    BY <1>3 DEF Publish, TypeOK
  <2>2. UNCHANGED pc \/ pc' = [pc EXCEPT ![r] = "force"]
    BY <1>3 DEF Publish, Go
  <2>3. \A s \in Rank \ {r} : pc'[s] = pc[s]
    BY <2>2 DEF TypeOK
  <2>4. pc'[r] \in {"force", "engine"}
    BY <2>2 DEF TypeOK
  <2>5. \A s \in Rank \ {r} : ErrorInv(s)'
    BY <1>1, <1>2, <2>1, <2>3 DEF ErrorInv
  <2>6. ErrorInv(r)'
    BY <1>1, <1>2, <2>1, <2>4 DEF ErrorInv
  <2> QED BY <1>2, <2>1, <2>5, <2>6
<1>4. CASE ~Single(r)
  <2> DEFINE post == [call |-> call[r], item |-> Item(r), error |-> error]
  <2>1. /\ counts' = [counts EXCEPT ![r] = Append(@, post)]
        /\ pc' = [pc EXCEPT ![r] = "counts"]
        /\ UNCHANGED aborted
    BY <1>4 DEF Publish, Go
  <2>2. post \in Post /\ post.error = error
    BY ItemType DEF TypeOK, Post
  <2>3. \A s \in Rank \ {r} : pc'[s] = pc[s] /\ counts'[s] = counts[s]
    BY <2>1 DEF TypeOK
  <2>4. \A s \in Rank \ {r} : ErrorInv(s)'
    BY <1>1, <1>2, <2>1, <2>3 DEF ErrorInv
  <2>5. /\ counts'[r] # << >>
        /\ counts'[r][Len(counts'[r])] = post
        /\ \A n \in DOMAIN counts'[r] :
             \/ n \in DOMAIN counts[r] /\ counts'[r][n] = counts[r][n]
             \/ n = Len(counts'[r])
    <3> HIDE DEF post
    <3>1. counts[r] \in Seq(Post) /\ counts'[r] = Append(counts[r], post)
      BY <2>1 DEF TypeOK
    <3>2. /\ Len(counts'[r]) = Len(counts[r]) + 1
          /\ counts'[r][Len(counts[r]) + 1] = post
          /\ \A n \in 1 .. Len(counts[r]) : counts'[r][n] = counts[r][n]
          /\ counts'[r] \in Seq(Post)
      BY <2>2, <3>1, AppendProperties
    <3>3. DOMAIN counts'[r] = 1 .. Len(counts[r]) + 1 /\ DOMAIN counts[r] = 1 .. Len(counts[r])
      BY <3>1, <3>2
    <3>4. Len(counts[r]) \in Nat /\ counts'[r] # << >>
      BY <3>1, <3>2
    <3>5. \A n \in DOMAIN counts'[r] : n \in 1 .. Len(counts[r]) \/ n = Len(counts[r]) + 1
      BY <3>3, <3>4
    <3> QED BY <3>2, <3>3, <3>4, <3>5
  <2>6. pc'[r] = "counts"
    BY <2>1 DEF TypeOK
  <2>7. ErrorInv(r)'
    BY <1>1, <1>2, <2>2, <2>5, <2>6 DEF ErrorInv
  <2> QED BY <2>1, <2>4, <2>7
<1> QED BY <1>3, <1>4

\* Where errors are, and why the world is aborted.
LEMMA ErrorStep ==
  ASSUME IInv, ~aborted, NEW r \in Rank, Proceed(r) \/ Mishap(r)
  PROVE  (\A s \in Rank : ErrorInv(s)') /\ AbortHasCause'
<1> USE DEF envVars, logVars, Go
<1>0. /\ TypeOK
      /\ \A s \in Rank : CallInv(s)
      /\ \A s \in Rank : ErrorInv(s)
  BY DEF IInv
<1>1. CASE \/ BeginCall(r) \/ AgreeReturns(r) \/ ServeHits(r) \/ ServeThrows(r) \/ EndCall(r)
           \/ EnterEngine(r) \/ EnterShare(r) \/ ShareReturns(r)
  <2>1. UNCHANGED <<failed, counts, aborted>> /\ pc[r] \notin {"counts", "text"}
    BY <1>1 DEF BeginCall, AgreeReturns, ServeHits, ServeThrows, EndCall, EnterEngine,
                EnterShare, ShareReturns
  <2>2. PICK where \in {"serve", "agree", "force", "exit", "host", "engine", "share", "leave"} :
          pc' = [pc EXCEPT ![r] = where]
    BY <1>1 DEF BeginCall, AgreeReturns, ServeHits, ServeThrows, EndCall, EnterEngine,
                EnterShare, ShareReturns
  <2>3. ~failed[r]
    BY <1>0, <2>1 DEF ErrorInv
  <2> QED BY <1>0, <2>1, <2>2, <2>3, ErrorQuiet DEF AbortHasCause
<1>2. CASE CountsClean(r)
  <2>1. ~failed[r]
    <3>1. r \in Members(r) /\ pc[r] = "counts" /\ ~AnyError(r)
      BY <1>2 DEF CountsClean, Members
    <3>2. counts[r][Len(counts[r])].error = failed[r]
      BY <1>0, <3>1 DEF ErrorInv
    <3> QED BY <3>1, <3>2 DEF AnyError
  <2>2. UNCHANGED <<failed, counts, aborted>> /\ pc' = [pc EXCEPT ![r] = "force"]
    BY <1>2 DEF CountsClean
  <2> QED BY <1>0, <2>1, <2>2, ErrorQuiet DEF AbortHasCause
<1>3. CASE CountsDirty(r)
  <2>1. PICK q \in Members(r) : counts[q][Len(counts[r])].error
    BY <1>3 DEF CountsDirty, AnyError
  <2>2. q \in Rank /\ Len(counts[q]) >= Len(counts[r])
    BY <1>3, <2>1 DEF CountsDirty, CountsMet, Members
  <2>3. Len(counts[r]) \in DOMAIN counts[q]
    <3>1. counts[r] \in Seq(Post) /\ counts[q] \in Seq(Post) /\ counts[r] # << >>
      BY <1>0, <1>3, <2>2 DEF CountsDirty, ErrorInv, TypeOK
    <3> QED BY <2>2, <3>1
  <2>4. failed[q]
    BY <1>0, <2>1, <2>2, <2>3 DEF ErrorInv
  <2>5. /\ UNCHANGED <<failed, counts, aborted>> /\ pc[r] = "counts"
        /\ pc' = [pc EXCEPT ![r] = "text"]
    BY <1>3 DEF CountsDirty
  <2>6. pc'[r] = "text" /\ \A s \in Rank \ {r} : pc'[s] = pc[s]
    BY <1>0, <2>5 DEF TypeOK
  <2>7. \A s \in Rank : ErrorInv(s)'
    BY <1>0, <2>2, <2>4, <2>5, <2>6 DEF ErrorInv
  <2> QED BY <2>5, <2>7 DEF AbortHasCause
<1>4. CASE EngineReturns(r) \/ EngineReturnsAnyway(r) \/ EngineFails(r) \/ ForceRejected(r)
  <2>1. PICK error \in BOOLEAN : Publish(r, error)
    BY <1>4 DEF EngineReturns, EngineReturnsAnyway, EngineFails, ForceRejected
  <2>2. pc[r] \in {"force", "engine"} /\ todo[r] # {}
    BY <1>0, <1>4 DEF EngineReturns, EngineReturnsAnyway, EngineFails, ForceRejected, CallInv
  <2> QED BY <1>0, <2>1, <2>2, ErrorPublished DEF AbortHasCause
<1>5. CASE TextsReturn(r) \/ WaitTimesOut(r) \/ ShareRejected(r)
  <2>1. UNCHANGED <<pc, failed, counts, owner>> /\ aborted' = TRUE
    BY <1>5 DEF TextsReturn, WaitTimesOut, ShareRejected
  <2>2. (\E q \in Rank : failed[q]) \/ ~OwnersAgree
    BY <1>0, <1>5 DEF TextsReturn, WaitTimesOut, ShareRejected, Impatient, ErrorInv
  <2>3. \A s \in Rank : ErrorInv(s)'
    BY <1>0, <2>1 DEF ErrorInv
  <2> QED BY <2>1, <2>2, <2>3 DEF AbortHasCause, OwnersAgree
<1> QED BY <1>1, <1>2, <1>3, <1>4, <1>5 DEF Proceed, Mishap

-----------------------------------------------------------------------------
(* The invariant, and what follows from it.                                *)

LEMMA InitInv == Init => IInv
<1> SUFFICES ASSUME Init PROVE IInv
  OBVIOUS
<1>1. TypeOK
  <2>1. cache \in [Rank -> [System -> Record]] /\ work \in [Calculator -> Seq(Batch)]
    BY HostAssumption DEF Init
  <2>2. refused \subseteq Rank /\ opened \subseteq Rank
    BY HostAssumption DEF Init
  <2>3. /\ agreed \in [Rank -> Seq(SUBSET Nat)]
        /\ kernels \in [Rank -> Seq(Nat \X Nat)]
        /\ counts \in [Rank -> Seq(Post)]
    <3>1. \A S : << >> \in Seq(S)
      OBVIOUS
    <3>2. /\ agreed = [r \in Rank |-> << >>]
          /\ kernels = [r \in Rank |-> << >>]
          /\ counts = [r \in Rank |-> << >>]
      BY DEF Init
    <3> QED BY <3>1, <3>2
  <2>4. /\ misses \in [Rank -> SUBSET Nat] /\ todo \in [Rank -> SUBSET Nat]
        /\ \A r \in Rank : todo[r] \subseteq misses[r]
    BY DEF Init
  <2>5. pc \in [Rank -> {"host", "agree", "serve", "force", "engine", "counts",
                       "text", "share", "leave", "exit"}]
    BY DEF Init
  <2>6. call \in [Rank -> Nat \ {0}] /\ texts \in [Rank -> Nat] /\ faults \in Nat
    BY DEF Init
  <2>7. failed \in [Rank -> BOOLEAN] /\ aborted \in BOOLEAN
    BY DEF Init
  <2> QED BY <2>1, <2>2, <2>3, <2>4, <2>5, <2>6, <2>7 DEF TypeOK
<1>2. \A r \in Rank : CallInv(r) /\ AgreedInv(r) /\ ErrorInv(r)
  BY DEF Init, CallInv, InCall, AgreedInv, Decided, ErrorInv
<1>3. AbortHasCause
  BY DEF Init, AbortHasCause
<1> QED BY <1>1, <1>2, <1>3 DEF IInv

LEMMA NextInv == IInv /\ [Next]_vars => IInv'
<1> SUFFICES ASSUME IInv, [Next]_vars PROVE IInv'
  OBVIOUS
<1>1. CASE UNCHANGED vars
  <2> USE <1>1 DEF vars, envVars, logVars
  <2>1. TypeOK'
    BY DEF IInv, TypeOK
  <2>2. \A r \in Rank : CallInv(r)'
    BY DEF IInv, CallInv, InCall, Single, Members
  <2>3. \A r \in Rank : AgreedInv(r)'
    BY AgreedKept DEF IInv, Decided
  <2>4. \A r \in Rank : ErrorInv(r)'
    BY DEF IInv, ErrorInv
  <2>5. AbortHasCause'
    BY DEF IInv, AbortHasCause, OwnersAgree
  <2> QED BY <2>1, <2>2, <2>3, <2>4, <2>5 DEF IInv
<1>2. ASSUME ~aborted, NEW r \in Rank, Proceed(r) \/ Mishap(r)
      PROVE  IInv'
  BY <1>2, CallStep, AgreedStep, ErrorStep DEF IInv
<1> QED BY <1>1, <1>2 DEF Next

\* The invariant holds of every run.
THEOREM Invariance == Spec => []IInv
BY InitInv, NextInv, PTL DEF Spec

\* Every variable has its type, for any number of ranks, calls and failures.
THEOREM Typing == Spec => []TypeOK
<1>1. IInv => TypeOK
  BY DEF IInv
<1> QED BY <1>1, Invariance, PTL

\* Ranks of a calculator that are past the joint decision of the same call compute
\* the same systems of it, whatever their caches hold (Potential.hpp:194-203,
\* 290-303): the union of flags that both keep is over the same posted flags, and
\* a flag once posted stays.
THEOREM JointDecisionHolds == Spec => []JointDecision
<1>1. IInv => JointDecision
  <2> SUFFICES ASSUME IInv, NEW q \in Rank, NEW r \in Rank,
                      CalcOf[q] = CalcOf[r], call[q] = call[r], Decided(q), Decided(r)
               PROVE  misses[q] = misses[r]
    BY DEF JointDecision
  <2>1. CASE Single(r)
    BY <2>1, SingleMember
  <2>2. CASE ~Single(r)
    <3>1. Members(q) = Members(r)
      BY DEF Members
    <3>2. ~Single(q)
      BY <2>2, <3>1 DEF Single
    <3>3. misses[q] = UNION {agreed[x][call[q]] : x \in Members(q)}
      BY <3>2 DEF IInv, AgreedInv
    <3>4. misses[r] = UNION {agreed[x][call[r]] : x \in Members(r)}
      BY <2>2 DEF IInv, AgreedInv
    <3> QED BY <3>1, <3>3, <3>4
  <2> QED BY <2>1, <2>2
<1> QED BY <1>1, Invariance, PTL

\* A force call with an error never returns to its host (CalculatorGroupMpi.cc:
\* 265-341): what a rank posted last in the exchange is its own error, so it
\* cannot read the exchange as clean.
THEOREM FailureNeverReturnsHolds == Spec => []FailureNeverReturns
<1>1. IInv => FailureNeverReturns
  BY DEF IInv, ErrorInv, FailureNeverReturns
<1> QED BY <1>1, Invariance, PTL

\* The world is aborted only for a failure of somebody or a bad share
\* (CalculatorGroupMpi.cc:293-328).
THEOREM AbortHasCauseHolds == Spec => []AbortHasCause
<1>1. IInv => AbortHasCause
  BY DEF IInv
<1> QED BY <1>1, Invariance, PTL

-----------------------------------------------------------------------------
(* What MPI matches.  Engine calls and posts are logs in one order: by call, *)
(* and in a call by item.  No record of the caches is truncated here.        *)

NoShortRecord == InitialCaches \subseteq [Rank -> [System -> {"none", "whole"}]]

\* Nothing throws while hits are deserialized.
SoundInv(r) == pc[r] # "exit" /\ \A s \in System : cache[r][s] # "short"

\* What the joint decisions of a calculator have asked for: a call that all its
\* ranks have posted flags for, and an item that one of them misses.
Due(r) == {e \in Nat \X Nat :
             /\ \A q \in Members(r) : e[1] \in DOMAIN agreed[q]
             /\ \E q \in Members(r) : e[2] \in agreed[q][e[1]]}

Before(d, e) == d[1] < e[1] \/ (d[1] = e[1] /\ d[2] < e[2])

\* A log s in increasing order, of what is due and no later than call c, which
\* lacks only the items P of that call and what later calls ask for.
InOrder(s, c, P, D) ==
  /\ s \in Seq(Nat \X Nat)
  /\ \A m, n \in 1 .. Len(s) : m < n => Before(s[m], s[n])
  /\ \A n \in 1 .. Len(s) :
       s[n] \in D /\ (s[n][1] < c \/ (s[n][1] = c /\ \A j \in P : s[n][2] < j))
  /\ \A e \in D : \/ \E n \in 1 .. Len(s) : s[n] = e
                  \/ e[1] > c
                  \/ e[1] = c /\ e[2] \in P

Asked(r)   == <<call[r], Item(r)>>
Entered(r) == \E n \in 1 .. Len(kernels[r]) : kernels[r][n] = Asked(r)
Posts(r)   == [n \in DOMAIN counts[r] |-> <<counts[r][n].call, counts[r][n].item>>]

\* The last call that a rank is past the decision of, and what it has left there.
Place(r) == IF Decided(r) THEN call[r] ELSE call[r] - 1

Left(r) == IF pc[r] = "serve" THEN misses[r] ELSE todo[r]

EngineLeft(r) ==
  IF pc[r] = "engine" \/ (pc[r] \in {"counts", "text"} /\ Entered(r))
  THEN todo[r] \ {Item(r)} ELSE Left(r)

PostLeft(r) == IF pc[r] \in {"counts", "text"} THEN todo[r] \ {Item(r)} ELSE Left(r)

LogInv(r) ==
  ~Single(r) =>
    /\ \A q \in Members(r) : Len(agreed[q]) >= call[r] - 1
    /\ InOrder(kernels[r], Place(r), EngineLeft(r), Due(r))
    /\ InOrder(Posts(r), Place(r), PostLeft(r), Due(r))

\* What a rank entered or posted last, and a post without an error is by a rank
\* that entered the engine.
LastInv(r) ==
  ~Single(r) =>
    /\ pc[r] = "engine" => Entered(r)
    /\ pc[r] \in {"counts", "text"} =>
         LET n == Len(counts[r])
         IN  n > 0 /\ Posts(r)[n] = Asked(r)
    /\ \A n \in DOMAIN counts[r] : ~counts[r][n].error =>
         \E m \in DOMAIN kernels[r] : kernels[r][m] = Posts(r)[n]

\* What a rank has behind it, all ranks of its calculator have entered.
MetInv(r) ==
  ~Single(r) =>
    \A e \in Due(r) :
      e[1] < Place(r) \/ (e[1] = Place(r) /\ e[2] \notin Left(r)) =>
        \A q \in Members(r) : \E n \in DOMAIN kernels[q] : kernels[q][n] = e

\* A sequence has a length.
LEMMA LengthNat ==
  ASSUME NEW T, NEW s \in Seq(T)
  PROVE  Len(s) \in Nat
OBVIOUS

\* Two pairs with the same components are the same.
LEMMA SamePair ==
  ASSUME NEW d \in Nat \X Nat, NEW e \in Nat \X Nat, d[1] = e[1], d[2] = e[2]
  PROVE  d = e
OBVIOUS

\* Pairs are totally ordered.
LEMMA BeforeOrder ==
  ASSUME NEW d \in Nat \X Nat, NEW e \in Nat \X Nat
  PROVE  /\ Before(d, e) \/ Before(e, d) \/ d = e
         /\ ~(Before(d, e) /\ Before(e, d)) /\ ~Before(d, d)
<1>1. d[1] \in Nat /\ d[2] \in Nat /\ e[1] \in Nat /\ e[2] \in Nat
  OBVIOUS
<1>2. d[1] = e[1] /\ d[2] = e[2] => d = e
  BY SamePair
<1> QED BY <1>1, <1>2 DEF Before

\* What comes before something in a log is in the log.
LEMMA LogClosed ==
  ASSUME NEW s, NEW c \in Int, NEW P, NEW D \in SUBSET (Nat \X Nat), InOrder(s, c, P, D),
         NEW n \in 1 .. Len(s), NEW e \in D, Before(e, s[n])
  PROVE  \E m \in 1 .. Len(s) : s[m] = e
<1>1. s[n] \in Nat \X Nat /\ e \in Nat \X Nat
  BY DEF InOrder
<1>2. e[1] \in Nat /\ e[2] \in Nat /\ s[n][1] \in Nat /\ s[n][2] \in Nat
  BY <1>1
<1>3. s[n][1] < c \/ (s[n][1] = c /\ \A j \in P : s[n][2] < j)
  BY DEF InOrder
<1>4. ~(e[1] > c) /\ ~(e[1] = c /\ e[2] \in P)
  BY <1>2, <1>3 DEF Before
<1> QED BY <1>4 DEF InOrder

\* Two logs of the same dues agree at the first place where they could differ.
LEMMA NotBefore ==
  ASSUME NEW s, NEW c \in Int, NEW P, NEW t, NEW d \in Int, NEW Q,
         NEW D \in SUBSET (Nat \X Nat), InOrder(s, c, P, D), InOrder(t, d, Q, D),
         NEW n \in Nat, n \in 1 .. Len(s), n \in 1 .. Len(t),
         \A k \in 1 .. n - 1 : s[k] = t[k]
  PROVE  ~Before(s[n], t[n])
<1> SUFFICES ASSUME Before(s[n], t[n]) PROVE FALSE
  OBVIOUS
<1>1. s[n] \in D
  BY Zenon DEF InOrder
<1>2. PICK m \in 1 .. Len(t) : t[m] = s[n]
  <2> DEFINE e == s[n]
  <2>1. e \in D /\ Before(e, t[n])
    BY <1>1
  <2> HIDE DEF e
  <2>2. \E m \in 1 .. Len(t) : t[m] = e
    BY <2>1, LogClosed
  <2> QED BY <2>2 DEF e
<1>3. Len(t) \in Nat /\ Len(s) \in Nat
  <2>1. s \in Seq(Nat \X Nat) /\ t \in Seq(Nat \X Nat)
    BY Zenon DEF InOrder
  <2> QED BY <2>1, LengthNat, Zenon
<1>4. t[m] \in Nat \X Nat /\ t[n] \in Nat \X Nat /\ s[n] \in Nat \X Nat
  BY DEF InOrder
<1>5. CASE m < n
  <2>1. s[m] = t[m] /\ m \in 1 .. Len(s)
    BY <1>3, <1>5
  <2>2. Before(s[m], s[n])
    BY <1>5, <2>1 DEF InOrder
  <2> QED BY <1>2, <1>4, <2>1, <2>2, BeforeOrder
<1>6. CASE m = n
  BY <1>2, <1>4, <1>6, BeforeOrder
<1>7. CASE m > n
  <2>1. Before(t[n], t[m])
    BY <1>7 DEF InOrder
  <2> QED BY <1>2, <1>4, <2>1, BeforeOrder
<1> QED BY <1>3, <1>5, <1>6, <1>7

\* So one of them is a prefix of the other.
LEMMA SamePrefix ==
  ASSUME NEW s, NEW c \in Int, NEW P, NEW t, NEW d \in Int, NEW Q,
         NEW D \in SUBSET (Nat \X Nat), InOrder(s, c, P, D), InOrder(t, d, Q, D)
  PROVE  Prefix(s, t)
<1> DEFINE Differ == {n \in 1 .. Len(s) : n <= Len(t) /\ s[n] # t[n]}
<1>1. Len(t) \in Nat /\ Len(s) \in Nat
  <2>1. s \in Seq(Nat \X Nat) /\ t \in Seq(Nat \X Nat)
    BY Zenon DEF InOrder
  <2> QED BY <2>1, LengthNat, Zenon
<1>2. SUFFICES ASSUME Differ # {} PROVE FALSE
  BY DEF Prefix
<1>3. Differ \in SUBSET Nat
  BY <1>1
<1>4. PICK n \in Differ : \A k \in Differ : n <= k
  <2> HIDE DEF Differ
  <2> QED BY <1>2, <1>3, LeastNat
<1>5. n \in Nat /\ n \in 1 .. Len(s) /\ n \in 1 .. Len(t)
  BY <1>1
<1>6. \A k \in 1 .. n - 1 : s[k] = t[k]
  BY <1>1, <1>4, <1>5
<1>7. ~Before(s[n], t[n]) /\ ~Before(t[n], s[n])
  <2>1. ~Before(s[n], t[n])
    BY <1>5, <1>6, NotBefore
  <2>2. ~Before(t[n], s[n])
    BY <1>5, <1>6, NotBefore
  <2> QED BY <2>1, <2>2
<1>8. s[n] \in Nat \X Nat /\ t[n] \in Nat \X Nat
  BY <1>5 DEF InOrder
<1>9. s[n] = t[n]
  BY <1>7, <1>8, BeforeOrder
<1> QED BY <1>9

\* More becomes due of what is still to come.
LEMMA DueGrows ==
  ASSUME NEW s, NEW c, NEW P, NEW D, NEW E, InOrder(s, c, P, D), D \subseteq E,
         \A e \in E \ D : e[1] > c
  PROVE  InOrder(s, c, P, E)
BY DEF InOrder

\* The decision of the next call.
LEMMA NextDecided ==
  ASSUME NEW s, NEW c \in Int, NEW P, NEW D \in SUBSET (Nat \X Nat),
         InOrder(s, c - 1, {}, D), \A e \in D : e[1] = c => e[2] \in P
  PROVE  InOrder(s, c, P, D)
<1>1. \A n \in 1 .. Len(s) : s[n] \in D /\ s[n][1] < c
  <2> SUFFICES ASSUME NEW n \in 1 .. Len(s) PROVE s[n] \in D /\ s[n][1] < c
    OBVIOUS
  <2>1. s[n] \in D /\ (s[n][1] < c - 1 \/ s[n][1] = c - 1)
    BY DEF InOrder
  <2>2. s[n] \in Nat \X Nat
    BY <2>1
  <2>3. s[n][1] \in Nat
    BY <2>2
  <2> QED BY <2>1, <2>3
<1>2. \A e \in D : (\E n \in 1 .. Len(s) : s[n] = e) \/ e[1] > c \/ (e[1] = c /\ e[2] \in P)
  <2> SUFFICES ASSUME NEW e \in D, ~\E n \in 1 .. Len(s) : s[n] = e
               PROVE  e[1] > c \/ (e[1] = c /\ e[2] \in P)
    OBVIOUS
  <2>1. e[1] > c - 1 \/ (e[1] = c - 1 /\ e[2] \in {})
    BY DEF InOrder
  <2>2. e[1] \in Nat
    OBVIOUS
  <2> QED BY <2>1, <2>2
<1> QED BY <1>1, <1>2 DEF InOrder

\* The next item of a call.
LEMMA NextItem ==
  ASSUME NEW s, NEW c \in Nat, NEW P \in SUBSET Nat, NEW D \in SUBSET (Nat \X Nat),
         InOrder(s, c, P, D), NEW i \in P, \A j \in P : i <= j, <<c, i>> \in D
  PROVE  /\ InOrder(Append(s, <<c, i>>), c, P \ {i}, D)
         /\ ~\E n \in 1 .. Len(s) : s[n] = <<c, i>>
<1> DEFINE t == Append(s, <<c, i>>)
<1>1. /\ t \in Seq(Nat \X Nat) /\ Len(t) = Len(s) + 1 /\ Len(s) \in Nat
      /\ \A n \in 1 .. Len(s) : t[n] = s[n]
      /\ t[Len(s) + 1] = <<c, i>>
  <2>1. s \in Seq(Nat \X Nat) /\ <<c, i>> \in Nat \X Nat
    BY DEF InOrder
  <2> QED BY <2>1, AppendProperties
<1> HIDE DEF t
<1>2. \A n \in 1 .. Len(s) : Before(s[n], <<c, i>>)
  BY DEF InOrder, Before
<1>3. \A m, n \in 1 .. Len(t) : m < n => Before(t[m], t[n])
  <2> SUFFICES ASSUME NEW m \in 1 .. Len(t), NEW n \in 1 .. Len(t), m < n
               PROVE  Before(t[m], t[n])
    OBVIOUS
  <2>1. m \in 1 .. Len(s)
    BY <1>1
  <2>2. CASE n = Len(s) + 1
    BY <1>1, <1>2, <2>1, <2>2
  <2>3. CASE n \in 1 .. Len(s)
    BY <1>1, <2>1, <2>3 DEF InOrder
  <2> QED BY <1>1, <2>2, <2>3
<1>4. \A n \in 1 .. Len(t) :
        t[n] \in D /\ (t[n][1] < c \/ (t[n][1] = c /\ \A j \in P \ {i} : t[n][2] < j))
  <2>1. \A n \in 1 .. Len(s) :
          s[n] \in D /\ (s[n][1] < c \/ (s[n][1] = c /\ \A j \in P \ {i} : s[n][2] < j))
    BY DEF InOrder
  <2>2. \A j \in P \ {i} : i < j
    OBVIOUS
  <2> SUFFICES ASSUME NEW n \in 1 .. Len(t)
               PROVE  t[n] \in D /\ (t[n][1] < c \/ (t[n][1] = c /\ \A j \in P \ {i} : t[n][2] < j))
    OBVIOUS
  <2>3. CASE n \in 1 .. Len(s)
    BY <1>1, <2>1, <2>3
  <2>4. CASE n = Len(s) + 1
    <3>1. t[n] = <<c, i>>
      BY <1>1, <2>4
    <3>2. t[n] \in D /\ t[n][1] = c /\ t[n][2] = i
      BY <3>1
    <3> QED BY <2>2, <3>2
  <2> QED BY <1>1, <2>3, <2>4
<1>5. \A e \in D : (\E n \in 1 .. Len(t) : t[n] = e) \/ e[1] > c \/ (e[1] = c /\ e[2] \in P \ {i})
  <2> SUFFICES ASSUME NEW e \in D, ~\E n \in 1 .. Len(t) : t[n] = e
               PROVE  e[1] > c \/ (e[1] = c /\ e[2] \in P \ {i})
    OBVIOUS
  <2>1. ~\E n \in 1 .. Len(s) : s[n] = e
    <3>1. \A n \in 1 .. Len(s) : n \in 1 .. Len(t)
      BY <1>1
    <3>2. \A n \in 1 .. Len(s) : t[n] = s[n]
      BY <1>1
    <3> QED BY <3>1, <3>2
  <2>2. e[1] > c \/ (e[1] = c /\ e[2] \in P)
    BY <2>1 DEF InOrder
  <2>3. e # <<c, i>>
    <3>1. Len(s) + 1 \in 1 .. Len(t) /\ t[Len(s) + 1] = <<c, i>>
      BY <1>1
    <3> QED BY <3>1
  <2>4. ~(e[1] = c /\ e[2] = i)
    BY <2>3, SamePair
  <2> QED BY <2>2, <2>4
<1>6. ~\E n \in 1 .. Len(s) : s[n] = <<c, i>>
  <2> SUFFICES ASSUME NEW n \in 1 .. Len(s), s[n] = <<c, i>> PROVE FALSE
    OBVIOUS
  <2>1. s[n] \in Nat \X Nat /\ Before(s[n], s[n])
    BY <1>2 DEF InOrder
  <2> QED BY <2>1, BeforeOrder
<1> QED BY <1>1, <1>3, <1>4, <1>5, <1>6 DEF InOrder, t

\* The second part of the invariant: what was logged, and in which order.
LogsInv ==
  \A r \in Rank : SoundInv(r) /\ LogInv(r) /\ LastInv(r) /\ MetInv(r)

\* Posts without their errors are pairs of numbers.
LEMMA PostPairs ==
  ASSUME NEW s \in Seq(Post)
  PROVE  LET p == [n \in DOMAIN s |-> <<s[n].call, s[n].item>>]
         IN  p \in Seq(Nat \X Nat) /\ Len(p) = Len(s)
<1>1. DOMAIN s = 1 .. Len(s) /\ Len(s) \in Nat
  OBVIOUS
<1>2. \A n \in DOMAIN s : <<s[n].call, s[n].item>> \in Nat \X Nat
  <2> SUFFICES ASSUME NEW n \in DOMAIN s PROVE <<s[n].call, s[n].item>> \in Nat \X Nat
    OBVIOUS
  <2>1. s[n] \in Post
    OBVIOUS
  <2> QED BY <2>1 DEF Post
<1> QED BY <1>1, <1>2, IsASeq, LenProperties

\* What is due and what was posted are pairs of numbers.
LEMMA LogTypes ==
  ASSUME TypeOK, NEW r \in Rank
  PROVE  /\ Due(r) \in SUBSET (Nat \X Nat)
         /\ Posts(r) \in Seq(Nat \X Nat) /\ Len(Posts(r)) = Len(counts[r])
         /\ Place(r) \in Nat /\ Left(r) \in SUBSET Nat
<1>1. counts[r] \in Seq(Post)
  BY DEF TypeOK
<1>3. Posts(r) \in Seq(Nat \X Nat) /\ Len(Posts(r)) = Len(counts[r])
  BY <1>1, PostPairs DEF Posts
<1>4. call[r] \in Nat \ {0}
  BY DEF TypeOK
<1>5. Place(r) \in Nat
  BY <1>4 DEF Place
<1> QED BY <1>3, <1>5 DEF Due, Left, TypeOK

\* A rank inside a calculator of several ranks misses items that are due.
LEMMA MissesDue ==
  ASSUME TypeOK, NEW r \in Rank, AgreedInv(r), ~Single(r), Decided(r), NEW i \in misses[r]
  PROVE  <<call[r], i>> \in Due(r)
<1>1. /\ \A q \in Members(r) : Len(agreed[q]) >= call[r]
      /\ misses[r] = UNION {agreed[q][call[r]] : q \in Members(r)}
  BY DEF AgreedInv
<1>2. call[r] \in Nat \ {0} /\ i \in Nat
  BY DEF TypeOK
<1>3. \A q \in Members(r) : call[r] \in DOMAIN agreed[q]
  <2> SUFFICES ASSUME NEW q \in Members(r) PROVE call[r] \in DOMAIN agreed[q]
    OBVIOUS
  <2>1. agreed[q] \in Seq(SUBSET Nat)
    BY DEF Members, TypeOK
  <2> QED BY <1>1, <1>2, <2>1
<1>4. \E q \in Members(r) : i \in agreed[q][call[r]]
  BY <1>1
<1> DEFINE e == <<call[r], i>>
<1>5. e \in Nat \X Nat /\ e[1] = call[r] /\ e[2] = i
  BY <1>2
<1> QED BY <1>3, <1>4, <1>5 DEF Due

\* Nothing is truncated, so nothing throws and every write is whole.
LEMMA NothingThrows ==
  ASSUME TypeOK, NEW r \in Rank, CallInv(r), SoundInv(r)
  PROVE  ~ServeThrows(r)
<1> SUFFICES ASSUME pc[r] = "serve", NEW i \in Hits(r), Lookup(r, i) = "short" PROVE FALSE
  BY DEF ServeThrows, Throws
<1>1. work[CalcOf[r]] \in Seq(Batch) /\ call[r] \in 1 .. Len(work[CalcOf[r]])
  BY WorldAssumption DEF TypeOK, CallInv, InCall
<1>2. Job(r) \in Seq([Rank -> System]) /\ i \in DOMAIN Job(r)
  BY <1>1 DEF Job, Batch, Hits
<1>3. Job(r)[i] \in [Rank -> System]
  BY <1>2
<1>4. Job(r)[i][r] \in System
  BY <1>3
<1> QED BY <1>4 DEF Lookup, SoundInv

\* A step writes whole records only.
LEMMA SoundStep ==
  ASSUME TypeOK, \A s \in Rank : CallInv(s), \A s \in Rank : SoundInv(s),
         NEW r \in Rank, Proceed(r) \/ Mishap(r)
  PROVE  \A s \in Rank : SoundInv(s)'
<1>1. ~ServeThrows(r)
  BY NothingThrows
<1>2. \A s \in Rank : pc'[s] # "exit"
  <2>1. UNCHANGED pc \/ \E w : w # "exit" /\ pc' = [pc EXCEPT ![r] = w]
    BY <1>1 DEF Proceed, Mishap, BeginCall, AgreeReturns, ServeHits, EndCall, EnterEngine,
       EngineReturns, ForceRejected, CountsClean, CountsDirty, TextsReturn, WaitTimesOut,
       EnterShare, ShareReturns, ShareRejected, EngineFails, EngineReturnsAnyway, Publish, Go
  <2> QED BY <2>1 DEF SoundInv, TypeOK
<1>3. \A s \in Rank : \A x \in System : cache'[s][x] # "short"
  <2>1. CASE UNCHANGED cache
    BY <2>1 DEF SoundInv
  <2>2. CASE EndCall(r)
    <3> DEFINE new == [x \in System |->
          IF r \in opened /\ \E i \in misses[r] : Job(r)[i][r] = x
          THEN "whole" ELSE cache[r][x]]
    <3>1. cache' = [cache EXCEPT ![r] = new]
      BY <2>2 DEF EndCall
    <3>2. \A x \in System : new[x] # "short"
      BY DEF SoundInv
    <3> HIDE DEF new
    <3> QED BY <3>1, <3>2 DEF SoundInv, TypeOK
  <2>3. UNCHANGED cache \/ EndCall(r)
    BY DEF Proceed, Mishap, BeginCall, AgreeReturns, ServeHits, ServeThrows, EnterEngine,
       EngineReturns, ForceRejected, CountsClean, CountsDirty, TextsReturn, WaitTimesOut,
       EnterShare, ShareReturns, ShareRejected, EngineFails, EngineReturnsAnyway
  <2> QED BY <2>1, <2>2, <2>3
<1> QED BY <1>2, <1>3 DEF SoundInv

\* What becomes due when a rank posts its flags is of a call that no rank of its
\* calculator has decided.
LEMMA BeginDue ==
  ASSUME TypeOK, TypeOK', \A s \in Rank : AgreedInv(s), \A s \in Rank : LogInv(s),
         NEW r \in Rank, ~Single(r), BeginCall(r), NEW s \in Rank, ~Single(s)
  PROVE  Due(s) \subseteq Due(s)' /\ \A e \in Due(s)' \ Due(s) : e[1] > Place(s)
<1>1. /\ agreed' = [agreed EXCEPT ![r] = Append(@, Absent(r))]
      /\ pc[r] = "host"
  BY DEF BeginCall
<1>2. Len(agreed[r]) = call[r] - 1 /\ call[r] \in Nat /\ call[s] \in Nat
  BY <1>1 DEF AgreedInv, TypeOK
<1>3. agreed[r] \in Seq(SUBSET Nat) /\ agreed'[r] \in Seq(SUBSET Nat)
  BY DEF TypeOK
<1>4. /\ DOMAIN agreed'[r] = DOMAIN agreed[r] \cup {call[r]}
      /\ \A n \in DOMAIN agreed[r] : agreed'[r][n] = agreed[r][n]
  <2>1. agreed'[r] = Append(agreed[r], Absent(r))
    BY <1>1 DEF TypeOK
  <2>2. DOMAIN agreed[r] = 1 .. Len(agreed[r]) /\ DOMAIN agreed'[r] = 1 .. Len(agreed'[r])
    BY <1>3
  <2>3. Len(agreed'[r]) = Len(agreed[r]) + 1
    BY <1>3, <2>1
  <2>4. \A n \in 1 .. Len(agreed[r]) : agreed'[r][n] = agreed[r][n]
    BY <1>3, <2>1
  <2> QED BY <1>2, <2>2, <2>3, <2>4
<1>5. \A q \in Rank \ {r} : agreed'[q] = agreed[q]
  BY <1>1 DEF TypeOK
<1>6. Due(s) \subseteq Due(s)'
  <2> SUFFICES ASSUME NEW e \in Due(s) PROVE e \in Due(s)'
    OBVIOUS
  <2>1. /\ e \in Nat \X Nat
        /\ \A q \in Members(s) : q \in Rank /\ e[1] \in DOMAIN agreed[q]
        /\ \E q \in Members(s) : e[2] \in agreed[q][e[1]]
    BY DEF Due, Members
  <2>2. \A q \in Members(s) : e[1] \in DOMAIN agreed'[q] /\ agreed'[q][e[1]] = agreed[q][e[1]]
    BY <1>4, <1>5, <2>1
  <2> QED BY <2>1, <2>2 DEF Due, Members
<1>7. ASSUME NEW e \in Due(s)' \ Due(s) PROVE e[1] > Place(s)
  <2>1. /\ e \in Nat \X Nat
        /\ \A q \in Members(s) : q \in Rank /\ e[1] \in DOMAIN agreed'[q]
        /\ \E q \in Members(s) : e[2] \in agreed'[q][e[1]]
    BY <1>7 DEF Due, Members
  <2>2. r \in Members(s) /\ e[1] = call[r]
    <3>1. ~\A q \in Members(s) : e[1] \in DOMAIN agreed[q] /\ agreed'[q][e[1]] = agreed[q][e[1]]
      BY <1>7, <2>1 DEF Due
    <3>2. PICK q \in Members(s) :
            ~(e[1] \in DOMAIN agreed[q] /\ agreed'[q][e[1]] = agreed[q][e[1]])
      BY <3>1
    <3>3. q = r
      BY <1>5, <2>1, <3>2
    <3> QED BY <1>4, <2>1, <3>2, <3>3
  <2>3. s \in Members(r) /\ r \in Members(s)
    BY <2>2 DEF Members
  <2>4. call[s] - 1 <= call[r] - 1
    BY <1>2, <2>3 DEF LogInv
  <2>5. Decided(s) => call[s] <= call[r] - 1
    BY <1>2, <2>3 DEF AgreedInv
  <2> QED BY <1>2, <2>2, <2>4, <2>5 DEF Place
<1> QED BY <1>6, <1>7

\* A step that posts no flags leaves the logs of the other ranks.
LEMMA LogFrame ==
  ASSUME \A s \in Rank : LogInv(s), NEW r \in Rank, UNCHANGED agreed,
         NEW s \in Rank,
         /\ pc'[s] = pc[s] /\ call'[s] = call[s] /\ misses'[s] = misses[s]
         /\ todo'[s] = todo[s] /\ kernels'[s] = kernels[s] /\ counts'[s] = counts[s]
  PROVE  LogInv(s)'
<1>1. Due(s)' = Due(s)
  BY DEF Due, Members
<1>2. Place(s)' = Place(s) /\ Posts(s)' = Posts(s)
  BY DEF Place, Decided, Posts
<1>3. Item(s)' = Item(s)
  BY DEF Item
<1>4. EngineLeft(s)' = EngineLeft(s) /\ PostLeft(s)' = PostLeft(s)
  BY <1>3 DEF EngineLeft, PostLeft, Left, Entered, Asked
<1> QED BY <1>1, <1>2, <1>4 DEF LogInv, Single, Members

\* Flags are posted.
LEMMA LogBegins ==
  ASSUME TypeOK, TypeOK', \A s \in Rank : CallInv(s), \A s \in Rank : AgreedInv(s),
         \A s \in Rank : LogInv(s), NEW r \in Rank, BeginCall(r)
  PROVE  \A s \in Rank : LogInv(s)'
<1> SUFFICES ASSUME NEW s \in Rank PROVE LogInv(s)'
  OBVIOUS
<1>1. CASE Single(r)
  <2>1. CASE s = r
    BY <1>1, <2>1 DEF LogInv, Single, Members
  <2>2. CASE s # r
    <3>1. /\ UNCHANGED agreed
          /\ pc'[s] = pc[s] /\ call'[s] = call[s] /\ misses'[s] = misses[s]
          /\ todo'[s] = todo[s] /\ kernels'[s] = kernels[s] /\ counts'[s] = counts[s]
      BY <1>1, <2>2 DEF BeginCall, Go, TypeOK
    <3> QED BY <3>1, LogFrame
  <2> QED BY <2>1, <2>2
<1>2. CASE ~Single(r) /\ ~Single(s)
  <2>1. Due(s) \subseteq Due(s)' /\ \A e \in Due(s)' \ Due(s) : e[1] > Place(s)
    BY <1>2, BeginDue
  <2>2. UNCHANGED <<call, todo, kernels, counts>>
    BY DEF BeginCall
  <2>3. \/ pc'[s] = pc[s] /\ misses'[s] = misses[s]
        \/ s = r /\ pc[s] = "host" /\ pc'[s] = "agree"
    BY <1>2, SMTT(30) DEF BeginCall, Go, TypeOK
  <2>4. Place(s)' = Place(s)
    BY <2>2, <2>3 DEF Place, Decided
  <2>5. Posts(s)' = Posts(s) /\ Item(s)' = Item(s)
    BY <2>2 DEF Posts, Item
  <2>6. EngineLeft(s)' = EngineLeft(s) /\ PostLeft(s)' = PostLeft(s)
    BY <2>2, <2>3, <2>5 DEF EngineLeft, PostLeft, Left, Entered, Asked
  <2>7. \A q \in Members(s) : Len(agreed'[q]) >= call[s] - 1
    <3> SUFFICES ASSUME NEW q \in Members(s) PROVE Len(agreed'[q]) >= call[s] - 1
      OBVIOUS
    <3>1. Len(agreed[q]) >= call[s] - 1 /\ q \in Rank
      BY <1>2 DEF LogInv, Members
    <3>2. agreed[q] \in Seq(SUBSET Nat) /\ call[s] \in Nat
      BY <3>1 DEF TypeOK
    <3>3. agreed'[q] = agreed[q] \/ agreed'[q] = Append(agreed[q], Absent(r))
      <4> DEFINE absent == Absent(r)
      <4>1. agreed' = [agreed EXCEPT ![r] = Append(@, absent)]
        BY <1>2 DEF BeginCall
      <4> HIDE DEF absent
      <4>2. agreed'[q] = IF q = r THEN Append(agreed[q], absent) ELSE agreed[q]
        BY <3>1, <4>1 DEF TypeOK
      <4> QED BY <4>2 DEF absent
    <3> QED BY <3>1, <3>2, <3>3
  <2>8. InOrder(kernels[s], Place(s), EngineLeft(s), Due(s)')
    BY <1>2, <2>1, DueGrows DEF LogInv
  <2>9. InOrder(Posts(s), Place(s), PostLeft(s), Due(s)')
    BY <1>2, <2>1, DueGrows DEF LogInv
  <2> QED BY <2>2, <2>4, <2>5, <2>6, <2>7, <2>8, <2>9 DEF LogInv, Members
<1>3. CASE Single(s)
  BY <1>3 DEF LogInv, Single, Members
<1> QED BY <1>1, <1>2, <1>3


\* The logs of a rank whose place does not change.
LEMMA LogSame ==
  ASSUME NEW r \in Rank, LogInv(r), UNCHANGED agreed, call'[r] = call[r],
         kernels'[r] = kernels[r], counts'[r] = counts[r], Place(r)' = Place(r),
         EngineLeft(r)' = EngineLeft(r), PostLeft(r)' = PostLeft(r)
  PROVE  LogInv(r)'
<1>1. Due(r)' = Due(r)
  BY DEF Due, Members
<1>2. Posts(r)' = Posts(r)
  BY DEF Posts
<1> QED BY <1>1, <1>2 DEF LogInv, Single, Members

\* The flags of a call have come together.
LEMMA LogDecides ==
  ASSUME TypeOK, NEW r \in Rank, CallInv(r), AgreedInv(r), LogInv(r), AgreeReturns(r)
  PROVE  LogInv(r)'
<1>1. /\ pc[r] = "agree" /\ ~Single(r) /\ todo[r] = {} /\ Len(agreed[r]) = call[r]
      /\ call[r] \in Nat
  BY DEF AgreeReturns, CallInv, AgreedInv, TypeOK
<1>2. /\ UNCHANGED <<call, todo, kernels, counts, agreed>>
      /\ pc'[r] = "serve"
      /\ misses'[r] = UNION {agreed[q][call[r]] : q \in Members(r)}
  BY <1>1 DEF AgreeReturns, JointMisses, Go, logVars, TypeOK
<1>3. Due(r)' = Due(r) /\ Posts(r)' = Posts(r)
  BY <1>2 DEF Due, Members, Posts
<1>4. Place(r) = call[r] - 1 /\ EngineLeft(r) = {} /\ PostLeft(r) = {}
  BY <1>1 DEF Place, Decided, EngineLeft, PostLeft, Left
<1>5. Place(r)' = call[r] /\ EngineLeft(r)' = misses'[r] /\ PostLeft(r)' = misses'[r]
  BY <1>2 DEF Place, Decided, EngineLeft, PostLeft, Left
<1>6. \A e \in Due(r) : e[1] = call[r] => e[2] \in misses'[r]
  BY <1>2 DEF Due
<1>7. Due(r) \in SUBSET (Nat \X Nat)
  BY LogTypes
<1>8. InOrder(kernels[r], call[r], misses'[r], Due(r))
  BY <1>1, <1>4, <1>6, <1>7, NextDecided DEF LogInv
<1>9. InOrder(Posts(r), call[r], misses'[r], Due(r))
  BY <1>1, <1>4, <1>6, <1>7, NextDecided DEF LogInv
<1> QED BY <1>1, <1>2, <1>3, <1>5, <1>8, <1>9 DEF LogInv, Members

\* A rank enters the engine with the next item of its call.
LEMMA LogEnters ==
  ASSUME TypeOK, NEW r \in Rank, AgreedInv(r), LogInv(r), ~Single(r), EnterEngine(r)
  PROVE  LogInv(r)'
<1>1. /\ pc[r] = "force" /\ todo[r] # {} /\ todo[r] \subseteq misses[r]
      /\ call[r] \in Nat /\ todo[r] \in SUBSET Nat
  BY DEF EnterEngine, TypeOK
<1>2. /\ UNCHANGED <<call, todo, counts, agreed>>
      /\ pc'[r] = "engine"
      /\ kernels'[r] = Append(kernels[r], <<call[r], Item(r)>>)
  BY DEF EnterEngine, Go, TypeOK
<1>3. Due(r)' = Due(r) /\ Posts(r)' = Posts(r) /\ Item(r)' = Item(r)
  BY <1>2 DEF Due, Members, Posts, Item
<1>4. Place(r) = call[r] /\ EngineLeft(r) = todo[r] /\ PostLeft(r) = todo[r]
  BY <1>1 DEF Place, Decided, EngineLeft, PostLeft, Left
<1>5. Place(r)' = call[r] /\ EngineLeft(r)' = todo[r] \ {Item(r)} /\ PostLeft(r)' = todo[r]
  BY <1>2, <1>3 DEF Place, Decided, EngineLeft, PostLeft, Left
<1>6. Item(r) \in todo[r] /\ \A j \in todo[r] : Item(r) <= j
  BY <1>1, LeastNat DEF Item
<1>7. <<call[r], Item(r)>> \in Due(r) /\ Due(r) \in SUBSET (Nat \X Nat)
  BY <1>1, <1>6, MissesDue, LogTypes DEF Decided
<1>8. InOrder(kernels[r], call[r], todo[r], Due(r)) /\ InOrder(Posts(r), call[r], todo[r], Due(r))
  BY <1>4 DEF LogInv
<1>9. InOrder(kernels'[r], call[r], todo[r] \ {Item(r)}, Due(r))
  <2>1. InOrder(Append(kernels[r], <<call[r], Item(r)>>), call[r], todo[r] \ {Item(r)}, Due(r))
    BY <1>1, <1>6, <1>7, <1>8, NextItem
  <2> QED BY <1>2, <2>1
<1> QED BY <1>2, <1>3, <1>5, <1>8, <1>9 DEF LogInv, Single, Members

\* What a rank posts is appended to its posts.
LEMMA PostsAppend ==
  ASSUME TypeOK, TypeOK', NEW r \in Rank, ~Single(r), NEW error \in BOOLEAN,
         Publish(r, error)
  PROVE  /\ Posts(r)' = Append(Posts(r), Asked(r))
         /\ Len(counts'[r]) = Len(counts[r]) + 1
         /\ \A n \in 1 .. Len(counts[r]) : counts'[r][n] = counts[r][n]
         /\ counts'[r][Len(counts[r]) + 1].error = error
         /\ Posts(r)'[Len(counts[r]) + 1] = Asked(r)
<1> DEFINE post == [call |-> call[r], item |-> Item(r), error |-> error]
<1>1. counts'[r] = Append(counts[r], post)
  BY DEF Publish, TypeOK
<1>2. counts[r] \in Seq(Post) /\ counts'[r] \in Seq(Post)
  BY DEF TypeOK
<1>3. post.call = call[r] /\ post.item = Item(r) /\ post.error = error
  OBVIOUS
<1> HIDE DEF post
<1>4. /\ Len(counts'[r]) = Len(counts[r]) + 1 /\ Len(counts[r]) \in Nat
      /\ \A n \in 1 .. Len(counts[r]) : counts'[r][n] = counts[r][n]
      /\ counts'[r][Len(counts[r]) + 1] = post
  BY <1>1, <1>2
<1>5. /\ DOMAIN counts'[r] = 1 .. Len(counts[r]) + 1
      /\ DOMAIN counts[r] = 1 .. Len(counts[r])
  BY <1>2, <1>4
<1>6. /\ Posts(r) \in Seq(Nat \X Nat) /\ Len(Posts(r)) = Len(counts[r])
      /\ Posts(r)' \in Seq(Nat \X Nat) /\ Len(Posts(r)') = Len(counts[r]) + 1
  <2>1. Posts(r) \in Seq(Nat \X Nat) /\ Len(Posts(r)) = Len(counts[r])
    BY LogTypes
  <2>2. Posts(r)' \in Seq(Nat \X Nat) /\ Len(Posts(r)') = Len(counts'[r])
    BY <1>2, PostPairs DEF Posts
  <2> QED BY <1>4, <2>1, <2>2
<1>7. ASSUME NEW n \in 1 .. Len(counts[r])
      PROVE  Posts(r)'[n] = Posts(r)[n]
  <2>1. n \in DOMAIN counts[r] /\ n \in DOMAIN counts'[r] /\ counts'[r][n] = counts[r][n]
    BY <1>4, <1>5
  <2>2. Posts(r)'[n] = <<counts'[r][n].call, counts'[r][n].item>>
    BY <2>1, Zenon DEF Posts
  <2>3. Posts(r)[n] = <<counts[r][n].call, counts[r][n].item>>
    BY <2>1, Zenon DEF Posts
  <2> QED BY <2>1, <2>2, <2>3
<1>8. Posts(r)'[Len(counts[r]) + 1] = Asked(r)
  BY <1>3, <1>4, <1>5 DEF Posts, Asked
<1>9. Asked(r) \in Nat \X Nat
  <2>1. Posts(r)'[Len(counts[r]) + 1] \in Nat \X Nat
    BY <1>4, <1>6
  <2> QED BY <1>8, <2>1
<1>10. Posts(r)' = Append(Posts(r), Asked(r))
  <2>1. /\ Append(Posts(r), Asked(r)) \in Seq(Nat \X Nat)
        /\ Len(Append(Posts(r), Asked(r))) = Len(counts[r]) + 1
        /\ \A n \in 1 .. Len(counts[r]) : Append(Posts(r), Asked(r))[n] = Posts(r)[n]
        /\ Append(Posts(r), Asked(r))[Len(counts[r]) + 1] = Asked(r)
    BY <1>6, <1>9, AppendProperties, SMTT(30)
  <2>2. ASSUME NEW n \in 1 .. Len(Posts(r)')
        PROVE  Posts(r)'[n] = Append(Posts(r), Asked(r))[n]
    <3>1. n \in 1 .. Len(counts[r]) \/ n = Len(counts[r]) + 1
      BY <1>4, <1>6, SMTT(30)
    <3>2. CASE n \in 1 .. Len(counts[r])
      BY <1>7, <2>1, <3>2
    <3>3. CASE n = Len(counts[r]) + 1
      BY <1>8, <2>1, <3>3
    <3> QED BY <3>1, <3>2, <3>3
  <2> QED BY <1>6, <2>1, <2>2, SeqEqual
<1> QED BY <1>3, <1>4, <1>8, <1>10

\* A rank ends its force call and enters the exchange of errors.
LEMMA LogPosts ==
  ASSUME TypeOK, TypeOK', NEW r \in Rank, CallInv(r), AgreedInv(r), LogInv(r), LastInv(r),
         ~Single(r), pc[r] \in {"force", "engine"}, todo[r] # {},
         NEW error \in BOOLEAN, Publish(r, error), UNCHANGED <<call, agreed, kernels>>
  PROVE  LogInv(r)'
<1>1. todo[r] \subseteq misses[r] /\ call[r] \in Nat /\ todo[r] \in SUBSET Nat
  BY DEF TypeOK
<1>2. UNCHANGED todo /\ pc'[r] = "counts"
  BY DEF Publish, Go, TypeOK
<1>3. Due(r)' = Due(r) /\ Item(r)' = Item(r) /\ Asked(r)' = Asked(r) /\ Entered(r)' = Entered(r)
  BY <1>2 DEF Due, Members, Item, Asked, Entered
<1>4. Place(r) = call[r] /\ PostLeft(r) = todo[r]
  BY DEF Place, Decided, PostLeft, Left
<1>5. Place(r)' = call[r] /\ PostLeft(r)' = todo[r] \ {Item(r)}
  BY <1>2, <1>3 DEF Place, Decided, PostLeft
<1>6. Item(r) \in todo[r] /\ \A j \in todo[r] : Item(r) <= j
  BY <1>1, LeastNat DEF Item
<1>7. <<call[r], Item(r)>> \in Due(r) /\ Due(r) \in SUBSET (Nat \X Nat)
  BY <1>1, <1>6, MissesDue, LogTypes DEF Decided
<1>8. InOrder(kernels[r], call[r], EngineLeft(r), Due(r)) /\ InOrder(Posts(r), call[r], todo[r], Due(r))
  BY <1>4 DEF LogInv
<1>9. InOrder(Posts(r)', call[r], todo[r] \ {Item(r)}, Due(r))
  <2>1. Posts(r)' = Append(Posts(r), <<call[r], Item(r)>>)
    BY PostsAppend DEF Asked
  <2>2. InOrder(Append(Posts(r), <<call[r], Item(r)>>), call[r], todo[r] \ {Item(r)}, Due(r))
    BY <1>1, <1>6, <1>7, <1>8, NextItem
  <2> QED BY <2>1, <2>2
<1>10. EngineLeft(r)' = EngineLeft(r)
  <2>1. CASE pc[r] = "engine"
    <3>1. Entered(r)
      BY <2>1 DEF LastInv
    <3> QED BY <1>2, <1>3, <2>1, <3>1 DEF EngineLeft
  <2>2. CASE pc[r] = "force"
    <3>1. EngineLeft(r) = todo[r]
      BY <2>2 DEF EngineLeft, Left
    <3>2. ~Entered(r)
      BY <1>1, <1>6, <1>7, <1>8, <3>1, NextItem, ZenonT(60) DEF Entered, Asked
    <3> QED BY <1>2, <1>3, <3>1, <3>2 DEF EngineLeft, Left
  <2> QED BY <2>1, <2>2
<1>11. \A q \in Members(r) : Len(agreed[q]) >= call[r] - 1
  BY DEF LogInv
<1> QED BY <1>3, <1>5, <1>8, <1>9, <1>10, <1>11 DEF LogInv, Single, Members

\* A rank that finds no error in the exchange has been in the engine.
LEMMA CleanEntered ==
  ASSUME TypeOK, NEW r \in Rank, LastInv(r), ~Single(r), CountsClean(r)
  PROVE  Entered(r)
<1>1. pc[r] = "counts" /\ ~counts[r][Len(counts[r])].error
  BY DEF CountsClean, AnyError, Members
<1>2. Len(counts[r]) > 0 /\ Posts(r)[Len(counts[r])] = Asked(r)
  BY <1>1 DEF LastInv
<1>3. Len(counts[r]) \in DOMAIN counts[r] /\ DOMAIN kernels[r] = 1 .. Len(kernels[r])
  <2>1. counts[r] \in Seq(Post) /\ kernels[r] \in Seq(Nat \X Nat)
    BY DEF TypeOK
  <2> QED BY <1>2, <2>1
<1>4. \E m \in DOMAIN kernels[r] : kernels[r][m] = Posts(r)[Len(counts[r])]
  BY <1>1, <1>3 DEF LastInv
<1> QED BY <1>2, <1>3, <1>4 DEF Entered

\* A step of one rank leaves the others where they are, and what they logged.
LEMMA StepFrame ==
  ASSUME TypeOK, NEW r \in Rank, Proceed(r) \/ Mishap(r), NEW s \in Rank \ {r}
  PROVE  /\ pc'[s] = pc[s] /\ call'[s] = call[s] /\ misses'[s] = misses[s]
         /\ todo'[s] = todo[s] /\ agreed'[s] = agreed[s]
         /\ kernels'[s] = kernels[s] /\ counts'[s] = counts[s]
<1> USE DEF logVars
<1>1. UNCHANGED pc \/ \E w : pc' = [pc EXCEPT ![r] = w]
  BY DEF Proceed, Mishap, BeginCall, AgreeReturns, ServeHits, ServeThrows, EndCall,
       EnterEngine, EngineReturns, ForceRejected, CountsClean, CountsDirty, TextsReturn,
       WaitTimesOut, EnterShare, ShareReturns, ShareRejected, EngineFails,
       EngineReturnsAnyway, Publish, Go
<1>2. UNCHANGED call \/ \E w : call' = [call EXCEPT ![r] = w]
  BY DEF Proceed, Mishap, BeginCall, AgreeReturns, ServeHits, ServeThrows, EndCall,
       EnterEngine, EngineReturns, ForceRejected, CountsClean, CountsDirty, TextsReturn,
       WaitTimesOut, EnterShare, ShareReturns, ShareRejected, EngineFails,
       EngineReturnsAnyway, Publish, Go
<1>3. UNCHANGED misses \/ \E w : misses' = [misses EXCEPT ![r] = w]
  BY DEF Proceed, Mishap, BeginCall, AgreeReturns, ServeHits, ServeThrows, EndCall,
       EnterEngine, EngineReturns, ForceRejected, CountsClean, CountsDirty, TextsReturn,
       WaitTimesOut, EnterShare, ShareReturns, ShareRejected, EngineFails,
       EngineReturnsAnyway, Publish, Go
<1>4. UNCHANGED todo \/ \E w : todo' = [todo EXCEPT ![r] = w]
  BY DEF Proceed, Mishap, BeginCall, AgreeReturns, ServeHits, ServeThrows, EndCall,
       EnterEngine, EngineReturns, ForceRejected, CountsClean, CountsDirty, TextsReturn,
       WaitTimesOut, EnterShare, ShareReturns, ShareRejected, EngineFails,
       EngineReturnsAnyway, Publish, Go
<1>5. UNCHANGED agreed \/ \E w : agreed' = [agreed EXCEPT ![r] = w]
  BY DEF Proceed, Mishap, BeginCall, AgreeReturns, ServeHits, ServeThrows, EndCall,
       EnterEngine, EngineReturns, ForceRejected, CountsClean, CountsDirty, TextsReturn,
       WaitTimesOut, EnterShare, ShareReturns, ShareRejected, EngineFails,
       EngineReturnsAnyway, Publish, Go
<1>6. UNCHANGED kernels \/ \E w : kernels' = [kernels EXCEPT ![r] = w]
  BY DEF Proceed, Mishap, BeginCall, AgreeReturns, ServeHits, ServeThrows, EndCall,
       EnterEngine, EngineReturns, ForceRejected, CountsClean, CountsDirty, TextsReturn,
       WaitTimesOut, EnterShare, ShareReturns, ShareRejected, EngineFails,
       EngineReturnsAnyway, Publish, Go
<1>7. UNCHANGED counts \/ \E w : counts' = [counts EXCEPT ![r] = w]
  BY DEF Proceed, Mishap, BeginCall, AgreeReturns, ServeHits, ServeThrows, EndCall,
       EnterEngine, EngineReturns, ForceRejected, CountsClean, CountsDirty, TextsReturn,
       WaitTimesOut, EnterShare, ShareReturns, ShareRejected, EngineFails,
       EngineReturnsAnyway, Publish, Go
<1> QED BY <1>1, <1>2, <1>3, <1>4, <1>5, <1>6, <1>7 DEF TypeOK

\* No step breaks the order of the logs.
LEMMA LogStep ==
  ASSUME TypeOK, TypeOK', \A s \in Rank : CallInv(s), \A s \in Rank : AgreedInv(s),
         \A s \in Rank : LogInv(s), \A s \in Rank : LastInv(s), \A s \in Rank : SoundInv(s),
         NEW r \in Rank, Proceed(r) \/ Mishap(r)
  PROVE  \A s \in Rank : LogInv(s)'
<1> USE DEF logVars, Go
<1>1. CASE BeginCall(r)
  BY <1>1, LogBegins
<1> SUFFICES ASSUME ~BeginCall(r) PROVE \A s \in Rank : LogInv(s)'
  BY <1>1
<1>2. ~ServeThrows(r)
  BY NothingThrows
<1>3. UNCHANGED agreed
  BY <1>2 DEF Proceed, Mishap, AgreeReturns, ServeHits, EndCall, EnterEngine, EngineReturns,
     ForceRejected, CountsClean, CountsDirty, TextsReturn, WaitTimesOut, EnterShare,
     ShareReturns, ShareRejected, EngineFails, EngineReturnsAnyway
<1>4. ASSUME NEW s \in Rank \ {r} PROVE LogInv(s)'
  <2>1. /\ pc'[s] = pc[s] /\ call'[s] = call[s] /\ misses'[s] = misses[s]
        /\ todo'[s] = todo[s] /\ kernels'[s] = kernels[s] /\ counts'[s] = counts[s]
    BY <1>2, StepFrame
  <2> QED BY <1>3, <2>1, LogFrame
<1>5. ASSUME ~Single(r) PROVE LogInv(r)'
  <2>1. CASE AgreeReturns(r)
    BY <2>1, LogDecides
  <2>2. CASE ServeHits(r)
    BY <1>3, <2>2, LogSame DEF ServeHits, TypeOK, Place, Decided, EngineLeft, PostLeft, Left
  <2>3. CASE EndCall(r)
    <3>1. /\ pc[r] = "force" /\ pc'[r] = "host" /\ todo[r] = {} /\ call'[r] = call[r] + 1
          /\ call[r] \in Nat /\ UNCHANGED <<todo, kernels, counts>>
      BY <2>3 DEF EndCall, TypeOK
    <3>2. Place(r) = call[r] /\ EngineLeft(r) = {} /\ PostLeft(r) = {}
      BY <3>1 DEF Place, Decided, EngineLeft, PostLeft, Left
    <3>3. Place(r)' = call[r] /\ EngineLeft(r)' = {} /\ PostLeft(r)' = {}
      BY <3>1 DEF Place, Decided, EngineLeft, PostLeft, Left
    <3>4. \A q \in Members(r) : Len(agreed[q]) >= call'[r] - 1
      BY <1>5, <3>1 DEF AgreedInv, Decided
    <3>5. Due(r)' = Due(r) /\ Posts(r)' = Posts(r)
      BY <1>3, <3>1 DEF Due, Members, Posts
    <3> QED BY <1>3, <1>5, <3>1, <3>2, <3>3, <3>4, <3>5 DEF LogInv, Members
  <2>4. CASE EnterEngine(r)
    BY <1>5, <2>4, LogEnters
  <2>5. CASE EngineReturns(r) \/ EngineReturnsAnyway(r) \/ EngineFails(r) \/ ForceRejected(r)
    <3>1. PICK error \in BOOLEAN : Publish(r, error)
      BY <2>5 DEF EngineReturns, EngineReturnsAnyway, EngineFails, ForceRejected
    <3>2. /\ pc[r] \in {"force", "engine"} /\ todo[r] # {}
          /\ UNCHANGED <<call, agreed, kernels>>
      BY <2>5 DEF EngineReturns, EngineReturnsAnyway, EngineFails, ForceRejected, CallInv
    <3> QED BY <1>5, <3>1, <3>2, LogPosts
  <2>6. CASE CountsClean(r)
    <3>1. Entered(r)
      BY <1>5, <2>6, CleanEntered
    <3>2. /\ pc[r] = "counts" /\ pc'[r] = "force" /\ todo'[r] = todo[r] \ {Item(r)}
          /\ UNCHANGED <<call, kernels, counts>>
      BY <2>6 DEF CountsClean, TypeOK
    <3> QED BY <1>3, <3>1, <3>2, LogSame DEF Place, Decided, EngineLeft, PostLeft, Left
  <2>7. CASE CountsDirty(r)
    <3>1. /\ pc[r] = "counts" /\ pc'[r] = "text"
          /\ UNCHANGED <<call, todo, kernels, counts>>
      BY <2>7 DEF CountsDirty, TypeOK
    <3>2. Item(r)' = Item(r) /\ Entered(r)' = Entered(r)
      BY <3>1 DEF Item, Entered, Asked
    <3> QED BY <1>3, <3>1, <3>2, LogSame DEF Place, Decided, EngineLeft, PostLeft, Left
  <2>8. CASE TextsReturn(r) \/ WaitTimesOut(r) \/ ShareRejected(r)
    <3>1. UNCHANGED <<pc, call, misses, todo, kernels, counts>>
      BY <2>8 DEF TextsReturn, WaitTimesOut, ShareRejected
    <3> QED BY <1>3, <3>1, LogFrame
  <2>9. CASE EnterShare(r) \/ ShareReturns(r)
    <3>1. /\ pc[r] \in {"host", "share"} /\ pc'[r] \in {"share", "leave"}
          /\ UNCHANGED <<call, todo, kernels, counts>>
      BY <2>9 DEF EnterShare, ShareReturns, TypeOK
    <3> QED BY <1>3, <3>1, LogSame DEF Place, Decided, EngineLeft, PostLeft, Left
  <2> QED BY <1>2, <2>1, <2>2, <2>3, <2>4, <2>5, <2>6, <2>7, <2>8, <2>9 DEF Proceed, Mishap
<1>6. ASSUME Single(r) PROVE LogInv(r)'
  BY <1>6 DEF LogInv, Single, Members
<1> QED BY <1>4, <1>5, <1>6

\* Nothing new is entered or posted.
LEMMA LastSame ==
  ASSUME NEW s \in Rank, LastInv(s), kernels'[s] = kernels[s], counts'[s] = counts[s],
         \/ pc'[s] \notin {"engine", "counts", "text"}
         \/ /\ call'[s] = call[s] /\ todo'[s] = todo[s]
            /\ pc'[s] = pc[s] \/ (pc[s] = "counts" /\ pc'[s] = "text")
  PROVE  LastInv(s)'
<1>1. Posts(s)' = Posts(s)
  BY DEF Posts
<1>2. CASE pc'[s] \notin {"engine", "counts", "text"}
  BY <1>1, <1>2 DEF LastInv, Single, Members
<1>3. CASE /\ call'[s] = call[s] /\ todo'[s] = todo[s]
           /\ pc'[s] = pc[s] \/ (pc[s] = "counts" /\ pc'[s] = "text")
  <2>1. Asked(s)' = Asked(s)
    BY <1>3 DEF Asked, Item
  <2>2. Entered(s)' = Entered(s)
    BY <2>1 DEF Entered
  <2> QED BY <1>1, <1>3, <2>1, <2>2 DEF LastInv, Single, Members
<1> QED BY <1>2, <1>3

\* A rank enters the engine.
LEMMA LastEnters ==
  ASSUME TypeOK, TypeOK', NEW r \in Rank, LastInv(r), ~Single(r), EnterEngine(r)
  PROVE  LastInv(r)'
<1>1. /\ pc'[r] = "engine" /\ UNCHANGED <<call, todo, counts>>
      /\ kernels'[r] = Append(kernels[r], Asked(r))
  BY DEF EnterEngine, Go, Asked, TypeOK
<1>2. Posts(r)' = Posts(r) /\ Asked(r)' = Asked(r)
  BY <1>1 DEF Posts, Asked, Item
<1>3. /\ kernels[r] \in Seq(Nat \X Nat) /\ Len(kernels'[r]) = Len(kernels[r]) + 1
      /\ kernels'[r][Len(kernels[r]) + 1] = Asked(r)
      /\ \A m \in DOMAIN kernels[r] : m \in DOMAIN kernels'[r] /\ kernels'[r][m] = kernels[r][m]
  <2>1. kernels[r] \in Seq(Nat \X Nat) /\ kernels'[r] \in Seq(Nat \X Nat)
    BY DEF TypeOK
  <2>2. Len(kernels'[r]) = Len(kernels[r]) + 1 /\ kernels'[r][Len(kernels[r]) + 1] = Asked(r)
    BY <1>1, <2>1
  <2>3. \A m \in 1 .. Len(kernels[r]) : kernels'[r][m] = kernels[r][m]
    BY <1>1, <2>1
  <2>4. DOMAIN kernels[r] = 1 .. Len(kernels[r]) /\ DOMAIN kernels'[r] = 1 .. Len(kernels'[r])
    BY <2>1
  <2>5. \A m \in DOMAIN kernels[r] : m \in DOMAIN kernels'[r]
    BY <2>1, <2>2, <2>4
  <2> QED BY <2>1, <2>2, <2>3, <2>4, <2>5
<1>4. Entered(r)'
  <2>1. Len(kernels[r]) + 1 \in 1 .. Len(kernels'[r])
    BY <1>3
  <2> QED BY <1>2, <1>3, <2>1 DEF Entered
<1>5. \A n \in DOMAIN counts[r] : ~counts[r][n].error =>
        \E m \in DOMAIN kernels'[r] : kernels'[r][m] = Posts(r)[n]
  <2> SUFFICES ASSUME NEW n \in DOMAIN counts[r], ~counts[r][n].error
               PROVE  \E m \in DOMAIN kernels'[r] : kernels'[r][m] = Posts(r)[n]
    OBVIOUS
  <2>1. PICK m \in DOMAIN kernels[r] : kernels[r][m] = Posts(r)[n]
    BY DEF LastInv
  <2> QED BY <1>3, <2>1
<1> QED BY <1>1, <1>2, <1>4, <1>5 DEF LastInv

\* A rank enters the exchange: without an error, only from the engine.
LEMMA LastPosts ==
  ASSUME TypeOK, TypeOK', NEW r \in Rank, LastInv(r), ~Single(r),
         NEW error \in BOOLEAN, Publish(r, error), error \/ pc[r] = "engine",
         UNCHANGED <<call, kernels>>
  PROVE  LastInv(r)'
<1>1. UNCHANGED todo /\ pc'[r] = "counts"
  BY DEF Publish, Go, TypeOK
<1>2. Asked(r)' = Asked(r)
  BY <1>1 DEF Asked, Item
<1>3. /\ Len(counts'[r]) = Len(counts[r]) + 1
      /\ \A n \in 1 .. Len(counts[r]) : counts'[r][n] = counts[r][n]
      /\ counts'[r][Len(counts[r]) + 1].error = error
      /\ Posts(r)'[Len(counts[r]) + 1] = Asked(r)
  BY PostsAppend
<1>4. /\ counts[r] \in Seq(Post) /\ DOMAIN counts[r] = 1 .. Len(counts[r])
      /\ DOMAIN counts'[r] = 1 .. Len(counts'[r]) /\ Len(counts[r]) \in Nat
  <2>1. counts[r] \in Seq(Post) /\ counts'[r] \in Seq(Post)
    BY DEF TypeOK
  <2> QED BY <2>1
<1>5. DOMAIN kernels[r] = 1 .. Len(kernels[r])
  <2>1. kernels[r] \in Seq(Nat \X Nat)
    BY DEF TypeOK
  <2> QED BY <2>1
<1>6. ASSUME NEW n \in DOMAIN counts'[r], ~counts'[r][n].error
      PROVE  \E m \in DOMAIN kernels[r] : kernels[r][m] = Posts(r)'[n]
  <2>1. CASE n = Len(counts[r]) + 1
    <3>1. Entered(r)
      BY <1>3, <1>6, <2>1 DEF LastInv
    <3> QED BY <1>3, <1>5, <2>1, <3>1 DEF Entered
  <2>2. CASE n \in 1 .. Len(counts[r])
    <3>1. counts'[r][n] = counts[r][n] /\ n \in DOMAIN counts[r]
      BY <1>3, <1>4, <2>2
    <3>2. Posts(r)'[n] = Posts(r)[n]
      BY <1>6, <3>1 DEF Posts
    <3>3. \E m \in DOMAIN kernels[r] : kernels[r][m] = Posts(r)[n]
      BY <1>6, <3>1 DEF LastInv
    <3> QED BY <3>2, <3>3
  <2> QED BY <1>3, <1>4, <2>1, <2>2
<1>7. Len(counts'[r]) > 0 /\ Posts(r)'[Len(counts'[r])] = Asked(r)'
  BY <1>2, <1>3, <1>4
<1> QED BY <1>1, <1>6, <1>7 DEF LastInv

\* What was entered and posted last.
LEMMA LastStep ==
  ASSUME TypeOK, TypeOK', \A s \in Rank : CallInv(s), \A s \in Rank : LastInv(s),
         NEW r \in Rank, Proceed(r) \/ Mishap(r)
  PROVE  \A s \in Rank : LastInv(s)'
<1> USE DEF logVars, Go
<1>1. ASSUME NEW s \in Rank \ {r} PROVE LastInv(s)'
  BY StepFrame, LastSame
<1>2. ASSUME Single(r) PROVE LastInv(r)'
  BY <1>2 DEF LastInv, Single, Members
<1>3. ASSUME ~Single(r) PROVE LastInv(r)'
  <2>1. CASE EnterEngine(r)
    BY <1>3, <2>1, LastEnters
  <2>2. CASE EngineReturns(r) \/ EngineReturnsAnyway(r) \/ EngineFails(r) \/ ForceRejected(r)
    <3>1. PICK error \in BOOLEAN : Publish(r, error) /\ (error \/ pc[r] = "engine")
      BY <2>2 DEF EngineReturns, EngineReturnsAnyway, EngineFails, ForceRejected
    <3>2. UNCHANGED <<call, kernels>>
      BY <2>2 DEF EngineReturns, EngineReturnsAnyway, EngineFails, ForceRejected
    <3> QED BY <1>3, <3>1, <3>2, LastPosts
  <2>3. CASE \/ BeginCall(r) \/ AgreeReturns(r) \/ ServeHits(r) \/ ServeThrows(r) \/ EndCall(r)
             \/ CountsClean(r) \/ EnterShare(r) \/ ShareReturns(r)
    <3>1. kernels'[r] = kernels[r] /\ counts'[r] = counts[r]
      BY <2>3 DEF BeginCall, AgreeReturns, ServeHits, ServeThrows, EndCall, CountsClean,
                  EnterShare, ShareReturns
    <3>2. pc'[r] \notin {"engine", "counts", "text"}
      BY <2>3 DEF BeginCall, AgreeReturns, ServeHits, ServeThrows, EndCall, CountsClean,
                  EnterShare, ShareReturns, TypeOK
    <3> QED BY <3>1, <3>2, LastSame
  <2>4. CASE CountsDirty(r) \/ TextsReturn(r) \/ WaitTimesOut(r) \/ ShareRejected(r)
    <3>1. UNCHANGED <<call, todo, kernels, counts>>
      BY <2>4 DEF CountsDirty, TextsReturn, WaitTimesOut, ShareRejected
    <3>2. pc'[r] = pc[r] \/ (pc[r] = "counts" /\ pc'[r] = "text")
      BY <2>4 DEF CountsDirty, TextsReturn, WaitTimesOut, ShareRejected, TypeOK
    <3> QED BY <3>1, <3>2, LastSame
  <2> QED BY <2>1, <2>2, <2>3, <2>4 DEF Proceed, Mishap
<1> QED BY <1>1, <1>2, <1>3

\* Engine calls are only added to a log.
LEMMA KernelsGrow ==
  ASSUME TypeOK, TypeOK', NEW r \in Rank, Proceed(r) \/ Mishap(r), NEW q \in Rank
  PROVE  \A n \in DOMAIN kernels[q] : n \in DOMAIN kernels'[q] /\ kernels'[q][n] = kernels[q][n]
<1>1. UNCHANGED kernels \/ EnterEngine(r)
  BY DEF Proceed, Mishap, BeginCall, AgreeReturns, ServeHits, ServeThrows, EndCall,
     EngineReturns, ForceRejected, CountsClean, CountsDirty, TextsReturn, WaitTimesOut,
     EnterShare, ShareReturns, ShareRejected, EngineFails, EngineReturnsAnyway, logVars
<1>2. kernels[q] \in Seq(Nat \X Nat) /\ kernels'[q] \in Seq(Nat \X Nat)
  BY DEF TypeOK
<1>3. kernels'[q] = kernels[q] \/ kernels'[q] = Append(kernels[q], <<call[r], Item(r)>>)
  <2>1. CASE UNCHANGED kernels
    BY <2>1
  <2>2. CASE EnterEngine(r)
    <3>1. kernels' = [kernels EXCEPT ![r] = Append(@, <<call[r], Item(r)>>)]
      BY <2>2 DEF EnterEngine
    <3>2. q \in DOMAIN kernels
      BY DEF TypeOK
    <3> QED BY <3>1, <3>2, Zenon
  <2> QED BY <1>1, <2>1, <2>2
<1>4. CASE kernels'[q] = Append(kernels[q], <<call[r], Item(r)>>)
  <2>1. Len(kernels'[q]) = Len(kernels[q]) + 1
    BY <1>2, <1>4
  <2>2. \A n \in 1 .. Len(kernels[q]) : kernels'[q][n] = kernels[q][n]
    BY <1>2, <1>4
  <2>3. DOMAIN kernels[q] = 1 .. Len(kernels[q]) /\ DOMAIN kernels'[q] = 1 .. Len(kernels'[q])
        /\ Len(kernels[q]) \in Nat
    BY <1>2
  <2>4. \A n \in DOMAIN kernels[q] : n \in DOMAIN kernels'[q]
    BY <2>1, <2>3
  <2> QED BY <2>2, <2>3, <2>4
<1> QED BY <1>3, <1>4

\* What all ranks of a calculator have entered stays entered.
LEMMA MetKept ==
  ASSUME TypeOK, TypeOK', NEW r \in Rank, Proceed(r) \/ Mishap(r),
         NEW s \in Rank, MetInv(s), ~Single(s),
         \A e \in Due(s)' :
           e[1] < Place(s)' \/ (e[1] = Place(s)' /\ e[2] \notin Left(s)') =>
             e \in Due(s) /\ (e[1] < Place(s) \/ (e[1] = Place(s) /\ e[2] \notin Left(s)))
  PROVE  MetInv(s)'
<1> SUFFICES ASSUME NEW e \in Due(s)',
                    e[1] < Place(s)' \/ (e[1] = Place(s)' /\ e[2] \notin Left(s)'),
                    NEW q \in Members(s)
             PROVE  \E n \in DOMAIN kernels'[q] : kernels'[q][n] = e
  BY DEF MetInv, Members
<1>1. PICK n \in DOMAIN kernels[q] : kernels[q][n] = e
  BY DEF MetInv
<1>2. q \in Rank
  BY DEF Members
<1> QED BY <1>1, <1>2, KernelsGrow

\* A clean exchange means that every rank of the calculator was in the engine for
\* the item that this rank asked for.
LEMMA CleanMet ==
  ASSUME TypeOK, \A s \in Rank : LogInv(s), \A s \in Rank : LastInv(s),
         NEW r \in Rank, ~Single(r), CountsClean(r), NEW q \in Members(r)
  PROVE  \E m \in DOMAIN kernels[q] : kernels[q][m] = Asked(r)
<1> DEFINE n == Len(counts[r])
<1>1. /\ pc[r] = "counts" /\ q \in Rank /\ Len(counts[q]) >= n /\ ~counts[q][n].error
      /\ n > 0 /\ Posts(r)[n] = Asked(r)
  BY DEF CountsClean, CountsMet, AnyError, Members, LastInv
<1>2. Members(q) = Members(r) /\ ~Single(q)
  BY <1>1 DEF Members, Single
<1>3. Due(q) = Due(r) /\ Due(r) \in SUBSET (Nat \X Nat)
  BY <1>2, LogTypes DEF Due
<1>4. Place(q) \in Nat /\ Place(r) \in Nat
  BY <1>1, LogTypes
<1>5. InOrder(Posts(r), Place(r), PostLeft(r), Due(r)) /\ InOrder(Posts(q), Place(q), PostLeft(q), Due(r))
  BY <1>1, <1>2, <1>3 DEF LogInv
<1>6. Prefix(Posts(r), Posts(q))
  BY <1>3, <1>4, <1>5, SamePrefix
<1>7. /\ Len(Posts(r)) = n /\ Len(Posts(q)) = Len(counts[q]) /\ n \in Nat
      /\ Len(counts[q]) \in Nat /\ DOMAIN counts[q] = 1 .. Len(counts[q])
  <2>1. counts[r] \in Seq(Post) /\ counts[q] \in Seq(Post)
    BY <1>1 DEF TypeOK
  <2> QED BY <1>1, <2>1, LogTypes, SMTT(30)
<1>8. Posts(q)[n] = Asked(r) /\ n \in DOMAIN counts[q]
  BY <1>1, <1>6, <1>7 DEF Prefix
<1> QED BY <1>1, <1>2, <1>8 DEF LastInv

\* What the ranks of a calculator have behind them.
LEMMA MetStep ==
  ASSUME TypeOK, TypeOK', \A s \in Rank : CallInv(s), \A s \in Rank : AgreedInv(s),
         \A s \in Rank : LogInv(s), \A s \in Rank : LastInv(s), \A s \in Rank : SoundInv(s),
         \A s \in Rank : MetInv(s), NEW r \in Rank, Proceed(r) \/ Mishap(r),
         NEW s \in Rank
  PROVE  MetInv(s)'
<1> USE DEF logVars, Go
<1>1. CASE Single(s)
  BY <1>1 DEF MetInv, Single, Members
<1> SUFFICES ASSUME ~Single(s) PROVE MetInv(s)'
  BY <1>1
<1>2. CASE BeginCall(r) /\ ~Single(r)
  <2>1. \A e \in Due(s)' \ Due(s) : e[1] > Place(s)
    BY <1>2, BeginDue
  <2>2. \/ pc'[s] = pc[s] /\ misses'[s] = misses[s]
        \/ s = r /\ pc[s] = "host" /\ pc'[s] = "agree"
    BY <1>2, SMTT(30) DEF BeginCall, TypeOK
  <2>3. call'[s] = call[s] /\ todo'[s] = todo[s]
    BY <1>2 DEF BeginCall
  <2>4. Place(s)' = Place(s) /\ Left(s)' = Left(s)
    BY <2>2, <2>3 DEF Place, Decided, Left
  <2>5. Due(s)' \in SUBSET (Nat \X Nat) /\ Place(s) \in Nat
    BY LogTypes DEF Due
  <2>6. ASSUME NEW e \in Due(s)',
               e[1] < Place(s)' \/ (e[1] = Place(s)' /\ e[2] \notin Left(s)')
        PROVE  e \in Due(s) /\ (e[1] < Place(s) \/ (e[1] = Place(s) /\ e[2] \notin Left(s)))
    <3>1. e[1] \in Nat
      BY <2>5, <2>6
    <3>2. ~(e[1] > Place(s))
      BY <2>4, <2>5, <2>6, <3>1
    <3> QED BY <2>1, <2>4, <2>6, <3>2
  <2> QED BY <2>6, MetKept
<1>3. CASE ~(BeginCall(r) /\ ~Single(r))
  <2>1. ~ServeThrows(r)
    BY NothingThrows
  <2>2. UNCHANGED agreed
    BY <1>3, <2>1 DEF Proceed, Mishap, BeginCall, AgreeReturns, ServeHits, EndCall,
       EnterEngine, EngineReturns, ForceRejected, CountsClean, CountsDirty, TextsReturn,
       WaitTimesOut, EnterShare, ShareReturns, ShareRejected, EngineFails, EngineReturnsAnyway
  <2>3. Due(s)' = Due(s)
    BY <2>2 DEF Due, Members
  <2>4. CASE Place(s)' = Place(s) /\ Left(s)' = Left(s)
    BY <2>3, <2>4, MetKept
  <2>5. CASE s # r
    BY <2>4, <2>5, StepFrame DEF Place, Decided, Left
  <2>6. CASE s = r /\ AgreeReturns(r)
    <3>1. /\ pc[r] = "agree" /\ todo[r] = {} /\ Len(agreed[r]) = call[r] /\ call[r] \in Nat
      BY <2>6 DEF AgreeReturns, CallInv, AgreedInv, TypeOK
    <3>2. /\ UNCHANGED <<call, todo>> /\ pc'[r] = "serve"
          /\ misses'[r] = UNION {agreed[q][call[r]] : q \in Members(r)}
      BY <2>6, <3>1 DEF AgreeReturns, JointMisses, TypeOK
    <3>3. Place(r) = call[r] - 1 /\ Left(r) = {} /\ Place(r)' = call[r] /\ Left(r)' = misses'[r]
      BY <3>1, <3>2 DEF Place, Decided, Left
    <3>4. \A e \in Due(r) : e[1] = call[r] => e[2] \in misses'[r]
      BY <3>2 DEF Due
    <3>5. Due(r) \in SUBSET (Nat \X Nat)
      BY LogTypes
    <3>6. ASSUME NEW e \in Due(r),
                 e[1] < Place(r)' \/ (e[1] = Place(r)' /\ e[2] \notin Left(r)')
          PROVE  e[1] < Place(r) \/ (e[1] = Place(r) /\ e[2] \notin Left(r))
      <4>1. e[1] \in Nat /\ e[1] < call[r]
        BY <3>3, <3>4, <3>5, <3>6
      <4> QED BY <3>1, <3>3, <4>1
    <3> QED BY <2>3, <2>6, <3>6, MetKept
  <2>7. CASE s = r /\ CountsClean(r)
    <3>1. /\ pc[r] = "counts" /\ pc'[r] = "force" /\ todo'[r] = todo[r] \ {Item(r)}
          /\ UNCHANGED <<call, kernels>>
      BY <2>7 DEF CountsClean, TypeOK
    <3>2. Place(r) = call[r] /\ Place(r)' = call[r] /\ Left(r) = todo[r]
          /\ Left(r)' = todo[r] \ {Item(r)}
      BY <3>1 DEF Place, Decided, Left
    <3>3. Due(r) \in SUBSET (Nat \X Nat) /\ Asked(r) \in Nat \X Nat
      <4>1. todo[r] # {} /\ call[r] \in Nat
        BY <3>1 DEF CallInv, TypeOK
      <4>2. Item(r) \in Nat
        BY <4>1, ItemType
      <4> QED BY <4>1, <4>2, LogTypes DEF Asked
    <3>4. ASSUME NEW e \in Due(r), NEW q \in Members(r),
                 e[1] < call[r] \/ (e[1] = call[r] /\ e[2] \notin todo[r] \ {Item(r)})
          PROVE  \E n \in DOMAIN kernels[q] : kernels[q][n] = e
      <4>1. CASE e[1] = call[r] /\ e[2] = Item(r)
        <5>1. e = Asked(r)
          BY <3>3, <4>1, SamePair DEF Asked
        <5> QED BY <2>7, <5>1, CleanMet
      <4>2. CASE e[1] < call[r] \/ (e[1] = call[r] /\ e[2] \notin todo[r])
        BY <2>7, <3>2, <4>2 DEF MetInv
      <4> QED BY <3>4, <4>1, <4>2
    <3> QED BY <2>3, <2>7, <3>1, <3>2, <3>4 DEF MetInv, Members
  <2>8. CASE s = r /\ ~AgreeReturns(r) /\ ~CountsClean(r)
    <3>1. CASE ServeHits(r)
      <4>1. Place(s)' = Place(s) /\ Left(s)' = Left(s)
        BY <2>8, <3>1 DEF ServeHits, Place, Decided, Left, TypeOK
      <4> QED BY <2>4, <4>1
    <3>2. CASE EndCall(r)
      <4>1. /\ pc[r] = "force" /\ pc'[r] = "host" /\ call'[r] = call[r] + 1
            /\ call[r] \in Nat /\ UNCHANGED todo
        BY <3>2 DEF EndCall, TypeOK
      <4>2. Place(s)' = Place(s) /\ Left(s)' = Left(s)
        BY <2>8, <4>1 DEF Place, Decided, Left
      <4> QED BY <2>4, <4>2
    <3>3. CASE EngineReturns(r) \/ EngineReturnsAnyway(r) \/ EngineFails(r) \/ ForceRejected(r)
               \/ EnterEngine(r)
      <4>1. /\ pc[r] \in {"force", "engine"} /\ pc'[r] \in {"force", "engine", "counts"}
            /\ UNCHANGED <<call, todo>>
        BY <2>8, <3>3 DEF EngineReturns, EngineReturnsAnyway, EngineFails, ForceRejected,
                          EnterEngine, Publish, TypeOK
      <4>2. Place(s)' = Place(s) /\ Left(s)' = Left(s)
        BY <2>8, <4>1 DEF Place, Decided, Left
      <4> QED BY <2>4, <4>2
    <3>4. CASE CountsDirty(r) \/ TextsReturn(r) \/ WaitTimesOut(r) \/ ShareRejected(r)
               \/ EnterShare(r) \/ ShareReturns(r)
      <4>1. /\ UNCHANGED <<call, todo, misses>>
            /\ \/ pc'[r] = pc[r]
               \/ pc[r] = "counts" /\ pc'[r] = "text"
               \/ pc[r] \in {"host", "share"} /\ pc'[r] \in {"share", "leave"}
        BY <3>4 DEF CountsDirty, TextsReturn, WaitTimesOut, ShareRejected, EnterShare,
                    ShareReturns, TypeOK
      <4>2. Place(s)' = Place(s) /\ Left(s)' = Left(s)
        BY <2>8, <4>1 DEF Place, Decided, Left
      <4> QED BY <2>4, <4>2
    <3>5. ~BeginCall(r)
      BY <1>3, <2>8
    <3> QED BY <2>1, <2>8, <3>1, <3>2, <3>3, <3>4, <3>5 DEF Proceed, Mishap
  <2> QED BY <2>5, <2>6, <2>7, <2>8
<1> QED BY <1>2, <1>3

\* Nothing is due or logged at first.
LEMMA InitLogs == NoShortRecord /\ Init => LogsInv
<1> SUFFICES ASSUME NoShortRecord, Init, NEW r \in Rank
             PROVE  SoundInv(r) /\ LogInv(r) /\ LastInv(r) /\ MetInv(r)
  BY DEF LogsInv
<1>1. /\ pc[r] = "host" /\ call[r] = 1 /\ todo[r] = {}
      /\ \A q \in Rank : agreed[q] = << >>
      /\ kernels[r] = << >> /\ counts[r] = << >>
  BY DEF Init
<1>2. cache \in [Rank -> [System -> {"none", "whole"}]]
  BY DEF Init, NoShortRecord
<1>3. Due(r) = {}
  <2>1. ASSUME NEW e \in Due(r) PROVE FALSE
    <3>1. e[1] \in DOMAIN agreed[r]
      BY <2>1 DEF Due, Members
    <3> QED BY <1>1, <3>1
  <2> QED BY <2>1
<1>4. Posts(r) = << >>
  BY <1>1 DEF Posts
<1>5. \A c, P : InOrder(<< >>, c, P, {})
  BY DEF InOrder
<1>6. \A q \in Members(r) : Len(agreed[q]) >= call[r] - 1
  BY <1>1 DEF Members
<1>7. SoundInv(r)
  BY <1>1, <1>2 DEF SoundInv
<1>8. LogInv(r)
  BY <1>1, <1>3, <1>4, <1>5, <1>6 DEF LogInv
<1>9. LastInv(r)
  BY <1>1 DEF LastInv
<1> QED BY <1>3, <1>7, <1>8, <1>9 DEF MetInv

\* Every step keeps the order of the logs.
LEMMA NextLogs == IInv /\ LogsInv /\ [Next]_vars => LogsInv'
<1> SUFFICES ASSUME IInv, LogsInv, [Next]_vars PROVE LogsInv'
  OBVIOUS
<1>1. CASE UNCHANGED vars
  <2>1. /\ UNCHANGED <<pc, call, misses, todo, cache, agreed, kernels, counts>>
    BY <1>1 DEF vars, logVars
  <2>2. ASSUME NEW r \in Rank
        PROVE  SoundInv(r)' /\ LogInv(r)' /\ LastInv(r)' /\ MetInv(r)'
    <3>1. SoundInv(r)'
      BY <2>1 DEF LogsInv, SoundInv
    <3>2. LogInv(r)'
      BY <2>1, LogFrame DEF LogsInv
    <3>3. LastInv(r)'
      BY <2>1, LastSame DEF LogsInv
    <3>4. Due(r)' = Due(r) /\ Place(r)' = Place(r) /\ Left(r)' = Left(r)
      BY <2>1 DEF Due, Members, Place, Decided, Left
    <3>5. MetInv(r)'
      BY <2>1, <3>4 DEF LogsInv, MetInv, Single, Members
    <3> QED BY <3>1, <3>2, <3>3, <3>5
  <2> QED BY <2>2 DEF LogsInv
<1>2. ASSUME NEW r \in Rank, Proceed(r) \/ Mishap(r) PROVE LogsInv'
  <2>1. /\ TypeOK /\ \A s \in Rank : CallInv(s) /\ AgreedInv(s)
        /\ \A s \in Rank : SoundInv(s) /\ LogInv(s) /\ LastInv(s) /\ MetInv(s)
    BY DEF IInv, LogsInv
  <2>2. TypeOK'
    BY <1>2, <2>1, CallStep
  <2>3. \A s \in Rank : SoundInv(s)'
    BY <1>2, <2>1, SoundStep
  <2>4. \A s \in Rank : LogInv(s)'
    BY <1>2, <2>1, <2>2, LogStep
  <2>5. \A s \in Rank : LastInv(s)'
    BY <1>2, <2>1, <2>2, LastStep
  <2>6. \A s \in Rank : MetInv(s)'
    BY <1>2, <2>1, <2>2, MetStep
  <2> QED BY <2>3, <2>4, <2>5, <2>6 DEF LogsInv
<1> QED BY <1>1, <1>2 DEF Next

\* With caches that hold no truncated record, the logs keep their order.
THEOREM LogsInvariance == NoShortRecord => (Spec => [](IInv /\ LogsInv))
<1> SUFFICES ASSUME NoShortRecord PROVE Spec => [](IInv /\ LogsInv)
  OBVIOUS
<1>1. Init => IInv /\ LogsInv
  BY InitInv, InitLogs
<1>2. IInv /\ LogsInv /\ [Next]_vars => (IInv /\ LogsInv)'
  BY NextInv, NextLogs
<1> QED BY <1>1, <1>2, PTL DEF Spec

\* The logs of two ranks of a calculator are in one order.
LEMMA LogsMatch ==
  ASSUME IInv, LogsInv, NEW q \in Rank, NEW r \in Rank, CalcOf[q] = CalcOf[r], ~Single(r)
  PROVE  Prefix(kernels[q], kernels[r]) /\ Prefix(Posts(q), Posts(r))
<1>1. Members(q) = Members(r) /\ ~Single(q)
  BY DEF Members, Single
<1>2. Due(q) = Due(r) /\ Due(r) \in SUBSET (Nat \X Nat) /\ Place(q) \in Nat /\ Place(r) \in Nat
  BY <1>1, LogTypes DEF Due, IInv
<1>3. /\ InOrder(kernels[q], Place(q), EngineLeft(q), Due(r))
      /\ InOrder(kernels[r], Place(r), EngineLeft(r), Due(r))
      /\ InOrder(Posts(q), Place(q), PostLeft(q), Due(r))
      /\ InOrder(Posts(r), Place(r), PostLeft(r), Due(r))
  BY <1>1, <1>2 DEF LogsInv, LogInv
<1>4. Prefix(kernels[q], kernels[r])
  BY <1>2, <1>3, SamePrefix
<1>5. Prefix(Posts(q), Posts(r))
  BY <1>2, <1>3, SamePrefix
<1> QED BY <1>4, <1>5

\* The n-th engine call of a rank and the n-th error exchange belong to the same
\* system of the same call as those of every other rank of its calculator, whatever
\* their caches held, wherever one of them failed and however far apart they run
\* (Potential.hpp:286-317, CPMDPot.cc:584-596, CalculatorGroupMpi.cc:285-292).  A
\* truncated record may break it: the rank that throws leaves the common order.
THEOREM CollectivesMatchHolds == NoShortRecord => (Spec => []CollectivesMatch)
<1>1. IInv /\ LogsInv => CollectivesMatch
  <2> SUFFICES ASSUME IInv, LogsInv, NEW q \in Rank, NEW r \in Rank, CalcOf[q] = CalcOf[r]
               PROVE  /\ Prefix(kernels[q], kernels[r])
                      /\ Prefix([n \in DOMAIN counts[q] |-> [counts[q][n] EXCEPT !.error = FALSE]],
                                [n \in DOMAIN counts[r] |-> [counts[r][n] EXCEPT !.error = FALSE]])
    BY DEF CollectivesMatch
  <2>1. CASE Single(r)
    <3>1. q = r
      BY <2>1, SingleMember
    <3> QED BY <3>1 DEF Prefix
  <2>2. CASE ~Single(r)
    <3> DEFINE Bare(s) == [n \in DOMAIN s |-> [s[n] EXCEPT !.error = FALSE]]
    <3>1. Prefix(kernels[q], kernels[r]) /\ Prefix(Posts(q), Posts(r))
      BY <2>2, LogsMatch
    <3>2. /\ counts[q] \in Seq(Post) /\ counts[r] \in Seq(Post)
          /\ Len(Posts(q)) = Len(counts[q]) /\ Len(Posts(r)) = Len(counts[r])
      BY LogTypes DEF IInv, TypeOK
    <3>3. ASSUME NEW s \in Seq(Post) PROVE Len(Bare(s)) = Len(s)
      <4>1. DOMAIN s = 1 .. Len(s) /\ Len(s) \in Nat
        OBVIOUS
      <4>2. ASSUME NEW n \in 1 .. Len(s) PROVE [s[n] EXCEPT !.error = FALSE] \in Post
        <5>1. s[n] \in Post
          OBVIOUS
        <5> QED BY <5>1 DEF Post
      <4> QED BY <4>1, <4>2, IsASeq, LenProperties
    <3>4. ASSUME NEW n \in 1 .. Len(counts[q]), n <= Len(counts[r])
          PROVE  Bare(counts[q])[n] = Bare(counts[r])[n]
      <4>1. n \in DOMAIN counts[q] /\ n \in DOMAIN counts[r]
        BY <3>2, <3>4
      <4>2. Posts(q)[n] = Posts(r)[n]
        BY <3>1, <3>2, <3>4 DEF Prefix
      <4>3. counts[q][n] \in Post /\ counts[r][n] \in Post
        BY <3>2, <4>1
      <4>4. counts[q][n].call = counts[r][n].call /\ counts[q][n].item = counts[r][n].item
        BY <4>1, <4>2 DEF Posts
      <4>5. [counts[q][n] EXCEPT !.error = FALSE] = [counts[r][n] EXCEPT !.error = FALSE]
        BY <4>3, <4>4 DEF Post
      <4> QED BY <4>1, <4>5
    <3>5. Prefix(Bare(counts[q]), Bare(counts[r]))
      BY <3>2, <3>3, <3>4 DEF Prefix
    <3> QED BY <3>1, <3>5
  <2> QED BY <2>1, <2>2
<1> SUFFICES ASSUME NoShortRecord PROVE Spec => []CollectivesMatch
  OBVIOUS
<1> QED BY <1>1, LogsInvariance, PTL

-----------------------------------------------------------------------------
(* The force calls of a calculator of several ranks implement JointCalls.  *)

\* Finitely many engine calls become due: a batch is finite.
FiniteInv == \A r \in Rank : \A k \in DOMAIN agreed[r] : IsFiniteSet(agreed[r][k])

\* The calls that a calculator has decided, and what they make due.
Rounds == CHOOSE n \in Nat : DecidedCalls = 1 .. n

RoundsInv ==
  /\ Rounds \in Nat /\ DecidedCalls = 1 .. Rounds
  /\ \A q \in Team : Rounds <= Len(agreed[q])
  /\ \E q \in Team : Rounds = Len(agreed[q])

DuesInv ==
  /\ \A t \in Team, k \in Nat :
       DueUpTo(k) = {e \in Due(t) : e[1] <= k}
  /\ \A k \in Nat : IsFiniteSet(DueUpTo(k))
  /\ JointDue \in Seq(Nat) /\ Len(JointDue) = Rounds
  /\ \A k \in 1 .. Rounds : JointDue[k] = Cardinality(DueUpTo(k))

\* A function of a finite set has finitely many values.
LEMMA FiniteImage ==
  ASSUME NEW f, NEW S, IsFiniteSet(S)
  PROVE  IsFiniteSet({f[x] : x \in S})
<1> DEFINE T == {f[x] : x \in S}
           g == [x \in S |-> f[x]]
<1>1. g \in Surjection(S, T)
  BY DEF Surjection
<1> HIDE DEF g
<1> QED BY <1>1, FS_Surjection

\* The watched calculator has at least two ranks.
LEMMA TeamRanks ==
  /\ IsFiniteSet(Team) /\ Team # {} /\ Team \in SUBSET Rank
  /\ \A t \in Team : Members(t) = Team /\ ~Single(t)
<1>1. Team \in SUBSET Rank /\ IsFiniteSet(Team)
  BY WorldAssumption, FS_Subset DEF Team
<1>2. Cardinality(Team) \in Nat /\ Cardinality(Team) >= 2
  BY <1>1, FS_CardinalityType, WatchedAssumption
<1>3. Team # {}
  BY <1>2, FS_EmptySet
<1>4. \A t \in Team : Members(t) = Team
  BY DEF Team, Members
<1> QED BY <1>1, <1>2, <1>3, <1>4 DEF Single

\* Calls are decided in turn: as many as the slowest rank has posted flags for.
LEMMA RoundsDecided == TypeOK => RoundsInv
<1> SUFFICES ASSUME TypeOK PROVE RoundsInv
  OBVIOUS
<1> DEFINE Posted == {Len(agreed[q]) : q \in Team}
<1>1. \A q \in Team : Len(agreed[q]) \in Nat /\ DOMAIN agreed[q] = 1 .. Len(agreed[q])
  <2> SUFFICES ASSUME NEW q \in Team
               PROVE  Len(agreed[q]) \in Nat /\ DOMAIN agreed[q] = 1 .. Len(agreed[q])
    OBVIOUS
  <2>1. agreed[q] \in Seq(SUBSET Nat)
    BY TeamRanks DEF TypeOK
  <2> QED BY <2>1
<1>2. Posted \in SUBSET Nat /\ Posted # {}
  BY <1>1, TeamRanks
<1>3. PICK n \in Posted : \A m \in Posted : n <= m
  <2> HIDE DEF Posted
  <2> QED BY <1>2, LeastNat
<1>4. PICK t \in Team : n = Len(agreed[t])
  OBVIOUS
<1>5. n \in Nat /\ \A q \in Team : n <= Len(agreed[q])
  BY <1>1, <1>3
<1>6. DecidedCalls = 1 .. n
  <2>1. ASSUME NEW k \in DecidedCalls PROVE k \in 1 .. n
    BY <1>1, <1>4, <2>1 DEF DecidedCalls
  <2>2. ASSUME NEW k \in 1 .. n PROVE k \in DecidedCalls
    <3>1. \A q \in Team : k \in DOMAIN agreed[q]
      BY <1>1, <1>5
    <3> QED BY <1>4, <3>1 DEF DecidedCalls
  <2> QED BY <2>1, <2>2
<1>7. ASSUME NEW m \in Nat, 1 .. m = 1 .. n PROVE m = n
  <2>1. m >= 1 => m \in 1 .. n
    BY <1>5, <1>7
  <2>2. n >= 1 => n \in 1 .. m
    BY <1>5, <1>7
  <2> QED BY <1>5, <2>1, <2>2
<1>8. Rounds = n
  BY <1>5, <1>6, <1>7 DEF Rounds
<1> QED BY <1>4, <1>5, <1>6, <1>8 DEF RoundsInv

\* What is due is due to every rank of the calculator.
LEMMA DuesCounted == TypeOK /\ FiniteInv => DuesInv
<1> SUFFICES ASSUME TypeOK, FiniteInv PROVE DuesInv
  OBVIOUS
<1>0. /\ Rounds \in Nat /\ DecidedCalls = 1 .. Rounds
      /\ \A q \in Team : Rounds <= Len(agreed[q])
  BY RoundsDecided DEF RoundsInv
<1>1. \A q \in Team : q \in Rank /\ agreed[q] \in Seq(SUBSET Nat)
  BY TeamRanks DEF TypeOK
<1>2. \A n \in DecidedCalls, q \in Team : n \in DOMAIN agreed[q] /\ n \in Nat
  BY <1>0 DEF DecidedCalls
<1>3. ASSUME NEW n \in DecidedCalls PROVE AskedFor(n) \in SUBSET Nat /\ IsFiniteSet(AskedFor(n))
  <2> DEFINE flags == [q \in Team |-> agreed[q][n]]
  <2>1. \A q \in Team : agreed[q][n] \in SUBSET Nat /\ IsFiniteSet(agreed[q][n])
    BY <1>1, <1>2 DEF FiniteInv
  <2>2. {flags[q] : q \in Team} = {agreed[q][n] : q \in Team}
    OBVIOUS
  <2>3. IsFiniteSet({agreed[q][n] : q \in Team})
    <3> HIDE DEF flags
    <3>1. IsFiniteSet({flags[q] : q \in Team})
      BY TeamRanks, FiniteImage
    <3> QED BY <2>2, <3>1
  <2>4. IsFiniteSet(AskedFor(n))
    BY <2>1, <2>3, FS_UNION DEF AskedFor
  <2> QED BY <2>1, <2>4 DEF AskedFor
<1>4. ASSUME NEW t \in Team, NEW k \in Nat
      PROVE  DueUpTo(k) = {e \in Due(t) : e[1] <= k}
  <2>1. ASSUME NEW e \in DueUpTo(k) PROVE e \in Due(t) /\ e[1] <= k
    <3>1. PICK n \in DecidedCalls : n <= k /\ e \in {n} \X AskedFor(n)
      BY <2>1 DEF DueUpTo
    <3>2. e[1] = n /\ e[2] \in AskedFor(n) /\ n \in Nat
      BY <1>2, <3>1, TeamRanks
    <3>3. e \in Nat \X Nat
      BY <1>3, <3>1, <3>2
    <3>4. \E q \in Team : e[2] \in agreed[q][n]
      BY <3>2 DEF AskedFor
    <3> QED BY <1>2, <3>1, <3>2, <3>3, <3>4, TeamRanks DEF Due
  <2>2. ASSUME NEW e \in Due(t), e[1] <= k PROVE e \in DueUpTo(k)
    <3>1. /\ e \in Nat \X Nat /\ \A q \in Team : e[1] \in DOMAIN agreed[q]
          /\ \E q \in Team : e[2] \in agreed[q][e[1]]
      BY TeamRanks DEF Due
    <3>2. e[1] \in DecidedCalls
      BY <3>1 DEF DecidedCalls
    <3>3. e[2] \in AskedFor(e[1])
      BY <3>1 DEF AskedFor
    <3>4. e \in {e[1]} \X AskedFor(e[1])
      BY <3>1, <3>3
    <3> QED BY <2>2, <3>2, <3>4 DEF DueUpTo
  <2> QED BY <2>1, <2>2
<1>5. ASSUME NEW k \in Nat PROVE IsFiniteSet(DueUpTo(k))
  <2> DEFINE N == {m \in DecidedCalls : m <= k}
             dues == [n \in N |-> {n} \X AskedFor(n)]
  <2>1. IsFiniteSet(N)
    <3>1. IsFiniteSet(1 .. Rounds) /\ N \in SUBSET (1 .. Rounds)
      BY <1>0, FS_Interval
    <3> QED BY <3>1, FS_Subset
  <2>2. \A n \in N : IsFiniteSet({n} \X AskedFor(n))
    BY <1>3, FS_Singleton, FS_Product
  <2>3. {dues[n] : n \in N} = {{n} \X AskedFor(n) : n \in N}
    OBVIOUS
  <2>4. IsFiniteSet({{n} \X AskedFor(n) : n \in N})
    <3> HIDE DEF N, dues
    <3>1. IsFiniteSet({dues[n] : n \in N})
      BY <2>1, FiniteImage
    <3> QED BY <2>3, <3>1
  <2>5. \A X \in {{n} \X AskedFor(n) : n \in N} : IsFiniteSet(X)
    BY <2>2
  <2> QED BY <2>4, <2>5, FS_UNION DEF DueUpTo
<1>6. \A k \in 1 .. Rounds : Cardinality(DueUpTo(k)) \in Nat
  BY <1>0, <1>5, FS_CardinalityType
<1>7. JointDue = [k \in 1 .. Rounds |-> Cardinality(DueUpTo(k))]
  BY <1>0 DEF JointDue
<1>8. /\ JointDue \in Seq(Nat) /\ Len(JointDue) = Rounds
      /\ \A k \in 1 .. Rounds : JointDue[k] = Cardinality(DueUpTo(k))
  BY <1>0, <1>6, <1>7, IsASeq, LenProperties
<1> QED BY <1>4, <1>5, <1>8 DEF DuesInv

\* A log of what is due is no longer than that.
LEMMA LogShort ==
  ASSUME NEW s, NEW c, NEW P, NEW D \in SUBSET (Nat \X Nat), InOrder(s, c, P, D), IsFiniteSet(D)
  PROVE  Len(s) <= Cardinality(D)
<1>1. s \in Seq(Nat \X Nat) /\ Len(s) \in Nat
  <2>1. s \in Seq(Nat \X Nat)
    BY Zenon DEF InOrder
  <2> QED BY <2>1, LengthNat, Zenon
<1>2. s \in [1 .. Len(s) -> D]
  <2>1. DOMAIN s = 1 .. Len(s) /\ s = [n \in 1 .. Len(s) |-> s[n]]
    BY <1>1
  <2>2. \A n \in 1 .. Len(s) : s[n] \in D
    BY DEF InOrder
  <2> QED BY <2>1, <2>2
<1>3. ASSUME NEW m \in 1 .. Len(s), NEW n \in 1 .. Len(s), s[m] = s[n] PROVE m = n
  <2>1. s[m] \in Nat \X Nat /\ s[n] \in Nat \X Nat
    BY <1>1
  <2>2. ~Before(s[m], s[n]) /\ ~Before(s[n], s[m])
    BY <1>3, <2>1, BeforeOrder
  <2>3. ~(m < n) /\ ~(n < m)
    BY <2>2 DEF InOrder
  <2> QED BY <1>1, <2>3
<1>4. s \in Injection(1 .. Len(s), D)
  BY <1>2, <1>3 DEF Injection, IsInjective
<1>5. Cardinality(1 .. Len(s)) = Len(s)
  <2>1. 1 \in Int /\ Len(s) \in Int
    BY <1>1
  <2>2. Cardinality(1 .. Len(s)) = IF 1 > Len(s) THEN 0 ELSE Len(s) - 1 + 1
    BY <2>1, FS_Interval
  <2> QED BY <1>1, <2>2
<1> QED BY <1>4, <1>5, FS_Injection

\* A log that holds all of a set is no shorter than it.
LEMMA LogLong ==
  ASSUME NEW s \in Seq(Nat \X Nat), NEW D, \A e \in D : \E n \in DOMAIN s : s[n] = e
  PROVE  Cardinality(D) <= Len(s)
<1> DEFINE N == {n \in 1 .. Len(s) : s[n] \in D}
           f == [n \in N |-> s[n]]
<1>1. DOMAIN s = 1 .. Len(s) /\ Len(s) \in Nat
  OBVIOUS
<1>2. f \in Surjection(N, D)
  BY <1>1 DEF Surjection
<1>3. IsFiniteSet(1 .. Len(s)) /\ Cardinality(1 .. Len(s)) = Len(s)
  <2>1. 1 \in Int /\ Len(s) \in Int
    BY <1>1
  <2>2. Cardinality(1 .. Len(s)) = IF 1 > Len(s) THEN 0 ELSE Len(s) - 1 + 1
    BY <2>1, FS_Interval
  <2>3. IsFiniteSet(1 .. Len(s))
    BY <2>1, FS_Interval
  <2> QED BY <1>1, <2>2, <2>3
<1>4. IsFiniteSet(N) /\ Cardinality(N) <= Len(s)
  <2>1. N \in SUBSET (1 .. Len(s))
    OBVIOUS
  <2> HIDE DEF N
  <2> QED BY <1>3, <2>1, FS_Subset
<1>5. IsFiniteSet(D) /\ Cardinality(D) <= Cardinality(N)
  <2> HIDE DEF N, f
  <2> QED BY <1>2, <1>4, FS_Surjection
<1>6. Cardinality(N) \in Nat /\ Cardinality(D) \in Nat
  BY <1>4, <1>5, FS_CardinalityType
<1> QED BY <1>1, <1>4, <1>5, <1>6

\* Flags are those of a batch.
LEMMA FiniteStep ==
  ASSUME TypeOK, \A s \in Rank : CallInv(s), FiniteInv, NEW r \in Rank, Proceed(r) \/ Mishap(r)
  PROVE  FiniteInv'
<1>1. CASE UNCHANGED agreed
  BY <1>1 DEF FiniteInv
<1>2. CASE BeginCall(r) /\ ~Single(r)
  <2>1. IsFiniteSet(Absent(r))
    <3>1. work[CalcOf[r]] \in Seq(Batch) /\ call[r] \in 1 .. Len(work[CalcOf[r]])
      <4>1. call[r] <= Len(work[CalcOf[r]])
        BY <1>2 DEF BeginCall
      <4> QED BY <4>1, WorldAssumption DEF TypeOK
    <3>2. Job(r) \in Seq([Rank -> System])
      BY <3>1 DEF Job, Batch
    <3>3. Absent(r) \in SUBSET (1 .. Len(Job(r))) /\ Len(Job(r)) \in Int /\ 1 \in Int
      BY <3>2 DEF Absent
    <3>4. IsFiniteSet(1 .. Len(Job(r)))
      BY <3>3, FS_Interval
    <3> QED BY <3>3, <3>4, FS_Subset
  <2>2. agreed'[r] = Append(agreed[r], Absent(r)) /\ agreed[r] \in Seq(SUBSET Nat)
    BY <1>2 DEF BeginCall, TypeOK
  <2>3. Absent(r) \in SUBSET Nat
    BY <1>2, AbsentType DEF BeginCall
  <2>4. \A k \in DOMAIN agreed'[r] : IsFiniteSet(agreed'[r][k])
    <3> SUFFICES ASSUME NEW k \in DOMAIN agreed'[r] PROVE IsFiniteSet(agreed'[r][k])
      OBVIOUS
    <3>1. /\ k \in 1 .. Len(agreed[r]) + 1 /\ DOMAIN agreed[r] = 1 .. Len(agreed[r])
          /\ agreed'[r][k] = IF k = Len(agreed[r]) + 1 THEN Absent(r) ELSE agreed[r][k]
      BY <2>2, <2>3
    <3>2. CASE k = Len(agreed[r]) + 1
      BY <2>1, <3>1, <3>2
    <3>3. CASE k # Len(agreed[r]) + 1
      <4>1. k \in DOMAIN agreed[r]
        BY <2>2, <3>1, <3>3
      <4> QED BY <3>1, <3>3, <4>1 DEF FiniteInv
    <3> QED BY <3>2, <3>3
  <2>5. \A s \in Rank \ {r} : agreed'[s] = agreed[s]
    BY StepFrame
  <2> QED BY <2>4, <2>5 DEF FiniteInv
<1> QED BY <1>1, <1>2 DEF Proceed, Mishap, BeginCall, AgreeReturns, ServeHits, ServeThrows,
     EndCall, EnterEngine, EngineReturns, ForceRejected, CountsClean, CountsDirty, TextsReturn,
     WaitTimesOut, EnterShare, ShareReturns, ShareRejected, EngineFails, EngineReturnsAnyway,
     logVars

\* What the refinement rests on: the invariant, the order of the logs, and that
\* only finitely many engine calls become due.
JointInv == IInv /\ LogsInv /\ FiniteInv

\* It holds of every run whose caches hold no truncated record.
THEOREM JointInvariance == NoShortRecord => (Spec => []JointInv)
<1> SUFFICES ASSUME NoShortRecord PROVE Spec => []JointInv
  OBVIOUS
<1>1. Init => JointInv
  <2>1. Init => FiniteInv
    BY DEF Init, FiniteInv
  <2> QED BY <2>1, InitInv, InitLogs DEF JointInv
<1>2. JointInv /\ [Next]_vars => JointInv'
  <2> SUFFICES ASSUME JointInv, [Next]_vars PROVE FiniteInv'
    BY NextInv, NextLogs DEF JointInv
  <2>1. CASE UNCHANGED vars
    BY <2>1 DEF vars, logVars, JointInv, FiniteInv
  <2>2. CASE Next
    BY <2>1, <2>2, FiniteStep DEF Next, JointInv, IInv
  <2> QED BY <2>1, <2>2
<1> QED BY <1>1, <1>2, PTL DEF Spec

\* The decisions of other calculators are not seen.
LEMMA DueSame ==
  ASSUME \A q \in Team : agreed'[q] = agreed[q]
  PROVE  JointDue' = JointDue
<1>1. DecidedCalls' = DecidedCalls
  BY DEF DecidedCalls, Team
<1>2. \A n : AskedFor(n)' = AskedFor(n)
  BY DEF AskedFor, Team
<1>3. \A k : DueUpTo(k)' = DueUpTo(k)
  BY <1>1, <1>2 DEF DueUpTo
<1> QED BY <1>1, <1>3 DEF JointDue

\* A step that no host of the calculator sees, or the end of the world.
LEMMA JointQuiet ==
  ASSUME ~aborted, aborted' = aborted \/ aborted' = TRUE,
         \A q \in Team : agreed'[q] = agreed[q] /\ call'[q] = call[q] /\ kernels'[q] = kernels[q]
  PROVE  Joint!Next \/ UNCHANGED Joint!jointVars
<1>1. JointDue' = JointDue
  BY DueSame
<1>2. Completed' = Completed /\ Joined' = Joined
  BY DEF Completed, Joined, Team
<1> QED BY <1>1, <1>2 DEF Joint!Next, Joint!GoDown, Joint!jointVars

\* The last rank of the calculator to post its flags decides the call.
LEMMA JointBegins ==
  ASSUME JointInv, RoundsInv, DuesInv, RoundsInv', DuesInv', ~aborted,
         NEW r \in Team, BeginCall(r)
  PROVE  Joint!Next \/ UNCHANGED Joint!jointVars
<1>1. /\ Team # {} /\ r \in Rank /\ Members(r) = Team /\ ~Single(r)
      /\ \A q \in Team : q \in Rank /\ Members(q) = Team /\ ~Single(q)
  BY TeamRanks
<1>2. /\ agreed' = [agreed EXCEPT ![r] = Append(@, Absent(r))]
      /\ pc[r] = "host" /\ UNCHANGED <<call, kernels, aborted>>
  BY <1>1 DEF BeginCall
<1>3. UNCHANGED <<Completed, Joined, aborted>>
  BY <1>2 DEF Completed, Joined, Team
<1>4. \A q \in Team : agreed[q] \in Seq(SUBSET Nat) /\ call[q] \in Nat
  BY <1>1 DEF JointInv, IInv, TypeOK
<1>5. /\ \A q \in Team \ {r} : agreed'[q] = agreed[q]
      /\ Len(agreed'[r]) = Len(agreed[r]) + 1
      /\ \A n \in DOMAIN agreed[r] : agreed'[r][n] = agreed[r][n]
  <2>1. agreed'[r] = Append(agreed[r], Absent(r)) /\ \A q \in Team \ {r} : agreed'[q] = agreed[q]
    BY <1>1, <1>2 DEF JointInv, IInv, TypeOK
  <2>2. agreed[r] \in Seq(SUBSET Nat)
    BY <1>4
  <2> QED BY <2>1, <2>2
<1>6. Rounds \in Nat /\ Rounds' \in Nat
  BY DEF RoundsInv
<1>7. \A q \in Team : Rounds <= Len(agreed[q]) /\ Rounds' <= Len(agreed'[q])
  BY DEF RoundsInv, Team
<1>8. PICK t \in Team : Rounds = Len(agreed[t])
  BY DEF RoundsInv
<1>9. Rounds' = Rounds \/ Rounds' = Rounds + 1
  <2>1. PICK u \in Team : Rounds' = Len(agreed'[u])
    BY DEF RoundsInv, Team
  <2>2. Len(agreed'[u]) >= Len(agreed[u]) /\ Len(agreed'[t]) <= Len(agreed[t]) + 1
    <3>1. Len(agreed[u]) \in Nat /\ Len(agreed[t]) \in Nat
      BY <1>4
    <3> QED BY <1>5, <3>1
  <2>3. Len(agreed[u]) \in Nat
    BY <1>4
  <2>4. Rounds' >= Rounds
    BY <1>6, <1>7, <2>1, <2>2, <2>3
  <2>5. Rounds' <= Rounds + 1
    BY <1>6, <1>7, <1>8, <2>2
  <2> QED BY <1>6, <2>4, <2>5
<1>10. ASSUME NEW k \in 1 .. Rounds PROVE DueUpTo(k)' = DueUpTo(k)
  <2>1. {m \in DecidedCalls' : m <= k} = {m \in DecidedCalls : m <= k}
    BY <1>6, <1>9 DEF RoundsInv
  <2>2. \A n \in DecidedCalls : AskedFor(n)' = AskedFor(n)
    <3> SUFFICES ASSUME NEW n \in DecidedCalls PROVE AskedFor(n)' = AskedFor(n)
      OBVIOUS
    <3>1. \A q \in Team : n \in DOMAIN agreed[q]
      BY DEF DecidedCalls
    <3>2. \A q \in Team : agreed'[q][n] = agreed[q][n]
      BY <1>5, <3>1
    <3> QED BY <3>2 DEF AskedFor, Team
  <2> QED BY <2>1, <2>2 DEF DueUpTo
<1>11. \A k \in 1 .. Rounds : JointDue'[k] = JointDue[k]
  <2> SUFFICES ASSUME NEW k \in 1 .. Rounds PROVE JointDue'[k] = JointDue[k]
    OBVIOUS
  <2>1. k \in 1 .. Rounds'
    BY <1>6, <1>9
  <2> QED BY <1>10, <2>1 DEF DuesInv
<1>12. /\ JointDue \in Seq(Nat) /\ Len(JointDue) = Rounds
       /\ JointDue' \in Seq(Nat) /\ Len(JointDue') = Rounds'
  BY DEF DuesInv
<1>13. CASE Rounds' = Rounds
  <2>1. JointDue' = JointDue
    BY <1>11, <1>12, <1>13, SeqEqual
  <2> QED BY <1>3, <2>1 DEF Joint!jointVars
<1>14. CASE Rounds' = Rounds + 1
  <2>1. ASSUME NEW q \in Team PROVE Completed[q] = Rounds
    <3>1. Len(agreed[t]) >= call[q] - 1
      BY <1>1 DEF JointInv, LogsInv, LogInv
    <3>2. Len(agreed[q]) >= Rounds /\ (q # r => Len(agreed[q]) >= Rounds + 1)
      BY <1>5, <1>7, <1>14
    <3>3. /\ Len(agreed[q]) = call[q] - 1 \/ Len(agreed[q]) = call[q]
          /\ q = r => Len(agreed[q]) = call[q] - 1
      BY <1>1, <1>2 DEF JointInv, IInv, AgreedInv
    <3>4. call[q] \in Nat /\ Rounds >= call[q] - 1
      BY <1>4, <1>8, <3>1
    <3>5. Rounds <= call[q] - 1
      <4>1. CASE q = r
        BY <3>2, <3>3, <4>1
      <4>2. CASE q # r
        BY <1>6, <3>2, <3>3, <3>4, <4>2
      <4> QED BY <4>1, <4>2
    <3>6. call[q] - 1 = Rounds
      BY <1>6, <3>4, <3>5
    <3> QED BY <3>6 DEF Completed
  <2>2. SubSeq(JointDue', 1, Len(JointDue)) = JointDue
    <3>1. Len(JointDue) \in Nat /\ Len(JointDue) <= Len(JointDue')
      BY <1>6, <1>12, <1>14
    <3>2. /\ SubSeq(JointDue', 1, Len(JointDue)) \in Seq(Nat)
          /\ Len(SubSeq(JointDue', 1, Len(JointDue))) = Len(JointDue)
          /\ \A k \in 1 .. Len(JointDue) : SubSeq(JointDue', 1, Len(JointDue))[k] = JointDue'[k]
      BY <1>12, <3>1
    <3> QED BY <1>11, <1>12, <3>2, SeqEqual
  <2>3. Joint!Total <= JointDue'[Rounds + 1]
    <3>1. PICK n \in Nat : n = Rounds
      BY <1>6
    <3>2. Rounds' = n + 1 /\ n + 1 \in Nat /\ n + 1 \in 1 .. Rounds'
      BY <1>14, <3>1
    <3>3. JointDue'[n + 1] = Cardinality(DueUpTo(n + 1)')
      BY <3>2 DEF DuesInv
    <3>4. IsFiniteSet(DueUpTo(n + 1)')
      BY <3>2 DEF DuesInv
    <3>5. CASE n = 0
      <4>1. JointDue = << >>
        BY <1>12, <3>1, <3>5
      <4>2. Cardinality(DueUpTo(n + 1)') \in Nat
        BY <3>4, FS_CardinalityType
      <4> QED BY <3>1, <3>3, <4>1, <4>2 DEF Joint!Total
    <3>6. CASE n # 0
      <4>1. n \in 1 .. Rounds
        BY <3>1, <3>6
      <4>2. Joint!Total = Cardinality(DueUpTo(n))
        <5>1. JointDue # << >>
          BY <1>12, <3>1, <3>6
        <5> QED BY <1>12, <3>1, <4>1, <5>1 DEF Joint!Total, DuesInv
      <4>3. DueUpTo(n) \in SUBSET DueUpTo(n + 1)'
        <5>1. DueUpTo(n)' = {e \in Due(r)' : e[1] <= n}
          BY <3>1 DEF DuesInv, Team
        <5>2. DueUpTo(n + 1)' = {e \in Due(r)' : e[1] <= n + 1}
          BY <3>2 DEF DuesInv, Team
        <5>3. \A e \in Due(r)' : e[1] \in Nat
          BY DEF Due
        <5>4. DueUpTo(n)' \in SUBSET DueUpTo(n + 1)'
          <6> SUFFICES ASSUME NEW e \in Due(r)', e[1] <= n PROVE e[1] <= n + 1
            BY <5>1, <5>2
          <6>1. e[1] \in Nat
            BY <5>3
          <6> QED BY <6>1
        <5> QED BY <1>10, <4>1, <5>4
      <4> QED BY <3>1, <3>3, <3>4, <4>2, <4>3, FS_Subset
    <3> QED BY <3>5, <3>6
  <2>4. Joint!Decide
    BY <1>3, <1>12, <1>14, <2>1, <2>2, <2>3 DEF Joint!Decide
  <2> QED BY <2>4 DEF Joint!Next
<1> QED BY <1>9, <1>13, <1>14

\* All ranks of the calculator have decided the call that one of them is in.
LEMMA JointDecided ==
  ASSUME JointInv, RoundsInv, NEW r \in Team, Decided(r)
  PROVE  call[r] \in 1 .. Rounds
<1>1. r \in Rank /\ Members(r) = Team /\ ~Single(r)
  BY TeamRanks
<1>2. \A q \in Team : Len(agreed[q]) >= call[r]
  BY <1>1 DEF JointInv, IInv, AgreedInv
<1>3. call[r] \in Nat \ {0}
  BY <1>1 DEF JointInv, IInv, TypeOK
<1>4. Rounds \in Nat /\ \E q \in Team : Rounds = Len(agreed[q])
  BY DEF RoundsInv
<1> QED BY <1>2, <1>3, <1>4

\* A rank enters the engine: not more often than the decisions ask for.
LEMMA JointEnters ==
  ASSUME JointInv, JointInv', RoundsInv, DuesInv, ~aborted, NEW r \in Team, EnterEngine(r)
  PROVE  Joint!Next
<1>1. r \in Rank /\ Members(r) = Team /\ ~Single(r)
  BY TeamRanks
<1>2. /\ kernels' = [kernels EXCEPT ![r] = Append(@, <<call[r], Item(r)>>)]
      /\ pc[r] = "force" /\ UNCHANGED <<agreed, call, aborted>>
  BY DEF EnterEngine
<1>3. kernels \in [Rank -> Seq(Nat \X Nat)] /\ kernels' \in [Rank -> Seq(Nat \X Nat)]
  BY DEF JointInv, IInv, TypeOK
<1>4. Len(kernels'[r]) = Len(kernels[r]) + 1 /\ Len(kernels[r]) \in Nat
  BY <1>1, <1>2, <1>3
<1>5. JointDue' = JointDue /\ Completed' = Completed
  BY <1>2, DueSame DEF Completed, Team
<1>6. Joined' = [Joined EXCEPT ![r] = @ + 1]
  <2>1. \A q \in Team \ {r} : kernels'[q] = kernels[q]
    BY <1>2, <1>3, TeamRanks
  <2> QED BY <1>4, <2>1 DEF Joined, Team
<1>7. Due(r)' = Due(r)
  BY <1>2 DEF Due, Members
<1>8. PICK n \in Nat : n = Rounds /\ n > 0
  <2>1. call[r] \in 1 .. Rounds
    BY <1>2, JointDecided DEF Decided
  <2> QED BY <2>1 DEF RoundsInv
<1>9. Due(r) = DueUpTo(n) /\ IsFiniteSet(Due(r)) /\ Due(r) \in SUBSET (Nat \X Nat)
  <2>1. ASSUME NEW e \in Due(r) PROVE e[1] <= n
    <3>1. \A q \in Team : e[1] \in DOMAIN agreed[q]
      BY <1>1 DEF Due
    <3>2. e[1] \in DecidedCalls
      BY <3>1, TeamRanks DEF DecidedCalls
    <3> QED BY <1>8, <3>2 DEF RoundsInv
  <2>2. DueUpTo(n) = {e \in Due(r) : e[1] <= n} /\ IsFiniteSet(DueUpTo(n))
    BY DEF DuesInv
  <2>3. Due(r) = DueUpTo(n)
    BY <2>1, <2>2
  <2> QED BY <2>2, <2>3 DEF Due
<1>10. Joint!Total = Cardinality(Due(r))
  <2>1. n \in 1 .. Rounds /\ JointDue \in Seq(Nat) /\ Len(JointDue) = n
    BY <1>8 DEF DuesInv
  <2>2. JointDue # << >>
    BY <1>8, <2>1
  <2> QED BY <1>9, <2>1, <2>2 DEF Joint!Total, DuesInv
<1>11. Len(kernels'[r]) <= Cardinality(Due(r))
  <2>1. LogInv(r)'
    BY <1>1 DEF JointInv, LogsInv
  <2>2. InOrder(kernels'[r], Place(r)', EngineLeft(r)', Due(r))
    BY <1>1, <1>7, <2>1 DEF LogInv, Single, Members
  <2> QED BY <1>9, <2>2, LogShort
<1>12. Cardinality(Due(r)) \in Nat
  BY <1>9, FS_CardinalityType
<1>13. Joined[r] < Joint!Total
  BY <1>4, <1>10, <1>11, <1>12 DEF Joined
<1> QED BY <1>2, <1>5, <1>6, <1>13 DEF Joint!Next, Joint!Join

\* A call ends when every rank of the calculator has entered all it asked for.
LEMMA JointCompletes ==
  ASSUME JointInv, RoundsInv, DuesInv, ~aborted, NEW r \in Team, EndCall(r)
  PROVE  Joint!Next
<1>1. r \in Rank /\ Members(r) = Team /\ ~Single(r)
  BY TeamRanks
<1>2. /\ call' = [call EXCEPT ![r] = @ + 1] /\ pc[r] = "force" /\ todo[r] = {}
      /\ UNCHANGED <<agreed, kernels, aborted>>
  BY DEF EndCall, logVars
<1>3. JointDue' = JointDue /\ Joined' = Joined
  BY <1>2, DueSame DEF Joined, Team
<1>4. call \in [Rank -> Nat \ {0}]
  BY DEF JointInv, IInv, TypeOK
<1>5. Completed' = [Completed EXCEPT ![r] = @ + 1]
  <2>1. \A q \in Team : call'[q] = IF q = r THEN call[r] + 1 ELSE call[q]
    BY <1>2, <1>4, TeamRanks
  <2>2. \A q \in Team : call[q] \in Nat
    BY <1>4, TeamRanks
  <2> QED BY <2>1, <2>2 DEF Completed, Team
<1>6. call[r] \in 1 .. Rounds
  BY <1>2, JointDecided DEF Decided
<1>7. Completed[r] = call[r] - 1 /\ Completed[r] + 1 = call[r] /\ Completed[r] < Len(JointDue)
  BY <1>6 DEF Completed, DuesInv, RoundsInv
<1>8. ASSUME NEW q \in Team PROVE Joined[q] >= JointDue[Completed[r] + 1]
  <2>1. JointDue[call[r]] = Cardinality(DueUpTo(call[r])) /\ call[r] \in Nat
    BY <1>1, <1>4, <1>6 DEF DuesInv
  <2>2. ASSUME NEW e \in DueUpTo(call[r])
        PROVE  \E n \in DOMAIN kernels[q] : kernels[q][n] = e
    <3>1. e \in Due(r) /\ e[1] <= call[r]
      BY <2>1 DEF DuesInv
    <3>2. Place(r) = call[r] /\ Left(r) = {}
      BY <1>2 DEF Place, Decided, Left
    <3>3. e[1] \in Nat
      BY <3>1 DEF Due
    <3>4. e[1] < Place(r) \/ (e[1] = Place(r) /\ e[2] \notin Left(r))
      BY <2>1, <3>1, <3>2, <3>3
    <3>5. MetInv(r)
      BY <1>1 DEF JointInv, LogsInv
    <3> QED BY <1>1, <3>1, <3>4, <3>5 DEF MetInv
  <2>3. kernels[q] \in Seq(Nat \X Nat)
    BY TeamRanks DEF JointInv, IInv, TypeOK
  <2>4. Cardinality(DueUpTo(call[r])) <= Len(kernels[q])
    BY <2>2, <2>3, LogLong
  <2>5. Cardinality(DueUpTo(call[r])) \in Nat /\ Len(kernels[q]) \in Nat
    BY <2>1, <2>3, FS_CardinalityType DEF DuesInv
  <2> QED BY <1>7, <2>1, <2>4, <2>5 DEF Joined
<1> QED BY <1>2, <1>3, <1>5, <1>7, <1>8 DEF Joint!Next, Joint!Complete

\* Every step is a step of JointCalls, or none.
LEMMA JointStep ==
  ASSUME JointInv, JointInv', RoundsInv, DuesInv, RoundsInv', DuesInv', ~aborted,
         NEW r \in Rank, Proceed(r) \/ Mishap(r)
  PROVE  Joint!Next \/ UNCHANGED Joint!jointVars
<1> USE DEF logVars
<1>1. TypeOK /\ \A s \in Rank : CallInv(s) /\ SoundInv(s)
  BY DEF JointInv, IInv, LogsInv
<1>2. \A q \in Team \ {r} : agreed'[q] = agreed[q] /\ call'[q] = call[q] /\ kernels'[q] = kernels[q]
  BY <1>1, StepFrame, TeamRanks
<1>3. aborted' = aborted \/ aborted' = TRUE
  BY DEF Proceed, Mishap, BeginCall, AgreeReturns, ServeHits, ServeThrows, EndCall,
       EnterEngine, EngineReturns, ForceRejected, CountsClean, CountsDirty, TextsReturn,
       WaitTimesOut, EnterShare, ShareReturns, ShareRejected, EngineFails,
       EngineReturnsAnyway, Publish
<1>4. CASE r \notin Team
  BY <1>2, <1>3, <1>4, JointQuiet
<1>5. CASE r \in Team
  <2>1. CASE BeginCall(r)
    BY <1>5, <2>1, JointBegins
  <2>2. CASE EnterEngine(r)
    BY <1>5, <2>2, JointEnters
  <2>3. CASE EndCall(r)
    BY <1>5, <2>3, JointCompletes
  <2>4. CASE ~BeginCall(r) /\ ~EnterEngine(r) /\ ~EndCall(r)
    <3>1. ~ServeThrows(r)
      BY <1>1, NothingThrows
    <3>2. UNCHANGED <<agreed, call, kernels>>
      BY <2>4, <3>1 DEF Proceed, Mishap, AgreeReturns, ServeHits, EngineReturns,
         ForceRejected, CountsClean, CountsDirty, TextsReturn, WaitTimesOut, EnterShare,
         ShareReturns, ShareRejected, EngineFails, EngineReturnsAnyway
    <3> QED BY <1>3, <3>2, JointQuiet
  <2> QED BY <2>1, <2>2, <2>3, <2>4
<1> QED BY <1>4, <1>5

\* Nobody has called anything yet.
LEMMA JointStarts == Init => Joint!Init
<1> SUFFICES ASSUME Init PROVE Joint!Init
  OBVIOUS
<1>1. /\ ~aborted /\ \A r \in Team : call[r] = 1 /\ agreed[r] = << >> /\ kernels[r] = << >>
  BY DEF Init, Team
<1>2. DecidedCalls = {}
  BY <1>1 DEF DecidedCalls
<1>3. JointDue = << >>
  BY <1>2 DEF JointDue
<1>4. Completed = [r \in Team |-> 0] /\ Joined = [r \in Team |-> 0]
  BY <1>1 DEF Completed, Joined
<1>5. aborted = FALSE
  BY DEF Init
<1> QED BY <1>3, <1>4, <1>5 DEF Joint!Init

\* A calculator of two or more ranks keeps what JointCalls promises its hosts,
\* with any caches that hold no truncated record, any workloads, refusals and
\* failures: one decision per call, no more engine calls than it asks for, and no
\* call that completes before every rank has entered all of them
\* (Potential.hpp:190-225, 273-342).
THEOREM JointCallsImplemented == NoShortRecord => (Spec => ImplementsJointCalls)
<1> SUFFICES ASSUME NoShortRecord PROVE Spec => ImplementsJointCalls
  OBVIOUS
<1>1. Init => Joint!Init
  BY JointStarts
<1>2. JointInv => RoundsInv /\ DuesInv
  BY RoundsDecided, DuesCounted DEF JointInv, IInv
<1>3. /\ JointInv /\ RoundsInv /\ DuesInv
      /\ JointInv' /\ RoundsInv' /\ DuesInv'
      /\ [Next]_vars
      => [Joint!Next]_(Joint!jointVars)
  <2> SUFFICES ASSUME JointInv, RoundsInv, DuesInv, JointInv', RoundsInv', DuesInv', [Next]_vars
               PROVE  Joint!Next \/ UNCHANGED Joint!jointVars
    OBVIOUS
  <2>1. CASE UNCHANGED vars
    <3>1. UNCHANGED <<agreed, call, kernels, aborted>>
      BY <2>1 DEF vars, logVars
    <3>2. JointDue' = JointDue /\ Completed' = Completed /\ Joined' = Joined
      BY <3>1, DueSame DEF Completed, Joined, Team
    <3> QED BY <3>1, <3>2 DEF Joint!jointVars
  <2>2. ASSUME ~aborted, NEW r \in Rank, Proceed(r) \/ Mishap(r)
        PROVE  Joint!Next \/ UNCHANGED Joint!jointVars
    BY <2>2, JointStep
  <2> QED BY <2>1, <2>2 DEF Next
<1>4. Spec => []JointInv
  BY JointInvariance
<1> QED BY <1>1, <1>2, <1>3, <1>4, PTL DEF Spec, ImplementsJointCalls, Joint!Spec

-----------------------------------------------------------------------------
(* Nobody is stuck.  In a state where no rank could go on, take the rank of a *)
(* calculator that has posted least, then the one that has begun least calls: *)
(* the order of the logs says that it has nobody to wait for.                 *)

\* Only a rank with no call left shares its results.
ShareInv == \A r \in Rank : pc[r] \in {"share", "leave"} => call[r] > Len(work[CalcOf[r]])

LEMMA ShareStep ==
  ASSUME TypeOK, \A s \in Rank : SoundInv(s), ShareInv, NEW r \in Rank,
         CallInv(r), Proceed(r) \/ Mishap(r)
  PROVE  ShareInv'
<1> USE DEF logVars, Go
<1>1. UNCHANGED work
  BY DEF envVars, Proceed, Mishap, BeginCall, AgreeReturns, ServeHits, ServeThrows, EndCall,
       EnterEngine, EngineReturns, ForceRejected, CountsClean, CountsDirty, TextsReturn,
       WaitTimesOut, EnterShare, ShareReturns, ShareRejected, EngineFails,
       EngineReturnsAnyway
<1>2. ~ServeThrows(r)
  BY NothingThrows
<1>3. pc'[r] \in {"share", "leave"} =>
        call'[r] = call[r] /\ (pc[r] \in {"share", "leave"} \/ call[r] > Len(work[CalcOf[r]]))
  BY <1>2 DEF TypeOK, Proceed, Mishap, BeginCall, AgreeReturns, ServeHits, EndCall,
       EnterEngine, EngineReturns, ForceRejected, CountsClean, CountsDirty, TextsReturn,
       WaitTimesOut, EnterShare, ShareReturns, ShareRejected, EngineFails,
       EngineReturnsAnyway, Publish
<1>4. \A s \in Rank \ {r} : pc'[s] = pc[s] /\ call'[s] = call[s]
  BY StepFrame
<1> QED BY <1>1, <1>3, <1>4 DEF ShareInv

LEMMA ShareInvariance == NoShortRecord => (Spec => []ShareInv)
<1> SUFFICES ASSUME NoShortRecord PROVE Spec => []ShareInv
  OBVIOUS
<1>1. Init => ShareInv
  BY DEF Init, ShareInv
<1>2. IInv /\ LogsInv /\ ShareInv /\ [Next]_vars => ShareInv'
  <2> SUFFICES ASSUME IInv, LogsInv, ShareInv, [Next]_vars PROVE ShareInv'
    OBVIOUS
  <2>1. CASE UNCHANGED vars
    BY <2>1 DEF vars, envVars, ShareInv
  <2>2. ASSUME NEW r \in Rank, Proceed(r) \/ Mishap(r) PROVE ShareInv'
    BY <2>2, ShareStep DEF IInv, LogsInv
  <2> QED BY <2>1, <2>2 DEF Next
<1> QED BY <1>1, <1>2, LogsInvariance, PTL DEF Spec

\* What no rank can leave by itself.
Halted == ~aborted /\ \A r \in Rank : ~CanProceed(r)

\* Some rank of a calculator has the shortest log.
LEMMA LeastRank ==
  ASSUME NEW r \in Rank, NEW f, \A q \in Members(r) : f[q] \in Nat
  PROVE  \E p \in Members(r) : \A q \in Members(r) : f[p] <= f[q]
<1> DEFINE S == {f[q] : q \in Members(r)}
<1>1. S \in SUBSET Nat /\ S # {}
  BY DEF Members
<1>2. PICK i \in S : \A j \in S : i <= j
  <2> HIDE DEF S
  <2> QED BY <1>1, LeastNat
<1> QED BY <1>2

\* Then nobody has failed, and all ranks are where they wait for others.
LEMMA HaltedWaits ==
  ASSUME IInv, LogsInv, Halted, NEW r \in Rank
  PROVE  /\ failed[r] = FALSE
         /\ pc[r] \in {"agree", "engine", "counts", "share", "leave"}
         /\ pc[r] \in {"agree", "engine", "counts"} => ~Single(r)
<1>1. \A s \in Rank : failed[s] = FALSE
  <2> SUFFICES ASSUME NEW s \in Rank, failed[s] PROVE FALSE
    BY DEF IInv, TypeOK
  <2>1. pc[s] \in {"counts", "text"}
    BY DEF IInv, ErrorInv, Halted
  <2> QED BY <2>1 DEF Halted, CanProceed, Impatient, Leaving
<1>2. pc[r] # "text" /\ pc[r] # "exit"
  BY <1>1 DEF IInv, ErrorInv, LogsInv, SoundInv
<1>3. pc[r] \in {"agree", "engine", "counts", "share", "leave"}
  <2>1. pc[r] \in {"host", "agree", "serve", "force", "engine", "counts",
                    "text", "share", "leave", "exit"}
    BY DEF IInv, TypeOK
  <2> QED BY <1>2, <2>1 DEF Halted, CanProceed, Leaving
<1>4. ASSUME pc[r] \in {"agree", "engine", "counts"}, Single(r) PROVE FALSE
  <2>1. \A q \in Members(r) : q = r
    BY <1>4, SingleMember DEF Members
  <2>2. pc[r] # "agree"
    BY <1>4 DEF IInv, CallInv
  <2>3. Len(kernels[r]) \in Nat /\ Len(counts[r]) \in Nat
    BY LengthNat DEF IInv, TypeOK
  <2> QED BY <1>1, <1>4, <2>1, <2>2, <2>3 DEF Halted, CanProceed, EngineMet, CountsMet, Leaving
<1> QED BY <1>1, <1>3, <1>4

\* What a rank in the engine or in the exchange asked for is due, and its logs are
\* as far as that.
LEMMA WaiterLogs ==
  ASSUME IInv, LogsInv, Halted, NEW q \in Rank, pc[q] \in {"engine", "counts"}
  PROVE  /\ Asked(q) \in Due(q) /\ Item(q) \in todo[q]
         /\ \A j \in todo[q] : Item(q) <= j
         /\ Place(q) = call[q] /\ EngineLeft(q) = todo[q] \ {Item(q)}
         /\ Entered(q) /\ call[q] <= Len(work[CalcOf[q]])
         /\ \A m \in Members(q) : Len(agreed[m]) >= call[q]
         /\ pc[q] = "engine" => PostLeft(q) = todo[q]
         /\ pc[q] = "counts" => Posts(q)[Len(Posts(q))] = Asked(q) /\ Len(Posts(q)) > 0
<1>1. ~Single(q) /\ failed[q] = FALSE
  BY HaltedWaits
<1>2. Decided(q) /\ TypeOK /\ CallInv(q) /\ AgreedInv(q) /\ ErrorInv(q) /\ LastInv(q)
  BY DEF Decided, IInv, LogsInv
<1>3. todo[q] # {} /\ todo[q] \subseteq misses[q] /\ todo[q] \in SUBSET Nat
  BY <1>2 DEF CallInv, TypeOK
<1>4. Item(q) \in todo[q] /\ \A j \in todo[q] : Item(q) <= j
  <2>1. \E i \in todo[q] : \A j \in todo[q] : i <= j
    BY <1>3, LeastNat
  <2> QED BY <2>1 DEF Item
<1>5. Asked(q) \in Due(q)
  BY <1>1, <1>2, <1>3, <1>4, MissesDue DEF Asked
<1>6. Place(q) = call[q] /\ (pc[q] = "engine" => PostLeft(q) = todo[q])
  BY <1>2 DEF Place, PostLeft, Left
<1>7. pc[q] = "counts" => Posts(q)[Len(Posts(q))] = Asked(q) /\ Len(Posts(q)) > 0
  BY <1>1, <1>2, LogTypes DEF LastInv
<1>8. Entered(q)
  <2>1. CASE pc[q] = "engine"
    BY <1>1, <1>2, <2>1 DEF LastInv
  <2>2. CASE pc[q] = "counts"
    <3>1. Len(counts[q]) \in DOMAIN counts[q] /\ DOMAIN kernels[q] = 1 .. Len(kernels[q])
      <4>1. counts[q] \in Seq(Post) /\ kernels[q] \in Seq(Nat \X Nat) /\ counts[q] # << >>
        BY <1>2, <2>2 DEF TypeOK, ErrorInv
      <4> QED BY <4>1
    <3>2. ~counts[q][Len(counts[q])].error
      BY <1>1, <1>2, <2>2 DEF ErrorInv
    <3>3. \E m \in DOMAIN kernels[q] : kernels[q][m] = Posts(q)[Len(counts[q])]
      BY <1>1, <1>2, <3>1, <3>2 DEF LastInv
    <3> QED BY <1>2, <1>7, <2>2, <3>1, <3>3, LogTypes DEF Entered
  <2> QED BY <2>1, <2>2
<1>9. EngineLeft(q) = todo[q] \ {Item(q)}
  BY <1>8 DEF EngineLeft
<1>10. call[q] <= Len(work[CalcOf[q]]) /\ \A m \in Members(q) : Len(agreed[m]) >= call[q]
  BY <1>1, <1>2 DEF CallInv, InCall, AgreedInv
<1> QED BY <1>4, <1>5, <1>6, <1>7, <1>8, <1>9, <1>10

\* What two ranks of a calculator logged: dues of one set, in one order.
LEMMA TeamLogs ==
  ASSUME IInv, LogsInv, NEW p \in Rank, ~Single(p), NEW q \in Members(p)
  PROVE  /\ q \in Rank /\ ~Single(q) /\ Members(q) = Members(p)
         /\ CalcOf[q] = CalcOf[p] /\ Due(q) = Due(p)
         /\ Due(p) \in SUBSET (Nat \X Nat) /\ call[q] \in Nat
         /\ Len(kernels[q]) \in Nat /\ Len(Posts(q)) \in Nat
         /\ Len(agreed[q]) \in Nat /\ Len(counts[q]) = Len(Posts(q))
         /\ InOrder(kernels[q], Place(q), EngineLeft(q), Due(p))
         /\ InOrder(Posts(q), Place(q), PostLeft(q), Due(p))
<1>1. q \in Rank /\ CalcOf[q] = CalcOf[p] /\ Members(q) = Members(p)
  BY DEF Members
<1>2. ~Single(q) /\ Due(q) = Due(p)
  BY <1>1 DEF Single, Due
<1>3. /\ Due(p) \in SUBSET (Nat \X Nat)
      /\ Len(Posts(q)) = Len(counts[q]) /\ Posts(q) \in Seq(Nat \X Nat)
  BY <1>1, LogTypes DEF IInv
<1>4. /\ kernels[q] \in Seq(Nat \X Nat) /\ agreed[q] \in Seq(SUBSET Nat)
      /\ call[q] \in Nat
  BY <1>1 DEF IInv, TypeOK
<1>5. Len(kernels[q]) \in Nat /\ Len(agreed[q]) \in Nat /\ Len(Posts(q)) \in Nat
  BY <1>3, <1>4, LengthNat
<1>6. LogInv(q)
  BY <1>1 DEF LogsInv
<1> QED BY <1>1, <1>2, <1>3, <1>4, <1>5, <1>6 DEF LogInv

\* The rank that posted least has not posted what another one waits with.
LEMMA NotPosted ==
  ASSUME IInv, LogsInv, Halted, NEW p \in Rank, ~Single(p),
         \A m \in Members(p) : Len(counts[p]) <= Len(counts[m]),
         NEW q \in Members(p), pc[q] \in {"engine", "counts"}
  PROVE  ~\E n \in 1 .. Len(Posts(p)) : Posts(p)[n] = Asked(q)
<1> SUFFICES ASSUME NEW n \in 1 .. Len(Posts(p)), Posts(p)[n] = Asked(q) PROVE FALSE
  OBVIOUS
<1>1. /\ q \in Rank /\ CalcOf[q] = CalcOf[p] /\ Members(q) = Members(p)
      /\ Len(Posts(q)) \in Nat /\ Len(counts[q]) = Len(Posts(q))
      /\ Due(p) \in SUBSET (Nat \X Nat)
      /\ InOrder(Posts(q), Place(q), PostLeft(q), Due(p))
  BY TeamLogs
<1>2. p \in Members(p)
  BY DEF Members
<1>3. Len(Posts(p)) \in Nat /\ Len(counts[p]) = Len(Posts(p))
  BY <1>2, TeamLogs
<1>4. n \in 1 .. Len(Posts(q)) /\ Posts(q)[n] = Asked(q)
  <2>1. CalcOf[p] = CalcOf[q] /\ ~Single(q)
    BY <1>1, TeamLogs
  <2>2. Prefix(Posts(p), Posts(q))
    BY <1>1, <2>1, LogsMatch
  <2> QED BY <1>1, <1>3, <2>2 DEF Prefix
<1>5. CASE pc[q] = "engine"
  <2>1. /\ Place(q) = call[q] /\ PostLeft(q) = todo[q] /\ Item(q) \in todo[q]
    BY <1>1, <1>5, WaiterLogs
  <2>2. Asked(q)[1] < call[q] \/ \A j \in todo[q] : Asked(q)[2] < j
    <3>1. \/ Posts(q)[n][1] < Place(q)
          \/ Posts(q)[n][1] = Place(q) /\ \A j \in PostLeft(q) : Posts(q)[n][2] < j
      BY <1>1, <1>4, Zenon DEF InOrder
    <3> QED BY <1>4, <2>1, <3>1
  <2>3. call[q] \in Nat /\ Item(q) \in Nat
    BY <1>1, <2>1 DEF IInv, TypeOK
  <2> QED BY <2>1, <2>2, <2>3 DEF Asked
<1>6. CASE pc[q] = "counts"
  <2>1. Posts(q)[Len(Posts(q))] = Asked(q) /\ Asked(q) \in Due(q)
    BY <1>1, <1>6, WaiterLogs
  <2>2. ~Before(Asked(q), Asked(q))
    <3>1. Asked(q) \in Nat \X Nat
      BY <2>1 DEF Due
    <3> QED BY <3>1, BeforeOrder
  <2>3. n = Len(Posts(q))
    <3>1. n < Len(Posts(q)) => Before(Posts(q)[n], Posts(q)[Len(Posts(q))])
      <4>1. \A m, k \in 1 .. Len(Posts(q)) : m < k => Before(Posts(q)[m], Posts(q)[k])
        BY <1>1, Zenon DEF InOrder
      <4>2. Len(Posts(q)) \in 1 .. Len(Posts(q))
        BY <1>1, <1>4
      <4> QED BY <1>4, <4>1, <4>2
    <3> QED BY <1>1, <1>4, <2>1, <2>2, <3>1
  <2>4. \A m \in Members(q) : Len(counts[m]) >= Len(counts[q])
    <3> SUFFICES ASSUME NEW m \in Members(p) PROVE Len(counts[m]) >= Len(counts[q])
      BY <1>1
    <3>1. Len(counts[m]) \in Nat
      BY TeamLogs
    <3> QED BY <1>1, <1>3, <2>3, <3>1
  <2>5. CanProceed(q)
    BY <1>6, <2>4 DEF CanProceed, Leaving, CountsMet
  <2> QED BY <1>1, <2>5 DEF Halted
<1> QED BY <1>5, <1>6

\* That rank is in the engine itself: were it elsewhere, it could go on.
LEMMA LeastInEngine ==
  ASSUME IInv, LogsInv, ShareInv, Halted, NEW p \in Rank, ~Single(p),
         \A m \in Members(p) : Len(counts[p]) <= Len(counts[m]),
         NEW q \in Members(p), pc[q] \in {"engine", "counts"}
  PROVE  pc[p] = "engine"
<1>1. /\ q \in Rank /\ CalcOf[q] = CalcOf[p] /\ Members(q) = Members(p)
      /\ Due(q) = Due(p) /\ call[q] \in Nat
  BY TeamLogs
<1>2. p \in Members(p)
  BY DEF Members
<1>3. /\ InOrder(Posts(p), Place(p), PostLeft(p), Due(p))
      /\ call[p] \in Nat /\ Len(agreed[p]) \in Nat
  BY <1>2, TeamLogs
<1>4. /\ Asked(q) \in Due(p) /\ call[q] <= Len(work[CalcOf[p]])
      /\ \A m \in Members(p) : Len(agreed[m]) >= call[q]
  BY <1>1, WaiterLogs
<1>5. Asked(q)[1] > Place(p) \/ (Asked(q)[1] = Place(p) /\ Asked(q)[2] \in PostLeft(p))
  <2>1. ~\E n \in 1 .. Len(Posts(p)) : Posts(p)[n] = Asked(q)
    BY NotPosted
  <2> QED BY <1>3, <1>4, <2>1 DEF InOrder
<1>6. pc[p] \in {"agree", "share", "leave"} => Place(p) = call[p] - 1 /\ PostLeft(p) = {}
  BY DEF Place, Decided, PostLeft, Left, IInv, CallInv
<1>7. Asked(q)[1] = call[q]
  BY DEF Asked
<1>8. pc[p] \notin {"share", "leave"}
  <2> SUFFICES ASSUME pc[p] \in {"share", "leave"} PROVE FALSE
    OBVIOUS
  <2>1. call[p] > Len(work[CalcOf[p]])
    BY DEF ShareInv
  <2>2. call[q] > call[p] - 1
    BY <1>5, <1>6, <1>7
  <2>3. Len(work[CalcOf[p]]) \in Nat
    <3>1. work[CalcOf[p]] \in Seq(Batch)
      BY WorldAssumption DEF IInv, TypeOK
    <3> QED BY <3>1, LengthNat
  <2> QED BY <1>1, <1>3, <1>4, <2>1, <2>2, <2>3
<1>9. pc[p] # "agree"
  <2> SUFFICES ASSUME pc[p] = "agree" PROVE FALSE
    OBVIOUS
  <2>1. Len(agreed[p]) = call[p]
    BY DEF IInv, AgreedInv
  <2>2. call[q] > call[p] - 1
    BY <1>5, <1>6, <1>7
  <2>3. \A m \in Members(p) : Len(agreed[m]) >= Len(agreed[p])
    <3> SUFFICES ASSUME NEW m \in Members(p) PROVE Len(agreed[m]) >= Len(agreed[p])
      OBVIOUS
    <3>1. Len(agreed[m]) \in Nat
      BY TeamLogs
    <3> QED BY <1>1, <1>3, <1>4, <2>1, <2>2, <3>1
  <2> QED BY <2>3 DEF Halted, CanProceed, Leaving
<1>10. pc[p] # "counts"
  <2> SUFFICES ASSUME pc[p] = "counts" PROVE FALSE
    OBVIOUS
  <2>1. CountsMet(p)
    <3> SUFFICES ASSUME NEW m \in Members(p) PROVE Len(counts[m]) >= Len(counts[p])
      BY DEF CountsMet
    <3>1. Len(counts[m]) \in Nat /\ Len(counts[p]) \in Nat
      BY <1>2, TeamLogs
    <3> QED BY <3>1
  <2> QED BY <2>1 DEF Halted, CanProceed, Leaving
<1>11. pc[p] \in {"agree", "engine", "counts", "share", "leave"}
  BY HaltedWaits
<1> QED BY <1>8, <1>9, <1>10, <1>11

\* And in the engine it waits with the last entry of its log.
LEMMA LastEntry ==
  ASSUME IInv, LogsInv, Halted, NEW p \in Rank, ~Single(p), pc[p] = "engine"
  PROVE  kernels[p][Len(kernels[p])] = Asked(p) /\ Len(kernels[p]) > 0
<1> DEFINE last == Len(kernels[p])
<1>1. /\ Asked(p) \in Due(p) /\ Item(p) \in todo[p] /\ \A j \in todo[p] : Item(p) <= j
      /\ Place(p) = call[p] /\ EngineLeft(p) = todo[p] \ {Item(p)} /\ PostLeft(p) = todo[p]
      /\ Entered(p)
  BY WaiterLogs
<1>2. p \in Members(p)
  BY DEF Members
<1>3. /\ InOrder(kernels[p], Place(p), EngineLeft(p), Due(p))
      /\ InOrder(Posts(p), Place(p), PostLeft(p), Due(p))
      /\ Due(p) \in SUBSET (Nat \X Nat) /\ last \in Nat
  BY <1>2, TeamLogs
<1>4. PICK n \in 1 .. last : kernels[p][n] = Asked(p)
  BY <1>1 DEF Entered
<1> SUFFICES ASSUME n < last PROVE FALSE
  BY <1>3, <1>4
<1> DEFINE d == kernels[p][last]
<1>5. last \in 1 .. last
  BY <1>3, <1>4
<1>6. d \in Due(p) /\ (d[1] < call[p] \/ (d[1] = call[p] /\ \A j \in todo[p] \ {Item(p)} : d[2] < j))
  BY <1>1, <1>3, <1>5 DEF InOrder
<1>7. Before(Asked(p), d)
  BY <1>3, <1>4, <1>5 DEF InOrder
<1>8. call[p] \in Nat /\ todo[p] \in SUBSET Nat /\ d[1] \in Nat /\ d[2] \in Nat
  BY <1>3, <1>6 DEF IInv, TypeOK
<1>9. Asked(p)[1] = call[p] /\ Asked(p)[2] = Item(p)
  BY DEF Asked
<1>10. d[1] = call[p] /\ Item(p) < d[2]
  BY <1>6, <1>7, <1>8, <1>9 DEF Before
<1>11. d[2] \notin todo[p]
  BY <1>1, <1>6, <1>8, <1>10
<1>12. PICK k \in 1 .. Len(Posts(p)) : Posts(p)[k] = d
  <2>1. ~(d[1] > Place(p)) /\ ~(d[1] = Place(p) /\ d[2] \in PostLeft(p))
    BY <1>1, <1>8, <1>10, <1>11
  <2>2. d \in Due(p)
    BY <1>6
  <2> HIDE DEF d
  <2>3. (\E k \in 1 .. Len(Posts(p)) : Posts(p)[k] = d)
        \/ d[1] > Place(p) \/ (d[1] = Place(p) /\ d[2] \in PostLeft(p))
    BY <1>3, <2>2, Zenon DEF InOrder
  <2> QED BY <2>1, <2>3
<1>13. d[1] < call[p] \/ \A j \in todo[p] : d[2] < j
  <2> HIDE DEF d
  <2>1. Posts(p)[k][1] < Place(p)
        \/ (Posts(p)[k][1] = Place(p) /\ \A j \in PostLeft(p) : Posts(p)[k][2] < j)
    BY <1>3, <1>12, Zenon DEF InOrder
  <2> QED BY <1>1, <1>12, <2>1
<1> QED BY <1>1, <1>8, <1>10, <1>13

\* A rank that has not come there is behind it, and could go on.
LEMMA NobodyBehind ==
  ASSUME IInv, LogsInv, ShareInv, Halted, NEW p \in Rank, ~Single(p), pc[p] = "engine",
         \A m \in Members(p) : Len(counts[p]) <= Len(counts[m]),
         NEW q \in Members(p)
  PROVE  Len(kernels[q]) >= Len(kernels[p])
<1>1. /\ q \in Rank /\ CalcOf[q] = CalcOf[p] /\ Members(q) = Members(p)
      /\ Due(q) = Due(p) /\ Due(p) \in SUBSET (Nat \X Nat)
      /\ call[q] \in Nat /\ Len(kernels[q]) \in Nat /\ ~Single(q) /\ Len(agreed[q]) \in Nat
      /\ InOrder(kernels[q], Place(q), EngineLeft(q), Due(p))
  BY TeamLogs
<1>2. p \in Members(p)
  BY DEF Members
<1>3. /\ InOrder(kernels[p], Place(p), EngineLeft(p), Due(p))
      /\ InOrder(Posts(p), Place(p), PostLeft(p), Due(p))
      /\ Len(kernels[p]) \in Nat /\ call[p] \in Nat
  BY <1>2, TeamLogs
<1>4. /\ Asked(p) \in Due(p) /\ Item(p) \in todo[p] /\ \A j \in todo[p] : Item(p) <= j
      /\ Place(p) = call[p] /\ PostLeft(p) = todo[p]
      /\ call[p] <= Len(work[CalcOf[p]])
      /\ \A m \in Members(p) : Len(agreed[m]) >= call[p]
  BY WaiterLogs
<1>5. kernels[p][Len(kernels[p])] = Asked(p) /\ Len(kernels[p]) \in 1 .. Len(kernels[p])
  BY <1>3, LastEntry
<1> SUFFICES ASSUME Len(kernels[q]) < Len(kernels[p]) PROVE FALSE
  BY <1>1, <1>3
<1>6. ~\E n \in 1 .. Len(kernels[q]) : kernels[q][n] = Asked(p)
  <2> SUFFICES ASSUME NEW n \in 1 .. Len(kernels[q]), kernels[q][n] = Asked(p) PROVE FALSE
    OBVIOUS
  <2>1. Prefix(kernels[q], kernels[p])
    BY <1>1, LogsMatch
  <2>2. n \in 1 .. Len(kernels[p]) /\ n < Len(kernels[p]) /\ kernels[p][n] = Asked(p)
    BY <1>1, <1>3, <2>1 DEF Prefix
  <2>3. Before(Asked(p), Asked(p))
    BY <1>3, <1>5, <2>2 DEF InOrder
  <2>4. Asked(p) \in Nat \X Nat
    BY <1>1, <1>4
  <2> QED BY <2>3, <2>4, BeforeOrder
<1>7. call[p] > Place(q) \/ (call[p] = Place(q) /\ Item(p) \in EngineLeft(q))
  <2>1. Asked(p)[1] = call[p] /\ Asked(p)[2] = Item(p)
    BY DEF Asked
  <2> QED BY <1>1, <1>4, <1>6, <2>1 DEF InOrder
<1>8. pc[q] \in {"agree", "share", "leave"} => Place(q) = call[q] - 1 /\ EngineLeft(q) = {}
  BY <1>1 DEF Place, Decided, EngineLeft, Left, IInv, CallInv
<1>9. pc[q] \notin {"share", "leave"}
  <2> SUFFICES ASSUME pc[q] \in {"share", "leave"} PROVE FALSE
    OBVIOUS
  <2>1. call[q] > Len(work[CalcOf[p]])
    BY <1>1 DEF ShareInv
  <2>2. call[p] > call[q] - 1
    BY <1>7, <1>8
  <2>3. Len(work[CalcOf[p]]) \in Nat
    <3>1. work[CalcOf[p]] \in Seq(Batch)
      BY WorldAssumption DEF IInv, TypeOK
    <3> QED BY <3>1, LengthNat
  <2> QED BY <1>1, <1>3, <1>4, <2>1, <2>2, <2>3
<1>10. pc[q] # "agree"
  <2> SUFFICES ASSUME pc[q] = "agree" PROVE FALSE
    OBVIOUS
  <2>1. Len(agreed[q]) = call[q]
    BY <1>1 DEF IInv, AgreedInv
  <2>2. call[p] > call[q] - 1
    BY <1>7, <1>8
  <2>3. \A m \in Members(q) : Len(agreed[m]) >= Len(agreed[q])
    <3> SUFFICES ASSUME NEW m \in Members(p) PROVE Len(agreed[m]) >= Len(agreed[q])
      BY <1>1
    <3>1. Len(agreed[m]) \in Nat
      BY TeamLogs
    <3> QED BY <1>1, <1>3, <1>4, <2>1, <2>2, <3>1
  <2> QED BY <1>1, <2>3 DEF Halted, CanProceed, Leaving
<1>11. CASE pc[q] \in {"engine", "counts"}
  <2>1. /\ Asked(q) \in Due(p) /\ Item(q) \in todo[q] /\ \A j \in todo[q] : Item(q) <= j
        /\ Place(q) = call[q] /\ EngineLeft(q) = todo[q] \ {Item(q)}
    BY <1>1, <1>11, WaiterLogs
  <2>2. ~\E n \in 1 .. Len(Posts(p)) : Posts(p)[n] = Asked(q)
    BY <1>11, NotPosted
  <2>3. Asked(q)[1] = call[q] /\ Asked(q)[2] = Item(q)
    BY DEF Asked
  <2>4. call[q] > call[p] \/ (call[q] = call[p] /\ Item(q) \in todo[p])
    BY <1>3, <1>4, <2>1, <2>2, <2>3 DEF InOrder
  <2>5. call[p] > call[q] \/ (call[p] = call[q] /\ Item(p) \in todo[q] \ {Item(q)})
    BY <1>7, <2>1
  <2>6. Item(p) \in Nat /\ Item(q) \in Nat
    BY <1>1, <1>4, <2>1 DEF IInv, TypeOK
  <2> QED BY <1>1, <1>3, <1>4, <2>1, <2>4, <2>5, <2>6, SMTT(30)
<1>12. pc[q] \in {"agree", "engine", "counts", "share", "leave"}
  BY <1>1, HaltedWaits
<1> QED BY <1>9, <1>10, <1>11, <1>12

\* So nobody is in the engine or in the exchange,
LEMMA NobodyWaits ==
  ASSUME IInv, LogsInv, ShareInv, Halted, NEW q \in Rank
  PROVE  pc[q] \notin {"engine", "counts"}
<1> SUFFICES ASSUME pc[q] \in {"engine", "counts"} PROVE FALSE
  OBVIOUS
<1>1. ~Single(q)
  BY HaltedWaits
<1>2. PICK p \in Members(q) : \A m \in Members(q) : Len(counts[p]) <= Len(counts[m])
  <2> DEFINE f == [m \in Rank |-> Len(counts[m])]
  <2>1. \A m \in Members(q) : f[m] = Len(counts[m]) /\ f[m] \in Nat
    BY <1>1, TeamLogs
  <2> HIDE DEF f
  <2>2. \E p \in Members(q) : \A m \in Members(q) : f[p] <= f[m]
    BY <2>1, LeastRank
  <2> QED BY <2>1, <2>2
<1>3. /\ p \in Rank /\ ~Single(p) /\ Members(p) = Members(q) /\ q \in Members(p)
  <2>1. p \in Rank /\ ~Single(p) /\ Members(p) = Members(q)
    BY <1>1, TeamLogs
  <2> QED BY <2>1 DEF Members
<1>4. pc[p] = "engine"
  BY <1>2, <1>3, LeastInEngine
<1>5. EngineMet(p)
  BY <1>2, <1>3, <1>4, NobodyBehind DEF EngineMet
<1>6. \A m \in Members(p) : failed[m] = FALSE
  BY HaltedWaits DEF Members
<1> QED BY <1>3, <1>4, <1>5, <1>6 DEF Halted, CanProceed, Leaving

\* nor in the joint decision: the rank that has posted flags least often is
\* neither there, where its peers have come, nor through with its calls.
LEMMA NobodyAgrees ==
  ASSUME IInv, LogsInv, ShareInv, Halted, NEW r \in Rank
  PROVE  pc[r] # "agree"
<1> SUFFICES ASSUME pc[r] = "agree" PROVE FALSE
  OBVIOUS
<1>1. ~Single(r)
  BY HaltedWaits
<1>2. PICK a \in Members(r) : \A m \in Members(r) : Len(agreed[a]) <= Len(agreed[m])
  <2> DEFINE f == [m \in Rank |-> Len(agreed[m])]
  <2>1. \A m \in Members(r) : f[m] = Len(agreed[m]) /\ f[m] \in Nat
    BY <1>1, TeamLogs
  <2> HIDE DEF f
  <2>2. \E p \in Members(r) : \A m \in Members(r) : f[p] <= f[m]
    BY <2>1, LeastRank
  <2> QED BY <2>1, <2>2
<1>3. /\ a \in Rank /\ ~Single(a) /\ Members(a) = Members(r) /\ CalcOf[a] = CalcOf[r]
      /\ call[a] \in Nat
  BY <1>1, TeamLogs
<1>4. Len(agreed[a]) \in Nat /\ \A m \in Members(r) : Len(agreed[m]) \in Nat
  BY <1>1, TeamLogs
<1>5. pc[a] \in {"share", "leave"}
  <2>1. pc[a] # "agree"
    <3>1. \A m \in Members(a) : Len(agreed[m]) >= Len(agreed[a])
      BY <1>2, <1>3, <1>4
    <3> QED BY <1>3, <3>1 DEF Halted, CanProceed, Leaving
  <2> QED BY <1>3, <2>1, HaltedWaits, NobodyWaits
<1>6. Len(agreed[a]) = call[a] - 1 /\ call[a] > Len(work[CalcOf[r]])
  BY <1>3, <1>5 DEF IInv, AgreedInv, ShareInv
<1>7. Len(agreed[r]) = call[r] /\ call[r] <= Len(work[CalcOf[r]]) /\ call[r] \in Nat
  BY <1>1 DEF IInv, AgreedInv, CallInv, InCall, TypeOK
<1>8. Len(work[CalcOf[r]]) \in Nat
  <2>1. work[CalcOf[r]] \in Seq(Batch)
    BY WorldAssumption DEF IInv, TypeOK
  <2> QED BY <2>1, LengthNat
<1>9. Len(agreed[a]) >= Len(agreed[r])
  BY <1>3, <1>6, <1>7, <1>8
<1>10. \A m \in Members(r) : Len(agreed[m]) >= Len(agreed[r])
  <2> SUFFICES ASSUME NEW m \in Members(r) PROVE Len(agreed[m]) >= Len(agreed[r])
    OBVIOUS
  <2>1. Len(agreed[a]) <= Len(agreed[m]) /\ Len(agreed[m]) \in Nat
    BY <1>2, <1>4
  <2> QED BY <1>4, <1>7, <1>9, <2>1
<1> QED BY <1>10 DEF Halted, CanProceed, Leaving

\* No ranks wait for each other, in decisions, engine, exchange and share together:
\* until all ranks meet in MPI_Finalize or the world is aborted, one of them goes on
\* by itself, without a failure and without an engine that peers have left, for every
\* number of ranks, calculators, batches and failures, and however the ranks are
\* scheduled (Potential.hpp:190-225, CalculatorGroupMpi.cc:259-298).  A truncated
\* record may break it: the rank that throws leaves its peers in the engine.
THEOREM NobodyStuckHolds == NoShortRecord => (Spec => []NobodyStuck)
<1>1. IInv /\ LogsInv /\ ShareInv => NobodyStuck
  <2> SUFFICES ASSUME IInv, LogsInv, ShareInv, Halted PROVE Finalized
    BY DEF NobodyStuck, Halted
  <2>1. \A r \in Rank : pc[r] \in {"share", "leave"}
    BY HaltedWaits, NobodyWaits, NobodyAgrees
  <2>2. \A r \in Rank : pc[r] # "share"
    BY <2>1 DEF Halted, CanProceed, Leaving, ShareMet
  <2> QED BY <2>1, <2>2 DEF Finalized, Leaving
<1> SUFFICES ASSUME NoShortRecord PROVE Spec => []NobodyStuck
  OBVIOUS
<1> QED BY <1>1, LogsInvariance, ShareInvariance, PTL
=============================================================================
