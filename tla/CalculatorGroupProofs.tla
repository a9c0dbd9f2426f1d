------------------------ MODULE CalculatorGroupProofs ------------------------
(***************************************************************************)
(* Safety of binding and registration for every world size, set of         *)
(* callbacks, host program and verdict.  The inductive invariant says      *)
(* which of a rank's callbacks are still to be called, which have been,    *)
(* and where the communicator is.                                          *)
(***************************************************************************)
EXTENDS CalculatorGroup, SequenceTheorems, TLAPS

NoRepeat(s) == \A i, j \in DOMAIN s : s[i] = s[j] => i = j

\* Where a rank is: nothing is queued outside a bind or a registration, and the
\* rank is bound exactly when a bind has returned.
PhaseInv(r) ==
  /\ pc[r] \in {"ready", "split"} => todo[r] = << >>
  /\ pc[r] \in {"split", "bind"} => ip[r] <= Len(script) /\ script[ip[r]].op = "bind"
  /\ pc[r] \in {"split", "bind"} => ~bound[r]
  /\ pc[r] = "register" => bound[r]
  /\ comm[r] # NoComm => bound[r] \/ pc[r] = "bind"

\* Which callbacks are to be called: those in todo, each of them once, and none
\* of them has been called before.
OnceInv(r) ==
  /\ NoRepeat(hooks[r]) /\ NoRepeat(adopters[r]) /\ NoRepeat(todo[r])
  /\ \A a \in Adopters :
       /\ given[r][a] <= 1
       /\ given[r][a] = 1 => In(adopters[r], a)
       /\ In(todo[r], a) => given[r][a] = 0 /\ In(adopters[r], a)
       /\ ~bound[r] /\ pc[r] # "bind" => given[r][a] = 0

\* A calculator that is still accepted has called what is not in todo, and
\* nothing it called refused.
AcceptInv(r) ==
  (bound[r] \/ pc[r] = "bind") /\ group[r].index >= 0 =>
    \A a \in Adopters :
      In(adopters[r], a) /\ ~In(todo[r], a) => given[r][a] = 1 /\ ~Refuses(r, a)

IInv == TypeOK /\ \A r \in Rank : PhaseInv(r) /\ OnceInv(r) /\ AcceptInv(r)

-----------------------------------------------------------------------------
(* Lemmas about the sequences of callbacks.                                *)

\* Registering a callback that is not there yet.
LEMMA AppendOnce ==
  ASSUME NEW S, NEW s \in Seq(S), NEW x \in S
  PROVE  /\ \A y : In(Append(s, x), y) <=> In(s, y) \/ y = x
         /\ NoRepeat(s) /\ ~In(s, x) => NoRepeat(Append(s, x))
<1>1. /\ Append(s, x) \in Seq(S)
      /\ Len(Append(s, x)) = Len(s) + 1
      /\ \A i \in 1 .. Len(s) : Append(s, x)[i] = s[i]
      /\ Append(s, x)[Len(s) + 1] = x
  BY AppendProperties
<1>2. /\ DOMAIN s = 1 .. Len(s)
      /\ DOMAIN Append(s, x) = 1 .. Len(s) + 1
      /\ Len(s) \in Nat
  BY <1>1
<1> QED BY <1>1, <1>2 DEF In, NoRepeat

\* Calling the first callback of a queue without repetitions.
LEMMA TailOnce ==
  ASSUME NEW S, NEW s \in Seq(S), s # << >>
  PROVE  /\ Head(s) \in S /\ Tail(s) \in Seq(S)
         /\ In(s, Head(s))
         /\ \A y : In(s, y) <=> y = Head(s) \/ In(Tail(s), y)
         /\ NoRepeat(s) => NoRepeat(Tail(s)) /\ ~In(Tail(s), Head(s))
<1>1. /\ Head(s) = s[1] /\ Head(s) \in S
      /\ Tail(s) \in Seq(S) /\ Len(Tail(s)) = Len(s) - 1
      /\ \A i \in 1 .. Len(Tail(s)) : Tail(s)[i] = s[i + 1]
  BY HeadTailProperties
<1>2. /\ DOMAIN s = 1 .. Len(s) /\ DOMAIN Tail(s) = 1 .. Len(s) - 1
      /\ Len(s) \in Nat \ {0}
  BY <1>1
<1>3. \A y : In(Tail(s), y) => In(s, y)
  BY <1>1, <1>2 DEF In
<1>4. \A y : In(s, y) => y = Head(s) \/ In(Tail(s), y)
  <2>1. SUFFICES ASSUME NEW i \in 1 .. Len(s), i # 1
                 PROVE  i - 1 \in 1 .. Len(s) - 1 /\ Tail(s)[i - 1] = s[i]
    BY <1>1, <1>2 DEF In
  <2>2. i - 1 \in 1 .. Len(s) - 1 /\ (i - 1) + 1 = i
    BY <1>2, <2>1
  <2> QED BY <1>1, <1>2, <2>2
<1>5. In(s, Head(s))
  BY <1>1, <1>2 DEF In
<1>6. ASSUME NoRepeat(s) PROVE NoRepeat(Tail(s)) /\ ~In(Tail(s), Head(s))
  <2>1. ASSUME NEW i \in 1 .. Len(s) - 1, NEW j \in 1 .. Len(s) - 1, Tail(s)[i] = Tail(s)[j]
        PROVE  i = j
    <3>1. i + 1 \in 1 .. Len(s) /\ j + 1 \in 1 .. Len(s) /\ s[i + 1] = s[j + 1]
      BY <1>1, <1>2, <2>1
    <3> QED BY <1>2, <1>6, <3>1 DEF NoRepeat
  <2>2. ASSUME NEW i \in 1 .. Len(s) - 1, Tail(s)[i] = Head(s)
        PROVE  FALSE
    <3>1. i + 1 \in 1 .. Len(s) /\ 1 \in 1 .. Len(s) /\ s[i + 1] = s[1] /\ i + 1 # 1
      BY <1>1, <1>2, <2>2
    <3> QED BY <1>2, <1>6, <3>1 DEF NoRepeat
  <2> QED BY <1>2, <2>1, <2>2 DEF NoRepeat, In
<1> QED BY <1>1, <1>3, <1>4, <1>5, <1>6

\* Queueing the hooks and the adopters.
LEMMA ConcatOnce ==
  ASSUME NEW S, NEW s \in Seq(S), NEW T, NEW t \in Seq(T), S \cap T = {}
  PROVE  /\ s \o t \in Seq(S \cup T)
         /\ \A y : In(s \o t, y) <=> In(s, y) \/ In(t, y)
         /\ NoRepeat(s) /\ NoRepeat(t) => NoRepeat(s \o t)
<1>1. s \in Seq(S \cup T) /\ t \in Seq(S \cup T)
  BY SeqMonotonic
<1>2. /\ s \o t \in Seq(S \cup T) /\ Len(s \o t) = Len(s) + Len(t)
      /\ \A i \in 1 .. Len(s) + Len(t) :
           (s \o t)[i] = IF i <= Len(s) THEN s[i] ELSE t[i - Len(s)]
  BY <1>1, ConcatProperties
<1>3. /\ DOMAIN s = 1 .. Len(s) /\ DOMAIN t = 1 .. Len(t)
      /\ DOMAIN (s \o t) = 1 .. Len(s) + Len(t)
      /\ Len(s) \in Nat /\ Len(t) \in Nat
  BY <1>2
<1>4. /\ \A i \in 1 .. Len(s) : s[i] \in S /\ i \in 1 .. Len(s) + Len(t) /\ (s \o t)[i] = s[i]
      /\ \A j \in 1 .. Len(t) : /\ t[j] \in T /\ Len(s) + j \in 1 .. Len(s) + Len(t)
                                /\ (s \o t)[Len(s) + j] = t[j]
  <2>1. \A i \in 1 .. Len(s) : s[i] \in S /\ i \in 1 .. Len(s) + Len(t) /\ (s \o t)[i] = s[i]
    BY <1>2, <1>3
  <2>2. ASSUME NEW j \in 1 .. Len(t)
        PROVE  /\ t[j] \in T /\ Len(s) + j \in 1 .. Len(s) + Len(t)
               /\ (s \o t)[Len(s) + j] = t[j]
    <3>1. /\ Len(s) + j \in 1 .. Len(s) + Len(t) /\ ~(Len(s) + j <= Len(s))
          /\ (Len(s) + j) - Len(s) = j
      BY <1>3
    <3>2. t[j] \in T
      BY <1>3
    <3> QED BY <1>2, <3>1, <3>2
  <2> QED BY <2>1, <2>2
<1>5. \A i \in 1 .. Len(s) + Len(t) :
        i \in 1 .. Len(s) \/ \E j \in 1 .. Len(t) : i = Len(s) + j
  <2>1. ASSUME NEW i \in 1 .. Len(s) + Len(t), i \notin 1 .. Len(s)
        PROVE  i - Len(s) \in 1 .. Len(t) /\ i = Len(s) + (i - Len(s))
    BY <1>3, <2>1
  <2> QED BY <2>1
<1>6. \A y : In(s \o t, y) <=> In(s, y) \/ In(t, y)
  <2>1. ASSUME NEW i \in 1 .. Len(s) + Len(t)
        PROVE  In(s, (s \o t)[i]) \/ In(t, (s \o t)[i])
    BY <1>3, <1>4, <1>5 DEF In
  <2>2. \A i \in 1 .. Len(s) : In(s \o t, s[i])
    BY <1>3, <1>4 DEF In
  <2>3. \A j \in 1 .. Len(t) : In(s \o t, t[j])
    BY <1>3, <1>4 DEF In
  <2> QED BY <1>3, <2>1, <2>2, <2>3 DEF In
<1>7. ASSUME NoRepeat(s), NoRepeat(t), NEW i \in 1 .. Len(s) + Len(t),
             NEW j \in 1 .. Len(s) + Len(t), (s \o t)[i] = (s \o t)[j]
      PROVE  i = j
  <2>1. CASE i \in 1 .. Len(s) /\ j \in 1 .. Len(s)
    BY <1>3, <1>4, <1>7, <2>1 DEF NoRepeat
  <2>2. ASSUME NEW k \in 1 .. Len(t), i = Len(s) + k, NEW l \in 1 .. Len(t), j = Len(s) + l
        PROVE  i = j
    <3>1. t[k] = t[l]
      BY <1>4, <1>7, <2>2
    <3> QED BY <1>3, <1>7, <2>2, <3>1 DEF NoRepeat
  <2>3. ASSUME NEW k \in 1 .. Len(s), NEW l \in 1 .. Len(t)
        PROVE  (s \o t)[k] # (s \o t)[Len(s) + l]
    BY <1>4
  <2> QED BY <1>5, <1>7, <2>1, <2>2, <2>3
<1> QED BY <1>2, <1>3, <1>6, <1>7 DEF NoRepeat

-----------------------------------------------------------------------------
(* Each part of the invariant, step by step.                               *)

\* What a call of the host program carries.
LEMMA CallType ==
  ASSUME TypeOK, NEW r \in Rank, ip[r] <= Len(script)
  PROVE  /\ script[ip[r]].op = "bind" => script[ip[r]].size \in Int
         /\ script[ip[r]].op = "hook" => script[ip[r]].cb \in Hooks
         /\ script[ip[r]].op = "adopter" => script[ip[r]].cb \in Adopters
<1>1. script[ip[r]] \in Call
  <2>1. script \in Seq(Call) /\ ip[r] \in 1 .. Len(script)
    BY DEF TypeOK
  <2> QED BY <2>1
<1> QED BY <1>1 DEF Call

LEMMA NormalType ==
  ASSUME NEW r \in Rank, NEW size \in Int
  PROVE  Normal(r, size) \in Nat \ {0}
BY WorldAssumption DEF Normal

\* The three ways a group record is made, but for a successful split.
LEMMA GroupType ==
  /\ Ungrouped \in Group
  /\ \A world \in Nat \ {0} : Refused(world) \in Group
  /\ \A g \in Group : [g EXCEPT !.index = -1] \in Group
<1>1. Ungrouped \in Group
  BY DEF Ungrouped, Group
<1>2. ASSUME NEW world \in Nat \ {0}
      PROVE  Refused(world) \in Group
  BY <1>2 DEF Refused, Group
<1>3. ASSUME NEW g \in Group
      PROVE  [g EXCEPT !.index = -1] \in Group
  BY <1>3 DEF Group
<1> QED BY <1>1, <1>2, <1>3

LEMMA TypeStep ==
  ASSUME TypeOK, NEW r \in Rank, PhaseInv(r), Step(r)
  PROVE  TypeOK'
<1> USE DEF envVars, libVars, mpiVars, logVars, Return, RunCallbacks
<1>1. CASE LoadMpi(r)
  BY <1>1, SMTT(40) DEF LoadMpi, Calls, TypeOK
<1>2. CASE AddHook(r)
  <2>1. script[ip[r]].cb \in Hooks
    BY <1>2, CallType DEF AddHook, Calls
  <2>2. hooks' \in [Rank -> Seq(Hooks)]
    BY <1>2, <2>1 DEF AddHook, TypeOK
  <2> QED BY <1>2, <2>2, SMTT(40) DEF AddHook, TypeOK
<1>3. CASE SkipAdopter(r)
  BY <1>3 DEF SkipAdopter, TypeOK
<1>4. CASE AddAdopter(r)
  <2> DEFINE a == script[ip[r]].cb
  <2>1. a \in Adopters
    BY <1>4, CallType DEF AddAdopter, Calls
  <2>2. adopters' = [adopters EXCEPT ![r] = Append(@, a)]
    BY <1>4 DEF AddAdopter
  <2>3. adopters' \in [Rank -> Seq(Adopters)]
    <3> HIDE DEF a
    <3> QED BY <2>1, <2>2 DEF TypeOK
  <2>4. <<a>> \in Seq(Callback)
    BY <2>1 DEF Callback
  <2>5. CASE bound[r]
    <3>1. /\ pc' = [pc EXCEPT ![r] = "register"]
          /\ todo' = [todo EXCEPT ![r] = <<a>>]
          /\ UNCHANGED ip
      BY <1>4, <2>5 DEF AddAdopter
    <3>2. /\ pc' \in [Rank -> {"ready", "split", "bind", "register"}]
          /\ todo' \in [Rank -> Seq(Callback)]
      <4> HIDE DEF a
      <4> QED BY <2>4, <3>1 DEF TypeOK
    <3> QED BY <1>4, <2>3, <3>1, <3>2, SMTT(40) DEF AddAdopter, TypeOK
  <2>6. CASE ~bound[r]
    <3>1. ip' = [ip EXCEPT ![r] = @ + 1] /\ UNCHANGED <<pc, todo>>
      BY <1>4, <2>6 DEF AddAdopter
    <3>2. ip' \in [Rank -> Nat \ {0}]
      BY <3>1 DEF TypeOK
    <3>3. UNCHANGED <<envVars, inside, ret, hooks, group, bound, boundRpc, mpiVars, logVars>>
      BY <1>4 DEF AddAdopter
    <3> QED BY <2>3, <3>1, <3>2, <3>3 DEF TypeOK
  <2> QED BY <2>5, <2>6
<1>5. CASE BindAgain(r)
  <2>1. group[r].index \in Int
    BY DEF TypeOK, Group
  <2>2. ret' \in [Rank -> Int]
    <3>1. \E v \in Int : ret' = [ret EXCEPT ![r] = v]
      <4>1. -1 \in Int
        OBVIOUS
      <4>2. ret' = [ret EXCEPT ![r] = IF boundRpc[r] = script[ip[r]].size
                                      THEN group[r].index ELSE -1]
        BY <1>5 DEF BindAgain
      <4> QED BY <2>1, <4>1, <4>2
    <3> QED BY <3>1 DEF TypeOK
  <2>3. api' \in [Rank -> BOOLEAN]
    <3>1. \E v \in BOOLEAN : api' = [api EXCEPT ![r] = v]
      BY <1>5 DEF BindAgain, TypeOK
    <3> QED BY <3>1 DEF TypeOK
  <2>4. ip' \in [Rank -> Nat \ {0}]
    BY <1>5 DEF BindAgain, TypeOK
  <2> QED BY <1>5, <2>2, <2>3, <2>4 DEF BindAgain, TypeOK
<1>6. CASE BindWithoutMpi(r) \/ BindUndivided(r)
  <2>1. hooks[r] \o adopters[r] \in Seq(Callback)
    BY CallbackAssumption, ConcatOnce DEF TypeOK, Callback
  <2>2. CASE BindWithoutMpi(r)
    <3>1. group' \in [Rank -> Group]
      <4>1. \E g \in Group : group' = [group EXCEPT ![r] = g]
        <5>1. Ungrouped \in Group /\ Refused(1) \in Group
          BY GroupType
        <5> QED BY <2>2, <5>1 DEF BindWithoutMpi
      <4> QED BY <4>1 DEF TypeOK
    <3>2. todo' \in [Rank -> Seq(Callback)]
      BY <2>1, <2>2 DEF BindWithoutMpi, TypeOK
    <3> QED BY <2>2, <3>1, <3>2 DEF BindWithoutMpi, TypeOK
  <2>3. CASE BindUndivided(r)
    <3>1. group' \in [Rank -> Group] /\ mgroup' \in [Rank -> Group]
      BY <2>3, GroupType, WorldAssumption DEF BindUndivided, TypeOK
    <3>2. todo' \in [Rank -> Seq(Callback)]
      BY <2>1, <2>3 DEF BindUndivided, TypeOK
    <3> QED BY <2>3, <3>1, <3>2 DEF BindUndivided, TypeOK
  <2> QED BY <1>6, <2>2, <2>3
<1>7. CASE BindSplit(r)
  <2>1. Normal(r, script[ip[r]].size) \in Nat
    BY <1>7, CallType, NormalType DEF BindSplit, Calls
  <2> QED BY <1>7, <2>1 DEF BindSplit, TypeOK
<1>8. CASE SplitReturns(r)
  <2>1. hooks[r] \o adopters[r] \in Seq(Callback)
    BY CallbackAssumption, ConcatOnce DEF TypeOK, Callback
  <2>2. split[r] \in Nat \ {0} /\ r \in Nat /\ WorldSize \in Nat \ {0}
    BY <1>8, WorldAssumption DEF SplitReturns, TypeOK, Rank
  <2> DEFINE g == [index |-> Color(r, split[r]), ranks |-> split[r],
                   rankInGroup |-> Key(r, split[r]), worldSize |-> WorldSize]
  <2>3. g \in Group
    <3>1. Color(r, split[r]) \in Int /\ Key(r, split[r]) \in Nat
      BY <2>2 DEF Color, Key
    <3> QED BY <2>2, <3>1 DEF Group
  <2>4. group' = [group EXCEPT ![r] = g] /\ mgroup' = [mgroup EXCEPT ![r] = g]
    BY <1>8 DEF SplitReturns
  <2>5. group' \in [Rank -> Group] /\ mgroup' \in [Rank -> Group]
    <3> HIDE DEF g
    <3> QED BY <2>3, <2>4 DEF TypeOK
  <2>6. comm' \in [Rank -> SUBSET Rank]
    BY <1>8 DEF SplitReturns, TypeOK
  <2>7. todo' \in [Rank -> Seq(Callback)]
    BY <1>8, <2>1 DEF SplitReturns, TypeOK
  <2> QED BY <1>8, <2>5, <2>6, <2>7 DEF SplitReturns, TypeOK
<1>9. CASE AdoptWithoutComm(r)
  <2>1. group' \in [Rank -> Group]
    BY <1>9, GroupType DEF AdoptWithoutComm, Refuse, TypeOK
  <2>2. todo' \in [Rank -> Seq(Callback)]
    BY <1>9, TailOnce DEF AdoptWithoutComm, Busy, TypeOK
  <2> QED BY <1>9, <2>1, <2>2 DEF AdoptWithoutComm, TypeOK
<1>10. CASE EnterCallback(r)
  <2>1. Head(todo[r]) \in Callback
    BY <1>10, TailOnce DEF EnterCallback, Busy, TypeOK
  <2>2. entered' \in [Rank -> Seq(Callback)]
    <3> DEFINE h == Head(todo[r])
    <3>1. entered' = [entered EXCEPT ![r] = Append(@, h)] /\ h \in Callback
      BY <1>10, <2>1 DEF EnterCallback
    <3> HIDE DEF h
    <3> QED BY <3>1 DEF TypeOK
  <2> QED BY <1>10, <2>2 DEF EnterCallback, TypeOK
<1>11. CASE CallbackReturns(r)
  <2> DEFINE cb == Head(todo[r])
  <2>1. group' \in [Rank -> Group]
    <3>1. Refuse(r) \/ group' = group
      BY <1>11 DEF CallbackReturns
    <3>2. CASE Refuse(r)
      BY <3>2, GroupType DEF Refuse, TypeOK
    <3>3. CASE group' = group
      BY <3>3 DEF TypeOK
    <3> QED BY <3>1, <3>2, <3>3
  <2>2. todo' \in [Rank -> Seq(Callback)]
    BY <1>11, TailOnce DEF CallbackReturns, Busy, TypeOK
  <2>3. given' \in [Rank -> [Adopters -> Nat]]
    <3>1. given' = IF cb \in Adopters THEN [given EXCEPT ![r][cb] = @ + 1] ELSE given
      BY <1>11 DEF CallbackReturns
    <3> HIDE DEF cb
    <3> QED BY <3>1 DEF TypeOK
  <2> QED BY <1>11, <2>1, <2>2, <2>3 DEF CallbackReturns, TypeOK
<1>12. CASE BindReturns(r)
  <2>1. Normal(r, script[ip[r]].size) \in Int
    <3>1. script[ip[r]].size \in Int
      BY <1>12, CallType DEF BindReturns, PhaseInv
    <3> QED BY <3>1, NormalType
  <2>2. group[r].index \in Int
    BY DEF TypeOK, Group
  <2> QED BY <1>12, <2>1, <2>2, SMTT(40) DEF BindReturns, TypeOK
<1>13. CASE RegisterReturns(r)
  BY <1>13 DEF RegisterReturns, TypeOK
<1> QED
  BY <1>1, <1>2, <1>3, <1>4, <1>5, <1>6, <1>7, <1>8, <1>9, <1>10, <1>11, <1>12, <1>13
  DEF Step

\* A step of one rank leaves every other rank where it was, and never touches
\* the host program and the verdicts.
LEMMA Frame ==
  ASSUME TypeOK, NEW r \in Rank, Step(r)
  PROVE  /\ script' = script /\ verdict' = verdict
         /\ \A q \in Rank \ {r} :
              /\ ip'[q] = ip[q] /\ pc'[q] = pc[q] /\ todo'[q] = todo[q]
              /\ hooks'[q] = hooks[q] /\ adopters'[q] = adopters[q]
              /\ group'[q] = group[q] /\ bound'[q] = bound[q]
              /\ mgroup'[q] = mgroup[q] /\ comm'[q] = comm[q] /\ given'[q] = given[q]
              /\ split'[q] = split[q]
<1> USE DEF TypeOK, envVars, libVars, mpiVars, logVars, Return, RunCallbacks
<1>1. CASE LoadMpi(r)         BY <1>1 DEF LoadMpi
<1>2. CASE AddHook(r)         BY <1>2 DEF AddHook
<1>3. CASE SkipAdopter(r)     BY <1>3 DEF SkipAdopter
<1>4. CASE AddAdopter(r)      BY <1>4 DEF AddAdopter
<1>5. CASE BindAgain(r)       BY <1>5 DEF BindAgain
<1>6. CASE BindWithoutMpi(r)  BY <1>6 DEF BindWithoutMpi
<1>7. CASE BindUndivided(r)   BY <1>7 DEF BindUndivided
<1>8. CASE BindSplit(r)       BY <1>8 DEF BindSplit
<1>9. CASE SplitReturns(r)    BY <1>9 DEF SplitReturns
<1>10. CASE AdoptWithoutComm(r) BY <1>10 DEF AdoptWithoutComm, Refuse
<1>11. CASE EnterCallback(r)  BY <1>11 DEF EnterCallback
<1>12. CASE CallbackReturns(r) BY <1>12 DEF CallbackReturns, Refuse
<1>13. CASE BindReturns(r)    BY <1>13 DEF BindReturns
<1>14. CASE RegisterReturns(r) BY <1>14 DEF RegisterReturns
<1> QED
  BY <1>1, <1>2, <1>3, <1>4, <1>5, <1>6, <1>7, <1>8, <1>9, <1>10, <1>11, <1>12,
     <1>13, <1>14 DEF Step

\* The invariant of a rank depends on that rank only.
LEMMA OtherRank ==
  ASSUME TypeOK, NEW r \in Rank, Step(r), NEW q \in Rank \ {r},
         PhaseInv(q), OnceInv(q), AcceptInv(q)
  PROVE  PhaseInv(q)' /\ OnceInv(q)' /\ AcceptInv(q)'
BY Frame DEF PhaseInv, OnceInv, AcceptInv, Refuses

LEMMA PhaseStep ==
  ASSUME TypeOK, NEW r \in Rank, PhaseInv(r), Step(r)
  PROVE  PhaseInv(r)'
<1> USE DEF PhaseInv, TypeOK, envVars, libVars, mpiVars, logVars, Return, RunCallbacks
<1>1. CASE LoadMpi(r)         BY <1>1 DEF LoadMpi, Calls
<1>2. CASE AddHook(r)         BY <1>2 DEF AddHook, Calls
<1>3. CASE SkipAdopter(r)     BY <1>3 DEF SkipAdopter, Calls
<1>4. CASE AddAdopter(r)      BY <1>4 DEF AddAdopter, Calls
<1>5. CASE BindAgain(r)       BY <1>5 DEF BindAgain, Calls
<1>6. CASE BindWithoutMpi(r)  BY <1>6 DEF BindWithoutMpi, Calls
<1>7. CASE BindUndivided(r)   BY <1>7 DEF BindUndivided, Calls
<1>8. CASE BindSplit(r)       BY <1>8 DEF BindSplit, Calls
<1>9. CASE SplitReturns(r)    BY <1>9 DEF SplitReturns
<1>10. CASE AdoptWithoutComm(r) BY <1>10 DEF AdoptWithoutComm, Busy
<1>11. CASE EnterCallback(r)  BY <1>11 DEF EnterCallback
<1>12. CASE CallbackReturns(r) BY <1>12 DEF CallbackReturns, Busy
<1>13. CASE BindReturns(r)    BY <1>13 DEF BindReturns
<1>14. CASE RegisterReturns(r) BY <1>14 DEF RegisterReturns
<1> QED
  BY <1>1, <1>2, <1>3, <1>4, <1>5, <1>6, <1>7, <1>8, <1>9, <1>10, <1>11, <1>12,
     <1>13, <1>14 DEF Step

\* A callback leaves the queue: it has been called now if it was an adopter and
\* there was a communicator, and the refusal it may bring stays.
LEMMA Serve ==
  ASSUME TypeOK, NEW r \in Rank, PhaseInv(r), OnceInv(r), AcceptInv(r),
         AdoptWithoutComm(r) \/ CallbackReturns(r)
  PROVE  OnceInv(r)' /\ AcceptInv(r)'
<1> DEFINE cb == Head(todo[r])
<1>1. /\ cb \in Callback /\ In(todo[r], cb) /\ todo'[r] = Tail(todo[r])
      /\ Tail(todo[r]) \in Seq(Callback)
      /\ \A y : In(todo[r], y) <=> y = cb \/ In(todo'[r], y)
      /\ NoRepeat(todo'[r]) /\ ~In(todo'[r], cb)
  <2>1. todo[r] \in Seq(Callback) /\ todo[r] # << >> /\ NoRepeat(todo[r])
    BY DEF TypeOK, AdoptWithoutComm, CallbackReturns, Busy, OnceInv
  <2>2. todo'[r] = Tail(todo[r])
    BY DEF TypeOK, AdoptWithoutComm, CallbackReturns
  <2> QED BY <2>1, <2>2, TailOnce
<1>2. /\ hooks' = hooks /\ adopters' = adopters /\ bound' = bound /\ pc' = pc
      /\ verdict' = verdict
  BY DEF AdoptWithoutComm, CallbackReturns, libVars, envVars
<1>3. pc[r] \in {"bind", "register"} /\ (bound[r] \/ pc[r] = "bind")
  BY DEF AdoptWithoutComm, CallbackReturns, Busy, PhaseInv
<1>4. \A a \in Adopters : Refuses(r, a)' <=> Refuses(r, a)
  BY <1>2 DEF Refuses
<1>5. CASE AdoptWithoutComm(r)
  <2>1. given' = given /\ group'[r].index = -1
    BY <1>5 DEF AdoptWithoutComm, Refuse, logVars, TypeOK, Group
  <2>2. OnceInv(r)'
    BY <1>1, <1>2, <1>3, <2>1 DEF OnceInv
  <2> QED BY <2>1, <2>2 DEF AcceptInv
<1>6. CASE CallbackReturns(r)
  <2>1. \/ Refuses(r, cb) /\ group'[r].index = -1
        \/ ~Refuses(r, cb) /\ group'[r] = group[r]
    BY <1>6, SMTT(40) DEF CallbackReturns, Refuse, TypeOK, Group
  <2>2. CASE cb \in Adopters
    <3>1. given'[r] = [given[r] EXCEPT ![cb] = @ + 1]
      BY <1>6, <2>2 DEF CallbackReturns, TypeOK
    <3>2. given[r] \in [Adopters -> Nat] /\ given[r][cb] = 0 /\ In(adopters[r], cb)
      BY <1>1, <2>2 DEF TypeOK, OnceInv
    <3> HIDE DEF cb
    <3>3. given'[r][cb] = 1 /\ \A a \in Adopters \ {cb} : given'[r][a] = given[r][a]
      BY <2>2, <3>1, <3>2
    <3>4. OnceInv(r)'
      BY <1>1, <1>2, <1>3, <3>2, <3>3 DEF OnceInv
    <3>5. AcceptInv(r)'
      BY <1>1, <1>2, <1>3, <1>4, <2>1, <3>2, <3>3 DEF AcceptInv
    <3> QED BY <3>4, <3>5
  <2>3. CASE cb \notin Adopters
    <3>1. given' = given
      BY <1>6, <2>3 DEF CallbackReturns
    <3> HIDE DEF cb
    <3>2. OnceInv(r)'
      BY <1>1, <1>2, <1>3, <3>1 DEF OnceInv
    <3>3. AcceptInv(r)'
      BY <1>1, <1>2, <1>3, <1>4, <2>1, <2>3, <3>1 DEF AcceptInv
    <3> QED BY <3>2, <3>3
  <2> QED BY <2>2, <2>3
<1> QED BY <1>5, <1>6

\* A bind queues all hooks and all adopters, none of which has been called.
LEMMA Queue ==
  ASSUME TypeOK, NEW r \in Rank, PhaseInv(r), OnceInv(r),
         BindWithoutMpi(r) \/ BindUndivided(r) \/ SplitReturns(r)
  PROVE  OnceInv(r)' /\ AcceptInv(r)'
<1>1. todo'[r] = hooks[r] \o adopters[r]
  BY DEF BindWithoutMpi, BindUndivided, SplitReturns, RunCallbacks, TypeOK
<1>2. /\ hooks' = hooks /\ adopters' = adopters /\ given' = given /\ bound' = bound
      /\ pc'[r] = "bind" /\ ~bound[r] /\ pc[r] # "bind"
  BY DEF BindWithoutMpi, BindUndivided, SplitReturns, Calls, RunCallbacks, PhaseInv,
         TypeOK, logVars
<1>3. /\ \A y : In(todo'[r], y) <=> In(hooks[r], y) \/ In(adopters[r], y)
      /\ NoRepeat(todo'[r])
  <2>1. /\ hooks[r] \in Seq(Hooks) /\ adopters[r] \in Seq(Adopters)
        /\ NoRepeat(hooks[r]) /\ NoRepeat(adopters[r])
    BY DEF TypeOK, OnceInv
  <2>2. Hooks \cap Adopters = {}
    BY CallbackAssumption
  <2>3. /\ \A y : In(hooks[r] \o adopters[r], y) <=> In(hooks[r], y) \/ In(adopters[r], y)
        /\ NoRepeat(hooks[r] \o adopters[r])
    BY <2>1, <2>2, ConcatOnce
  <2> QED BY <1>1, <2>3
<1>4. \A a \in Adopters : ~In(hooks[r], a)
  BY CallbackAssumption DEF In, TypeOK
<1>5. OnceInv(r)'
  BY <1>2, <1>3, <1>4 DEF OnceInv
<1>6. AcceptInv(r)'
  BY <1>2, <1>3 DEF AcceptInv
<1> QED BY <1>5, <1>6

\* Registering an engine: before the bind it is only queued, afterwards it is
\* called next.
LEMMA Register ==
  ASSUME TypeOK, NEW r \in Rank, PhaseInv(r), OnceInv(r), AcceptInv(r), AddAdopter(r)
  PROVE  OnceInv(r)' /\ AcceptInv(r)'
<1> DEFINE a == script[ip[r]].cb
<1>1. /\ a \in Adopters /\ adopters[r] \in Seq(Adopters) /\ ~In(adopters[r], a)
      /\ adopters'[r] = Append(adopters[r], a)
  BY CallType DEF AddAdopter, Calls, TypeOK
<1>2. /\ hooks' = hooks /\ given' = given /\ bound' = bound /\ group' = group
      /\ verdict' = verdict /\ todo[r] = << >> /\ pc[r] = "ready"
  BY DEF AddAdopter, Calls, PhaseInv, envVars, logVars
<1>3. \/ bound[r] /\ pc'[r] = "register" /\ todo'[r] = <<a>>
      \/ ~bound[r] /\ pc'[r] = "ready" /\ todo'[r] = << >>
  BY <1>2 DEF AddAdopter, TypeOK
<1> HIDE DEF a
<1>4. /\ \A y : In(adopters'[r], y) <=> In(adopters[r], y) \/ y = a
      /\ NoRepeat(adopters'[r])
  <2>1. NoRepeat(adopters[r])
    BY DEF OnceInv
  <2> QED BY <1>1, <2>1, AppendOnce
<1>5. /\ NoRepeat(todo'[r])
      /\ \A y : In(todo'[r], y) => y = a
      /\ bound[r] => In(todo'[r], a)
  BY <1>3 DEF In, NoRepeat
<1>6. \A x \in Adopters : Refuses(r, x)' <=> Refuses(r, x)
  BY <1>2 DEF Refuses
<1>7. given[r][a] = 0
  <2>1. given[r][a] \in Nat
    BY <1>1 DEF TypeOK
  <2>2. given[r][a] <= 1 /\ given[r][a] # 1
    BY <1>1 DEF OnceInv
  <2> QED BY <2>1, <2>2
<1>8. OnceInv(r)'
  BY <1>1, <1>2, <1>3, <1>4, <1>5, <1>7 DEF OnceInv
<1>9. AcceptInv(r)'
  <2>1. ASSUME bound[r], group[r].index >= 0, NEW x \in Adopters,
               In(adopters'[r], x), ~In(todo'[r], x)
        PROVE  given[r][x] = 1 /\ ~Refuses(r, x)
    <3>1. In(adopters[r], x) /\ ~In(todo[r], x)
      BY <1>2, <1>4, <1>5, <2>1 DEF In
    <3> QED BY <2>1, <3>1 DEF AcceptInv
  <2> QED BY <1>2, <1>3, <1>6, <2>1 DEF AcceptInv
<1> QED BY <1>8, <1>9

\* Every other step leaves the callbacks of the rank alone, or adds a hook.
LEMMA CallbackStep ==
  ASSUME TypeOK, NEW r \in Rank, PhaseInv(r), OnceInv(r), AcceptInv(r), Step(r)
  PROVE  OnceInv(r)' /\ AcceptInv(r)'
<1>1. CASE AddHook(r)
  <2> DEFINE h == script[ip[r]].cb
  <2>1. h \in Hooks /\ hooks[r] \in Seq(Hooks) /\ NoRepeat(hooks[r])
    BY <1>1, CallType DEF AddHook, Calls, TypeOK, OnceInv
  <2>2. hooks'[r] = IF In(hooks[r], h) THEN hooks[r] ELSE Append(hooks[r], h)
    BY <1>1 DEF AddHook, TypeOK
  <2> HIDE DEF h
  <2>3. NoRepeat(hooks'[r])
    BY <2>1, <2>2, AppendOnce
  <2>4. UNCHANGED <<adopters, todo, given, bound, pc, group, verdict>>
    BY <1>1 DEF AddHook, logVars, envVars
  <2> QED BY <2>3, <2>4 DEF OnceInv, AcceptInv, Refuses
<1>2. CASE AddAdopter(r)
  BY <1>2, Register
<1>3. CASE BindWithoutMpi(r) \/ BindUndivided(r) \/ SplitReturns(r)
  BY <1>3, Queue
<1>4. CASE AdoptWithoutComm(r) \/ CallbackReturns(r)
  BY <1>4, Serve
<1>5. CASE LoadMpi(r) \/ SkipAdopter(r) \/ BindAgain(r) \/ EnterCallback(r)
  <2>1. UNCHANGED <<hooks, adopters, todo, given, bound, pc, group, verdict>>
    BY <1>5 DEF LoadMpi, SkipAdopter, BindAgain, EnterCallback, libVars, envVars, logVars
  <2> QED BY <2>1 DEF OnceInv, AcceptInv, Refuses
<1>6. CASE BindSplit(r) \/ BindReturns(r) \/ RegisterReturns(r)
  <2>1. UNCHANGED <<hooks, adopters, todo, given, group, verdict>>
    BY <1>6 DEF BindSplit, BindReturns, RegisterReturns, libVars, envVars, logVars
  <2>2. \/ /\ ~bound[r] /\ pc[r] = "ready" /\ bound' = bound /\ pc'[r] = "split"
        \/ pc[r] = "bind" /\ bound'[r] /\ pc'[r] = "ready"
        \/ /\ bound[r] /\ pc[r] = "register" /\ bound' = bound /\ pc'[r] = "ready"
    BY <1>6 DEF BindSplit, Calls, BindReturns, RegisterReturns, PhaseInv, libVars, TypeOK
  <2>3. OnceInv(r)'
    BY <2>1, <2>2 DEF OnceInv
  <2>4. AcceptInv(r)'
    BY <2>1, <2>2 DEF AcceptInv, Refuses
  <2> QED BY <2>3, <2>4
<1> QED BY <1>1, <1>2, <1>3, <1>4, <1>5, <1>6 DEF Step

-----------------------------------------------------------------------------
(* The invariant, and what follows from it.                                *)

LEMMA InitInv == Init => IInv
<1> SUFFICES ASSUME Init PROVE IInv
  OBVIOUS
<1>1. TypeOK
  <2>1. script \in Seq(Call) /\ verdict \in [Callback -> [Rank -> Answer]]
    BY ProgramAssumption, VerdictAssumption DEF Init
  <2> QED BY <2>1, GroupType DEF Init, TypeOK, NoComm
<1>2. ASSUME NEW r \in Rank
      PROVE  PhaseInv(r) /\ OnceInv(r) /\ AcceptInv(r)
  BY <1>2 DEF Init, PhaseInv, OnceInv, AcceptInv, NoRepeat, In
<1> QED BY <1>1, <1>2 DEF IInv

LEMMA NextInv == IInv /\ [Next]_vars => IInv'
<1> SUFFICES ASSUME IInv, [Next]_vars PROVE IInv'
  OBVIOUS
<1>1. ASSUME NEW r \in Rank, Step(r)
      PROVE  IInv'
  <2>1. TypeOK'
    BY <1>1, TypeStep DEF IInv
  <2>2. PhaseInv(r)' /\ OnceInv(r)' /\ AcceptInv(r)'
    BY <1>1, PhaseStep, CallbackStep DEF IInv
  <2>3. \A q \in Rank \ {r} : PhaseInv(q)' /\ OnceInv(q)' /\ AcceptInv(q)'
    BY <1>1, OtherRank DEF IInv
  <2>4. ASSUME NEW q \in Rank
        PROVE  PhaseInv(q)' /\ OnceInv(q)' /\ AcceptInv(q)'
    BY <2>2, <2>3
  <2> QED BY <2>1, <2>4 DEF IInv
<1>2. CASE UNCHANGED vars
  BY <1>2 DEF IInv, TypeOK, PhaseInv, OnceInv, AcceptInv, Refuses, vars, envVars,
              hostVars, libVars, mpiVars, logVars
<1> QED BY <1>1, <1>2 DEF Next

\* The strengthened invariant holds in every reachable state, for every world,
\* every set of callbacks and every host program.
THEOREM Invariance == Spec => []IInv
<1> QED BY InitInv, NextInv, PTL DEF Spec

\* Every variable keeps its type.
THEOREM Typing == Spec => []TypeOK
<1>1. IInv => TypeOK
  BY DEF IInv
<1> QED BY Invariance, <1>1, PTL

\* No engine is handed a communicator twice (CalculatorGroup.cc:137-140).
THEOREM AdoptedOnceHolds == Spec => []AdoptedOnce
<1>1. IInv => AdoptedOnce
  BY DEF IInv, OnceInv, AdoptedOnce
<1> QED BY Invariance, <1>1, PTL

\* A rank that is not refused has called every engine it knows, and each of them
\* joined (CalculatorGroup.cc:133-202).
THEOREM AcceptedMeansAdoptedHolds == Spec => []AcceptedMeansAdopted
<1>1. ASSUME IInv, NEW r \in Rank, bound[r], pc[r] = "ready", group[r].index >= 0,
             NEW i \in DOMAIN adopters[r]
      PROVE  given[r][adopters[r][i]] = 1 /\ ~Refuses(r, adopters[r][i])
  <2>1. adopters[r][i] \in Adopters /\ In(adopters[r], adopters[r][i])
    BY <1>1 DEF IInv, TypeOK, In
  <2>2. ~In(todo[r], adopters[r][i])
    BY <1>1 DEF IInv, PhaseInv, In
  <2> QED BY <1>1, <2>1, <2>2 DEF IInv, AcceptInv
<1>2. IInv => AcceptedMeansAdopted
  BY <1>1 DEF AcceptedMeansAdopted
<1> QED BY Invariance, <1>2, PTL

\* A callback's answer leaves a refused group refused (CalculatorGroup.cc:151-166).
LEMMA RefusedStays ==
  ASSUME group \in [Rank -> Group], NEW r \in Rank, Refuse(r) \/ UNCHANGED group,
         group[r].index = -1
  PROVE  group'[r].index = -1
<1>1. CASE UNCHANGED group
  BY <1>1
<1>2. CASE Refuse(r)
  <2>1. group' = [group EXCEPT ![r] = [group[r] EXCEPT !.index = -1]]
    BY <1>2 DEF Refuse
  <2>2. group'[r] = [group[r] EXCEPT !.index = -1]
    BY <2>1
  <2> QED BY <2>2 DEF Group
<1> QED BY <1>1, <1>2

\* A refused rank stays refused, and a communicator is made once
\* (CalculatorGroup.cc:151-202, CalculatorGroupMpi.cc:61-87).
THEOREM RefusalAndSplitAreFinalHolds == Spec => RefusalAndSplitAreFinal
<1> DEFINE Kept(r) == /\ bound[r] /\ group[r].index = -1 => group'[r].index = -1
                      /\ comm[r] # NoComm => comm'[r] = comm[r] /\ mgroup'[r] = mgroup[r]
<1>1. ASSUME IInv, NEW r \in Rank, Step(r)
      PROVE  Kept(r)
  <2> USE <1>1 DEF IInv, TypeOK, libVars, mpiVars
  <2>1. CASE BindWithoutMpi(r)
    BY <2>1 DEF BindWithoutMpi
  <2>2. CASE BindUndivided(r)
    BY <2>2 DEF BindUndivided, Calls, PhaseInv
  <2>3. CASE SplitReturns(r)
    BY <2>3 DEF SplitReturns, PhaseInv
  <2>4. CASE AdoptWithoutComm(r)
    <3>1. Refuse(r) /\ UNCHANGED <<comm, mgroup>>
      BY <2>4 DEF AdoptWithoutComm
    <3> QED BY <1>1, <3>1, RefusedStays
  <2>5. CASE CallbackReturns(r)
    <3>1. Refuse(r) \/ UNCHANGED group
      BY <2>5, Zenon DEF CallbackReturns
    <3>2. UNCHANGED <<comm, mgroup>>
      BY <2>5 DEF CallbackReturns, mpiVars
    <3> QED BY <1>1, <3>1, <3>2, RefusedStays
  <2>6. CASE \/ LoadMpi(r) \/ AddHook(r) \/ SkipAdopter(r) \/ AddAdopter(r)
             \/ BindAgain(r) \/ BindSplit(r) \/ EnterCallback(r) \/ BindReturns(r)
             \/ RegisterReturns(r)
    BY <2>6 DEF LoadMpi, AddHook, SkipAdopter, AddAdopter, BindAgain, BindSplit,
                EnterCallback, BindReturns, RegisterReturns
  <2> QED BY <2>1, <2>2, <2>3, <2>4, <2>5, <2>6 DEF Step
<1>2. ASSUME IInv, NEW r \in Rank, Step(r), NEW q \in Rank \ {r}
      PROVE  Kept(q)
  BY <1>2, Frame DEF IInv
<1>3. ASSUME IInv, UNCHANGED vars, NEW q \in Rank
      PROVE  Kept(q)
  BY <1>3 DEF vars, libVars, mpiVars
<1> HIDE DEF Kept
<1>4. ASSUME IInv, [Next]_vars, NEW q \in Rank
      PROVE  Kept(q)
  BY <1>1, <1>2, <1>3, <1>4 DEF Next
<1>5. IInv /\ [Next]_vars =>
        [\A r \in Rank :
           /\ bound[r] /\ group[r].index = -1 => group'[r].index = -1
           /\ comm[r] # NoComm => comm'[r] = comm[r] /\ mgroup'[r] = mgroup[r]]_vars
  BY <1>4 DEF Kept
<1> QED BY Invariance, <1>5, PTL DEF Spec, RefusalAndSplitAreFinal

-----------------------------------------------------------------------------
(* The split of the world.  All ranks run one host program, so the first    *)
(* bind in it decides: every rank that reaches MPI_Comm_split brings the    *)
(* same ranks per calculator, which divides the world.                      *)

Size(n) == IF n > 0 THEN n ELSE WorldSize

\* No bind comes before place n of the host program.
NoBindBefore(n) == \A i \in 1 .. n - 1 : script[i].op # "bind"

\* How many ranks per calculator a rank brought, and from which call.
BroughtInv(r) ==
  /\ ~bound[r] => NoBindBefore(ip[r])
  /\ pc[r] = "split" => split[r] # 0
  /\ split[r] # 0 =>
       /\ Divides(split[r])
       /\ \E i \in 1 .. Len(script) :
            script[i].op = "bind" /\ NoBindBefore(i) /\ split[r] = Size(script[i].size)

\* What MPI_Comm_split and the group record gave it.
ColorInv(r) ==
  comm[r] # NoComm =>
    /\ \A q \in Rank : split[q] # 0
    /\ comm[r] = {q \in Rank : Color(q, split[r]) = Color(r, split[r])}
    /\ mgroup[r] = [index |-> Color(r, split[r]), ranks |-> split[r],
                    rankInGroup |-> Key(r, split[r]), worldSize |-> WorldSize]

SplitInv == \A r \in Rank : BroughtInv(r) /\ ColorInv(r)

LEMMA BroughtStep ==
  ASSUME TypeOK, NEW r \in Rank, PhaseInv(r), BroughtInv(r), Step(r)
  PROVE  BroughtInv(r)'
<1>0. script' = script /\ ip[r] \in Nat \ {0} /\ ip'[r] \in Nat \ {0}
  BY Frame, TypeStep DEF TypeOK
<1>1. \A n : NoBindBefore(n)' = NoBindBefore(n)
  BY <1>0 DEF NoBindBefore
<1>2. CASE BindSplit(r)
  <2> DEFINE n == Normal(r, script[ip[r]].size)
  <2>1. script[ip[r]].size \in Int /\ ip[r] \in 1 .. Len(script)
    BY <1>0, <1>2, CallType DEF BindSplit, Calls
  <2>2. n \in Nat \ {0} /\ n = Size(script[ip[r]].size) /\ Divides(n)
    BY <1>2, <2>1, NormalType DEF BindSplit, Normal, Size
  <2>3. split'[r] = n /\ ip' = ip /\ bound' = bound
    BY <1>2 DEF BindSplit, TypeOK, libVars
  <2>4. ~bound[r] /\ script[ip[r]].op = "bind" /\ NoBindBefore(ip[r])
    BY <1>2 DEF BindSplit, Calls, BroughtInv
  <2> QED
    BY <1>0, <1>1, <2>1, <2>2, <2>3, <2>4 DEF BroughtInv, Divides, Size
<1>3. CASE ~BindSplit(r)
  <2>1. split'[r] = split[r]
    <3> USE DEF TypeOK, logVars
    <3> QED
      BY <1>3 DEF Step, LoadMpi, AddHook, SkipAdopter, AddAdopter, BindAgain,
         BindWithoutMpi, BindUndivided, SplitReturns, AdoptWithoutComm, EnterCallback,
         CallbackReturns, BindReturns, RegisterReturns
  <2>2. pc'[r] = "split" => pc[r] = "split"
    <3> USE DEF TypeOK, RunCallbacks
    <3> QED
      BY <1>3 DEF Step, LoadMpi, AddHook, SkipAdopter, AddAdopter, BindAgain,
         BindWithoutMpi, BindUndivided, SplitReturns, AdoptWithoutComm, EnterCallback,
         CallbackReturns, BindReturns, RegisterReturns
  <2>3. ~bound'[r] => ~bound[r] /\ 
                            (\/ ip'[r] = ip[r]
                             \/ ip'[r] = ip[r] + 1 /\ script[ip[r]].op # "bind")
    <3> USE DEF TypeOK, libVars, Return, RunCallbacks, Calls
    <3>1. CASE LoadMpi(r) \/ AddHook(r) \/ SkipAdopter(r)
      BY <3>1 DEF LoadMpi, AddHook, SkipAdopter
    <3>2. CASE AddAdopter(r)
      BY <3>2 DEF AddAdopter
    <3>3. CASE BindAgain(r) \/ BindReturns(r) \/ RegisterReturns(r)
      BY <3>3 DEF BindAgain, BindReturns, RegisterReturns, PhaseInv
    <3>4. CASE BindWithoutMpi(r) \/ BindUndivided(r) \/ SplitReturns(r)
      BY <3>4 DEF BindWithoutMpi, BindUndivided, SplitReturns
    <3>5. CASE AdoptWithoutComm(r) \/ EnterCallback(r) \/ CallbackReturns(r)
      BY <3>5 DEF AdoptWithoutComm, EnterCallback, CallbackReturns
    <3> QED BY <1>3, <3>1, <3>2, <3>3, <3>4, <3>5 DEF Step
  <2>4. ~bound'[r] => NoBindBefore(ip'[r])
    BY <1>0, <2>3 DEF NoBindBefore, BroughtInv
  <2> QED
    BY <1>0, <1>1, <2>1, <2>2, <2>4 DEF BroughtInv, NoBindBefore, Divides, Size
<1> QED BY <1>2, <1>3

\* All ranks that have reached the split brought the same size.
LEMMA SameSplit ==
  ASSUME TypeOK, SplitInv, NEW q \in Rank, NEW r \in Rank, split[q] # 0, split[r] # 0
  PROVE  split[q] = split[r]
<1>1. PICK i \in 1 .. Len(script) :
        script[i].op = "bind" /\ NoBindBefore(i) /\ split[q] = Size(script[i].size)
  BY DEF SplitInv, BroughtInv
<1>2. PICK j \in 1 .. Len(script) :
        script[j].op = "bind" /\ NoBindBefore(j) /\ split[r] = Size(script[j].size)
  BY DEF SplitInv, BroughtInv
<1>3. i \in Nat /\ j \in Nat /\ 1 <= i /\ 1 <= j
  BY DEF TypeOK
<1>4. ~(i < j) /\ ~(j < i)
  BY <1>1, <1>2, <1>3 DEF NoBindBefore
<1>5. i = j
  BY <1>3, <1>4
<1> QED BY <1>1, <1>2, <1>5

LEMMA ColorStep ==
  ASSUME TypeOK, SplitInv, NEW r \in Rank, PhaseInv(r), Step(r), NEW q \in Rank
  PROVE  ColorInv(q)'
<1>1. \A p \in Rank : split[p] # 0 => split'[p] # 0
  <2>1. CASE BindSplit(r)
    <3>1. script[ip[r]].size \in Int
      BY <2>1, CallType DEF BindSplit, Calls
    <3>2. Normal(r, script[ip[r]].size) # 0
      BY <3>1, NormalType
    <3> QED BY <2>1, <3>2 DEF BindSplit, TypeOK
  <2>2. CASE ~BindSplit(r)
    BY <2>2 DEF Step, LoadMpi, AddHook, SkipAdopter, AddAdopter, BindAgain,
       BindWithoutMpi, BindUndivided, SplitReturns, AdoptWithoutComm, EnterCallback,
       CallbackReturns, BindReturns, RegisterReturns, logVars
  <2> QED BY <2>1, <2>2
<1>2. CASE q = r /\ SplitReturns(r)
  <2>1. split' = split /\ \A p \in Rank : split[p] # 0
    BY <1>2 DEF SplitReturns, logVars
  <2>2. comm'[r] = {p \in Rank : Color(p, split[p]) = Color(r, split[r])}
    BY <1>2 DEF SplitReturns, TypeOK
  <2>3. comm'[r] = {p \in Rank : Color(p, split[r]) = Color(r, split[r])}
    BY <2>1, <2>2, SameSplit
  <2>4. mgroup'[r] = [index |-> Color(r, split[r]), ranks |-> split[r],
                      rankInGroup |-> Key(r, split[r]), worldSize |-> WorldSize]
    BY <1>2 DEF SplitReturns, TypeOK
  <2> QED BY <1>2, <2>1, <2>3, <2>4 DEF ColorInv, Color, Key
<1>3. CASE q # r \/ ~SplitReturns(r)
  <2>1. comm'[q] = comm[q]
    <3>1. CASE q # r
      BY <3>1, Frame
    <3>2. CASE ~SplitReturns(r)
      BY <3>2 DEF Step, LoadMpi, AddHook, SkipAdopter, AddAdopter, BindAgain,
         BindWithoutMpi, BindUndivided, BindSplit, AdoptWithoutComm, EnterCallback,
         CallbackReturns, BindReturns, RegisterReturns, mpiVars
    <3> QED BY <1>3, <3>1, <3>2
  <2>2. comm[q] # NoComm => mgroup'[q] = mgroup[q] /\ split'[q] = split[q]
    <3>1. CASE q # r
      BY <3>1, Frame
    <3>2. CASE q = r /\ (BindUndivided(r) \/ BindSplit(r))
      BY <3>2 DEF BindUndivided, BindSplit, Calls, PhaseInv
    <3>3. CASE q = r /\ ~SplitReturns(r) /\ ~BindUndivided(r) /\ ~BindSplit(r)
      BY <3>3 DEF Step, LoadMpi, AddHook, SkipAdopter, AddAdopter, BindAgain,
         BindWithoutMpi, AdoptWithoutComm, EnterCallback,
         CallbackReturns, BindReturns, RegisterReturns, mpiVars, logVars
    <3> QED BY <1>3, <3>1, <3>2, <3>3
  <2> QED
    BY <1>1, <2>1, <2>2 DEF SplitInv, ColorInv, NoComm, Color, Key
<1> QED BY <1>2, <1>3

LEMMA SplitInvariance == Spec => []SplitInv
<1>1. Init => SplitInv
  <2>1. SUFFICES ASSUME Init, NEW r \in Rank
                 PROVE  BroughtInv(r) /\ ColorInv(r)
    BY DEF SplitInv
  <2>2. /\ ip[r] = 1 /\ pc[r] = "ready" /\ split[r] = 0 /\ comm[r] = NoComm
    BY <2>1 DEF Init
  <2> QED BY <2>2 DEF BroughtInv, ColorInv, NoBindBefore
<1>2. ASSUME IInv, SplitInv, NEW r \in Rank, Step(r), NEW q \in Rank
      PROVE  BroughtInv(q)' /\ ColorInv(q)'
  <2>1. TypeOK /\ PhaseInv(r)
    BY <1>2 DEF IInv
  <2>2. ColorInv(q)'
    BY <1>2, <2>1, ColorStep
  <2>3. CASE q = r
    BY <1>2, <2>1, <2>2, <2>3, BroughtStep DEF SplitInv
  <2>4. CASE q # r
    <3>1. /\ script' = script /\ ip'[q] = ip[q] /\ pc'[q] = pc[q]
          /\ bound'[q] = bound[q] /\ split'[q] = split[q]
      BY <1>2, <2>1, <2>4, Frame
    <3>2. BroughtInv(q)'
      BY <1>2, <3>1 DEF SplitInv, BroughtInv, NoBindBefore, Divides, Size
    <3> QED BY <2>2, <3>2
  <2> QED BY <2>3, <2>4
<1>3. ASSUME SplitInv, UNCHANGED vars
      PROVE  SplitInv'
  BY <1>3 DEF SplitInv, BroughtInv, ColorInv, NoBindBefore, Divides, vars, envVars,
              hostVars, libVars, mpiVars, logVars
<1>4. IInv /\ SplitInv /\ [Next]_vars => SplitInv'
  BY <1>2, <1>3 DEF Next, SplitInv
<1> QED BY Invariance, <1>1, <1>4, PTL DEF Spec

\* Blocks of s consecutive numbers.
LEMMA Blocks ==
  ASSUME NEW s \in Nat \ {0}
  PROVE  /\ \A a \in Nat : a \div s \in Nat /\ a % s \in 0 .. s - 1
                           /\ a = ((a \div s) * s) + (a % s)
         /\ \A d \in Nat, k \in 0 .. s - 1 : ((d * s) + k) \div s = d
<1>1. ASSUME NEW a \in Nat
      PROVE  a \div s \in Nat /\ a % s \in 0 .. s - 1
  OBVIOUS
<1>2. ASSUME NEW a \in Nat
      PROVE  a = ((a \div s) * s) + (a % s)
  OBVIOUS
<1>3. ASSUME NEW d \in Nat, NEW k \in 0 .. s - 1
      PROVE  ((d * s) + k) \div s = d
  OBVIOUS
<1> QED BY <1>1, <1>2, <1>3

\* The block of a number below a multiple of s ends below that multiple.
LEMMA WholeBlock ==
  ASSUME NEW s \in Nat \ {0}, NEW d \in Nat, NEW e \in Nat, d * s < e * s
  PROVE  (d * s) + s <= e * s
<1>1. d < e
  OBVIOUS
<1> QED BY <1>1

\* When ranks brought a size that divides the world, the color of a rank is its
\* block: the ranks of one calculator are consecutive, and the last calculator
\* is as large as the others.
LEMMA BlockOfColor ==
  ASSUME NEW s \in Nat \ {0}, WorldSize % s = 0, NEW r \in Rank
  PROVE  {q \in Rank : Color(q, s) = Color(r, s)}
           = {(Color(r, s) * s) + k : k \in 0 .. s - 1}
<1> DEFINE d == r \div s
           e == WorldSize \div s
<1>1. /\ r \in Nat /\ d \in Nat /\ r % s \in 0 .. s - 1 /\ r = (d * s) + (r % s)
      /\ e \in Nat /\ WorldSize \in Nat /\ WorldSize = (e * s) + (WorldSize % s)
  <2>1. r \in Nat /\ WorldSize \in Nat
    BY WorldAssumption DEF Rank
  <2>2. /\ d \in Nat /\ r % s \in 0 .. s - 1 /\ r = (d * s) + (r % s)
        /\ e \in Nat /\ WorldSize = (e * s) + (WorldSize % s)
    BY <2>1, Blocks, Zenon
  <2> QED BY <2>1, <2>2
<1>2. WorldSize = e * s /\ d * s \in Nat /\ e * s \in Nat
  BY <1>1
<1>3. d * s < e * s
  <2> HIDE DEF d, e
  <2> QED BY <1>1, <1>2 DEF Rank
<1>4. (d * s) + s <= WorldSize
  <2> HIDE DEF d, e
  <2>1. (d * s) + s <= e * s
    BY <1>1, <1>3, WholeBlock
  <2> QED BY <1>2, <2>1
<1>5. ASSUME NEW q \in Rank, q \div s = d
      PROVE  \E k \in 0 .. s - 1 : q = (d * s) + k
  <2>1. q \in Nat /\ q % s \in 0 .. s - 1 /\ q = ((q \div s) * s) + (q % s)
    BY Blocks, WorldAssumption DEF Rank
  <2> QED BY <1>5, <2>1
<1>6. ASSUME NEW k \in 0 .. s - 1
      PROVE  (d * s) + k \in Rank /\ ((d * s) + k) \div s = d
  <2>1. ((d * s) + k) \div s = d
    BY <1>1, <1>6, Blocks
  <2>2. (d * s) + k \in Rank
    <3> DEFINE m == d * s
    <3>1. m \in Nat /\ m + s <= WorldSize /\ WorldSize \in Nat
      BY <1>1, <1>2, <1>4
    <3> HIDE DEF m
    <3>2. m + k \in Rank
      BY <1>6, <3>1 DEF Rank
    <3> QED BY <3>2 DEF m
  <2> QED BY <2>1, <2>2
<1> HIDE DEF d, e
<1>7. {q \in Rank : q \div s = d} = {(d * s) + k : k \in 0 .. s - 1}
  BY <1>5, <1>6
<1> QED BY <1>7 DEF Color, d

\* The calculators partition the world: each holds `ranks` consecutive ranks,
\* starting at its root, and two that overlap are one (bind in
\* CalculatorGroupMpi.cc:61-87; the root the pack reads from is index * ranks).
THEOREM CalculatorsPartitionWorldHolds == Spec => []CalculatorsPartitionWorld
<1>1. ASSUME TypeOK, SplitInv, NEW r \in Rank, comm[r] # NoComm
      PROVE  /\ split[r] \in Nat \ {0} /\ WorldSize % split[r] = 0
             /\ comm[r] = {q \in Rank : Color(q, split[r]) = Color(r, split[r])}
             /\ mgroup[r].index = Color(r, split[r]) /\ mgroup[r].ranks = split[r]
             /\ mgroup[r].rankInGroup = Key(r, split[r])
             /\ mgroup[r].worldSize = WorldSize
  <2>1. BroughtInv(r) /\ ColorInv(r) /\ split[r] \in Nat
    BY <1>1 DEF SplitInv, TypeOK
  <2>2. split[r] # 0 /\ Divides(split[r])
    BY <1>1, <2>1 DEF ColorInv, BroughtInv
  <2> QED BY <1>1, <2>1, <2>2 DEF ColorInv, Divides
<1>2. ASSUME TypeOK, SplitInv, NEW r \in Rank, comm[r] # NoComm
      PROVE  LET g == mgroup[r] IN
             /\ comm[r] = {(g.index * g.ranks) + k : k \in 0 .. g.ranks - 1}
             /\ r = (g.index * g.ranks) + g.rankInGroup
             /\ g.worldSize % g.ranks = 0
  <2>1. comm[r] = {(Color(r, split[r]) * split[r]) + k : k \in 0 .. split[r] - 1}
    BY <1>1, <1>2, BlockOfColor
  <2>2. r \in Nat
    BY WorldAssumption DEF Rank
  <2>3. r = (Color(r, split[r]) * split[r]) + Key(r, split[r])
    BY <1>1, <1>2, <2>2, Blocks DEF Color, Key
  <2> QED BY <1>1, <1>2, <2>1, <2>3
<1>3. ASSUME TypeOK, SplitInv, NEW r \in Rank, comm[r] # NoComm,
             NEW q \in Rank, comm[q] # NoComm
      PROVE  /\ comm[q] = comm[r] <=> mgroup[q].index = mgroup[r].index
             /\ comm[q] = comm[r] \/ comm[q] \cap comm[r] = {}
  <2> DEFINE s == split[r]
  <2>1. split[q] = s
    BY <1>1, <1>3, SameSplit
  <2>2. /\ comm[r] = {p \in Rank : Color(p, s) = Color(r, s)}
        /\ comm[q] = {p \in Rank : Color(p, s) = Color(q, s)}
        /\ mgroup[r].index = Color(r, s) /\ mgroup[q].index = Color(q, s)
    BY <1>1, <1>3, <2>1
  <2> HIDE DEF s
  <2> QED BY <2>2
<1>4. TypeOK /\ SplitInv => CalculatorsPartitionWorld
  BY <1>2, <1>3 DEF CalculatorsPartitionWorld
<1> QED BY Typing, SplitInvariance, <1>4, PTL

=============================================================================
