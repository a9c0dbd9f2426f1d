--------------------------- MODULE CalculatorGroup ---------------------------
(***************************************************************************)
(* Splitting MPI_COMM_WORLD into calculators: bindCalculators, its hooks   *)
(* and its communicator adopters (CppCore/rgpot/CalculatorGroup.cc), on    *)
(* top of the MPI side that owns the communicator                          *)
(* (CppCore/rgpot/CalculatorGroupMpi.cc).                                  *)
(*                                                                         *)
(* Every rank runs the same host program (the calls are collective by      *)
(* contract), at its own speed.  librgpot and librgpot_mpi each keep a     *)
(* group record of their own: a refusal by a hook or an adopter is written *)
(* to the first only.                                                      *)
(***************************************************************************)
EXTENDS Integers, Sequences, FiniteSets

CONSTANTS
  WorldSize,   \* ranks of MPI_COMM_WORLD
  Hooks,       \* addresses of CalculatorHook functions
  Adopters,    \* addresses of CalculatorCommAdopter functions
  Blocking,    \* callbacks that run a collective on the communicator
  Programs,    \* host programs: sequences of calls
  Verdicts     \* what the callbacks answer: [Callback -> [Rank -> Answer]]

Rank     == 0 .. WorldSize - 1
Callback == Hooks \cup Adopters
Answer   == {"join", "refuse", "stray"}   \* own index, -1, another index

Call == [op : {"bind"}, size : Int]
        \cup [op : {"hook"}, cb : Hooks]
        \cup [op : {"adopter"}, cb : Adopters]
        \cup [op : {"load"}]

ASSUME WorldAssumption    == WorldSize \in Nat \ {0}
ASSUME CallbackAssumption == Hooks \cap Adopters = {} /\ Blocking \subseteq Callback
ASSUME ProgramAssumption  == Programs \subseteq Seq(Call)
ASSUME VerdictAssumption  == Verdicts \subseteq [Callback -> [Rank -> Answer]]

VARIABLES
  script, verdict, mpiFound,                 \* the environment, fixed by Init
  ip, pc, todo, inside, ret,                 \* the host thread of each rank
  hooks, adopters, group, bound, boundRpc,   \* librgpot, under g_mu
  api, mgroup, mbound, comm,                 \* librgpot_mpi
  split, entered, given                      \* calls made to MPI and to engines

envVars  == <<script, verdict, mpiFound>>
hostVars == <<ip, pc, todo, inside, ret>>
libVars  == <<hooks, adopters, group, bound, boundRpc>>
mpiVars  == <<api, mgroup, mbound, comm>>
logVars  == <<split, entered, given>>
vars     == <<envVars, hostVars, libVars, mpiVars, logVars>>

NoComm == {}
Ungrouped == [index |-> 0, ranks |-> 1, rankInGroup |-> 0, worldSize |-> 1]
\* Mutant: a refused group has no ranks.
Emptied(world) == [Ungrouped EXCEPT !.index = -1, !.ranks = 0, !.worldSize = world]

Refused(world) == [index |-> -1, ranks |-> 1, rankInGroup |-> 0, worldSize |-> world]

Init ==
  /\ script \in Programs /\ verdict \in Verdicts /\ mpiFound \in BOOLEAN
  /\ ip = [r \in Rank |-> 1]
  /\ pc = [r \in Rank |-> "ready"]
  /\ todo = [r \in Rank |-> << >>]
  /\ inside = [r \in Rank |-> FALSE]
  /\ ret = [r \in Rank |-> 0]
  /\ hooks = [r \in Rank |-> << >>]
  /\ adopters = [r \in Rank |-> << >>]
  /\ group = [r \in Rank |-> Ungrouped]
  /\ bound = [r \in Rank |-> FALSE]
  /\ boundRpc = [r \in Rank |-> 0]
  /\ api = [r \in Rank |-> FALSE]
  /\ mgroup = [r \in Rank |-> Ungrouped]
  /\ mbound = [r \in Rank |-> FALSE]
  /\ comm = [r \in Rank |-> NoComm]
  /\ split = [r \in Rank |-> 0]
  /\ entered = [r \in Rank |-> << >>]
  /\ given = [r \in Rank |-> [a \in Adopters |-> 0]]

-----------------------------------------------------------------------------
(* The calls of the host program.                                          *)

\* Mutant: registrations are not deduplicated.
Never(s, x) == FALSE

In(s, x) == \E i \in DOMAIN s : s[i] = x

Calls(r, op) ==
  /\ pc[r] = "ready"
  /\ ip[r] <= Len(script)
  /\ script[ip[r]].op = op

Return(r) == ip' = [ip EXCEPT ![r] = @ + 1]

\* loadCalculatorMpi with the path of a library that exists.
LoadMpi(r) ==
  /\ Calls(r, "load")
  /\ api' = [api EXCEPT ![r] = TRUE]
  /\ Return(r)
  /\ UNCHANGED <<envVars, pc, todo, inside, ret, libVars, mgroup, mbound, comm,
                 logVars>>

AddHook(r) ==
  /\ Calls(r, "hook")
  /\ LET h == script[ip[r]].cb IN
     hooks' = [hooks EXCEPT ![r] = IF In(@, h) THEN @ ELSE Append(@, h)]
  /\ Return(r)
  /\ UNCHANGED <<envVars, pc, todo, inside, ret, adopters, group, bound,
                 boundRpc, mpiVars, logVars>>

\* A known callback is not called again; a refused bind accepts no other.
SkipAdopter(r) ==
  /\ Calls(r, "adopter")
  /\ \/ In(adopters[r], script[ip[r]].cb)
     \/ bound[r] /\ group[r].index < 0
  /\ Return(r)
  /\ UNCHANGED <<envVars, pc, todo, inside, ret, libVars, mpiVars, logVars>>

\* Mutant: only the root of a calculator calls a late engine.
RootAddAdopter(r) ==
  /\ Calls(r, "adopter")
  /\ LET a == script[ip[r]].cb IN
     /\ ~In(adopters[r], a)
     /\ bound[r] => group[r].index >= 0
     /\ adopters' = [adopters EXCEPT ![r] = Append(@, a)]
     /\ IF bound[r] /\ group[r].rankInGroup = 0
        THEN /\ pc' = [pc EXCEPT ![r] = "register"]
             /\ todo' = [todo EXCEPT ![r] = <<a>>]
             /\ UNCHANGED ip
        ELSE Return(r) /\ UNCHANGED <<pc, todo>>
  /\ UNCHANGED <<envVars, inside, ret, hooks, group, bound, boundRpc, mpiVars,
                 logVars>>

\* Before the bind the callback is queued; after it, it is called at once.
AddAdopter(r) ==
  /\ Calls(r, "adopter")
  /\ LET a == script[ip[r]].cb IN
     /\ ~In(adopters[r], a)
     /\ bound[r] => group[r].index >= 0
     /\ adopters' = [adopters EXCEPT ![r] = Append(@, a)]
     /\ IF bound[r]
        THEN /\ pc' = [pc EXCEPT ![r] = "register"]
             /\ todo' = [todo EXCEPT ![r] = <<a>>]
             /\ UNCHANGED ip
        ELSE Return(r) /\ UNCHANGED <<pc, todo>>
  /\ UNCHANGED <<envVars, inside, ret, hooks, group, bound, boundRpc, mpiVars,
                 logVars>>

\* Mutant: a repeated bind takes the group from librgpot_mpi again.
BindRefreshes(r) ==
  /\ Calls(r, "bind")
  /\ bound[r]
  /\ api' = [api EXCEPT ![r] = @ \/ mpiFound]
  /\ group' = [group EXCEPT ![r] = IF mbound[r] THEN mgroup[r] ELSE @]
  /\ ret' = [ret EXCEPT ![r] =
               IF boundRpc[r] = script[ip[r]].size THEN group'[r].index ELSE -1]
  /\ Return(r)
  /\ UNCHANGED <<envVars, pc, todo, inside, hooks, adopters, bound, boundRpc,
                 mgroup, mbound, comm, logVars>>

\* Both of bindCalculators' early returns.
BindAgain(r) ==
  /\ Calls(r, "bind")
  /\ bound[r]
  /\ api' = [api EXCEPT ![r] = @ \/ mpiFound]
  /\ ret' = [ret EXCEPT ![r] =
               IF boundRpc[r] = script[ip[r]].size THEN group[r].index ELSE -1]
  /\ Return(r)
  /\ UNCHANGED <<envVars, pc, todo, inside, libVars, mgroup, mbound, comm,
                 logVars>>

HasMpi(r) == api[r] \/ mpiFound

\* A size <= 0 asks for one group: the world, or this process without MPI.
Normal(r, size) ==
  IF size > 0 THEN size ELSE IF HasMpi(r) THEN WorldSize ELSE 1

Divides(rpc) == rpc <= WorldSize /\ WorldSize % rpc = 0

\* Hooks run first, then every queued adopter.
RunCallbacks(r) ==
  /\ pc' = [pc EXCEPT ![r] = "bind"]
  /\ todo' = [todo EXCEPT ![r] = hooks[r] \o adopters[r]]

BindWithoutMpi(r) ==
  /\ Calls(r, "bind")
  /\ ~bound[r] /\ ~HasMpi(r)
  /\ group' = [group EXCEPT ![r] =
                 IF Normal(r, script[ip[r]].size) = 1 THEN Ungrouped ELSE Refused(1)]
  /\ RunCallbacks(r)
  /\ UNCHANGED <<envVars, ip, inside, ret, hooks, adopters, bound, boundRpc,
                 mpiVars, logVars>>

\* The world cannot be divided: no MPI_Comm_split, every rank sees -1.
BindUndivided(r) ==
  /\ Calls(r, "bind")
  /\ ~bound[r] /\ HasMpi(r)
  /\ ~Divides(Normal(r, script[ip[r]].size))
  /\ api' = [api EXCEPT ![r] = TRUE]
  /\ mbound' = [mbound EXCEPT ![r] = TRUE]
  /\ mgroup' = [mgroup EXCEPT ![r] = Refused(WorldSize)]
  /\ group' = [group EXCEPT ![r] = Refused(WorldSize)]
  /\ RunCallbacks(r)
  /\ UNCHANGED <<envVars, ip, inside, ret, hooks, adopters, bound, boundRpc,
                 comm, logVars>>

\* MPI_Comm_split(MPI_COMM_WORLD, rank / rpc, rank % rpc): the rank arrives ...
BindSplit(r) ==
  /\ Calls(r, "bind")
  /\ ~bound[r] /\ HasMpi(r)
  /\ Divides(Normal(r, script[ip[r]].size))
  /\ api' = [api EXCEPT ![r] = TRUE]
  /\ split' = [split EXCEPT ![r] = Normal(r, script[ip[r]].size)]
  /\ pc' = [pc EXCEPT ![r] = "split"]
  /\ UNCHANGED <<envVars, ip, todo, inside, ret, libVars, mgroup, mbound, comm,
                 entered, given>>

\* Mutant: ranks are dealt out round robin.
DealtColor(r, rpc) == r % rpc

Color(r, rpc) == r \div rpc
Key(r, rpc)   == r % rpc

\* ... and leaves once the whole world has arrived.
SplitReturns(r) ==
  /\ pc[r] = "split"
  /\ \A q \in Rank : split[q] # 0
  /\ comm' = [comm EXCEPT ![r] =
                {q \in Rank : Color(q, split[q]) = Color(r, split[r])}]
  /\ LET g == [index |-> Color(r, split[r]), ranks |-> split[r],
               rankInGroup |-> Key(r, split[r]), worldSize |-> WorldSize] IN
     /\ mgroup' = [mgroup EXCEPT ![r] = g]
     /\ group' = [group EXCEPT ![r] = g]
  /\ mbound' = [mbound EXCEPT ![r] = TRUE]
  /\ RunCallbacks(r)
  /\ UNCHANGED <<envVars, ip, inside, ret, hooks, adopters, bound, boundRpc, api,
                 logVars>>

-----------------------------------------------------------------------------
(* The callbacks, still inside bindCalculators or addCalculatorCommAdopter. *)

Busy(r) == pc[r] \in {"bind", "register"} /\ todo[r] # << >>

Refuse(r) == group' = [group EXCEPT ![r].index = -1]

\* mpi->adopt returns -1 without calling when there is no communicator.
AdoptWithoutComm(r) ==
  /\ Busy(r)
  /\ Head(todo[r]) \in Adopters
  /\ comm[r] = NoComm
  /\ Refuse(r)
  /\ todo' = [todo EXCEPT ![r] = Tail(@)]
  /\ UNCHANGED <<envVars, ip, pc, inside, ret, hooks, adopters, bound, boundRpc,
                 mpiVars, logVars>>

Waits(r) == Head(todo[r]) \in Blocking /\ comm[r] # NoComm

\* A callback that uses the communicator enters its collective ...
EnterCallback(r) ==
  /\ Busy(r)
  /\ Waits(r) /\ ~inside[r]
  /\ inside' = [inside EXCEPT ![r] = TRUE]
  /\ entered' = [entered EXCEPT ![r] = Append(@, Head(todo[r]))]
  /\ UNCHANGED <<envVars, ip, pc, todo, ret, libVars, mpiVars, split, given>>

Met(r) == \A q \in comm[r] : Len(entered[q]) >= Len(entered[r])

\* A hook refuses with -1; an adopter with anything but the expected index.
Refuses(r, cb) ==
  \/ verdict[cb][r] = "refuse"
  \/ verdict[cb][r] = "stray" /\ cb \in Adopters

\* Mutants: the last callback's answer decides; a refusal ends the loop.
LastAnswerReturns(r) ==
  /\ Busy(r)
  /\ LET cb == Head(todo[r]) IN
     /\ cb \in Adopters => comm[r] # NoComm
     /\ Waits(r) => inside[r] /\ Met(r)
     /\ group' = [group EXCEPT ![r].index = IF Refuses(r, cb) THEN -1 ELSE mgroup[r].index]
     /\ given' = IF cb \in Adopters THEN [given EXCEPT ![r][cb] = @ + 1] ELSE given
  /\ inside' = [inside EXCEPT ![r] = FALSE]
  /\ todo' = [todo EXCEPT ![r] = Tail(@)]
  /\ UNCHANGED <<envVars, ip, pc, ret, hooks, adopters, bound, boundRpc, mpiVars,
                 split, entered>>

RefusalSkips(r) ==
  /\ Busy(r)
  /\ LET cb == Head(todo[r]) IN
     /\ cb \in Adopters => comm[r] # NoComm
     /\ Waits(r) => inside[r] /\ Met(r)
     /\ IF Refuses(r, cb)
        THEN Refuse(r) /\ todo' = [todo EXCEPT ![r] = << >>]
        ELSE UNCHANGED group /\ todo' = [todo EXCEPT ![r] = Tail(@)]
     /\ given' = IF cb \in Adopters THEN [given EXCEPT ![r][cb] = @ + 1] ELSE given
  /\ inside' = [inside EXCEPT ![r] = FALSE]
  /\ UNCHANGED <<envVars, ip, pc, ret, hooks, adopters, bound, boundRpc, mpiVars,
                 split, entered>>

\* ... and returns when its peers are there too.  No answer clears a refusal.
CallbackReturns(r) ==
  /\ Busy(r)
  /\ LET cb == Head(todo[r]) IN
     /\ cb \in Adopters => comm[r] # NoComm
     /\ Waits(r) => inside[r] /\ Met(r)
     /\ IF Refuses(r, cb) THEN Refuse(r) ELSE UNCHANGED group
     /\ given' = IF cb \in Adopters THEN [given EXCEPT ![r][cb] = @ + 1] ELSE given
  /\ inside' = [inside EXCEPT ![r] = FALSE]
  /\ todo' = [todo EXCEPT ![r] = Tail(@)]
  /\ UNCHANGED <<envVars, ip, pc, ret, hooks, adopters, bound, boundRpc, mpiVars,
                 split, entered>>

BindReturns(r) ==
  /\ pc[r] = "bind" /\ todo[r] = << >>
  /\ bound' = [bound EXCEPT ![r] = TRUE]
  /\ boundRpc' = [boundRpc EXCEPT ![r] = Normal(r, script[ip[r]].size)]
  /\ ret' = [ret EXCEPT ![r] = group[r].index]
  /\ pc' = [pc EXCEPT ![r] = "ready"]
  /\ Return(r)
  /\ UNCHANGED <<envVars, todo, inside, hooks, adopters, group, mpiVars, logVars>>

RegisterReturns(r) ==
  /\ pc[r] = "register" /\ todo[r] = << >>
  /\ pc' = [pc EXCEPT ![r] = "ready"]
  /\ Return(r)
  /\ UNCHANGED <<envVars, todo, inside, ret, libVars, mpiVars, logVars>>

Step(r) ==
  \/ LoadMpi(r) \/ AddHook(r) \/ SkipAdopter(r) \/ AddAdopter(r)
  \/ BindAgain(r) \/ BindWithoutMpi(r) \/ BindUndivided(r)
  \/ BindSplit(r) \/ SplitReturns(r)
  \/ AdoptWithoutComm(r) \/ EnterCallback(r) \/ CallbackReturns(r)
  \/ BindReturns(r) \/ RegisterReturns(r)

\* The host programs of all ranks have run to their end.
AllDone == \A r \in Rank : pc[r] = "ready" /\ ip[r] > Len(script)

Next == (\E r \in Rank : Step(r)) \/ (AllDone /\ UNCHANGED vars)

Spec == Init /\ [][Next]_vars

\* A rank that can take a step of its program eventually takes it.
FairSpec == Spec /\ \A r \in Rank : WF_vars(Step(r))

-----------------------------------------------------------------------------
(* Properties.                                                             *)

Group == [index : Int, ranks : Nat \ {0}, rankInGroup : Nat, worldSize : Nat \ {0}]

\* Every variable has its type.
TypeOK ==
  /\ script \in Seq(Call)
  /\ verdict \in [Callback -> [Rank -> Answer]]
  /\ mpiFound \in BOOLEAN
  /\ ip \in [Rank -> Nat \ {0}]
  /\ pc \in [Rank -> {"ready", "split", "bind", "register"}]
  /\ todo \in [Rank -> Seq(Callback)]
  /\ inside \in [Rank -> BOOLEAN]
  /\ ret \in [Rank -> Int]
  /\ hooks \in [Rank -> Seq(Hooks)]
  /\ adopters \in [Rank -> Seq(Adopters)]
  /\ group \in [Rank -> Group]
  /\ bound \in [Rank -> BOOLEAN]
  /\ boundRpc \in [Rank -> Int]
  /\ api \in [Rank -> BOOLEAN]
  /\ mgroup \in [Rank -> Group]
  /\ mbound \in [Rank -> BOOLEAN]
  /\ comm \in [Rank -> SUBSET Rank]
  /\ split \in [Rank -> Nat]
  /\ entered \in [Rank -> Seq(Callback)]
  /\ given \in [Rank -> [Adopters -> Nat]]

\* "All registered engines receive the same split ... No callback can clear a
\* refusal": a rank that is bound, idle and not refused has called every adopter
\* it knows, exactly once, and nothing it called refused, whichever of them came
\* before the bind and whichever after (CalculatorGroup.cc:133-202).
AcceptedMeansAdopted ==
  \A r \in Rank :
    bound[r] /\ pc[r] = "ready" /\ group[r].index >= 0 =>
      \A i \in DOMAIN adopters[r] :
        LET a == adopters[r][i] IN given[r][a] = 1 /\ ~Refuses(r, a)

\* An engine is handed the communicator at most once per process, however often
\* potentials register it and however binds and registrations are ordered
\* (CalculatorGroup.cc:137-140; AdoptComm.cc asserts calls == 1).
AdoptedOnce == \A r \in Rank : \A a \in Adopters : given[r][a] <= 1

\* The calculators partition the world: a calculator's communicator is `ranks`
\* consecutive ranks, the first of them is the root index * ranks from which
\* shareFromCalculator broadcasts, and two ranks share a communicator exactly
\* when they share an index (CalculatorGroupMpi.cc:48, 78-82, 280-282).
CalculatorsPartitionWorld ==
  \A r \in Rank : comm[r] # NoComm =>
    LET g == mgroup[r] IN
    /\ comm[r] = {g.index * g.ranks + k : k \in 0 .. g.ranks - 1}
    /\ r = g.index * g.ranks + g.rankInGroup
    /\ g.worldSize % g.ranks = 0
    /\ \A q \in Rank : comm[q] # NoComm =>
         /\ comm[q] = comm[r] <=> mgroup[q].index = g.index
         /\ comm[q] = comm[r] \/ comm[q] \cap comm[r] = {}

\* A refusal is final: once a bind or a registration has left index -1, no later
\* call brings the calculator back ("a refusal remains in thisCalculator",
\* CalculatorGroup.hpp:65-66), and no step replaces a communicator that engines
\* may have borrowed.
RefusalAndSplitAreFinal ==
  [][\A r \in Rank :
       /\ bound[r] /\ group[r].index = -1 => group'[r].index = -1
       /\ comm[r] # NoComm => comm'[r] = comm[r] /\ mgroup'[r] = mgroup[r]]_vars

\* bindCalculators returns on every rank, even when some ranks' callbacks refuse
\* and others do not: refusing does not skip the later callbacks, whose
\* collectives the peers wait in (CalculatorGroup.cc:191-198).  Programs are
\* finite, so no rank is in a call again and again unless it is stuck in one.
EveryBindReturns ==
  []<>(\A r \in Rank : pc[r] \notin {"split", "bind"})

\* Some rank of r's calculator was refused by a callback of its own.
Disagrees(r) ==
  \E q \in comm[r] : bound[q] /\ group[q].index # group[r].index

\* An engine registered after the bind is called on every rank of the calculator
\* or on none, and addCalculatorCommAdopter returns there, unless a refusal that
\* one rank keeps to itself has split the calculator (CalculatorGroup.cc:141-147).
EveryRegistrationReturns ==
  []<>(\A r \in Rank : pc[r] = "register" => Disagrees(r))

\* "Skipping later callbacks could strand their ranks inside an engine collective"
\* (CalculatorGroup.cc:191-193): an engine registered after the bind is not
\* stranded either, whichever rank refused before.
NoEngineStranded ==
  \A r \in Rank : (pc[r] = "register") ~> (pc[r] = "ready")

=============================================================================
