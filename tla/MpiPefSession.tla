---------------------------- MODULE MpiPefSession ----------------------------
(***************************************************************************)
(* The multi-rank RPC server: rank 0 owns the socket, sends each request   *)
(* to the other ranks (CppCore/tools/MpiPefSession.hpp), and every step    *)
(* that can fail on one rank ends in an agreement of all                   *)
(* (CppCore/tools/MpiHost.hpp).  Each rank keeps an engine: libcpmdc with  *)
(* its session (CPMDPot.cc) or libnwchemc with its parameters              *)
(* (NWChemPot.cc).                                                         *)
(*                                                                         *)
(* The other MPI program, tools/nwchem_mpi_force_host.cc, computes one     *)
(* force on every rank and exits.                                          *)
(*                                                                         *)
(* A rank's collectives form a log; the n-th of one rank meets the n-th of *)
(* the others.  The root of a broadcast does not wait for its receivers.   *)
(***************************************************************************)
EXTENDS Integers, Sequences

CONSTANTS
  Size,          \* ranks of the communicator
  Params,        \* engine parameters a client can ask for
  Default,       \* those the engine is constructed with
  PathOf,        \* the engine library each of them names
  Kinds,         \* programs: servers of "CPMD" or "NWChem", and the "force host"
  Geometries,    \* good geometries
  MaxRequests,   \* bound on the requests of all clients
  MaxFaults      \* bound on allocations and engine calls that fail

Rank == 0 .. Size - 1

\* A configuration may carry another backend's arm, or none; a geometry may be
\* empty, or have coordinates and numbers that do not fit.
Request == [op : {"configure"}, arg : Params \cup {"none", "other"}]
           \cup [op : {"calculate"}, arg : Geometries \cup {"empty", "ragged"}]

\* The command line of the force host: a geometry, one that cannot be read, or none.
CommandLine == [op : {"force"}, arg : Geometries \cup {"unknown", "help"}]

NoSession == "no session"

ASSUME SessionAssumption ==
  /\ Size \in Nat \ {0} /\ MaxRequests \in Nat /\ MaxFaults \in Nat
  /\ Default \in Params /\ DOMAIN PathOf = Params
  /\ {NoSession, "none", "other"} \cap Params = {}
  /\ Kinds \subseteq {"CPMD", "NWChem", "force host"}

VARIABLES
  kind,          \* the program, fixed by Init
  engine,        \* each rank's engine
  pc, todo,      \* where each rank is, and what is left of the request
  request, arg,  \* the request at the root; the payload a rank holds
  log,           \* collectives each rank has entered
  ran,           \* the last force each rank's engine returned
  reply,         \* each rank's last answer; the force host's exit code
  served, faults

vars == <<kind, engine, pc, todo, request, arg, log, ran, reply, served, faults>>

-----------------------------------------------------------------------------
(* Engines.                                                                *)

Available(e) == e.loaded /\ (kind = "CPMD" => e.session # NoSession)

\* The parameters that the next force of this engine uses.
Uses(e) == IF kind = "CPMD" THEN e.session ELSE e.params

\* Mutant: any live session is kept.
AnySessionKept(e, p) ==
  LET reload == ~e.loaded \/ PathOf[p] # e.path
      e1 == [loaded |-> TRUE, path |-> PathOf[p], params |-> p,
             session |-> IF reload THEN NoSession ELSE e.session]
  IN (IF reload THEN {<<[e1 EXCEPT !.loaded = FALSE], FALSE>>} ELSE {}) \cup
     (IF e1.session # NoSession THEN {<<e1, TRUE>>}
      ELSE {<<[e1 EXCEPT !.session = p], TRUE>>, <<e1, FALSE>>})

\* CPMDPot::setParams: the parameters are stored first; another path reloads the
\* library; a session with the same parameters is kept, any other recreated.
CpmdSetParams(e, p) ==
  LET reload == ~e.loaded \/ PathOf[p] # e.path
      e1 == [loaded |-> TRUE, path |-> PathOf[p], params |-> p,
             session |-> IF reload THEN NoSession ELSE e.session]
  IN (IF reload THEN {<<[e1 EXCEPT !.loaded = FALSE], FALSE>>} ELSE {}) \cup
     (IF e1.session = p THEN {<<e1, TRUE>>}
      ELSE {<<[e1 EXCEPT !.session = p], TRUE>>,
            <<[e1 EXCEPT !.session = NoSession], FALSE>>})

\* NWChemPot::setParams: stored first, then pushed; a loaded library stays.
NwchemSetParams(e, p) ==
  LET e1 == [e EXCEPT !.path = PathOf[p], !.params = p]
  IN {<<e1, TRUE>>, <<e1, FALSE>>}

SetParams(e, p) == IF kind = "CPMD" THEN CpmdSetParams(e, p) ELSE NwchemSetParams(e, p)

Serving == kind # "force host"

Constructed(session) ==
  [loaded |-> TRUE, path |-> PathOf[Default], params |-> Default, session |-> session]

\* Every rank of a server has probed its library; creating the first session may
\* have failed, which the constructor ignores.
ServerInit ==
  /\ engine \in [Rank -> {Constructed(s) : s \in IF kind = "CPMD" THEN {Default, NoSession}
                                                                  ELSE {NoSession}}]
  /\ pc = [r \in Rank |-> "wait"]
  /\ todo = [r \in Rank |-> << >>]
  /\ request = [op |-> "configure", arg |-> "none"]
  /\ arg = [r \in Rank |-> "none"]
  /\ reply = [r \in Rank |-> "ok"]

\* MpiHost::broadcast agrees on its allocation between the length and the data;
\* an empty vector has no data to send.
Broadcast(empty) == IF empty THEN <<"length", "allocate">> ELSE <<"length", "allocate", "data">>

\* main of the force host: the root reads the command line, and help ends them all.
ForceWork ==
  <<"arguments", "help">> \o Broadcast(FALSE) \o Broadcast(FALSE) \o Broadcast(FALSE)
  \o <<"probe", "construct", "positions", "force", "maximum">>

HostInit ==
  /\ engine = [r \in Rank |-> [Constructed(NoSession) EXCEPT !.loaded = FALSE]]
  /\ pc = [r \in Rank |-> "run"]
  /\ todo = [r \in Rank |-> ForceWork]
  /\ request \in CommandLine
  /\ arg = [r \in Rank |-> IF r = 0 THEN request.arg ELSE "none"]
  /\ reply = [r \in Rank |-> "pending"]

Init ==
  /\ kind \in Kinds
  /\ IF Serving THEN ServerInit ELSE HostInit
  /\ log = [r \in Rank |-> << >>]
  /\ ran = [r \in Rank |-> [nth |-> 0]]
  /\ served = 0
  /\ faults = 0

-----------------------------------------------------------------------------
(* The pieces of a request, as every rank runs them after the command.     *)

Work(q) ==
  IF q.op = "configure" THEN Broadcast(FALSE) \o <<"apply">>
  ELSE LET none == q.arg = "empty" IN
       Broadcast(none) \o Broadcast(none) \o Broadcast(FALSE) \o <<"validate", "potential">>

Collective == {"allocate", "apply", "validate", "potential",
               "arguments", "probe", "construct", "positions", "force"}

\* The log also keeps what was left of the request.
Post(r, what, value) ==
  log' = [log EXCEPT ![r] = Append(@, [what |-> what, value |-> value, left |-> todo[r]])]

\* What root's collective at this rank's place in the log said, once it is there.
Heard(r, root) == Len(log[root]) > Len(log[r])
Word(r, root)  == log[root][Len(log[r]) + 1]

Go(r, where) == pc' = [pc EXCEPT ![r] = where]

\* Mutant: an error ends the worker's loop.
ErrorEndsLoop(r, answer) ==
  /\ Go(r, IF r # 0 /\ answer = "error" THEN "stopped" ELSE "wait")
  /\ todo' = [todo EXCEPT ![r] = << >>]
  /\ reply' = [reply EXCEPT ![r] = answer]

\* The end of a request on this rank: the root answers its client, a worker goes
\* back to wait for the next command, whatever it was told; a force host exits.
End(r, answer) ==
  /\ Go(r, "wait")
  /\ todo' = [todo EXCEPT ![r] = << >>]
  /\ reply' = [reply EXCEPT ![r] = answer]

Advance(r) ==
  IF Len(todo[r]) = 1 THEN End(r, "ok")
  ELSE /\ todo' = [todo EXCEPT ![r] = Tail(@)]
       /\ Go(r, "run")
       /\ UNCHANGED reply

-----------------------------------------------------------------------------
(* The root.                                                               *)

AtWait(r) == pc[r] = "wait"

\* A geometry that does not fit is refused before any rank hears of it.
RefuseRequest == \E q \in Request :
  /\ Serving /\ AtWait(0) /\ served < MaxRequests
  /\ q.arg = "ragged"
  /\ request' = q
  /\ reply' = [reply EXCEPT ![0] = "error"]
  /\ served' = served + 1
  /\ UNCHANGED <<kind, engine, pc, todo, arg, log, ran, faults>>

\* The command goes out once the payload is prepared.
SendCommand == \E q \in Request :
  /\ Serving /\ AtWait(0) /\ served < MaxRequests
  /\ q.arg # "ragged"
  /\ request' = q
  /\ Post(0, "command", q)
  /\ arg' = [arg EXCEPT ![0] = q.arg]
  /\ todo' = [todo EXCEPT ![0] = Work(q)]
  /\ Go(0, "run")
  /\ reply' = [reply EXCEPT ![0] = "pending"]
  /\ served' = served + 1
  /\ UNCHANGED <<kind, engine, ran, faults>>

\* Mutant: the destructor tells nobody.
StopsAlone ==
  /\ Serving /\ AtWait(0)
  /\ Go(0, "stopped")
  /\ UNCHANGED <<kind, engine, todo, request, arg, log, ran, reply, served, faults>>

\* The server ends between two requests; the destructor releases the workers.
SendStop ==
  /\ Serving /\ AtWait(0)
  /\ Post(0, "command", [op |-> "stop"])
  /\ Go(0, "stopped")
  /\ UNCHANGED <<kind, engine, todo, request, arg, ran, reply, served, faults>>

Broadcasts == {"length", "data", "help"}

\* Help is printed and nothing computed.
Onward(r, word) ==
  IF word.what = "help" /\ word.value = "help" THEN End(r, "ok") ELSE Advance(r)

Send(r) ==
  /\ r = 0 /\ pc[r] = "run"
  /\ Head(todo[r]) \in Broadcasts
  /\ Post(r, Head(todo[r]), arg[r])
  /\ Onward(r, [what |-> Head(todo[r]), value |-> arg[r]])
  /\ UNCHANGED <<kind, engine, request, arg, ran, served, faults>>

-----------------------------------------------------------------------------
(* The workers.                                                            *)

ReceiveCommand(r) ==
  /\ Serving
  /\ r # 0 /\ AtWait(r)
  /\ Heard(r, 0)
  /\ LET q == Word(r, 0).value IN
     /\ Post(r, "command", q)
     /\ IF q.op = "stop"
        THEN Go(r, "stopped") /\ UNCHANGED <<todo, arg, reply>>
        ELSE /\ Go(r, "run")
             /\ reply' = [reply EXCEPT ![r] = "pending"]
             /\ todo' = [todo EXCEPT ![r] = Work(q)]
             /\ arg' = [arg EXCEPT ![r] = "none"]
  /\ UNCHANGED <<kind, engine, request, ran, served, faults>>

Receive(r) ==
  /\ r # 0 /\ pc[r] = "run"
  /\ Head(todo[r]) \in Broadcasts
  /\ Heard(r, 0)
  /\ Post(r, Head(todo[r]), Word(r, 0).value)
  /\ arg' = [arg EXCEPT ![r] = IF Head(todo[r]) = "data" THEN Word(r, 0).value ELSE @]
  /\ Onward(r, Word(r, 0))
  /\ UNCHANGED <<kind, engine, request, ran, served, faults>>

-----------------------------------------------------------------------------
(* MpiHost::collective on every rank.                                      *)

\* What the function may do here: the engine and the last force after it,
\* whether it threw, and whether that takes a fault.
Outcomes(r) ==
  LET e == engine[r]
      quiet == [e |-> e, f |-> ran[r], ok |-> TRUE, fault |-> FALSE]
      threw == [quiet EXCEPT !.ok = FALSE]
      broke == [threw EXCEPT !.fault = TRUE]
  IN CASE Head(todo[r]) = "allocate" ->
            IF r = 0 \/ todo[r][2] # "data" THEN {quiet} ELSE {quiet, broke}
       [] Head(todo[r]) = "validate" ->
            IF arg[r] = "empty" \/ ~Available(e) THEN {threw} ELSE {quiet, broke}
       [] Head(todo[r]) = "potential" ->
            {[quiet EXCEPT !.f = [nth |-> served, at |-> arg[r], with |-> Uses(e)]], broke}
       [] Head(todo[r]) = "arguments" ->
            IF r = 0 /\ arg[r] = "unknown" THEN {threw} ELSE {quiet}
       [] Head(todo[r]) = "probe" -> {[quiet EXCEPT !.e.loaded = TRUE], broke}
       [] Head(todo[r]) \in {"construct", "positions"} -> {quiet, broke}
       [] Head(todo[r]) = "force" ->   \* nonfinite results count as failures
            {[quiet EXCEPT !.f = [nth |-> 1, at |-> arg[r], with |-> Uses(e)]], broke}
       [] Head(todo[r]) = "apply" ->
            IF arg[r] = "none" THEN {quiet}
            ELSE IF arg[r] = "other" THEN {threw}
            ELSE {[quiet EXCEPT !.e = x[1], !.ok = x[2], !.fault = ~x[2]] : x \in SetParams(e, arg[r])}

\* The function runs, nothing escapes, and its outcome enters the Allreduce.
Agree(r) ==
  /\ pc[r] = "run" /\ Head(todo[r]) \in Collective
  /\ \E o \in Outcomes(r) :
       /\ o.fault => faults < MaxFaults
       /\ faults' = IF o.fault THEN faults + 1 ELSE faults
       /\ engine' = [engine EXCEPT ![r] = o.e]
       /\ ran' = [ran EXCEPT ![r] = o.f]
       /\ Post(r, "agree", IF o.ok THEN Size ELSE r)
  /\ Go(r, "agree")
  /\ UNCHANGED <<kind, todo, request, arg, reply, served>>

Met(r) == \A q \in Rank : Len(log[q]) >= Len(log[r])

\* Mutant: each rank goes by its own outcome.
OwnOutcome(r) == log[r][Len(log[r])].value

\* The least rank that failed, or Size.
FirstFailed(r) ==
  LET said == {log[q][Len(log[r])].value : q \in Rank}
  IN CHOOSE m \in said : \A n \in said : m <= n

AgreeClean(r) ==
  /\ pc[r] = "agree" /\ Met(r)
  /\ FirstFailed(r) = Size
  /\ Advance(r)
  /\ UNCHANGED <<kind, engine, request, arg, log, ran, served, faults>>

\* The first rank that failed broadcasts its message and throws ...
TellError(r) ==
  /\ pc[r] = "agree" /\ Met(r)
  /\ FirstFailed(r) = r
  /\ Post(r, "error", r)
  /\ End(r, "error")
  /\ UNCHANGED <<kind, engine, request, arg, ran, served, faults>>

\* ... and the others throw the same.
HearError(r) ==
  /\ pc[r] = "agree" /\ Met(r)
  /\ FirstFailed(r) \in Rank \ {r}
  /\ Heard(r, FirstFailed(r))
  /\ Post(r, "error", FirstFailed(r))
  /\ End(r, "error")
  /\ UNCHANGED <<kind, engine, request, arg, ran, served, faults>>

\* The longest time of all ranks: a last reduction, and the program is done.
Maximum(r) ==
  /\ pc[r] = "run" /\ Head(todo[r]) = "maximum"
  /\ Post(r, "maximum", 0)
  /\ Go(r, "maximum")
  /\ UNCHANGED <<kind, engine, todo, request, arg, ran, reply, served, faults>>

Exit(r) ==
  /\ pc[r] = "maximum" /\ Met(r)
  /\ End(r, "ok")
  /\ UNCHANGED <<kind, engine, request, arg, log, ran, served, faults>>

-----------------------------------------------------------------------------

Step(r) ==
  \/ Maximum(r) \/ Exit(r)
  \/ Send(r) \/ ReceiveCommand(r) \/ Receive(r)
  \/ Agree(r) \/ AgreeClean(r) \/ TellError(r) \/ HearError(r)

Next ==
  \/ RefuseRequest \/ SendCommand \/ SendStop
  \/ \E r \in Rank : Step(r)

Spec == Init /\ [][Next]_vars

\* Every rank is scheduled and every function returns or throws; clients need not
\* ask, and the server need not end.
FairSpec == Spec /\ \A r \in Rank : WF_vars(Step(r))

-----------------------------------------------------------------------------
(* Properties.                                                             *)

\* "Each request reaches every engine rank in the same order" (MpiPefSession.hpp:
\* 23-24): whoever fails where, the n-th collectives of any two ranks are the
\* same step with the same root, so no rank takes one payload for another.
CollectivesMatch ==
  \A q, r \in Rank : \A n \in DOMAIN log[q] : n \in DOMAIN log[r] =>
    /\ log[q][n].what = log[r][n].what
    /\ log[q][n].what # "agree" => log[q][n].value = log[r][n].value

\* The client is told of success only if every rank did the same: after a
\* calculation all engines returned for this geometry with the parameters that
\* were last applied, the same on all ranks, whatever was refused or failed
\* before; after a configuration every rank holds it and can compute with it.
\* The force host exits with success on every rank or on none, and but for help
\* after a force of every rank on the root's geometry (MpiHost.hpp:54-80,
\* CPMDPot.cc:405-420, server.cpp:154-188, nwchem_mpi_force_host.cc:5-9).
SuccessIsJoint ==
  IF Serving
  THEN AtWait(0) /\ reply[0] = "ok" /\ served > 0 =>
         \A r \in Rank :
           IF request.op = "calculate"
           THEN /\ ran[r] = [nth |-> served, at |-> request.arg, with |-> engine[0].params]
                /\ engine[r].params = engine[0].params
           ELSE request.arg \in Params =>
                  engine[r].params = request.arg /\ Available(engine[r])
  ELSE \A q, r \in Rank : AtWait(q) /\ reply[q] = "ok" =>
         /\ AtWait(r) => reply[r] = "ok"
         /\ request.arg # "help" => ran[r] = [nth |-> 1, at |-> request.arg, with |-> Default]

\* The guards of Step: the collective that this rank is at can be entered or left.
CanStep(r) ==
  \/ /\ pc[r] = "run"
     /\ \/ Head(todo[r]) = "maximum"
        \/ Head(todo[r]) \in Broadcasts /\ (r = 0 \/ Heard(r, 0))
        \/ Head(todo[r]) \in Collective /\ \E o \in Outcomes(r) : o.fault => faults < MaxFaults
  \/ /\ pc[r] = "agree" /\ Met(r)
     /\ LET m == FirstFailed(r) IN m \in {Size, r} \/ (m \in Rank /\ Heard(r, m))
  \/ pc[r] = "maximum" /\ Met(r)
  \/ AtWait(r) /\ Serving /\ r # 0 /\ Heard(r, 0)

\* No two ranks wait for each other, and a rank that ends or fails leaves none behind
\* in a collective: whenever nobody can go on, all are between two requests, after
\* the same collectives, or all have stopped (MpiPefSession.hpp:75-117,
\* MpiHost.hpp:54-80).
NobodyStuck ==
  (\A r \in Rank : ~CanStep(r)) =>
    \E at \in {"wait", "stopped"} :
      \A q, r \in Rank : pc[r] = at /\ Len(log[q]) = Len(log[r])

\* "worker errors are returned by the root's collective call": every request ends on
\* every rank, and the force host exits, also when a rank fails
\* (MpiPefSession.hpp:23-24, 85-88).
EveryRequestAnswered ==
  \A r \in Rank : (reply[r] = "pending") ~> (reply[r] # "pending")

\* When the server ends, the workers' loops end too (MpiPefSession.hpp:36-41,
\* 70-74).
WorkersReleased == (pc[0] = "stopped") ~> (\A r \in Rank : pc[r] = "stopped")

=============================================================================
