------------------------------ MODULE RpcService ------------------------------
(***************************************************************************)
(* One rank of the RPC server (CppCore/rgpot/rpc/server.cpp), its clients, *)
(* in-process through the C bridge (rpc/pot_bridge.cc) or peers that fill  *)
(* the message themselves, and the potential it serves.  The server runs   *)
(* one event loop, so that one request is computed at a time.              *)
(*                                                                         *)
(* A host may also be a program that links the potentials and calls them,  *)
(* one that only converts units, one that holds the core's C++ objects, or *)
(* a server of another make.                                               *)
(*                                                                         *)
(* A number is tracked by the unit it is in: multiplied by a factor, a     *)
(* number in one unit is one in that unit divided by the factor.           *)
(***************************************************************************)
EXTENDS EngineAdapters, UnitExpressions, CoreHandles

CONSTANTS MaxRequests,   \* bound: requests of all clients
          Host,          \* subset of {"program", "potserv", "foreign", "converter", "core"}
          Client,        \* its kinds: Peer, the others use the bridge
          Peer,
          LengthUnit, EnergyUnit,    \* unit strings of the peers
          Expression     \* unit strings to convert

ASSUME ServiceAssumption == None \notin Client /\ Expression \subseteq Seq(Token \cup {"blank"})

VARIABLES host,
          server,        \* [state, name]
          client,
          serving,       \* whose request is computed
          conversion     \* a factor that was asked for

svars == <<host, server, client, serving, conversion>>
service == <<avars, svars>>
vars  == <<service, cvars>>

Angstrom == <<"angstrom">>
EV       == <<"ev">>
Defaults == [length |-> Angstrom, energy |-> EV]     \* of the message schema

Less(u, v) == [b \in Basis |-> u[b] - v[b]]

\* What the peers' units are, and the factors calculate asks for.
SizeOf == [u \in LengthUnit \cup EnergyUnit \cup {Angstrom, EV} |-> Parse(u).size]
EVPerAngstrom == Over(Parse(EV), Parse(Angstrom)).size
ToAngstrom == [u \in LengthUnit \cup {Angstrom} |-> Factor(u, Angstrom)]
FromEV     == [u \in EnergyUnit \cup {EV} |-> Factor(EV, u)]

-----------------------------------------------------------------------------
(* Starting a server                                                       *)

Backend ==
  [XTB |-> "xtb", GFNFF |-> "xtb", TBLite |-> "tblite", D3 |-> "d3", D4 |-> "d3",
   Metatomic_m |-> "metatomic", Uma_m |-> "uma", Skala |-> "skala",
   NWChem |-> "nwchem", NWChem_basis |-> "nwchem", NWChemical |-> "nwchem", CPMD |-> "cpmd"]
MultiRank == {"NWChem", "NWChem_basis", "CPMD"}
Typed     == {"nwchem", "cpmd"}      \* backends that configure() reaches

\* runServer: n as in Construct; main reports an exception and ends.
Start(name, ranks, n) ==
  LET up == /\ name \in DOMAIN Backend
            /\ ranks > 1 => name \in MultiRank /\ present
            /\ n = 0
  IN  /\ host = "potserv"
      /\ server.state = "down"
      /\ name \in DOMAIN Backend => Backend[name] = family
      /\ n # 0 => /\ name \in DOMAIN Backend
                  /\ n \in DOMAIN Handles
                  /\ MayFail
      /\ server' = [state |-> IF up THEN "up" ELSE "ended", name |-> name]
      /\ IF up THEN obj' = NewObject(CHOOSE p \in Param : p # BadParam) /\ natives' = Made(Range(Handles))
         ELSE UNCHANGED <<obj, natives>>
      /\ used' = [used EXCEPT !.faults = @ + (IF n = 0 THEN 0 ELSE 1)]
      /\ UNCHANGED <<family, cached, package, present, cache, call, asked>>
      /\ UNCHANGED <<host, client, serving, conversion>>

\* The process is killed.
Dies ==
  /\ server.state = "up"
  /\ server' = [server EXCEPT !.state = "ended"]
  /\ serving' = None
  /\ UNCHANGED <<avars, host, client, conversion>>

-----------------------------------------------------------------------------
(* Clients                                                                 *)

Idle == [stage |-> "idle"]
Untold == [E |-> {}, F |-> {}, rc |-> 0, error |-> FALSE]

\* pot_calculate clears the last error; a bridge leaves the units at their defaults
\* and sends as many numbers as atoms.
Request(c) ==
  {r \in [op : {"calculate"}, system : System, length : LengthUnit, energy : EnergyUnit,
          ragged : BOOLEAN] :
     /\ r.ragged => c \in Peer
     /\ r.ragged \/ c \notin Peer => r.length = Defaults.length /\ r.energy = Defaults.energy}
  \cup IF c \in Peer THEN [op : {"configure"}, arm : {"none", "other"} \cup Param]
       ELSE {}

Send(c, r) ==
  /\ host \in {"potserv", "foreign"}
  /\ client[c].stage # "sent"
  /\ used.calls < MaxRequests
  /\ used' = [used EXCEPT !.calls = @ + 1]
  /\ client' = [client EXCEPT ![c] = [stage |-> "sent", request |-> r, answer |-> Untold]]
  /\ UNCHANGED <<family, cached, package, present, obj, natives, cache, call, asked>>
  /\ UNCHANGED <<host, server, serving, conversion>>

Answered(c, a) ==
  client' = [client EXCEPT ![c].stage = "answered", ![c].answer = a]

Failure == [Untold EXCEPT !.rc = -1, !.error = TRUE]

\* No server, or the connection breaks before it answers.
Refuse(c) ==
  /\ client[c].stage = "sent"
  /\ host = "potserv"
  /\ server.state # "up"
  /\ Answered(c, Failure)
  /\ UNCHANGED <<avars, host, server, serving, conversion>>

\* A server of another make returns what it likes; the bridge compares the number
\* of forces, after it has stored the energy.
ForeignReply(c, fits) ==
  /\ host = "foreign"
  /\ client[c].stage = "sent"
  /\ c \notin Peer
  /\ Answered(c, IF fits THEN [Untold EXCEPT !.E = {"theirs"}, !.F = {"theirs"}]
                 ELSE [Untold EXCEPT !.E = {"theirs"}, !.rc = -2, !.error = TRUE])
  /\ UNCHANGED <<avars, host, server, serving, conversion>>

-----------------------------------------------------------------------------
(* The server                                                              *)

Sent(c) == client[c].request
Factors(r)  == [length |-> ToAngstrom[r.length], energy |-> FromEV[r.energy]]

\* calculate, up to the potential: list sizes, then both units.
Receive(c) ==
  LET r == Sent(c)
  IN  /\ server.state = "up"
      /\ serving = None
      /\ client[c].stage = "sent"
      /\ r.op = "calculate"
      /\ IF r.ragged \/ NoFactor \in {Factors(r).length, Factors(r).energy}
         THEN Answered(c, Failure) /\ UNCHANGED <<call, asked, serving>>
         ELSE /\ call' = Fresh("operator", <<r.system>>) /\ asked' = Asked(<<r.system>>)
              /\ serving' = c /\ UNCHANGED client
      /\ UNCHANGED <<family, cached, package, present, obj, natives, cache, used>>
      /\ UNCHANGED <<host, server, conversion>>

\* Mutant: coordinates are divided by the factor.
DividedBack(r) ==
  [coordinates |-> SizeOf[r.length],
   energy |-> Less(SizeOf[EV], Factors(r).energy),
   forces |-> << >>]

\* The units that the coordinates, the energy and the forces end up in.
InUnits(r) ==
  [coordinates |-> Less(SizeOf[r.length], Factors(r).length),
   energy |-> Less(SizeOf[EV], Factors(r).energy),
   forces |-> Less(EVPerAngstrom,
                   Less(Factors(r).energy, Factors(r).length))]

\* What goes back: the result, and the units its numbers are in.
Success(r) ==
  LET units == InUnits(r)
      In(unit) == {[result |-> e, unit |-> unit, coordinates |-> units.coordinates] :
                     e \in call.seen[1].E}
  IN  [Untold EXCEPT !.E = In(units.energy), !.F = In(units.forces)]

\* Mutant: a failure of the potential sends nothing back.
ReplyIfDone(c) ==
  /\ server.state = "up"
  /\ serving = c
  /\ call.stage = "done"
  /\ Answered(c, Success(Sent(c)))
  /\ serving' = None
  /\ call' = NoCall
  /\ UNCHANGED <<family, cached, package, present, obj, natives, cache, used, asked>>
  /\ UNCHANGED <<host, server, conversion>>

\* calculate, after the potential.
Reply(c) ==
  /\ server.state = "up"
  /\ serving = c
  /\ call.stage \in {"done", "threw"}
  /\ Answered(c, IF call.stage = "threw" THEN Failure ELSE Success(Sent(c)))
  /\ serving' = None
  /\ call' = NoCall
  /\ UNCHANGED <<family, cached, package, present, obj, natives, cache, used, asked>>
  /\ UNCHANGED <<host, server, conversion>>

\* configure, setPotentialConfig.
Configure(c) ==
  LET r == Sent(c)
      reached == family \in Typed /\ r.arm \in Param
      ok == family \in Typed /\ (r.arm = "none" \/ (r.arm \in Param /\ Accepted(r.arm)))
  IN  /\ server.state = "up"
      /\ serving = None
      /\ client[c].stage = "sent"
      /\ r.op = "configure"
      /\ obj' = IF reached THEN Configured(r.arm) ELSE obj
      /\ call' = NoCall
      /\ Answered(c, IF ok THEN Untold ELSE Failure)
      /\ UNCHANGED <<family, cached, package, present, natives, cache, used, asked>>
      /\ UNCHANGED <<host, server, serving, conversion>>

-----------------------------------------------------------------------------
(* unit_conversion_factor, for a program that converts units               *)

Convert ==
  /\ host = "converter"
  /\ conversion.factor = None
  /\ conversion' = [conversion EXCEPT !.factor = Factor(conversion.of, Angstrom)]
  /\ UNCHANGED <<avars, host, server, client, serving>>

-----------------------------------------------------------------------------

Program ==
  /\ host = "program"
  /\ \/ \E p \in Param, n \in 0 .. 3 : Construct(p, n)
     \/ Destroy
     \/ \E p \in Param : Reconfigure(p)
     \/ \E k \in OrbitalKey : SelectOrbitals(k)
     \/ \E via \in Via, b \in Batch : Enter(via, b)
  /\ UNCHANGED svars

Engine == /\ server.state # "ended"
          /\ Compute \/ Return
          /\ UNCHANGED svars

Init ==
  /\ AInit
  /\ host \in Host
  /\ host # "program" => ~cached
  /\ host \in {"foreign", "converter", "core"} => family = "xtb"
  /\ host = "potserv" => family # "mopac"
  /\ server = [state |-> "down", name |-> None]
  /\ client = [c \in Client |-> Idle]
  /\ serving = None
  /\ CoreInit
  /\ conversion \in IF host = "converter" THEN [of : Expression, factor : {None}] ELSE {None}

ServiceNext ==
  \/ Program
  \/ Engine
  \/ \E name \in DOMAIN Backend \cup {"Unknown"}, ranks \in 1 .. 2, n \in 0 .. 3 :
       Start(name, ranks, n)
  \/ Dies
  \/ \E c \in Client : \/ \E r \in Request(c) : Send(c, r)
                       \/ Refuse(c)
                       \/ \E fits \in BOOLEAN : ForeignReply(c, fits)
                       \/ Receive(c)
                       \/ Reply(c)
                       \/ Configure(c)
  \/ Convert

Next ==
  \/ ServiceNext /\ UNCHANGED cvars
  \/ host = "core" /\ CoreNext /\ UNCHANGED service

\* The server's event loop and its engine run on; a client of a process that is
\* gone learns of it.  Nothing is assumed of clients, or of the server's start.
Fairness ==
  /\ WF_service(Engine)
  /\ \A c \in Client : /\ WF_service(Receive(c) \/ Reply(c) \/ Configure(c))
                       /\ WF_service(Refuse(c))

Spec == Init /\ [][Next]_vars /\ Fairness
-----------------------------------------------------------------------------
(* Properties                                                              *)

\* The peers name their units, and a unit that reads as one has a size.
UnitsRead ==
  LET units == LengthUnit \cup EnergyUnit
  IN  /\ << >> \notin units
      /\ \A u \in units : Parse(u) = Error \/ Parse(u).size \in [Basis -> Int]

\* An energy and forces that answer r.
Told(r, e, f) ==
  /\ f.result = e.result
  /\ e.coordinates = SizeOf[Angstrom]
  /\ e.unit = SizeOf[r.energy]
  /\ SizeOf[r.length] = SizeOf[Angstrom] =>
       f.unit = Less(SizeOf[r.energy], SizeOf[Angstrom])

OwnSystem(r, e) == e.result.types = r.system.types /\ e.result.pos = r.system.pos

\* What a client is told is about its own system, for as long as the clients do not
\* ask for species that the engine cannot tell apart: the coordinates reached the
\* potential in angstrom, and the energy comes back in the unit it named, with
\* the forces of the same computation, in that unit per angstrom if its lengths
\* are in angstrom.  Otherwise there is an error text and no force was written;
\* the energy was, if the reply had a wrong number of forces (nothing in the
\* bridge's interface says that it would not be).
ReplyFits ==
  \A c \in Client :
    client[c].stage = "answered" =>
      LET r == client[c].request
          a == client[c].answer
      IN  /\ a.rc # 0 => a.error /\ a.F = {}
          /\ a.rc = -1 => a.E = {}
          /\ a.rc = 0 /\ r.op = "calculate" =>
               /\ {} \notin {a.E, a.F}
               /\ host = "potserv" =>
                    /\ ~r.ragged
                    /\ \A e \in a.E, f \in a.F : Told(r, e, f)
                    /\ ~SpeciesMixed => \A e \in a.E : OwnSystem(r, e)

\* Forces come back in the caller's units of energy and length.
ForcesInCallerUnits ==
  \A c \in Client :
    client[c].stage = "answered" =>
      LET r == client[c].request
      IN  \A f \in client[c].answer.F : f.unit = Less(SizeOf[r.energy], SizeOf[r.length])

\* A string that reads as a unit has the factor that it means, and no factor if its
\* dimension is not a length.
ConversionMeans ==
  host = "converter" /\ conversion.factor # None =>
    LET m == Meaning[Tokenize(conversion.of)]
    IN  conversion.of # << >> /\ m # Error =>
          conversion.factor = IF m.dim = Parse(Angstrom).dim
                              THEN Over(m, Parse(Angstrom)).size ELSE NoFactor

\* Every request to the server is answered, whether its potential fails, the
\* server never comes up, or it is killed.
CallsAnswered ==
  \A c \in Client :
    (host = "potserv" /\ client[c].stage = "sent") ~> (client[c].stage # "sent")
===============================================================================
