--------------------------- MODULE RpcServiceProofs ---------------------------
(***************************************************************************)
(* Proofs about the engine adapters, through a program or an RPC server,   *)
(* and about what the server's clients are told.                           *)
(*                                                                         *)
(* Shape and HostInv say what is there; NativesInv, CauseInv, BuffersInv   *)
(* and ObjInv each strengthen one property; AskedInv bounds what an object and *)
(* a cache may keep by what they were asked for; FitInv relates a call,    *)
(* the object and the cache and needs them all; ClientInv and ServedInv    *)
(* carry an answer over the wire.                                          *)
(***************************************************************************)
EXTENDS RpcService, UnitExpressionsProofs

ObjShape(o) ==
  /\ DOMAIN o = {"live", "params", "key", "ready", "broken", "types", "natoms", "held",
                 "contract", "session", "orbital"}
  /\ o.live \in BOOLEAN /\ o.ready \in BOOLEAN /\ o.broken \in BOOLEAN
  /\ o.held \in SUBSET Kind
  /\ ~o.live => o = Gone

BuffersShape(out, batch) ==
  DOMAIN out = DOMAIN batch /\ \A i \in DOMAIN batch : DOMAIN out[i] = {"E", "F"}

CallShape(c) ==
  c = NoCall \/
    /\ DOMAIN c = {"stage", "via", "batch", "fault", "misses", "todo", "out", "seen"}
    /\ c.stage \in {"force", "done", "threw"}
    /\ c.fault \in BOOLEAN
    /\ DOMAIN c.batch \subseteq Nat
    /\ c.misses \subseteq DOMAIN c.batch
    /\ c.todo \subseteq c.misses
    /\ BuffersShape(c.out, c.batch)
    /\ BuffersShape(c.seen, c.batch)

Shape ==
  /\ family \in Family
  /\ cached \in BOOLEAN /\ present \in BOOLEAN
  /\ used \in [calls : Nat, faults : Nat]
  /\ natives \in [Kind -> Int]
  /\ ObjShape(obj)
  /\ CallShape(call)

HostInv ==
  /\ DOMAIN server = {"state", "name"}
  /\ host = "program" => server.state = "down"
  /\ host # "program" /\ server.state = "down" => obj = Gone /\ call = NoCall
  /\ server.state = "up" => obj.live
  /\ call.stage = "force" => obj.live

-----------------------------------------------------------------------------

LEMMA GoneShape == ObjShape(Gone) /\ ~Gone.live
BY DEF ObjShape, Gone

LEMMA NewObjectShape ==
  ASSUME NEW p, family \in Family
  PROVE  ObjShape(NewObject(p)) /\ NewObject(p).live
<1>1. Range(Handles) \in SUBSET Kind
  BY DEF Handles, Range, Kind
<1> QED BY <1>1 DEF ObjShape, NewObject, Gone

LEMMA ConfiguredShape ==
  ASSUME NEW p, ObjShape(obj), obj.live
  PROVE  ObjShape(Configured(p)) /\ Configured(p).live
BY DEF ObjShape, Configured

LEMMA FreshShape ==
  ASSUME NEW via, NEW batch, DOMAIN batch \subseteq Nat
  PROVE  CallShape(Fresh(via, batch)) /\ Fresh(via, batch).stage = "force"
<1>1. DOMAIN Old = {"E", "F"} /\ \A r : DOMAIN Both(r) = {"E", "F"}
  BY DEF Old, Both
<1> QED BY <1>1 DEF CallShape, BuffersShape, Fresh

LEMMA FilledShape ==
  ASSUME NEW results, CallShape(call), call.stage = "force"
  PROVE  CallShape(Filled(results)) /\ Filled(results).stage = "force"
<1>1. \A r : DOMAIN Both(r) = {"E", "F"}
  BY DEF Both
<1>2. call # NoCall
  BY DEF NoCall
<1> QED BY <1>1, <1>2 DEF CallShape, BuffersShape, Filled

LEMMA ThrownShape ==
  ASSUME NEW out, NEW f \in BOOLEAN, CallShape(call), call.stage = "force",
         BuffersShape(out, call.batch)
  PROVE  CallShape(Thrown(out, f)) /\ Thrown(out, f).stage = "threw"
<1>1. call # NoCall
  BY DEF NoCall
<1>2. BuffersShape(SeenAfterThrow(out), call.batch)
  BY DEF BuffersShape, SeenAfterThrow, Old
<1> QED BY <1>1, <1>2 DEF CallShape, Thrown

\* What a step inside the engine may do to the shapes.
Engaged ==
  /\ ObjShape(obj') /\ obj'.live
  /\ CallShape(call')
  /\ natives' \in [Kind -> Int]

LEMMA MadeShape ==
  ASSUME NEW kinds, natives \in [Kind -> Int]
  PROVE  Made(kinds) \in [Kind -> Int]
BY DEF Made

LEMMA EngineReturnsShape ==
  ASSUME Shape, call.stage = "force",
         \/ \E f \in BOOLEAN : call' = Thrown(call.out, f)
         \/ \E r : call' = Filled(r)
  PROVE  CallShape(call')
<1>1. BuffersShape(call.out, call.batch) /\ CallShape(call)
  BY DEF Shape, CallShape, NoCall
<1> QED BY <1>1, FilledShape, ThrownShape

LEMMA XtbShape ==
  ASSUME Shape, call.stage = "force", obj.live, NEW at, XtbForce(at)
  PROVE  Engaged
<1>1. CallShape(call')
  <2>1. \/ \E b \in BOOLEAN : call' = Thrown(call.out, b)
        \/ \E r : call' = Filled(r)
    BY Zenon DEF XtbForce, Computed
  <2> QED BY <2>1, EngineReturnsShape
<1>2. natives' \in [Kind -> Int]
  BY MadeShape DEF Shape, XtbForce
<1>3. ObjShape(obj') /\ obj'.live
  BY DEF Shape, ObjShape, XtbForce, Kind
<1> QED BY <1>1, <1>2, <1>3 DEF Engaged

LEMMA TbliteShape ==
  ASSUME Shape, call.stage = "force", obj.live, NEW at, TbliteForce(at)
  PROVE  Engaged
<1>1. CallShape(call')
  <2>1. \/ \E b \in BOOLEAN : call' = Thrown(call.out, b)
        \/ \E r : call' = Filled(r)
    BY Zenon DEF TbliteForce, Computed
  <2> QED BY <2>1, EngineReturnsShape
<1>2. natives' \in [Kind -> Int]
  BY MadeShape DEF Shape, TbliteForce
<1>3. ObjShape(obj') /\ obj'.live
  BY DEF Shape, ObjShape, TbliteForce, Kind
<1> QED BY <1>1, <1>2, <1>3 DEF Engaged

LEMMA DftdShape ==
  ASSUME Shape, call.stage = "force", obj.live, NEW at, DftdForce(at)
  PROVE  Engaged
<1>1. CallShape(call')
  <2> DEFINE out == [call.out EXCEPT ![Turn].F =
                       {[Result(obj'.types, Current, obj.params) EXCEPT !.pos = None]}]
  <2>1. BuffersShape(call.out, call.batch) /\ CallShape(call)
    BY DEF Shape, CallShape, NoCall
  <2>2. BuffersShape(out, call.batch)
    BY <2>1 DEF BuffersShape
  <2>3. \/ call' = Thrown(out, TRUE)
        \/ \E f \in BOOLEAN : call' = Thrown(call.out, f)
        \/ \E r : call' = Computed(r)
    BY Zenon DEF DftdForce
  <2> HIDE DEF out
  <2> QED BY <2>1, <2>2, <2>3, FilledShape, ThrownShape DEF Computed
<1>2. natives' \in [Kind -> Int]
  BY DEF Shape, DftdForce
<1>3. ObjShape(obj') /\ obj'.live
  BY DEF Shape, ObjShape, DftdForce, Kind
<1> QED BY <1>1, <1>2, <1>3 DEF Engaged

LEMMA MetatomicShape ==
  ASSUME Shape, call.stage = "force", obj.live, NEW f \in BOOLEAN, MetatomicForce(f)
  PROVE  Engaged
<1>1. CallShape(call')
  <2>1. \/ \E b \in BOOLEAN : call' = Thrown(call.out, b)
        \/ \E r : call' = Filled(r)
    BY Zenon DEF MetatomicForce, Computed
  <2> QED BY <2>1, EngineReturnsShape
<1>2. ObjShape(obj') /\ obj'.live
  BY DEF Shape, ObjShape, MetatomicForce
<1> QED BY <1>1, <1>2 DEF Engaged, MetatomicForce, Shape

LEMMA UmaShape ==
  ASSUME Shape, call.stage = "force", obj.live, NEW f \in BOOLEAN, UmaForce(f)
  PROVE  Engaged
<1>1. CallShape(call')
  <2>1. \/ \E b \in BOOLEAN : call' = Thrown(call.out, b)
        \/ \E r : call' = Filled(r)
    BY Zenon DEF UmaForce
  <2> QED BY <2>1, EngineReturnsShape
<1>2. ObjShape(obj') /\ obj'.live
  BY DEF Shape, ObjShape, UmaForce, EnsureLoaded
<1> QED BY <1>1, <1>2 DEF Engaged, UmaForce, Shape

LEMMA DlopenShape ==
  ASSUME Shape, call.stage = "force", obj.live, NEW f \in BOOLEAN, DlopenForce(f)
  PROVE  Engaged
<1>1. CallShape(call')
  <2>1. \/ \E b \in BOOLEAN : call' = Thrown(call.out, b)
        \/ \E r : call' = Filled(r)
    BY Zenon DEF DlopenForce, Computed
  <2> QED BY <2>1, EngineReturnsShape
<1>2. ObjShape(obj') /\ obj'.live
  BY DEF Shape, ObjShape, DlopenForce
<1> QED BY <1>1, <1>2 DEF Engaged, DlopenForce, Shape

\* The engines one by one: whose call it is, and whether it failed.
LEMMA ComputeCases ==
  ASSUME Compute
  PROVE  /\ call.stage = "force" /\ call.todo # {}
         /\ UNCHANGED <<family, cached, package, present, cache, asked>>
         /\ \/ \E f \in BOOLEAN :
                 /\ f => MayFail
                 /\ Fault(f)
                 /\ MetatomicForce(f) \/ UmaForce(f) \/ DlopenForce(f)
            \/ \E at \in {"none", "structure", "calculator", "model", "scf", "dispersion"} :
                 /\ at # "none" => MayFail
                 /\ Fault(at # "none")
                 /\ \/ at \in {"none", "calculator", "scf"} /\ XtbForce(at)
                    \/ at \notin {"model", "dispersion"} /\ TbliteForce(at)
                    \/ at \notin {"calculator", "scf"} /\ DftdForce(at)
BY Zenon DEF Compute

LEMMA FaultShape ==
  ASSUME used \in [calls : Nat, faults : Nat], NEW f \in BOOLEAN, Fault(f)
  PROVE  /\ used' \in [calls : Nat, faults : Nat]
         /\ used'.faults = used.faults + (IF f THEN 1 ELSE 0)
BY DEF Fault

LEMMA ComputeShape ==
  ASSUME Shape, obj.live, Compute
  PROVE  Shape' /\ obj'.live
<1>1. call.stage = "force" /\ UNCHANGED <<family, cached, package, present, cache>>
  BY ComputeCases
<1>2. Engaged /\ used' \in [calls : Nat, faults : Nat]
  <2>1. ASSUME NEW f \in BOOLEAN, Fault(f),
               MetatomicForce(f) \/ UmaForce(f) \/ DlopenForce(f)
        PROVE  Engaged /\ used' \in [calls : Nat, faults : Nat]
    <3>1. used' \in [calls : Nat, faults : Nat]
      BY <2>1, FaultShape DEF Shape
    <3> QED BY <1>1, <2>1, <3>1, MetatomicShape, UmaShape, DlopenShape, Zenon
  <2>2. ASSUME NEW at, Fault(at # "none"),
               XtbForce(at) \/ TbliteForce(at) \/ DftdForce(at)
        PROVE  Engaged /\ used' \in [calls : Nat, faults : Nat]
    <3>1. used' \in [calls : Nat, faults : Nat]
      BY <2>2, FaultShape DEF Shape
    <3> QED BY <1>1, <2>2, <3>1, XtbShape, TbliteShape, DftdShape, Zenon
  <2> QED BY <2>1, <2>2, ComputeCases, Zenon
<1> QED BY <1>1, <1>2 DEF Shape, Engaged

LEMMA ReturnShape ==
  ASSUME Shape, Return
  PROVE  Shape' /\ call'.stage = "done"
<1>1. CallShape(call) /\ call # NoCall
  BY DEF Shape, Return, NoCall
<1>2. CallShape(call') /\ call'.stage = "done"
  BY <1>1 DEF CallShape, Return
<1> QED BY <1>2 DEF Shape, Return

LEMMA NoCallShape == CallShape(NoCall) /\ NoCall.stage = "none"
BY DEF CallShape, NoCall

\* What a program that links the potentials does between its calls.
Calls ==
  \/ \E p \in Param, n \in 0 .. 3 : Construct(p, n)
  \/ Destroy
  \/ \E p \in Param : Reconfigure(p)
  \/ \E k \in OrbitalKey : SelectOrbitals(k)
  \/ \E via \in Via, b \in Batch : Enter(via, b)

LEMMA CallsShape ==
  ASSUME Shape, Calls
  PROVE  Shape' /\ (call'.stage = "force" => obj'.live)
<1>1. CASE \E p \in Param, n \in 0 .. 3 : Construct(p, n)
  <2>1. PICK p \in Param, n \in 0 .. 3 : Construct(p, n)
    BY <1>1
  <2>2. ObjShape(obj')
    BY <2>1, NewObjectShape, GoneShape DEF Shape, Construct
  <2>3. natives' \in [Kind -> Int]
    BY <2>1, MadeShape DEF Shape, Construct
  <2>4. call' = NoCall
    BY <2>1 DEF Construct
  <2>5. used' \in [calls : Nat, faults : Nat]
    BY <2>1 DEF Shape, Construct
  <2> QED BY <2>1, <2>2, <2>3, <2>4, <2>5, NoCallShape DEF Shape, Construct
<1>2. CASE Destroy
  <2>1. call' = NoCall /\ obj' = Gone /\ natives' \in [Kind -> Int]
        /\ used' \in [calls : Nat, faults : Nat]
    BY <1>2 DEF Shape, Destroy
  <2> QED BY <1>2, <2>1, NoCallShape, GoneShape DEF Shape, Destroy
<1>3. CASE \E p \in Param : Reconfigure(p)
  <2>1. PICK p \in Param : Reconfigure(p)
    BY <1>3
  <2>2. call' = NoCall /\ ObjShape(obj') /\ used' \in [calls : Nat, faults : Nat]
    BY <2>1, ConfiguredShape DEF Shape, Reconfigure
  <2> QED BY <2>1, <2>2, NoCallShape DEF Shape, Reconfigure
<1>4. CASE \E k \in OrbitalKey : SelectOrbitals(k)
  <2>1. PICK k \in OrbitalKey : SelectOrbitals(k)
    BY <1>4
  <2>2. call' = NoCall /\ used' \in [calls : Nat, faults : Nat]
    BY <2>1 DEF Shape, SelectOrbitals
  <2>3. ObjShape(obj')
    <3>1. ObjShape(obj) /\ obj.live /\ obj' = [obj EXCEPT !.orbital = k]
      BY <2>1 DEF Shape, SelectOrbitals
    <3> QED BY <3>1 DEF ObjShape
  <2> QED BY <2>1, <2>2, <2>3, NoCallShape DEF Shape, SelectOrbitals
<1>5. CASE \E via \in Via, b \in Batch : Enter(via, b)
  <2>1. PICK via \in Via, b \in Batch : Enter(via, b)
    BY <1>5
  <2>2. DOMAIN b \subseteq Nat
    BY AdapterAssumption
  <2>3. CallShape(call') /\ used' \in [calls : Nat, faults : Nat]
    BY <2>1, <2>2, FreshShape DEF Shape, Enter
  <2> QED BY <2>1, <2>3 DEF Shape, Enter
<1> QED BY <1>1, <1>2, <1>3, <1>4, <1>5 DEF Calls

\* A step of the server or its clients that leaves the potential alone.
LEMMA OthersShape ==
  ASSUME Shape, UNCHANGED <<family, cached, package, present, obj, natives, cache, call>>,
         used' \in [calls : Nat, faults : Nat]
  PROVE  Shape'
BY DEF Shape

LEMMA StartShape ==
  ASSUME Shape, HostInv, NEW name, NEW ranks, NEW n \in 0 .. 3, Start(name, ranks, n)
  PROVE  Shape' /\ HostInv'
<1>1. used' \in [calls : Nat, faults : Nat]
  BY DEF Shape, Start
<1>2. obj' = obj \/ \E p : obj' = NewObject(p)
  BY DEF Start
<1>3. natives' = natives \/ natives' = Made(Range(Handles))
  BY DEF Start
<1>4. server'.state = "up" => \E p : obj' = NewObject(p)
  BY DEF Start
<1>5. Shape'
  BY <1>1, <1>2, <1>3, MadeShape, NewObjectShape DEF Shape, Start
<1>6. /\ host' = host /\ host = "potserv" /\ call' = call /\ call = NoCall
      /\ server'.state \in {"up", "ended"} /\ DOMAIN server' = {"state", "name"}
  BY DEF Start, HostInv
<1>7. server'.state = "up" => obj'.live
  BY <1>4, NewObjectShape DEF Shape
<1> QED BY <1>5, <1>6, <1>7, NoCallShape DEF HostInv

\* A request, from the client that sends it to the answer.
RequestStep(c) ==
  \/ \E r \in Request(c) : Send(c, r)
  \/ Refuse(c)
  \/ \E fits \in BOOLEAN : ForeignReply(c, fits)
  \/ Receive(c)
  \/ Reply(c)
  \/ Configure(c)

LEMMA RequestShape ==
  ASSUME Shape, HostInv, NEW c \in Client, RequestStep(c)
  PROVE  Shape' /\ HostInv'
<1>1. host' = host /\ server' = server
  BY DEF RequestStep, Send, Refuse, ForeignReply, Receive, Reply, Configure
<1>2. CASE \E r \in Request(c) : Send(c, r)
  <2>1. used' \in [calls : Nat, faults : Nat]
    BY <1>2 DEF Send, Shape
  <2>2. UNCHANGED <<family, cached, package, present, obj, natives, cache, call>>
    BY <1>2 DEF Send
  <2> QED BY <1>1, <2>1, <2>2, OthersShape DEF HostInv
<1>3. CASE Refuse(c) \/ \E fits \in BOOLEAN : ForeignReply(c, fits)
  <2>1. UNCHANGED avars
    BY <1>3 DEF Refuse, ForeignReply
  <2> QED BY <1>1, <2>1, OthersShape DEF HostInv, Shape, avars
<1>4. CASE Receive(c)
  <2>1. server.state = "up" /\ UNCHANGED <<family, cached, package, present, obj, natives, cache, used>>
    BY <1>4 DEF Receive
  <2>2. CallShape(call')
    <3>1. call' = call \/ \E s : call' = Fresh("operator", <<s>>)
      BY <1>4 DEF Receive
    <3>2. \A s : DOMAIN <<s>> \subseteq Nat
      OBVIOUS
    <3> QED BY <3>1, <3>2, FreshShape DEF Shape
  <2> QED BY <1>1, <2>1, <2>2 DEF HostInv, Shape
<1>5. CASE Reply(c)
  <2>1. /\ server.state = "up" /\ call' = NoCall
        /\ UNCHANGED <<family, cached, package, present, obj, natives, cache, used>>
    BY <1>5 DEF Reply
  <2> QED BY <1>1, <2>1, NoCallShape DEF HostInv, Shape
<1>6. CASE Configure(c)
  <2>1. /\ server.state = "up" /\ call' = NoCall
        /\ UNCHANGED <<family, cached, package, present, natives, cache, used>>
        /\ obj' = obj \/ \E p : obj' = Configured(p)
    BY <1>6 DEF Configure
  <2>2. ObjShape(obj') /\ obj'.live
    BY <2>1, ConfiguredShape DEF HostInv, Shape
  <2> QED BY <1>1, <2>1, <2>2, NoCallShape DEF HostInv, Shape
<1> QED BY <1>2, <1>3, <1>4, <1>5, <1>6, Zenon DEF RequestStep

\* The steps of a service, by the invariants they are cases of.
StartStep ==
  \E name \in DOMAIN Backend \cup {"Unknown"}, ranks \in 1 .. 2, n \in 0 .. 3 :
    Start(name, ranks, n)

LEMMA StepCases ==
  ASSUME [Next]_vars
  PROVE  \/ host = "program" /\ Calls /\ UNCHANGED svars
         \/ Engine
         \/ StartStep
         \/ Dies
         \/ \E c \in Client : RequestStep(c)
         \/ Convert
         \/ UNCHANGED service
<1>1. ServiceNext \/ UNCHANGED service
  BY Zenon DEF Next, vars
<1>2. Program => host = "program" /\ Calls /\ UNCHANGED svars
  BY Zenon DEF Program, Calls
<1>3. ServiceNext => \/ Program \/ Engine \/ StartStep \/ Dies
                     \/ \E c \in Client : RequestStep(c)
                     \/ Convert
  BY Zenon DEF ServiceNext, StartStep, RequestStep
<1> QED BY <1>1, <1>2, <1>3

LEMMA ShapeStep == Shape /\ HostInv /\ [Next]_vars => Shape' /\ HostInv'
<1> SUFFICES ASSUME Shape, HostInv, [Next]_vars PROVE Shape' /\ HostInv'
  OBVIOUS
<1>1. CASE UNCHANGED service
  BY <1>1 DEF service, svars, avars, Shape, HostInv
<1>2. CASE host = "program" /\ Calls /\ UNCHANGED svars
  <2>1. Shape' /\ (call'.stage = "force" => obj'.live)
    BY <1>2, CallsShape
  <2> QED BY <1>2, <2>1 DEF HostInv, svars
<1>3. CASE Engine
  <2>1. server.state # "ended" /\ UNCHANGED svars /\ (Compute \/ Return)
    BY <1>3 DEF Engine
  <2>2. call.stage = "force"
    BY <2>1 DEF Compute, Return
  <2>3. obj.live /\ call # NoCall
    BY <2>2 DEF HostInv, NoCall
  <2>4. Shape' /\ obj'.live
    BY <2>1, <2>3, ComputeShape, ReturnShape DEF Return
  <2> QED BY <2>1, <2>3, <2>4 DEF HostInv, svars
<1>4. CASE StartStep
  BY <1>4, StartShape, Zenon DEF StartStep
<1>5. CASE Dies
  BY <1>5 DEF Dies, avars, Shape, HostInv
<1>6. CASE \E c \in Client : RequestStep(c)
  BY <1>6, RequestShape, Zenon
<1>7. CASE Convert
  BY <1>7 DEF Convert, avars, Shape, HostInv
<1> QED BY <1>1, <1>2, <1>3, <1>4, <1>5, <1>6, <1>7, StepCases

LEMMA ShapeInit == Init => Shape /\ HostInv
<1> SUFFICES ASSUME Init PROVE Shape /\ HostInv
  OBVIOUS
<1>1. Shape
  BY GoneShape, NoCallShape DEF Init, AInit, Shape
<1> QED BY <1>1, GoneShape, NoCallShape DEF Init, AInit, HostInv

\* The objects of a service keep their shape, and only a live one computes.
THEOREM Shapes == Spec => [](Shape /\ HostInv)
<1>1. Init => Shape /\ HostInv
  BY ShapeInit
<1>2. (Shape /\ HostInv) /\ [Next]_vars => (Shape /\ HostInv)'
  BY ShapeStep
<1> QED BY <1>1, <1>2, PTL DEF Spec

-----------------------------------------------------------------------------
(* Native objects.                                                         *)

Tally(b) == IF b THEN 1 ELSE 0

\* A molecule is made once; what TBLitePot makes again after a calculator that
\* failed is over by one for that failure.
NativesInv ==
  /\ NativesHeld
  /\ family = "xtb" /\ ~obj.ready => "mol" \notin obj.held
  /\ family = "tblite" /\ ~obj.ready =>
       \A k \in obj.held \cap {"mol", "calc"} : natives[k] <= used.faults

LEMMA HandlesOf ==
  ASSUME family \in Family
  PROVE  /\ Range(Handles) \in SUBSET Kind
         /\ "mol" \notin Range(Handles)
         /\ family = "tblite" => Range(Handles) \cap {"mol", "calc"} = {}
BY DEF Handles, Range, Kind

\* The first of a constructor's handles, made before one that failed.
LEMMA HandlesBefore ==
  ASSUME NEW n \in 1 .. 3
  PROVE  Range(SubSeq(Handles, 1, n - 1)) \in SUBSET Kind \/ n \notin DOMAIN Handles
<1>1. ASSUME n \in DOMAIN Handles
      PROVE  Range(SubSeq(Handles, 1, n - 1)) \in SUBSET Kind
  BY <1>1 DEF Handles, Range, Kind
<1> QED BY <1>1

LEMMA NewNatives ==
  ASSUME Shape, NativesInv, obj = Gone, NEW p, obj' = NewObject(p),
         natives' = Made(Range(Handles)), used'.faults = used.faults, family' = family
  PROVE  NativesInv'
<1>1. /\ obj'.held = Range(Handles) /\ obj'.ready = FALSE /\ obj.held = {}
  BY DEF NewObject, Gone
<1>2. \A k \in Kind : natives'[k] = natives[k] + Tally(k \in obj'.held)
  BY <1>1 DEF Made, Tally
<1>3. NativesHeld'
  BY <1>1, <1>2 DEF NativesHeld, NativesInv, Shape, Tally
<1> QED BY <1>1, <1>3, HandlesOf DEF NativesInv, Shape

LEMMA NoNatives ==
  ASSUME Shape, NativesInv, obj' = Gone, family' = family,
         used'.faults \in Nat, used'.faults >= used.faults,
         \A k \in Kind : natives'[k] = natives[k] - Tally(k \in obj.held)
  PROVE  NativesInv'
<1>1. obj'.held = {} /\ obj'.ready = FALSE
  BY DEF Gone
<1>2. NativesHeld'
  BY <1>1 DEF NativesHeld, NativesInv, Shape, Tally
<1> QED BY <1>1, <1>2 DEF NativesInv

LEMMA SameNatives ==
  ASSUME Shape, NativesInv, obj'.held = obj.held, obj.ready => obj'.ready,
         natives' = natives, family' = family,
         used'.faults \in Nat, used'.faults >= used.faults
  PROVE  NativesInv'
<1>1. NativesHeld'
  BY DEF NativesHeld, NativesInv, Shape
<1> QED BY <1>1 DEF NativesInv, Shape, ObjShape, Kind

LEMMA ConstructNatives ==
  ASSUME Shape, NativesInv, NEW p, NEW n \in 0 .. 3, Construct(p, n)
  PROVE  NativesInv'
<1>1. obj = Gone /\ obj.held = {} /\ family' = family
  BY DEF Shape, ObjShape, Construct, Gone
<1>2. used.faults \in Nat /\ used'.faults = used.faults + (IF n = 0 THEN 0 ELSE 1)
  BY DEF Shape, Construct
<1>3. CASE n = 0
  BY <1>1, <1>2, <1>3, NewNatives DEF Construct
<1>4. CASE n # 0 /\ family # "d3"
  <2>1. \A k \in Kind : natives'[k] = natives[k] - Tally(k \in obj.held)
    BY <1>1, <1>4 DEF Construct, Made, Tally, Shape
  <2> QED BY <1>1, <1>2, <1>4, <2>1, NoNatives DEF Construct
<1>5. CASE n # 0 /\ family = "d3"
  <2>1. obj' = Gone /\ natives' = Made(Range(SubSeq(Handles, 1, n - 1))) /\ n \in DOMAIN Handles
    BY <1>5 DEF Construct
  <2>2. obj'.held = {}
    BY <2>1 DEF Gone
  <2>3. \A k \in Kind : natives'[k] \in {natives[k], natives[k] + 1}
    BY <2>1 DEF Made, Shape
  <2>4. NativesHeld'
    BY <1>1, <1>2, <1>5, <2>2, <2>3 DEF NativesHeld, NativesInv, Shape
  <2> QED BY <1>1, <1>5, <2>4 DEF NativesInv
<1> QED BY <1>3, <1>4, <1>5

LEMMA XtbNatives ==
  ASSUME Shape, NativesInv, NEW at, XtbForce(at), family' = family,
         used'.faults \in Nat, used'.faults >= used.faults
  PROVE  NativesInv'
<1>1. CASE obj.ready
  BY <1>1, SameNatives DEF XtbForce
<1>2. CASE ~obj.ready
  <2>1. /\ family = "xtb" /\ "mol" \notin obj.held
        /\ natives' = Made({"mol"})
        /\ obj'.ready /\ obj'.held = obj.held \cup {"mol"}
    BY <1>2 DEF XtbForce, NativesInv, Shape, ObjShape
  <2>2. NativesHeld'
    BY <2>1 DEF NativesHeld, NativesInv, Shape, Made
  <2> QED BY <2>1, <2>2 DEF NativesInv
<1> QED BY <1>1, <1>2

LEMMA TbliteNatives ==
  ASSUME Shape, NativesInv, NEW at, TbliteForce(at), family' = family,
         used'.faults = used.faults + Tally(at # "none")
  PROVE  NativesInv'
<1>1. used.faults \in Nat /\ used'.faults \in Nat /\ used'.faults >= used.faults
  BY DEF Shape, Tally
<1>2. CASE obj.ready \/ at = "structure"
  <2>1. obj'.held = obj.held /\ (obj.ready => obj'.ready) /\ \A k \in Kind : natives'[k] = natives[k]
    BY <1>2 DEF TbliteForce, Shape, ObjShape, Made
  <2>2. natives' = natives
    BY <2>1 DEF TbliteForce, Made, Shape
  <2> QED BY <1>1, <2>1, <2>2, SameNatives
<1>3. CASE ~obj.ready /\ at # "structure"
  <2>1. /\ family = "tblite"
        /\ obj'.held = obj.held \cup {"mol", "calc"}
        /\ natives' = Made({"mol", "calc"})
        /\ at # "calculator" => obj'.ready
    BY <1>3 DEF TbliteForce, Shape, ObjShape
  <2>2. \A k \in Kind : natives'[k] = natives[k] + Tally(k \in {"mol", "calc"})
    BY <2>1 DEF Made, Tally
  <2>3. \A k \in Kind \ {"mol", "calc"} :
          natives'[k] - (IF k \in obj'.held THEN 1 ELSE 0) \in 0 .. used'.faults
    BY <1>1, <2>1, <2>2 DEF NativesHeld, NativesInv, Shape, Tally
  <2>4. \A k \in {"mol", "calc"} : natives'[k] - 1 \in 0 .. used.faults
    BY <1>1, <1>3, <2>1, <2>2 DEF NativesHeld, NativesInv, Shape, Tally, Kind
  <2>5. NativesHeld'
    BY <1>1, <2>1, <2>3, <2>4 DEF NativesHeld
  <2>6. at = "calculator" => \A k \in {"mol", "calc"} : natives'[k] <= used'.faults
    BY <1>1, <2>2, <2>4 DEF Tally, Kind, Shape
  <2> QED BY <1>3, <2>1, <2>5, <2>6 DEF NativesInv
<1> QED BY <1>2, <1>3

LEMMA DftdNatives ==
  ASSUME Shape, NativesInv, NEW at, DftdForce(at), family' = family,
         used'.faults \in Nat, used'.faults >= used.faults
  PROVE  NativesInv'
<1>1. \A k \in Kind : natives'[k] - Tally(k \in obj'.held) = natives[k] - Tally(k \in obj.held)
  BY DEF DftdForce, Shape, ObjShape, Tally, Kind
<1>2. family = "d3"
  BY DEF DftdForce
<1>3. NativesHeld'
  BY <1>1, <1>2 DEF NativesHeld, NativesInv, Shape, Tally
<1> QED BY <1>2, <1>3 DEF NativesInv

LEMMA ComputeNatives ==
  ASSUME Shape, NativesInv, Compute
  PROVE  NativesInv'
<1>1. family' = family /\ used \in [calls : Nat, faults : Nat]
  BY ComputeCases DEF Shape
<1>2. ASSUME NEW f \in BOOLEAN, Fault(f),
             MetatomicForce(f) \/ UmaForce(f) \/ DlopenForce(f)
      PROVE  NativesInv'
  <2>1. used'.faults \in Nat /\ used'.faults >= used.faults
    BY <1>1, <1>2, FaultShape
  <2>2. CASE MetatomicForce(f)
    BY <1>1, <2>1, <2>2, SameNatives DEF MetatomicForce, Shape, ObjShape
  <2>3. CASE UmaForce(f)
    BY <1>1, <2>1, <2>3, SameNatives DEF UmaForce, EnsureLoaded, Shape, ObjShape
  <2>4. CASE DlopenForce(f)
    BY <1>1, <2>1, <2>4, SameNatives DEF DlopenForce, Shape, ObjShape
  <2> QED BY <1>2, <2>2, <2>3, <2>4
<1>3. ASSUME NEW at, Fault(at # "none"), XtbForce(at) \/ TbliteForce(at) \/ DftdForce(at)
      PROVE  NativesInv'
  <2>1. used'.faults = used.faults + Tally(at # "none") /\ used.faults \in Nat
    BY <1>1, <1>3, FaultShape DEF Tally
  <2>2. used'.faults \in Nat /\ used'.faults >= used.faults
    BY <2>1 DEF Tally
  <2> QED BY <1>1, <1>3, <2>1, <2>2, XtbNatives, TbliteNatives, DftdNatives
<1> QED BY <1>2, <1>3, ComputeCases, Zenon

LEMMA CallsNatives ==
  ASSUME Shape, NativesInv, Calls
  PROVE  NativesInv'
<1>1. CASE \E p \in Param, n \in 0 .. 3 : Construct(p, n)
  BY <1>1, ConstructNatives
<1>2. CASE Destroy
  BY <1>2, NoNatives DEF Destroy, Shape, Tally
<1>3. CASE \E p \in Param : Reconfigure(p)
  BY <1>3, SameNatives DEF Reconfigure, Configured, Shape, ObjShape
<1>4. CASE \E k \in OrbitalKey : SelectOrbitals(k)
  BY <1>4, SameNatives DEF SelectOrbitals, Shape, ObjShape
<1>5. CASE \E via \in Via, b \in Batch : Enter(via, b)
  BY <1>5, SameNatives DEF Enter, Shape, ObjShape
<1> QED BY <1>1, <1>2, <1>3, <1>4, <1>5 DEF Calls

LEMMA StartNatives ==
  ASSUME Shape, HostInv, NativesInv, StartStep
  PROVE  NativesInv'
<1>1. PICK name \in DOMAIN Backend \cup {"Unknown"}, ranks \in 1 .. 2, n \in 0 .. 3 :
             Start(name, ranks, n)
  BY Zenon DEF StartStep
<1>2. obj = Gone /\ family' = family
  BY <1>1 DEF Start, HostInv
<1>3. used.faults \in Nat /\ used'.faults = used.faults + (IF n = 0 THEN 0 ELSE 1)
  BY <1>1 DEF Shape, Start
<1>4. \/ UNCHANGED <<obj, natives>>
      \/ n = 0 /\ natives' = Made(Range(Handles)) /\ \E p : obj' = NewObject(p)
  BY <1>1 DEF Start
<1>5. CASE UNCHANGED <<obj, natives>>
  BY <1>2, <1>3, <1>5, SameNatives
<1>6. CASE n = 0 /\ natives' = Made(Range(Handles)) /\ \E p : obj' = NewObject(p)
  BY <1>2, <1>3, <1>6, NewNatives
<1> QED BY <1>4, <1>5, <1>6

LEMMA RequestNatives ==
  ASSUME Shape, NativesInv, NEW c \in Client, RequestStep(c)
  PROVE  NativesInv'
<1>1. /\ UNCHANGED <<family, natives>>
      /\ obj' = obj \/ \E p : obj' = Configured(p)
      /\ used'.faults = used.faults
  BY DEF RequestStep, Send, Refuse, ForeignReply, Receive, Reply, Configure, avars, Shape
<1>2. obj'.held = obj.held /\ (obj.ready => obj'.ready)
  BY <1>1 DEF Configured, Shape, ObjShape
<1> QED BY <1>1, <1>2, SameNatives DEF Shape

LEMMA NativesStep == Shape /\ HostInv /\ NativesInv /\ [Next]_vars => NativesInv'
<1> SUFFICES ASSUME Shape, HostInv, NativesInv, [Next]_vars PROVE NativesInv'
  OBVIOUS
<1>1. CASE UNCHANGED avars
  BY <1>1, SameNatives DEF avars, Shape
<1>2. CASE Calls
  BY <1>2, CallsNatives
<1>3. CASE Engine
  <2>1. Compute \/ Return
    BY <1>3 DEF Engine
  <2> QED BY <2>1, ComputeNatives, SameNatives DEF Return, Shape
<1>4. CASE StartStep
  BY <1>4, StartNatives
<1>5. CASE \E c \in Client : RequestStep(c)
  BY <1>5, RequestNatives
<1>6. Dies \/ Convert \/ UNCHANGED service => UNCHANGED avars
  BY DEF Dies, Convert, service
<1> QED BY <1>1, <1>2, <1>3, <1>4, <1>5, <1>6, StepCases

LEMMA NativesInit == Init => NativesInv
BY DEF Init, AInit, NativesInv, NativesHeld, Gone

\* Each native handle is the object's, freed once and not left over but for a failure
\* of TBLitePot and D3Pot: initHandles, the molecules that are rebuilt, the destructors.
THEOREM NativesHeldHolds == Spec => []NativesHeld
<1>1. Init => NativesInv
  BY NativesInit
<1>2. NativesInv /\ (Shape /\ HostInv) /\ [Next]_vars => NativesInv'
  BY NativesStep
<1>3. NativesInv => NativesHeld
  BY DEF NativesInv
<1> QED BY <1>1, <1>2, <1>3, Shapes, PTL DEF Spec

-----------------------------------------------------------------------------
(* Failures                                                                *)

\* Where an object keeps what a fault left, and what else makes a call fail.
CauseInv ==
  /\ family = "xtb" /\ obj.broken => used.faults > 0
  /\ family = "d3" /\ obj.ready /\ ~({"mol", "model"} \subseteq obj.held) => used.faults > 0
  /\ family = "cpmd" /\ obj.live /\ present /\ obj.params # BadParam => obj.session # {}
  /\ \A c \in obj.contract : c = [types |-> package.types, param |-> package.param]
  /\ FailureHasCause

\* There is a system whose turn it is.
LEMMA TurnIsDue ==
  ASSUME Shape, call.stage = "force", call.todo # {}
  PROVE  /\ Turn \in call.todo /\ Turn \in call.misses /\ Turn \in DOMAIN call.batch
         /\ \A i \in call.todo : Turn <= i
<1>1. call.todo \in SUBSET Nat /\ call.todo \subseteq call.misses
      /\ call.misses \subseteq DOMAIN call.batch
  BY DEF Shape, CallShape, NoCall
<1>2. \E x \in call.todo : \A y \in call.todo : x <= y
  BY <1>1, LeastNat
<1>3. Turn \in call.todo /\ \A y \in call.todo : Turn <= y
  BY <1>2, Zenon DEF Turn, Min
<1> QED BY <1>1, <1>3

\* What a call that throws and one that goes on leave of the call.
LEMMA ThrownCall ==
  ASSUME Shape, call.stage = "force", NEW out, NEW f, call' = Thrown(out, f)
  PROVE  /\ call'.stage = "threw" /\ call'.fault = f
         /\ call'.batch = call.batch /\ call'.via = call.via
         /\ call'.misses = call.misses /\ call'.out = out /\ call'.seen = SeenAfterThrow(out)
BY DEF Shape, CallShape, NoCall, Thrown

LEMMA FilledCall ==
  ASSUME Shape, call.stage = "force", NEW results, call' = Filled(results)
  PROVE  /\ call'.stage = "force" /\ call'.fault = call.fault
         /\ call'.batch = call.batch /\ call'.via = call.via
         /\ call'.misses = call.misses /\ call'.seen = call.seen
         /\ call'.todo = call.todo \ DOMAIN results
         /\ call'.out = [i \in DOMAIN call.out |->
                           IF i \in DOMAIN results THEN Both(results[i]) ELSE call.out[i]]
BY DEF Shape, CallShape, NoCall, Filled

LEMMA XtbCause ==
  ASSUME Shape, CauseInv, call.stage = "force", NEW at, Fault(at # "none"), XtbForce(at)
  PROVE  /\ obj'.broken => used'.faults > 0
         /\ obj'.contract = obj.contract
         /\ call'.stage = "threw" => call'.fault \/ used'.faults > 0
<1>1. /\ used.faults \in Nat /\ used'.faults \in Nat /\ used'.faults >= used.faults
      /\ at # "none" => used'.faults > 0
  <2>1. used \in [calls : Nat, faults : Nat] /\ (at # "none") \in BOOLEAN
    BY DEF Shape
  <2>2. /\ used' \in [calls : Nat, faults : Nat]
        /\ used'.faults = used.faults + (IF at # "none" THEN 1 ELSE 0)
    BY <2>1, FaultShape, Zenon
  <2> QED BY <2>1, <2>2
<1>2. family = "xtb" /\ obj'.contract = obj.contract
      /\ obj'.broken = IF obj.ready THEN obj.broken ELSE at = "calculator"
  BY DEF XtbForce, Shape, ObjShape
<1>3. (call' = Thrown(call.out, at # "none") /\ (at # "none" \/ obj'.broken))
      \/ \E r : call' = Filled(r)
  BY Zenon DEF XtbForce, Computed
<1>4. obj.broken => used'.faults > 0
  BY <1>1, <1>2 DEF CauseInv
<1>5. obj'.broken => obj.broken \/ at # "none"
  BY <1>2
<1>6. obj'.broken => used'.faults > 0
  BY <1>1, <1>4, <1>5
<1> QED BY <1>1, <1>2, <1>3, <1>6, ThrownCall, FilledCall

LEMMA TbliteCause ==
  ASSUME Shape, call.stage = "force", NEW at, TbliteForce(at)
  PROVE  /\ obj'.contract = obj.contract
         /\ call'.stage = "threw" => call'.fault
<1>1. obj'.contract = obj.contract
  BY DEF TbliteForce, Shape, ObjShape
<1>2. call' = Thrown(call.out, TRUE) \/ \E r : call' = Filled(r)
  BY Zenon DEF TbliteForce, Computed
<1> QED BY <1>1, <1>2, ThrownCall, FilledCall, ZenonT(60)

LEMMA DftdCause ==
  ASSUME Shape, CauseInv, call.stage = "force", NEW at, Fault(at # "none"), DftdForce(at)
  PROVE  /\ obj'.ready /\ ~({"mol", "model"} \subseteq obj'.held) => used'.faults > 0
         /\ obj'.contract = obj.contract
         /\ call'.stage = "threw" => call'.fault \/ used'.faults > 0
<1>1. /\ used.faults \in Nat /\ used'.faults \in Nat /\ used'.faults >= used.faults
      /\ at # "none" => used'.faults > 0
  <2>1. used \in [calls : Nat, faults : Nat] /\ (at # "none") \in BOOLEAN
    BY DEF Shape
  <2>2. /\ used' \in [calls : Nat, faults : Nat]
        /\ used'.faults = used.faults + (IF at # "none" THEN 1 ELSE 0)
    BY <2>1, FaultShape, Zenon
  <2> QED BY <2>1, <2>2
<1>2. family = "d3" /\ obj'.contract = obj.contract
  BY DEF DftdForce, Shape, ObjShape
<1>3. at = "none" /\ obj'.ready /\ ~({"mol", "model"} \subseteq obj'.held) =>
        obj.ready /\ ~({"mol", "model"} \subseteq obj.held)
  BY DEF DftdForce, Shape, ObjShape
<1>4. obj'.ready /\ ~({"mol", "model"} \subseteq obj'.held) => used'.faults > 0
  BY <1>1, <1>2, <1>3 DEF CauseInv
<1>5. \/ \E o : call' = Thrown(o, TRUE)
      \/ at # "none" /\ \E g : call' = Thrown(call.out, g)
      \/ ~({"mol", "model"} \subseteq obj'.held) /\ \E g : call' = Thrown(call.out, g)
      \/ \E r : call' = Filled(r)
  <2>1. obj'.held = IF ~obj.ready \/ obj.natoms # Len(Current.types)
                    THEN (obj.held \ {"mol", "model"}) \cup
                           (IF at = "structure" THEN {}
                            ELSE IF at = "model" THEN {"mol"} ELSE {"mol", "model"})
                    ELSE obj.held
    BY DEF DftdForce, Shape, ObjShape
  <2> QED BY <2>1, Zenon DEF DftdForce, Computed
<1>6. at = "none" /\ ~({"mol", "model"} \subseteq obj'.held) => obj'.ready
  BY DEF DftdForce, Shape, ObjShape
<1> QED BY <1>1, <1>2, <1>4, <1>5, <1>6, ThrownCall, FilledCall, ZenonT(60)

LEMMA MetatomicCause ==
  ASSUME Shape, call.stage = "force", NEW f, MetatomicForce(f)
  PROVE  /\ obj'.contract = obj.contract
         /\ call'.stage = "threw" => call'.fault
<1>1. obj'.contract = obj.contract
  BY DEF MetatomicForce, Shape, ObjShape
<1>2. (f /\ call' = Thrown(call.out, TRUE)) \/ \E r : call' = Filled(r)
  BY Zenon DEF MetatomicForce, Computed
<1> QED BY <1>1, <1>2, ThrownCall, FilledCall, ZenonT(60)

\* What is wrong with the systems of a call to a package.
Unfit ==
  \/ ~package.readable
  \/ obj.params # package.param
  \/ \E i \in DOMAIN call.batch : ~Composed(call.batch[i].types, package.types)
  \/ package.batch > 1 /\ \E i, j \in DOMAIN call.batch :
                            call.batch[i].types # call.batch[j].types

LEMMA UmaCause ==
  ASSUME Shape, CauseInv, call.stage = "force", call.todo # {},
         NEW f, UmaForce(f), package' = package
  PROVE  /\ obj'.params = obj.params
         /\ \A c \in obj'.contract : c = [types |-> package.types, param |-> package.param]
         /\ call'.stage = "threw" => call'.fault \/ Unfit'
<1>1. obj'.params = obj.params
  BY DEF UmaForce, EnsureLoaded, Shape, ObjShape
<1>2. \A c \in obj'.contract : c = [types |-> package.types, param |-> package.param]
  BY DEF UmaForce, EnsureLoaded, Contract, CauseInv, Shape, ObjShape
<1>3. \/ /\ call' = Thrown(call.out, f)
         /\ f \/ ~package.readable \/ ~Uniform \/ ~Matches(Current)
      \/ \E r : call' = Filled(r)
  BY Zenon DEF UmaForce
<1>4. /\ Turn \in DOMAIN call.batch /\ call.misses \subseteq DOMAIN call.batch
  BY TurnIsDue DEF Shape, CallShape, NoCall
<1>5. CASE \E r : call' = Filled(r)
  BY <1>1, <1>2, <1>5, FilledCall
<1>6. CASE call' = Thrown(call.out, f) /\ f
  BY <1>1, <1>2, <1>6, ThrownCall, ZenonT(60)
<1>7. CASE call' = Thrown(call.out, f) /\ (~package.readable \/ ~Uniform \/ ~Matches(Current))
  <2>1. call'.batch = call.batch
    BY <1>7, ThrownCall
  <2>2. ~Uniform => Unfit'
    BY <1>4, <2>1 DEF Uniform, Unfit
  <2>3. ~Matches(Current) => Unfit'
    BY <1>1, <1>2, <1>4, <2>1 DEF Matches, Current, Unfit
  <2> QED BY <1>1, <1>2, <1>7, <2>2, <2>3 DEF Unfit
<1> QED BY <1>3, <1>5, <1>6, <1>7

LEMMA DlopenCause ==
  ASSUME Shape, CauseInv, call.stage = "force", obj.live, NEW f, DlopenForce(f)
  PROVE  /\ family \in DLoaded
         /\ obj'.params = obj.params /\ obj'.contract = obj.contract
         /\ obj.session # {} => obj'.session # {}
         /\ call'.stage = "threw" => call'.fault \/ ~present
                                      \/ (family # "mopac" /\ obj.params = BadParam)
<1>1. /\ obj'.params = obj.params /\ obj'.contract = obj.contract
      /\ obj.session # {} => obj'.session # {}
  <2>1. obj' = obj \/ \E o : obj' = [obj EXCEPT !.session = {o}]
    BY Zenon DEF DlopenForce
  <2>2. {"params", "contract", "session"} \subseteq DOMAIN obj
    BY DEF Shape, ObjShape
  <2> QED BY <2>1, <2>2
<1>2. \/ /\ call' = Thrown(call.out, f)
         /\ f \/ ~Available \/ (family # "mopac" /\ obj.params = BadParam)
      \/ \E r : call' = Filled(r)
  BY Zenon DEF DlopenForce, Computed
<1>3. ~Available => ~present \/ (family # "mopac" /\ obj.params = BadParam)
  BY DEF Available, CauseInv
<1> QED BY <1>1, <1>2, <1>3, ThrownCall, FilledCall, ZenonT(60) DEF DlopenForce

\* The cause of a failure stays its cause.
LEMMA CauseKept ==
  ASSUME Shape, CauseInv, UNCHANGED <<family, package, present>>,
         used'.faults \in Nat, used'.faults >= used.faults,
         obj'.broken = obj.broken, obj'.ready = obj.ready, obj'.held = obj.held,
         obj'.contract = obj.contract,
         family = "cpmd" /\ obj'.live /\ present /\ obj'.params # BadParam => obj'.session # {},
         \/ call'.stage # "threw"
         \/ call' = call /\ obj'.params = obj.params
  PROVE  CauseInv'
<1>1. used.faults \in Nat
  BY DEF Shape
<1>2. FailureHasCause'
  <2>1. CASE call'.stage # "threw"
    BY <2>1 DEF FailureHasCause
  <2>2. CASE call' = call /\ obj'.params = obj.params
    BY <1>1, <2>2 DEF FailureHasCause, CauseInv
  <2> QED BY <2>1, <2>2
<1> QED BY <1>1, <1>2 DEF CauseInv

LEMMA CauseGone ==
  ASSUME obj' = Gone \/ (\E p : obj' = NewObject(p)), call' = NoCall,
         UNCHANGED <<family, package, present>>
  PROVE  CauseInv'
<1>1. FailureHasCause'
  BY DEF FailureHasCause, NoCall
<1>2. CASE obj' = Gone
  BY <1>1, <1>2 DEF CauseInv, Gone
<1>3. CASE \E p : obj' = NewObject(p)
  <2>1. PICK p : obj' = NewObject(p)
    BY <1>3
  <2>2. /\ obj'.broken = FALSE /\ obj'.ready = FALSE /\ obj'.contract = {}
        /\ obj'.params = p /\ obj'.session = NewSession(p)
    BY <2>1 DEF NewObject, Gone
  <2> QED BY <1>1, <2>2 DEF CauseInv, NewSession
<1> QED BY <1>2, <1>3

LEMMA ComputeCause ==
  ASSUME Shape, obj.live, CauseInv, Compute
  PROVE  CauseInv'
<1>1. /\ call.stage = "force" /\ call.todo # {}
      /\ UNCHANGED <<family, cached, package, present, cache>>
  BY ComputeCases
<1>2. ASSUME NEW f \in BOOLEAN, Fault(f),
             MetatomicForce(f) \/ UmaForce(f) \/ DlopenForce(f)
      PROVE  CauseInv'
  <2>1. CASE MetatomicForce(f)
    <3>1. family = "metatomic"
      BY <2>1 DEF MetatomicForce
    <3> QED BY <1>1, <2>1, <3>1, MetatomicCause DEF CauseInv, FailureHasCause
  <2>2. CASE UmaForce(f)
    <3>1. family = "uma"
      BY <2>2 DEF UmaForce
    <3>2. /\ \A c \in obj'.contract : c = [types |-> package.types, param |-> package.param]
          /\ call'.stage = "threw" => call'.fault \/ Unfit'
      BY <1>1, <2>2, UmaCause
    <3> QED BY <1>1, <3>1, <3>2 DEF CauseInv, FailureHasCause, Unfit
  <2>3. CASE DlopenForce(f)
    <3>1. /\ family \in DLoaded
          /\ obj'.params = obj.params /\ obj'.contract = obj.contract
          /\ obj.session # {} => obj'.session # {}
          /\ call'.stage = "threw" => call'.fault \/ ~present
                                       \/ (family # "mopac" /\ obj.params = BadParam)
      BY <1>1, <2>3, DlopenCause
    <3>2. FailureHasCause'
      BY <1>1, <3>1 DEF FailureHasCause
    <3> QED BY <1>1, <3>1, <3>2 DEF CauseInv, DLoaded
  <2> QED BY <1>2, <2>1, <2>2, <2>3
<1>3. ASSUME NEW at, Fault(at # "none"), XtbForce(at) \/ TbliteForce(at) \/ DftdForce(at)
      PROVE  CauseInv'
  <2>1. CASE TbliteForce(at)
    <3>1. family = "tblite"
      BY <2>1 DEF TbliteForce
    <3> QED BY <1>1, <2>1, <3>1, TbliteCause DEF CauseInv, FailureHasCause
  <2>2. CASE DftdForce(at)
    <3>1. family = "d3"
      BY <2>2 DEF DftdForce
    <3>2. /\ obj'.ready /\ ~({"mol", "model"} \subseteq obj'.held) => used'.faults > 0
          /\ obj'.contract = obj.contract
          /\ call'.stage = "threw" => call'.fault \/ used'.faults > 0
      BY <1>1, <1>3, <2>2, DftdCause
    <3> QED BY <1>1, <3>1, <3>2 DEF CauseInv, FailureHasCause
  <2>3. CASE XtbForce(at)
    <3>1. family = "xtb"
      BY <2>3 DEF XtbForce
    <3>2. obj'.broken => used'.faults > 0
      BY <1>1, <1>3, <2>3, XtbCause
    <3>3. obj'.contract = obj.contract
      BY <1>1, <1>3, <2>3, XtbCause
    <3>4. call'.stage = "threw" => call'.fault \/ used'.faults > 0
      BY <1>1, <1>3, <2>3, XtbCause
    <3> QED BY <1>1, <3>1, <3>2, <3>3, <3>4 DEF CauseInv, FailureHasCause
  <2> QED BY <1>3, <2>1, <2>2, <2>3
<1> QED BY <1>2, <1>3, ComputeCases, Zenon

LEMMA ConfiguredCause ==
  ASSUME Shape, obj.live, CauseInv, NEW p,
         UNCHANGED <<family, package, present>>,
         used'.faults \in Nat, used'.faults >= used.faults,
         call' = NoCall, obj' = Configured(p)
  PROVE  CauseInv'
<1>1. call'.stage # "threw"
  BY DEF NoCall
<1>2. /\ obj'.broken = obj.broken /\ obj'.ready = obj.ready /\ obj'.held = obj.held
      /\ obj'.contract = obj.contract
  BY DEF Configured, Shape, ObjShape
<1>3. family = "cpmd" /\ present /\ obj'.params # BadParam => obj'.session # {}
  <2>1. family = "cpmd" => obj'.params = p /\ (obj'.session = NewSession(p) \/ \E o \in obj'.session : TRUE)
    BY DEF Configured, Shape, ObjShape
  <2> QED BY <2>1 DEF NewSession
<1> QED BY <1>1, <1>2, <1>3, CauseKept

LEMMA CallsCause ==
  ASSUME Shape, CauseInv, Calls
  PROVE  CauseInv'
<1>1. CASE \E p \in Param, n \in 0 .. 3 : Construct(p, n)
  BY <1>1, CauseGone DEF Construct
<1>2. CASE Destroy
  BY <1>2, CauseGone DEF Destroy
<1>3. CASE \E p \in Param : Reconfigure(p)
  BY <1>3, ConfiguredCause DEF Reconfigure, Shape
<1>4. CASE \E k \in OrbitalKey : SelectOrbitals(k)
  <2>1. PICK k \in OrbitalKey : SelectOrbitals(k)
    BY <1>4
  <2>2. /\ UNCHANGED <<family, package, present>> /\ call' = NoCall /\ obj.live
        /\ obj' = [obj EXCEPT !.orbital = k] /\ used'.faults = used.faults /\ used.faults \in Nat
    BY <2>1 DEF SelectOrbitals, Shape
  <2>3. /\ obj'.broken = obj.broken /\ obj'.ready = obj.ready /\ obj'.held = obj.held
        /\ obj'.contract = obj.contract /\ obj'.params = obj.params /\ obj'.session = obj.session
        /\ call'.stage # "threw"
    BY <2>2 DEF Shape, ObjShape, NoCall
  <2>4. family = "cpmd" /\ present /\ obj'.params # BadParam => obj'.session # {}
    BY <2>2, <2>3 DEF CauseInv
  <2> QED BY <2>2, <2>3, <2>4, CauseKept
<1>5. CASE \E via \in Via, b \in Batch : Enter(via, b)
  <2>1. PICK via \in Via, b \in Batch : Enter(via, b)
    BY <1>5
  <2>2. call'.stage # "threw"
    BY <2>1 DEF Enter, Fresh
  <2>3. family = "cpmd" /\ obj.live /\ present /\ obj.params # BadParam => obj.session # {}
    BY DEF CauseInv
  <2> QED BY <2>1, <2>2, <2>3, CauseKept DEF Enter, Shape
<1> QED BY <1>1, <1>2, <1>3, <1>4, <1>5 DEF Calls

LEMMA IdleCause ==
  ASSUME Shape, CauseInv, UNCHANGED <<family, package, present, obj>>,
         used'.faults \in Nat, used'.faults >= used.faults,
         call'.stage # "threw" \/ call' = call
  PROVE  CauseInv'
<1>1. family = "cpmd" /\ obj.live /\ present /\ obj.params # BadParam => obj.session # {}
  BY DEF CauseInv
<1> QED BY <1>1, CauseKept

LEMMA StartCause ==
  ASSUME Shape, HostInv, CauseInv, StartStep
  PROVE  CauseInv'
<1>1. PICK name \in DOMAIN Backend \cup {"Unknown"}, ranks \in 1 .. 2, n \in 0 .. 3 :
             Start(name, ranks, n)
  BY Zenon DEF StartStep
<1>2. call' = NoCall /\ UNCHANGED <<family, package, present>>
  BY <1>1 DEF Start, HostInv
<1>3. obj' = Gone \/ \E p : obj' = NewObject(p)
  BY <1>1 DEF Start, HostInv
<1> QED BY <1>2, <1>3, CauseGone

LEMMA RequestCause ==
  ASSUME Shape, HostInv, CauseInv, NEW c \in Client, RequestStep(c)
  PROVE  CauseInv'
<1>1. UNCHANGED <<family, package, present>> /\ used'.faults = used.faults /\ used.faults \in Nat
  BY DEF RequestStep, Send, Refuse, ForeignReply, Receive, Reply, Configure, avars, Shape
<1>2. CASE Configure(c)
  <2>1. /\ call' = NoCall /\ obj.live
        /\ obj' = obj \/ \E p : obj' = Configured(p)
    BY <1>2 DEF Configure, HostInv
  <2>2. call'.stage # "threw"
    BY <2>1 DEF NoCall
  <2> QED BY <1>1, <2>1, <2>2, IdleCause, ConfiguredCause
<1>3. CASE ~Configure(c)
  <2>1. obj' = obj
    BY <1>3 DEF RequestStep, Send, Refuse, ForeignReply, Receive, Reply, avars
  <2>2. call'.stage # "threw" \/ call' = call
    BY <1>3 DEF RequestStep, Send, Refuse, ForeignReply, Receive, Reply, avars, Fresh, NoCall
  <2> QED BY <1>1, <2>1, <2>2, IdleCause
<1> QED BY <1>2, <1>3

LEMMA CauseStep == Shape /\ HostInv /\ CauseInv /\ [Next]_vars => CauseInv'
<1> SUFFICES ASSUME Shape, HostInv, CauseInv, [Next]_vars PROVE CauseInv'
  OBVIOUS
<1>1. CASE UNCHANGED avars
  BY <1>1, IdleCause DEF avars, Shape
<1>2. CASE Calls
  BY <1>2, CallsCause
<1>3. CASE Engine
  <2>1. Compute \/ Return
    BY <1>3 DEF Engine
  <2>2. CASE Compute
    BY <2>2, ComputeCases, ComputeCause DEF HostInv
  <2>3. CASE Return
    BY <2>3, ReturnShape, IdleCause DEF Return, Shape
  <2> QED BY <2>1, <2>2, <2>3
<1>4. CASE StartStep
  BY <1>4, StartCause
<1>5. CASE \E c \in Client : RequestStep(c)
  BY <1>5, RequestCause
<1>6. Dies \/ Convert \/ UNCHANGED service => UNCHANGED avars
  BY DEF Dies, Convert, service
<1> QED BY <1>1, <1>2, <1>3, <1>4, <1>5, <1>6, StepCases

LEMMA CauseInit == Init => CauseInv
BY DEF Init, AInit, CauseInv, FailureHasCause, Gone, NoCall

\* A call that throws has a cause: a fault of its own, an engine that is missing or
\* was given bad parameters, a package that is not made for it; or, where the adapter
\* keeps a half-made molecule (XTBPot, D3Pot, D4Pot), a fault of an earlier call.
THEOREM FailureHasCauseHolds == Spec => []FailureHasCause
<1>1. Init => CauseInv
  BY CauseInit
<1>2. CauseInv /\ (Shape /\ HostInv) /\ [Next]_vars => CauseInv'
  BY CauseStep
<1>3. CauseInv => FailureHasCause
  BY DEF CauseInv
<1> QED BY <1>1, <1>2, <1>3, Shapes, PTL DEF Spec

-----------------------------------------------------------------------------
(* The caller's buffers                                                    *)

\* While a call computes, the energy and the forces of a system come together, and
\* those of a system that is still due are not there.  An answer is one of each.
BuffersInv ==
  /\ call.stage = "force" =>
       /\ \A i \in DOMAIN call.batch : call.out[i].E # {} => call.out[i].F = call.out[i].E
       /\ \A i \in DOMAIN call.batch : call.out[i].E = {} <=> i \in call.todo
       /\ \A i \in call.todo : call.out[i] = Old
       /\ \A i \in DOMAIN call.batch : \A q, r \in call.out[i].E : q = r
  /\ call.stage = "done" => \A i \in DOMAIN call.batch : \A q, r \in call.seen[i].E : q = r
  /\ OutputsWhole

LEMMA ThrownWhole ==
  ASSUME Shape, call.stage = "force", NEW out, NEW f, call' = Thrown(out, f),
         BuffersShape(out, call.batch),
         \A i \in DOMAIN call.batch : out[i].E # {} => out[i].F = out[i].E
  PROVE  BuffersInv'
<1>1. /\ call'.stage = "threw" /\ call'.batch = call.batch /\ call'.via = call.via
      /\ call'.seen = SeenAfterThrow(out)
  BY ThrownCall
<1>2. ASSUME NEW i \in DOMAIN call.batch
      PROVE  /\ call'.seen[i].E # {} => call'.seen[i].F = call'.seen[i].E
             /\ call.via \in {"operator", "abi", "handle"} => call'.seen[i] = Old
  BY <1>1 DEF SeenAfterThrow, BuffersShape, Old
<1> QED BY <1>1, <1>2 DEF BuffersInv, OutputsWhole

LEMMA FilledWhole ==
  ASSUME Shape, call.stage = "force", BuffersInv, NEW results, call' = Filled(results),
         DOMAIN results \subseteq call.todo
  PROVE  BuffersInv'
<1>1. /\ call'.stage = "force" /\ call'.batch = call.batch
      /\ call'.todo = call.todo \ DOMAIN results
      /\ call'.out = [i \in DOMAIN call.out |->
                        IF i \in DOMAIN results THEN Both(results[i]) ELSE call.out[i]]
  BY FilledCall
<1>2. DOMAIN call.out = DOMAIN call.batch /\ call.todo \subseteq DOMAIN call.batch
  BY DEF Shape, CallShape, BuffersShape, NoCall
<1>3. \A r : Both(r).E = Both(r).F /\ Both(r).E # {} /\ \A p, q \in Both(r).E : p = q
  BY DEF Both
<1>4. \A i \in DOMAIN call.batch : call'.out[i] = IF i \in DOMAIN results THEN Both(results[i])
                                                ELSE call.out[i]
  BY <1>1, <1>2
<1> QED BY <1>1, <1>2, <1>3, <1>4, SMTT(30) DEF BuffersInv, OutputsWhole

\* A gradient that failed half-way: something may be in the force buffer.
Half(r) == [call.out EXCEPT ![Turn].F = {r}]

LEMMA ComputeCalls ==
  ASSUME Shape, Compute
  PROVE  \/ \E f : call' = Thrown(call.out, f)
         \/ \E r, f : call' = Thrown(Half(r), f)
         \/ \E results : DOMAIN results \subseteq call.todo /\ call' = Filled(results)
<1>1. Turn \in call.todo /\ call.stage = "force"
  BY ComputeCases, TurnIsDue
<1>2. ASSUME NEW r, call' = Computed(r)
      PROVE  \E results : DOMAIN results \subseteq call.todo /\ call' = Filled(results)
  BY <1>1, <1>2 DEF Computed
<1>3. ASSUME NEW f, MetatomicForce(f) \/ DlopenForce(f)
      PROVE  (\E g : call' = Thrown(call.out, g)) \/ (\E r : call' = Computed(r))
  BY <1>3, Zenon DEF MetatomicForce, DlopenForce
<1>4. ASSUME NEW f, UmaForce(f)
      PROVE  \/ \E g : call' = Thrown(call.out, g)
             \/ \E results : DOMAIN results \subseteq call.todo /\ call' = Filled(results)
  <2>1. \/ call' = Thrown(call.out, f)
        \/ call' = Filled([i \in Band |-> UmaResult(call.batch[i])])
    BY <1>4, Zenon DEF UmaForce
  <2>2. Band \subseteq call.todo
    BY <1>1 DEF Band
  <2> QED BY <2>1, <2>2
<1>5. ASSUME NEW at, XtbForce(at) \/ TbliteForce(at)
      PROVE  (\E g : call' = Thrown(call.out, g)) \/ (\E r : call' = Computed(r))
  BY <1>5, Zenon DEF XtbForce, TbliteForce
<1>6. ASSUME NEW at, DftdForce(at)
      PROVE  \/ \E g : call' = Thrown(call.out, g)
             \/ \E r, g : call' = Thrown(Half(r), g)
             \/ \E r : call' = Computed(r)
  BY <1>6, Zenon DEF DftdForce, Half
<1> QED BY <1>2, <1>3, <1>4, <1>5, <1>6, ComputeCases, Zenon

LEMMA ComputeWhole ==
  ASSUME Shape, BuffersInv, Compute
  PROVE  BuffersInv'
<1>1. call.stage = "force" /\ Turn \in call.todo /\ Turn \in DOMAIN call.batch
  BY ComputeCases, TurnIsDue
<1>2. BuffersShape(call.out, call.batch)
  BY <1>1 DEF Shape, CallShape, NoCall
<1>3. CASE \E f : call' = Thrown(call.out, f)
  BY <1>1, <1>2, <1>3, ThrownWhole DEF BuffersInv
<1>4. CASE \E r, f : call' = Thrown(Half(r), f)
  <2>1. PICK r, f : call' = Thrown(Half(r), f)
    BY <1>4
  <2>2. BuffersShape(Half(r), call.batch)
    BY <1>2 DEF BuffersShape, Half
  <2>3. call.out[Turn] = Old
    BY <1>1 DEF BuffersInv
  <2>4. \A i \in DOMAIN call.batch : Half(r)[i].E # {} => Half(r)[i].F = Half(r)[i].E
    BY <1>1, <1>2, <2>3 DEF BuffersShape, Half, Old, BuffersInv
  <2> QED BY <1>1, <2>1, <2>2, <2>4, ThrownWhole
<1>5. CASE \E results : DOMAIN results \subseteq call.todo /\ call' = Filled(results)
  BY <1>1, <1>5, FilledWhole
<1> QED BY <1>3, <1>4, <1>5, ComputeCalls

LEMMA FreshWhole ==
  ASSUME NEW via, NEW batch, call' = Fresh(via, batch)
  PROVE  BuffersInv'
BY DEF Fresh, BuffersInv, OutputsWhole, Old, Both

LEMMA IdleWhole ==
  ASSUME BuffersInv, call' = call \/ call' = NoCall
  PROVE  BuffersInv'
BY DEF BuffersInv, OutputsWhole, NoCall

LEMMA BuffersStep == Shape /\ HostInv /\ BuffersInv /\ [Next]_vars => BuffersInv'
<1> SUFFICES ASSUME Shape, HostInv, BuffersInv, [Next]_vars PROVE BuffersInv'
  OBVIOUS
<1>1. CASE UNCHANGED avars
  BY <1>1, IdleWhole DEF avars
<1>2. CASE Calls
  <2>1. call' = NoCall \/ \E via, b : call' = Fresh(via, b)
    BY <1>2 DEF Calls, Construct, Destroy, Reconfigure, SelectOrbitals, Enter
  <2> QED BY <2>1, IdleWhole, FreshWhole
<1>3. CASE Engine
  <2>1. Compute \/ Return
    BY <1>3 DEF Engine
  <2>2. CASE Return
    <3>1. /\ call.stage = "force" /\ call'.stage = "done" /\ call'.batch = call.batch
          /\ call'.seen = call.out
      BY <2>2 DEF Return, Shape, CallShape, NoCall
    <3> QED BY <3>1 DEF BuffersInv, OutputsWhole
  <2> QED BY <2>1, <2>2, ComputeWhole
<1>4. CASE StartStep
  BY <1>4, IdleWhole DEF StartStep, Start
<1>5. CASE \E c \in Client : RequestStep(c)
  <2>1. call' = call \/ call' = NoCall \/ \E via, b : call' = Fresh(via, b)
    BY <1>5 DEF RequestStep, Send, Refuse, ForeignReply, Receive, Reply, Configure, avars
  <2> QED BY <2>1, IdleWhole, FreshWhole
<1>6. Dies \/ Convert \/ UNCHANGED service => UNCHANGED avars
  BY DEF Dies, Convert, service
<1> QED BY <1>1, <1>2, <1>3, <1>4, <1>5, <1>6, StepCases

LEMMA BuffersInit == Init => BuffersInv
BY DEF Init, AInit, BuffersInv, OutputsWhole, NoCall

\* After an exception nobody finds an energy without its forces, and callers through
\* operator(), a handle or the C ABI find their buffers as they were.
THEOREM OutputsWholeHolds == Spec => []OutputsWhole
<1>1. Init => BuffersInv
  BY BuffersInit
<1>2. BuffersInv /\ (Shape /\ HostInv) /\ [Next]_vars => BuffersInv'
  BY BuffersStep
<1>3. BuffersInv => OutputsWhole
  BY DEF BuffersInv
<1> QED BY <1>1, <1>2, <1>3, Shapes, PTL DEF Spec

-----------------------------------------------------------------------------
(* The cache key                                                           *)

Systems == System \cup UNION {Range(b) : b \in Batch}

Key(s, w) ==
  Xor(Xor({<<"real", s.pos>>}, {<<"int", s.types>>}),
      Xor({<<"real", s.box>>}, Xor({<<"word", family>>}, {<<"word", w>>})))

LEMMA CacheKeyIs == \A s : CacheKey(s) = Key(s, obj.key)
BY Zenon DEF CacheKey, Key

\* Nothing cancels but the family and a fingerprint that equals it.
LEMMA KeyParts ==
  ASSUME NEW s, NEW w, s.pos # s.box, NEW e
  PROVE  e \in Key(s, w) <=>
           \/ e = <<"real", s.pos>> \/ e = <<"real", s.box>> \/ e = <<"int", s.types>>
           \/ w # family /\ (e = <<"word", family>> \/ e = <<"word", w>>)
<1> DEFINE P == <<"real", s.pos>>  B == <<"real", s.box>>  T == <<"int", s.types>>
           F == <<"word", family>>  W == <<"word", w>>
<1>1. P # T /\ P # B /\ P # F /\ P # W /\ T # B /\ T # F /\ T # W /\ B # F /\ B # W
  OBVIOUS
<1>2. F = W <=> w = family
  OBVIOUS
<1>3. Key(s, w) = Xor(Xor({P}, {T}), Xor({B}, Xor({F}, {W})))
  BY DEF Key
<1> HIDE DEF P, B, T, F, W
<1>4. e \in Key(s, w) <=> e = P \/ e = B \/ e = T \/ (F # W /\ (e = F \/ e = W))
  BY <1>1, <1>3 DEF Xor
<1> QED BY <1>2, <1>4 DEF P, B, T, F, W

LEMMA KeysApart ==
  ASSUME PartsDistinct, NEW s \in Systems, NEW t \in Systems, NEW v, NEW w,
         Key(s, v) = Key(t, w)
  PROVE  s.pos = t.pos /\ s.box = t.box /\ s.types = t.types /\ v = w
<1>1. s.pos # t.box /\ t.pos # s.box /\ s.pos # s.box /\ t.pos # t.box
  BY Zenon DEF PartsDistinct, Systems
<1>2. s.pos = t.pos
  <2>1. <<"real", s.pos>> \in Key(t, w)
    BY <1>1, KeyParts
  <2>2. <<"real", s.pos>> \in {<<"real", t.pos>>, <<"real", t.box>>}
    BY <1>1, <2>1, KeyParts
  <2> QED BY <1>1, <2>2
<1>3. s.box = t.box
  <2>1. <<"real", s.box>> \in Key(t, w)
    BY <1>1, KeyParts
  <2>2. <<"real", s.box>> \in {<<"real", t.pos>>, <<"real", t.box>>}
    BY <1>1, <2>1, KeyParts
  <2> QED BY <1>1, <2>2
<1>4. s.types = t.types
  <2>1. <<"int", s.types>> \in Key(t, w)
    BY <1>1, KeyParts
  <2>2. <<"int", s.types>> = <<"int", t.types>>
    BY <1>1, <2>1, KeyParts
  <2> QED BY <2>2
<1>5. v = w
  <2>1. ASSUME v # family
        PROVE  w # family /\ v = w
    <3>1. <<"word", v>> \in Key(t, w)
      BY <1>1, <2>1, KeyParts
    <3>2. w # family /\ (<<"word", v>> = <<"word", family>> \/ <<"word", v>> = <<"word", w>>)
      BY <1>1, <3>1, KeyParts
    <3> QED BY <2>1, <3>2
  <2>2. ASSUME w # family
        PROVE  v # family
    <3>1. <<"word", w>> \in Key(s, v)
      BY <1>1, <2>2, KeyParts
    <3> QED BY <1>1, <3>1, KeyParts
  <2> QED BY <2>1, <2>2
<1> QED BY <1>2, <1>3, <1>4, <1>5

-----------------------------------------------------------------------------
(* What an object keeps                                                    *)

\* The fingerprint and the session are of the parameters of now, the species that
\* an object keeps of the number of atoms it remembers, and a package that was read
\* has a contract.
ObjInv ==
  /\ obj.live => obj.key = KeyOf(obj.params)
  /\ \A o \in obj.session : DOMAIN o = {"params", "orbital"} /\ o.params = obj.params
  /\ family = "d3" /\ obj.ready /\ {"mol", "model"} \subseteq obj.held =>
       Len(obj.types) = obj.natoms
  /\ family = "metatomic" => Len(obj.types) = obj.natoms
  /\ family = "uma" /\ obj.ready /\ package.readable => obj.contract # {}

LEMMA NoSpecies == Len(<< >>) = 0
OBVIOUS

LEMMA NewObj ==
  ASSUME obj' = Gone \/ (\E p : obj' = NewObject(p)), UNCHANGED <<family, package>>
  PROVE  ObjInv'
<1>1. CASE obj' = Gone
  BY <1>1, NoSpecies DEF ObjInv, Gone
<1>2. CASE \E p : obj' = NewObject(p)
  <2>1. PICK p : obj' = NewObject(p)
    BY <1>2
  <2>2. /\ obj'.params = p /\ obj'.key = KeyOf(p) /\ obj'.ready = FALSE
        /\ obj'.types = << >> /\ obj'.natoms = 0 /\ obj'.session = NewSession(p)
    BY <2>1 DEF NewObject, Gone
  <2>3. KeyOf(p) = KeyOf(p)' /\ \A o \in NewSession(p) : DOMAIN o = {"params", "orbital"} /\ o.params = p
    BY DEF KeyOf, NewSession
  <2> QED BY <2>2, <2>3, NoSpecies DEF ObjInv
<1> QED BY <1>1, <1>2

LEMMA ConfiguredObj ==
  ASSUME Shape, obj.live, ObjInv, NEW p, obj' = Configured(p), UNCHANGED <<family, package>>
  PROVE  ObjInv'
<1>1. CASE family = "skala" /\ p = BadParam
  BY <1>1 DEF Configured, ObjInv, KeyOf
<1>2. CASE ~(family = "skala" /\ p = BadParam)
  <2>1. /\ obj'.params = p /\ obj'.key = KeyOf(p) /\ obj'.ready = obj.ready
        /\ obj'.types = obj.types /\ obj'.natoms = obj.natoms /\ obj'.held = obj.held
        /\ obj'.contract = obj.contract
        /\ obj'.session = IF \E o \in obj.session : o.params = p THEN obj.session ELSE NewSession(p)
    BY <1>2 DEF Configured, Shape, ObjShape
  <2>2. \A o \in NewSession(p) : DOMAIN o = {"params", "orbital"} /\ o.params = p
    BY DEF NewSession
  <2>3. \A o \in obj'.session : DOMAIN o = {"params", "orbital"} /\ o.params = p
    BY <2>1, <2>2 DEF ObjInv
  <2> QED BY <2>1, <2>3 DEF ObjInv, KeyOf
<1> QED BY <1>1, <1>2

\* A step of the engine that keeps the parameters.
LEMMA SameObj ==
  ASSUME ObjInv, UNCHANGED <<family, package>>,
         obj'.live = obj.live, obj'.key = obj.key, obj'.params = obj.params,
         obj'.session = obj.session,
         family = "d3" /\ obj'.ready /\ {"mol", "model"} \subseteq obj'.held =>
           Len(obj'.types) = obj'.natoms,
         family = "metatomic" => Len(obj'.types) = obj'.natoms,
         family = "uma" /\ obj'.ready /\ package.readable => obj'.contract # {}
  PROVE  ObjInv'
BY DEF ObjInv, KeyOf

LEMMA ComputeObj ==
  ASSUME Shape, ObjInv, Compute
  PROVE  /\ ObjInv'
         /\ obj'.params = obj.params /\ obj'.orbital = obj.orbital
<1>1. UNCHANGED <<family, package>>
  BY ComputeCases
<1>2. ASSUME NEW at, XtbForce(at)
      PROVE  ObjInv' /\ obj'.params = obj.params /\ obj'.orbital = obj.orbital
  <2>1. /\ family = "xtb"
        /\ obj'.live = obj.live /\ obj'.key = obj.key /\ obj'.params = obj.params
        /\ obj'.session = obj.session /\ obj'.orbital = obj.orbital
    BY <1>2 DEF XtbForce, Shape, ObjShape
  <2> QED BY <1>1, <2>1, SameObj
<1>3. ASSUME NEW at, TbliteForce(at)
      PROVE  ObjInv' /\ obj'.params = obj.params /\ obj'.orbital = obj.orbital
  <2>1. /\ family = "tblite"
        /\ obj'.live = obj.live /\ obj'.key = obj.key /\ obj'.params = obj.params
        /\ obj'.session = obj.session /\ obj'.orbital = obj.orbital
    BY <1>3 DEF TbliteForce, Shape, ObjShape
  <2> QED BY <1>1, <2>1, SameObj
<1>4. ASSUME NEW at, DftdForce(at)
      PROVE  ObjInv' /\ obj'.params = obj.params /\ obj'.orbital = obj.orbital
  <2>1. /\ family = "d3"
        /\ obj'.live = obj.live /\ obj'.key = obj.key /\ obj'.params = obj.params
        /\ obj'.session = obj.session /\ obj'.orbital = obj.orbital
    BY <1>4 DEF DftdForce, Shape, ObjShape
  <2>2. obj'.ready /\ {"mol", "model"} \subseteq obj'.held => Len(obj'.types) = obj'.natoms
    BY <1>4, <2>1 DEF DftdForce, Shape, ObjShape, ObjInv
  <2> QED BY <1>1, <2>1, <2>2, SameObj
<1>5. ASSUME NEW f, MetatomicForce(f)
      PROVE  ObjInv' /\ obj'.params = obj.params /\ obj'.orbital = obj.orbital
  <2>1. /\ family = "metatomic"
        /\ obj'.live = obj.live /\ obj'.key = obj.key /\ obj'.params = obj.params
        /\ obj'.session = obj.session /\ obj'.orbital = obj.orbital
        /\ obj'.types = Species(Current) /\ obj'.natoms = Len(Current.types)
    BY <1>5 DEF MetatomicForce, Shape, ObjShape
  <2>2. Len(Species(Current)) = Len(Current.types)
    BY <2>1 DEF Species, ObjInv
  <2> QED BY <1>1, <2>1, <2>2, SameObj
<1>6. ASSUME NEW f, UmaForce(f)
      PROVE  ObjInv' /\ obj'.params = obj.params /\ obj'.orbital = obj.orbital
  <2>1. /\ family = "uma"
        /\ obj'.live = obj.live /\ obj'.key = obj.key /\ obj'.params = obj.params
        /\ obj'.session = obj.session /\ obj'.orbital = obj.orbital
    BY <1>6 DEF UmaForce, EnsureLoaded, Shape, ObjShape
  <2>2. obj'.ready /\ package.readable => obj'.contract # {}
    BY <1>6, <2>1 DEF UmaForce, EnsureLoaded, Contract, Shape, ObjShape, ObjInv
  <2> QED BY <1>1, <2>1, <2>2, SameObj
<1>7. ASSUME NEW f, DlopenForce(f)
      PROVE  ObjInv' /\ obj'.params = obj.params /\ obj'.orbital = obj.orbital
  <2>1. \/ obj' = obj
        \/ \E o \in obj.session : \E k : obj' = [obj EXCEPT !.session = {[o EXCEPT !.orbital = k]}]
    BY <1>7, Zenon DEF DlopenForce, OrbitalNamed
  <2>2. CASE obj' = obj
    BY <1>1, <2>2, SameObj DEF ObjInv
  <2>3. CASE \E o \in obj.session : \E k : obj' = [obj EXCEPT !.session = {[o EXCEPT !.orbital = k]}]
    <3>0. PICK o \in obj.session : \E k : obj' = [obj EXCEPT !.session = {[o EXCEPT !.orbital = k]}]
      BY <2>3
    <3>1. PICK k : obj' = [obj EXCEPT !.session = {[o EXCEPT !.orbital = k]}]
      BY <3>0
    <3>2. /\ family \in DLoaded
          /\ obj'.live = obj.live /\ obj'.key = obj.key /\ obj'.params = obj.params
          /\ obj'.session = {[o EXCEPT !.orbital = k]} /\ obj'.orbital = obj.orbital
      BY <1>7, <3>1 DEF DlopenForce, Shape, ObjShape
    <3>3. \A q \in obj'.session : DOMAIN q = {"params", "orbital"} /\ q.params = obj.params
      BY <3>1, <3>2 DEF ObjInv
    <3> QED BY <1>1, <3>2, <3>3 DEF ObjInv, DLoaded, KeyOf
  <2> QED BY <2>1, <2>2, <2>3
<1> QED BY <1>2, <1>3, <1>4, <1>5, <1>6, <1>7, ComputeCases, Zenon

LEMMA IdleObj ==
  ASSUME ObjInv, UNCHANGED <<family, package, obj>>
  PROVE  ObjInv'
BY SameObj DEF ObjInv

LEMMA ObjStep == Shape /\ HostInv /\ ObjInv /\ [Next]_vars => ObjInv'
<1> SUFFICES ASSUME Shape, HostInv, ObjInv, [Next]_vars PROVE ObjInv'
  OBVIOUS
<1>1. CASE UNCHANGED avars
  BY <1>1, IdleObj DEF avars
<1>2. CASE Calls
  <2>1. CASE \E p \in Param, n \in 0 .. 3 : Construct(p, n)
    BY <2>1, NewObj DEF Construct
  <2>2. CASE Destroy
    BY <2>2, NewObj DEF Destroy
  <2>3. CASE \E p \in Param : Reconfigure(p)
    BY <2>3, ConfiguredObj DEF Reconfigure
  <2>4. CASE \E k \in OrbitalKey : SelectOrbitals(k)
    <3>1. PICK k \in OrbitalKey : SelectOrbitals(k)
      BY <2>4
    <3>2. /\ family = "cpmd" /\ UNCHANGED <<family, package>>
          /\ obj'.live = obj.live /\ obj'.key = obj.key /\ obj'.params = obj.params
          /\ obj'.session = obj.session
      BY <3>1 DEF SelectOrbitals, Shape, ObjShape
    <3> QED BY <3>2, SameObj
  <2>5. CASE \E via \in Via, b \in Batch : Enter(via, b)
    BY <2>5, IdleObj DEF Enter
  <2> QED BY <1>2, <2>1, <2>2, <2>3, <2>4, <2>5 DEF Calls
<1>3. CASE Engine
  <2>1. Compute \/ Return
    BY <1>3 DEF Engine
  <2> QED BY <2>1, ComputeObj, IdleObj DEF Return
<1>4. CASE StartStep
  <2>1. UNCHANGED <<family, package>> /\ (obj' = obj \/ \E p : obj' = NewObject(p))
    BY <1>4 DEF StartStep, Start
  <2> QED BY <2>1, IdleObj, NewObj
<1>5. CASE \E c \in Client : RequestStep(c)
  <2>1. PICK c \in Client : RequestStep(c)
    BY <1>5
  <2>2. UNCHANGED <<family, package>>
    BY <2>1 DEF RequestStep, Send, Refuse, ForeignReply, Receive, Reply, Configure, avars
  <2>3. obj' = obj \/ (obj.live /\ \E p : obj' = Configured(p))
    BY <2>1 DEF RequestStep, Send, Refuse, ForeignReply, Receive, Reply, Configure, avars, HostInv
  <2> QED BY <2>2, <2>3, IdleObj, ConfiguredObj
<1>6. Dies \/ Convert \/ UNCHANGED service => UNCHANGED avars
  BY DEF Dies, Convert, service
<1> QED BY <1>1, <1>2, <1>3, <1>4, <1>5, <1>6, StepCases

\* What an object keeps is of the call or the configuration it is from.
THEOREM ObjectsKeepTheirOwn == Spec => []ObjInv
<1>1. Init => ObjInv
  BY NoSpecies DEF Init, AInit, ObjInv, Gone
<1>2. ObjInv /\ (Shape /\ HostInv) /\ [Next]_vars => ObjInv'
  BY ObjStep
<1> QED BY <1>1, <1>2, Shapes, PTL DEF Spec

-----------------------------------------------------------------------------
(* The orientations of Metatomic                                           *)

Flip == {-1, 1}
Turns == [axis : Axes, sign : [1 .. 3 -> Flip]]

\* The sign of a permutation of the axes.
Parity(a) == IF a \in Even THEN 1 ELSE -1

LEMMA TwoElements ==
  ASSUME NEW i, NEW j, i # j
  PROVE  IsFiniteSet({i, j}) /\ Cardinality({i, j}) = 2
<1>1. {i, j} = {i} \cup {j} /\ j \notin {i}
  OBVIOUS
<1>2. IsFiniteSet({i}) /\ Cardinality({i}) = 1
  BY FS_Singleton
<1> QED BY <1>1, <1>2, FS_AddElement

LEMMA EvenFlips ==
  ASSUME NEW s \in [1 .. 3 -> Flip]
  PROVE  Cardinality({i \in 1 .. 3 : s[i] = -1}) % 2 = 0 <=> s[1] * s[2] * s[3] = 1
<1> DEFINE F == {i \in 1 .. 3 : s[i] = -1}
<1>1. /\ s[1] \in {-1, 1} /\ s[2] \in {-1, 1} /\ s[3] \in {-1, 1}
      /\ \A i : i \in F <=> (i = 1 /\ s[1] = -1) \/ (i = 2 /\ s[2] = -1) \/ (i = 3 /\ s[3] = -1)
  BY DEF Flip
<1>2. /\ Cardinality({}) = 0
      /\ Cardinality({1}) = 1 /\ Cardinality({2}) = 1 /\ Cardinality({3}) = 1
      /\ Cardinality({1, 2}) = 2 /\ Cardinality({1, 3}) = 2 /\ Cardinality({2, 3}) = 2
      /\ Cardinality({1, 2, 3}) = 3
  <2>1. 1 # 2 /\ 1 # 3 /\ 2 # 3
    OBVIOUS
  <2>2. IsFiniteSet({1, 2}) /\ Cardinality({1, 2}) = 2
    BY <2>1, TwoElements
  <2>3. Cardinality({1, 3}) = 2 /\ Cardinality({2, 3}) = 2
    BY <2>1, TwoElements
  <2>4. Cardinality({1, 2, 3}) = 3
    <3>1. {1, 2, 3} = {1, 2} \cup {3} /\ 3 \notin {1, 2}
      OBVIOUS
    <3> QED BY <2>2, <3>1, FS_AddElement
  <2> QED BY <2>2, <2>3, <2>4, FS_EmptySet, FS_Singleton
<1> DEFINE E(a, b, c) == s[1] = a /\ s[2] = b /\ s[3] = c
<1>3. /\ E(1, 1, 1) => F = {}
      /\ E(-1, 1, 1) => F = {1}
      /\ E(1, -1, 1) => F = {2}
      /\ E(1, 1, -1) => F = {3}
      /\ E(-1, -1, 1) => F = {1, 2}
      /\ E(-1, 1, -1) => F = {1, 3}
      /\ E(1, -1, -1) => F = {2, 3}
      /\ E(-1, -1, -1) => F = {1, 2, 3}
  <2> HIDE DEF F
  <2> QED BY <1>1
<1> HIDE DEF F
<1>4. \/ E(1, 1, 1) /\ Cardinality(F) = 0
      \/ E(-1, 1, 1) /\ Cardinality(F) = 1
      \/ E(1, -1, 1) /\ Cardinality(F) = 1
      \/ E(1, 1, -1) /\ Cardinality(F) = 1
      \/ E(-1, -1, 1) /\ Cardinality(F) = 2
      \/ E(-1, 1, -1) /\ Cardinality(F) = 2
      \/ E(1, -1, -1) /\ Cardinality(F) = 2
      \/ E(-1, -1, -1) /\ Cardinality(F) = 3
  <2>1. \/ E(1, 1, 1) \/ E(-1, 1, 1) \/ E(1, -1, 1) \/ E(1, 1, -1)
        \/ E(-1, -1, 1) \/ E(-1, 1, -1) \/ E(1, -1, -1) \/ E(-1, -1, -1)
    BY <1>1
  <2> HIDE DEF E
  <2> QED BY <1>2, <1>3, <2>1
<1>5. Cardinality(F) % 2 = 0 <=> s[1] * s[2] * s[3] = 1
  BY <1>4
<1> QED BY <1>5 DEF F

LEMMA TurnSigns ==
  ASSUME NEW r \in Turns
  PROVE  /\ r.axis \in Axes /\ r.sign \in [1 .. 3 -> Flip]
         /\ r.sign[1] \in {-1, 1} /\ r.sign[2] \in {-1, 1} /\ r.sign[3] \in {-1, 1}
         /\ Parity(r.axis) \in {-1, 1}
         /\ Det(r) = Parity(r.axis) * r.sign[1] * r.sign[2] * r.sign[3]
<1>1. r.axis \in Axes /\ r.sign \in [1 .. 3 -> Flip]
  BY DEF Turns
<1>2. Det(r) = Parity(r.axis) * r.sign[1] * r.sign[2] * r.sign[3]
  BY DEF Det, Parity
<1> QED BY <1>1, <1>2 DEF Flip, Parity

\* With the even permutations the determinant is 1 as the flips are even.
LEMMA GroupIs ==
  /\ RotationGroup(24) = {r \in Turns : Det(r) = 1}
  /\ RotationGroup(12) = {r \in Turns : r.axis \in Even /\ Det(r) = 1}
<1>1. RotationGroup(24) = {r \in Turns : Det(r) = 1}
  BY DEF RotationGroup, Turns, Flip
<1>2. ASSUME NEW r \in Turns, r.axis \in Even, Det(r) = 1
      PROVE  Cardinality({i \in 1 .. 3 : r.sign[i] = -1}) % 2 = 0
  <2>1. r.sign[1] * r.sign[2] * r.sign[3] = 1
    BY <1>2, TurnSigns DEF Parity
  <2> QED BY <2>1, TurnSigns, EvenFlips
<1>3. RotationGroup(12) = {r \in Turns : Det(r) = 1 /\ (r.axis \in Even /\
                               Cardinality({i \in 1 .. 3 : r.sign[i] = -1}) % 2 = 0)}
  BY DEF RotationGroup, Turns, Flip
<1> QED BY <1>1, <1>2, <1>3

LEMMA AxesProduct ==
  ASSUME NEW a \in Axes, NEW b \in Axes
  PROVE  /\ \A i \in 1 .. 3 : a[i] \in 1 .. 3
         /\ [i \in 1 .. 3 |-> b[a[i]]] \in Axes
         /\ Parity([i \in 1 .. 3 |-> b[a[i]]]) = Parity(a) * Parity(b)
<1> DEFINE c == [i \in 1 .. 3 |-> b[a[i]]]
<1>1. \A i \in 1 .. 3 : a[i] \in 1 .. 3 
  BY DEF Axes
<1>2. c = <<b[a[1]], b[a[2]], b[a[3]]>>
  OBVIOUS
<1>3. <<b[a[1]], b[a[2]], b[a[3]]>> \in Axes
  BY DEF Axes
<1>4. Parity(<<b[a[1]], b[a[2]], b[a[3]]>>) = Parity(a) * Parity(b)
  BY DEF Axes, Even, Parity
<1> QED BY <1>1, <1>2, <1>3, <1>4

LEMMA TurnsProduct ==
  ASSUME NEW q \in Turns, NEW t \in Turns
  PROVE  /\ Product(q, t) \in Turns
         /\ Det(Product(q, t)) = Det(q) * Det(t)
         /\ q.axis \in Even /\ t.axis \in Even => Product(q, t).axis \in Even
<1>1. /\ Product(q, t).axis = [i \in 1 .. 3 |-> t.axis[q.axis[i]]]
      /\ Product(q, t).sign = [i \in 1 .. 3 |-> q.sign[i] * t.sign[q.axis[i]]]
      /\ Product(q, t) \in [axis : {Product(q, t).axis}, sign : {Product(q, t).sign}]
  BY DEF Product
<1>2. /\ Product(q, t).axis \in Axes /\ \A i \in 1 .. 3 : q.axis[i] \in 1 .. 3
      /\ Parity(Product(q, t).axis) = Parity(q.axis) * Parity(t.axis)
  BY <1>1, TurnSigns, AxesProduct
<1>3. ASSUME NEW i \in 1 .. 3
      PROVE  q.sign[i] * t.sign[q.axis[i]] \in Flip
  <2>1. q.sign[i] \in {-1, 1} /\ t.sign[q.axis[i]] \in {-1, 1}
    BY <1>2, TurnSigns DEF Flip
  <2> QED BY <2>1 DEF Flip
<1>4. Product(q, t) \in Turns
  BY <1>1, <1>2, <1>3 DEF Turns
<1> DEFINE P == q.sign[1] * q.sign[2] * q.sign[3]  R == t.sign[1] * t.sign[2] * t.sign[3]
           S == Product(q, t).sign
<1>5. S[1] * S[2] * S[3] = P * R
  <2>1. /\ S[1] = q.sign[1] * t.sign[q.axis[1]]
        /\ S[2] = q.sign[2] * t.sign[q.axis[2]]
        /\ S[3] = q.sign[3] * t.sign[q.axis[3]]
    BY <1>1
  <2>2. /\ q.sign[1] \in {-1, 1} /\ q.sign[2] \in {-1, 1} /\ q.sign[3] \in {-1, 1}
        /\ t.sign[1] \in {-1, 1} /\ t.sign[2] \in {-1, 1} /\ t.sign[3] \in {-1, 1}
    BY TurnSigns
  <2>3. <<q.axis[1], q.axis[2], q.axis[3]>> \in Axes
    BY TurnSigns DEF Axes
  <2>4. \/ q.axis[1] = 1 /\ q.axis[2] = 2 /\ q.axis[3] = 3
        \/ q.axis[1] = 2 /\ q.axis[2] = 3 /\ q.axis[3] = 1
        \/ q.axis[1] = 3 /\ q.axis[2] = 1 /\ q.axis[3] = 2
        \/ q.axis[1] = 1 /\ q.axis[2] = 3 /\ q.axis[3] = 2
        \/ q.axis[1] = 3 /\ q.axis[2] = 2 /\ q.axis[3] = 1
        \/ q.axis[1] = 2 /\ q.axis[2] = 1 /\ q.axis[3] = 3
    BY <2>3 DEF Axes
  <2> QED BY <2>1, <2>2, <2>4
<1>6. Det(Product(q, t)) = Det(q) * Det(t)
  <2>1. /\ Det(Product(q, t)) = Parity(q.axis) * Parity(t.axis) * S[1] * S[2] * S[3]
        /\ Det(q) = Parity(q.axis) * q.sign[1] * q.sign[2] * q.sign[3]
        /\ Det(t) = Parity(t.axis) * t.sign[1] * t.sign[2] * t.sign[3]
        /\ S[1] \in {-1, 1} /\ S[2] \in {-1, 1} /\ S[3] \in {-1, 1}
    BY <1>2, <1>4, TurnSigns
  <2>2. /\ q.sign[1] \in {-1, 1} /\ q.sign[2] \in {-1, 1} /\ q.sign[3] \in {-1, 1}
        /\ t.sign[1] \in {-1, 1} /\ t.sign[2] \in {-1, 1} /\ t.sign[3] \in {-1, 1}
        /\ Parity(q.axis) \in {-1, 1} /\ Parity(t.axis) \in {-1, 1}
    BY TurnSigns
  <2> HIDE DEF S
  <2> QED BY <1>5, <2>1, <2>2
<1>7. q.axis \in Even /\ t.axis \in Even => Product(q, t).axis \in Even
  BY <1>2 DEF Parity
<1> QED BY <1>4, <1>6, <1>7
LEMMA Axes6 == IsFiniteSet(Axes) /\ Cardinality(Axes) = 6
               /\ IsFiniteSet(Even) /\ Cardinality(Even) = 3
<1> DEFINE a == <<1, 2, 3>>  b == <<2, 3, 1>>  c == <<3, 1, 2>>
           d == <<1, 3, 2>>  e == <<3, 2, 1>>  f == <<2, 1, 3>>
<1>1. /\ a # b /\ a # c /\ a # d /\ a # e /\ a # f /\ b # c /\ b # d /\ b # e /\ b # f
      /\ c # d /\ c # e /\ c # f /\ d # e /\ d # f /\ e # f
  OBVIOUS
<1>2. Axes = {a, b, c, d, e, f} /\ Even = {a, b, c}
  BY DEF Axes, Even
<1> HIDE DEF a, b, c, d, e, f
<1>3. IsFiniteSet({a}) /\ Cardinality({a}) = 1
  BY FS_Singleton
<1>4. IsFiniteSet({a, b}) /\ Cardinality({a, b}) = 2
  <2>1. {a, b} = {a} \cup {b} /\ b \notin {a}
    BY <1>1
  <2> QED BY <1>3, <2>1, FS_AddElement
<1>5. IsFiniteSet({a, b, c}) /\ Cardinality({a, b, c}) = 3
  <2>1. {a, b, c} = {a, b} \cup {c} /\ c \notin {a, b}
    BY <1>1
  <2> QED BY <1>4, <2>1, FS_AddElement
<1>6. IsFiniteSet({a, b, c, d}) /\ Cardinality({a, b, c, d}) = 4
  <2>1. {a, b, c, d} = {a, b, c} \cup {d} /\ d \notin {a, b, c}
    BY <1>1
  <2> QED BY <1>5, <2>1, FS_AddElement
<1>7. IsFiniteSet({a, b, c, d, e}) /\ Cardinality({a, b, c, d, e}) = 5
  <2>1. {a, b, c, d, e} = {a, b, c, d} \cup {e} /\ e \notin {a, b, c, d}
    BY <1>1
  <2> QED BY <1>6, <2>1, FS_AddElement
<1>8. IsFiniteSet({a, b, c, d, e, f}) /\ Cardinality({a, b, c, d, e, f}) = 6
  <2>1. {a, b, c, d, e, f} = {a, b, c, d, e} \cup {f} /\ f \notin {a, b, c, d, e}
    BY <1>1
  <2> QED BY <1>7, <2>1, FS_AddElement
<1> QED BY <1>2, <1>5, <1>8

\* An orientation is its permutation and two of its signs.
LEMMA Counted ==
  ASSUME NEW A, A \subseteq Axes, IsFiniteSet(A), NEW n \in Nat, Cardinality(A) = n
  PROVE  Cardinality({r \in Turns : r.axis \in A /\ Det(r) = 1}) = 4 * n
<1> DEFINE G == {r \in Turns : r.axis \in A /\ Det(r) = 1}
           C == (A \X Flip) \X Flip
           Third(p) == Parity(p[1][1]) * p[1][2] * p[2]
           R(p) == [axis |-> p[1][1],
                    sign |-> [i \in 1 .. 3 |-> IF i = 1 THEN p[1][2]
                                               ELSE IF i = 2 THEN p[2] ELSE Third(p)]]
           f == [p \in C |-> R(p)]
<1>1. IsFiniteSet(C) /\ Cardinality(C) = 4 * n
  <2>1. IsFiniteSet(Flip) /\ Cardinality(Flip) = 2
    <3>1. Flip = {-1} \cup {1} /\ 1 \notin {-1}
      BY DEF Flip
    <3>2. IsFiniteSet({-1}) /\ Cardinality({-1}) = 1
      BY FS_Singleton
    <3> QED BY <3>1, <3>2, FS_AddElement
  <2>2. IsFiniteSet(A \X Flip) /\ Cardinality(A \X Flip) = n * 2
    BY <2>1, FS_Product
  <2>3. IsFiniteSet(C) /\ Cardinality(C) = (n * 2) * 2
    BY <2>1, <2>2, FS_Product, SMTT(30)
  <2> HIDE DEF C
  <2> QED BY <2>3
<1>2. ASSUME NEW p \in C
      PROVE  /\ p[1][1] \in A /\ p[1][2] \in {-1, 1} /\ p[2] \in {-1, 1}
             /\ Parity(p[1][1]) \in {-1, 1} /\ Third(p) \in {-1, 1}
             /\ p = <<<<p[1][1], p[1][2]>>, p[2]>>
  <2>1. p[1][1] \in A /\ p[1][2] \in {-1, 1} /\ p[2] \in {-1, 1}
        /\ p = <<<<p[1][1], p[1][2]>>, p[2]>>
    BY DEF Flip
  <2>2. Parity(p[1][1]) \in {-1, 1}
    BY DEF Parity
  <2>3. \A x, y, z \in {-1, 1} : x * y * z \in {-1, 1}
    OBVIOUS
  <2> QED BY <2>1, <2>2, <2>3
<1>3. ASSUME NEW p \in C
      PROVE  /\ R(p).axis = p[1][1] /\ R(p).sign[1] = p[1][2] /\ R(p).sign[2] = p[2]
             /\ R(p).sign[3] = Third(p) /\ R(p) \in G
  <2>1. /\ R(p).axis = p[1][1] /\ R(p).sign[1] = p[1][2] /\ R(p).sign[2] = p[2]
        /\ R(p).sign[3] = Third(p)
    OBVIOUS
  <2>2. R(p) \in Turns
    BY <1>2 DEF Turns, Flip
  <2>3. Det(R(p)) = Parity(p[1][1]) * p[1][2] * p[2] * Third(p)
    <3> HIDE DEF R, Third
    <3> QED BY <2>1, <2>2, TurnSigns
  <2>4. \A x, y, z \in {-1, 1} : x * y * z * (x * y * z) = 1
    OBVIOUS
  <2>5. Det(R(p)) = 1
    BY <1>2, <2>3, <2>4
  <2> HIDE DEF R
  <2> QED BY <1>2, <2>1, <2>2, <2>5
<1>4. ASSUME NEW r \in G
      PROVE  \E p \in C : R(p) = r
  <2> DEFINE p == <<<<r.axis, r.sign[1]>>, r.sign[2]>>
  <2>1. /\ r \in Turns /\ r.axis \in A /\ r.sign[1] \in {-1, 1} /\ r.sign[2] \in {-1, 1}
        /\ r.sign[3] \in {-1, 1} /\ Parity(r.axis) \in {-1, 1}
        /\ Parity(r.axis) * r.sign[1] * r.sign[2] * r.sign[3] = 1
    BY <1>4, TurnSigns
  <2>2. p \in C
    BY <2>1 DEF Flip
  <2>3. \A x, y, z, w \in {-1, 1} : x * y * z * w = 1 => w = x * y * z
    OBVIOUS
  <2>4. r.sign[3] = Third(p)
    BY <2>1, <2>3
  <2>5. r \in [axis : Axes, sign : [1 .. 3 -> Flip]]
    BY <2>1 DEF Turns
  <2>6. r.sign = [i \in 1 .. 3 |-> IF i = 1 THEN r.sign[1] ELSE IF i = 2 THEN r.sign[2] ELSE r.sign[3]]
    BY <2>5
  <2>7. R(p) = [axis |-> r.axis, sign |-> r.sign]
    BY <2>4, <2>6
  <2>8. r = [axis |-> r.axis, sign |-> r.sign]
    BY <2>5
  <2> QED BY <2>2, <2>7, <2>8
<1>5. f \in Bijection(C, G)
  <2>1. f \in [C -> G]
    <3> HIDE DEF R, G, C
    <3> QED BY <1>3
  <2>2. \A p, q \in C : f[p] = f[q] => p = q
    <3> HIDE DEF R, G, C
    <3> QED BY <1>2, <1>3
  <2>3. \A r \in G : \E p \in C : f[p] = r
    <3> HIDE DEF R, G, C
    <3> QED BY <1>4
  <2> HIDE DEF f, G, C
  <2> QED BY <2>1, <2>2, <2>3 DEF Bijection, Injection, Surjection, IsInjective
<1>6. Cardinality(G) = Cardinality(C)
  <2> HIDE DEF f, G, C
  <2> QED BY <1>1, <1>5, FS_Bijection DEF ExistsBijection
<1> HIDE DEF C
<1> QED BY <1>1, <1>6

\* The orientations over which Metatomic averages are groups of 12 and 24 rotations.
THEOREM RotationGroupsClosed == GroupsClosed
<1> DEFINE G == RotationGroup(24)  T == RotationGroup(12)
<1>1. Cardinality(G) = 24
  <2>1. G = {r \in Turns : r.axis \in Axes /\ Det(r) = 1}
    BY GroupIs, TurnSigns
  <2> HIDE DEF G
  <2> QED BY <2>1, Axes6, Counted
<1>2. Cardinality(T) = 12
  <2>1. Even \subseteq Axes
    BY DEF Even, Axes
  <2>2. T = {r \in Turns : r.axis \in Even /\ Det(r) = 1}
    BY GroupIs
  <2> HIDE DEF T
  <2> QED BY <2>1, <2>2, Axes6, Counted
<1>3. ASSUME NEW q \in G, NEW t \in G
      PROVE  Product(q, t) \in G
  <2>1. q \in Turns /\ t \in Turns /\ Det(q) = 1 /\ Det(t) = 1
    BY GroupIs
  <2> QED BY <2>1, GroupIs, TurnsProduct
<1>4. ASSUME NEW q \in T, NEW t \in T
      PROVE  Product(q, t) \in T
  <2>1. /\ q \in Turns /\ t \in Turns /\ Det(q) = 1 /\ Det(t) = 1
        /\ q.axis \in Even /\ t.axis \in Even
    BY GroupIs
  <2> QED BY <2>1, GroupIs, TurnsProduct
<1> HIDE DEF G, T
<1>5. \A H \in {T, G} : Cardinality(H) \in {12, 24} /\ \A q, t \in H : Product(q, t) \in H
  BY <1>1, <1>2, <1>3, <1>4
<1> QED BY <1>5 DEF GroupsClosed, G, T

-----------------------------------------------------------------------------
(* Answers                                                                 *)

\* A result of a system, whoever asks for it.
Suits(s, r) ==
  /\ family \notin {"xtb", "tblite"} => Len(r.types) = Len(s.types)
  /\ Len(r.types) = Len(s.types) =>
       r.pos = s.pos /\ (r.box = s.box \/ (family = "uma" /\ package.cube))
  /\ family \in DLoaded \cup {"uma"} => r.types = s.types
  /\ family = "uma" /\ package.readable =>
       r.params = package.param /\ Composed(s.types, package.types)
  /\ family = "metatomic" => r.frames = Frames

\* One that was computed by this object, with the species of the call or those it keeps.
Own(s, r) ==
  /\ Suits(s, r)
  /\ r.types = s.types \/ (r.types = obj.types /\ (family \in Linked => obj.ready))
  /\ r.params = obj.params
  /\ obj.orbital # None => r.orbital = obj.orbital

LEMMA ResultFields ==
  ASSUME NEW types, NEW s, NEW params
  PROVE  LET r == Result(types, s, params)
         IN  /\ r.types = types /\ r.pos = s.pos /\ r.box = s.box /\ r.params = params
             /\ r.orbital = obj.orbital
             /\ DOMAIN r = {"types", "pos", "box", "params", "orbital", "frames"}
BY DEF Result

LEMMA XtbOwn ==
  ASSUME Shape, call.stage = "force", call.todo # {}, NEW at, XtbForce(at),
         call'.stage = "force"
  PROVE  \E r : call' = Computed(r) /\ Own(Current, r)
<1>1. family = "xtb"
  BY DEF XtbForce
<1>2. ~(\E g : call' = Thrown(call.out, g))
  BY ThrownCall
<1>3. \/ call' = Computed(Result(Current.types, Current, obj.params))
      \/ obj.ready /\ call' = Computed(Moved(Current))
  BY <1>2 DEF XtbForce
<1>4. Own(Current, Result(Current.types, Current, obj.params))
  BY <1>1, ResultFields DEF Own, Suits, DLoaded
<1>5. obj.ready => Own(Current, Moved(Current))
  BY <1>1, ResultFields DEF Own, Suits, DLoaded, Moved
<1> QED BY <1>3, <1>4, <1>5

LEMMA TbliteOwn ==
  ASSUME Shape, call.stage = "force", call.todo # {}, NEW at, TbliteForce(at),
         call'.stage = "force"
  PROVE  \E r : call' = Computed(r) /\ Own(Current, r)
<1>1. family = "tblite"
  BY DEF TbliteForce
<1>2. ~(\E g : call' = Thrown(call.out, g))
  BY ThrownCall
<1>3. \/ call' = Computed(Result(Current.types, Current, obj.params))
      \/ obj.ready /\ call' = Computed(Moved(Current))
  BY <1>2 DEF TbliteForce
<1>4. Own(Current, Result(Current.types, Current, obj.params))
  BY <1>1, ResultFields DEF Own, Suits, DLoaded
<1>5. obj.ready => Own(Current, Moved(Current))
  BY <1>1, ResultFields DEF Own, Suits, DLoaded, Moved
<1> QED BY <1>3, <1>4, <1>5

LEMMA DftdOwn ==
  ASSUME Shape, ObjInv, call.stage = "force", call.todo # {}, NEW at, DftdForce(at),
         call'.stage = "force"
  PROVE  \E r : call' = Computed(r) /\ Own(Current, r)
<1>1. family = "d3"
  BY DEF DftdForce
<1>2. ~(\E o, g : call' = Thrown(o, g))
  BY ThrownCall
<1>3. call' = Computed(Result(obj'.types, Current, obj.params)) /\ at = "none"
  BY <1>2 DEF DftdForce
<1>4. {"mol", "model"} \subseteq obj'.held
  <2>1. \/ {"mol", "model"} \subseteq obj'.held
        \/ \E g : call' = Thrown(call.out, g)
    <3>1. obj'.held = IF ~obj.ready \/ obj.natoms # Len(Current.types)
                      THEN (obj.held \ {"mol", "model"}) \cup
                             (IF at = "structure" THEN {}
                              ELSE IF at = "model" THEN {"mol"} ELSE {"mol", "model"})
                      ELSE obj.held
      BY DEF DftdForce, Shape, ObjShape
    <3> QED BY <1>3, <3>1, Zenon DEF DftdForce
  <2> QED BY <1>2, <2>1
<1>5. Len(obj'.types) = Len(Current.types)
  BY <1>3, <1>4 DEF DftdForce, Shape, ObjShape, ObjInv
<1>6. obj'.types = Current.types \/ (obj'.types = obj.types /\ obj.ready)
  <2>1. obj'.types = IF ~obj.ready \/ obj.natoms # Len(Current.types)
                     THEN Current.types ELSE obj.types
    BY <1>3 DEF DftdForce, Shape, ObjShape
  <2> QED BY <2>1
<1>7. Own(Current, Result(obj'.types, Current, obj.params))
  BY <1>1, <1>5, <1>6, ResultFields DEF Own, Suits, DLoaded
<1> QED BY <1>3, <1>7

LEMMA MetatomicOwn ==
  ASSUME Shape, ObjInv, call.stage = "force", call.todo # {}, NEW f, MetatomicForce(f),
         call'.stage = "force"
  PROVE  \E r : call' = Computed(r) /\ Own(Current, r)
<1>1. family = "metatomic"
  BY DEF MetatomicForce
<1>2. ~(\E g : call' = Thrown(call.out, g))
  BY ThrownCall
<1>3. call' = Computed(Averaged(Current))
  BY <1>2 DEF MetatomicForce
<1>4. Len(Species(Current)) = Len(Current.types)
  BY <1>1 DEF Species, ObjInv
<1>5. Species(Current) = Current.types \/ Species(Current) = obj.types
  BY DEF Species
<1>6. /\ Averaged(Current).types = Species(Current) /\ Averaged(Current).pos = Current.pos
      /\ Averaged(Current).box = Current.box /\ Averaged(Current).params = obj.params
      /\ Averaged(Current).orbital = obj.orbital /\ Averaged(Current).frames = Frames
  BY ResultFields DEF Averaged
<1>7. Own(Current, Averaged(Current))
  BY <1>1, <1>4, <1>5, <1>6 DEF Own, Suits, DLoaded, Linked
<1> QED BY <1>3, <1>7

LEMMA UmaOwn ==
  ASSUME Shape, CauseInv, ObjInv, call.stage = "force", call.todo # {}, NEW f, UmaForce(f),
         UNCHANGED <<family, package>>, call'.stage = "force"
  PROVE  \E results : /\ DOMAIN results \subseteq call.todo /\ call' = Filled(results)
                      /\ \A i \in DOMAIN results : Own(call.batch[i], results[i])
<1> DEFINE results == [i \in Band |-> UmaResult(call.batch[i])]
<1>1. family = "uma"
  BY DEF UmaForce
<1>2. ~(\E g : call' = Thrown(call.out, g))
  BY ThrownCall
<1>3. /\ call' = Filled(results)
      /\ ~f /\ (obj.ready \/ package.readable) /\ Uniform /\ Matches(Current)
  BY <1>2 DEF UmaForce
<1>4. /\ Turn \in call.todo /\ call.todo \subseteq call.misses
  BY TurnIsDue DEF Shape, CallShape, NoCall
<1>5. Band \subseteq call.todo /\ \A i \in Band : call.batch[i].types = Current.types
  BY <1>3, <1>4 DEF Band, Uniform, Current
<1>6. package.readable => obj.params = package.param /\ Composed(Current.types, package.types)
  <2>1. ASSUME package.readable
        PROVE  obj'.contract # {}
    BY <1>3, <2>1 DEF UmaForce, EnsureLoaded, Contract, Shape, ObjShape, ObjInv
  <2>2. \A c \in obj'.contract : c = [types |-> package.types, param |-> package.param]
    BY UmaCause
  <2> QED BY <1>3, <2>1, <2>2 DEF Matches
<1>7. ASSUME NEW i \in Band
      PROVE  Own(call.batch[i], UmaResult(call.batch[i]))
  <2> DEFINE s == call.batch[i]
             r == UmaResult(s)
  <2>1. /\ r.types = s.types /\ r.pos = s.pos /\ r.params = obj.params /\ r.orbital = obj.orbital
        /\ r.box = s.box \/ package.cube
    BY ResultFields DEF UmaResult
  <2>2. s.types = Current.types
    BY <1>5, <1>7
  <2>3. package.readable => r.params = package.param /\ Composed(s.types, package.types)
    BY <1>6, <2>1, <2>2
  <2> HIDE DEF s, r
  <2>4. Own(s, r)
    BY <1>1, <2>1, <2>3 DEF Own, Suits
  <2> QED BY <2>4 DEF s, r
<1>8. DOMAIN results = Band /\ \A i \in Band : results[i] = UmaResult(call.batch[i])
  OBVIOUS
<1> HIDE DEF results
<1> QED BY <1>3, <1>5, <1>7, <1>8

LEMMA DlopenOwn ==
  ASSUME Shape, ObjInv, call.stage = "force", call.todo # {}, NEW f, DlopenForce(f),
         call'.stage = "force"
  PROVE  \E r : call' = Computed(r) /\ Own(Current, r)
<1>1. family \in DLoaded
  BY DEF DlopenForce
<1>2. ~(\E g : call' = Thrown(call.out, g))
  BY ThrownCall
<1>3. CASE family = "cpmd"
  <2>1. PICK o \in obj.session :
          call' = Computed([Result(Current.types, Current, o.params)
                              EXCEPT !.orbital = OrbitalNamed(o).orbital])
    BY <1>2, <1>3, Zenon DEF DlopenForce
  <2>2. o.params = obj.params /\ (obj.orbital # None => OrbitalNamed(o).orbital = obj.orbital)
    BY <2>1 DEF ObjInv, OrbitalNamed
  <2> DEFINE r == [Result(Current.types, Current, o.params)
                     EXCEPT !.orbital = OrbitalNamed(o).orbital]
  <2>3. /\ r.types = Current.types /\ r.pos = Current.pos /\ r.box = Current.box
        /\ r.params = o.params
        /\ r.orbital = OrbitalNamed(o).orbital
    BY ResultFields
  <2>4. Own(Current, r)
    <3> HIDE DEF r
    <3> QED BY <1>3, <2>2, <2>3 DEF Own, Suits
  <2> QED BY <2>1, <2>4
<1>4. CASE family # "cpmd"
  <2>1. call' = Computed(Result(Current.types, Current, obj.params))
    BY <1>2, <1>4 DEF DlopenForce
  <2>2. Own(Current, Result(Current.types, Current, obj.params))
    BY <1>1, ResultFields DEF Own, Suits, DLoaded
  <2> QED BY <2>1, <2>2
<1> QED BY <1>3, <1>4

LEMMA ComputeOwn ==
  ASSUME Shape, CauseInv, ObjInv, Compute, call'.stage = "force"
  PROVE  \E results : /\ DOMAIN results \subseteq call.todo /\ call' = Filled(results)
                      /\ \A i \in DOMAIN results : Own(call.batch[i], results[i])
<1>1. /\ call.stage = "force" /\ call.todo # {} /\ UNCHANGED <<family, package>>
      /\ Turn \in call.todo
  BY ComputeCases, TurnIsDue
<1>2. ASSUME NEW r, call' = Computed(r), Own(Current, r)
      PROVE  \E results : /\ DOMAIN results \subseteq call.todo /\ call' = Filled(results)
                          /\ \A i \in DOMAIN results : Own(call.batch[i], results[i])
  <2> DEFINE results == [i \in {Turn} |-> r]
  <2>1. DOMAIN results = {Turn} /\ results[Turn] = r /\ call' = Filled(results)
    BY <1>2 DEF Computed
  <2>2. Own(call.batch[Turn], r)
    BY <1>2 DEF Current
  <2> HIDE DEF results
  <2> QED BY <1>1, <2>1, <2>2
<1>3. ASSUME NEW f, MetatomicForce(f) \/ DlopenForce(f)
      PROVE  \E r : call' = Computed(r) /\ Own(Current, r)
  BY <1>1, <1>3, MetatomicOwn, DlopenOwn
<1>4. ASSUME NEW at, XtbForce(at) \/ TbliteForce(at) \/ DftdForce(at)
      PROVE  \E r : call' = Computed(r) /\ Own(Current, r)
  BY <1>1, <1>4, XtbOwn, TbliteOwn, DftdOwn
<1>5. ASSUME NEW f, UmaForce(f)
      PROVE  \E results : /\ DOMAIN results \subseteq call.todo /\ call' = Filled(results)
                          /\ \A i \in DOMAIN results : Own(call.batch[i], results[i])
  BY <1>1, <1>5, UmaOwn
<1>6. \/ \E r : call' = Computed(r) /\ Own(Current, r)
      \/ \E f : UmaForce(f)
  BY <1>3, <1>4, ComputeCases, Zenon
<1> QED BY <1>2, <1>5, <1>6

-----------------------------------------------------------------------------
(* What an object was asked for                                            *)

Known(r) == r.types \in asked.types /\ r.params \in asked.params

\* An object keeps no other species, and neither it nor its cache has results for
\* other ones, or for other parameters.
AskedInv ==
  /\ asked.types \subseteq Seq(Nat)
  /\ obj.types \in asked.types \/ (obj.types = << >> /\ (family \in Linked => ~obj.ready))
  /\ call.stage = "force" =>
       /\ call.batch \in Seq(Systems)
       /\ obj.params \in asked.params
       /\ \A i \in DOMAIN call.batch :
            call.batch[i].types \in asked.types /\ \A r \in call.out[i].E : Known(r)
  /\ cached => \A k \in DOMAIN cache : Known(cache[k])

LEMMA OwnKnown ==
  ASSUME AskedInv, call.stage = "force", NEW i \in DOMAIN call.batch, NEW r,
         Own(call.batch[i], r)
  PROVE  Known(r)
<1> DEFINE s == call.batch[i]
<1>1. /\ s.types \in asked.types /\ s.types \in Seq(Nat)
      /\ obj.params \in asked.params /\ r.params = obj.params
  BY DEF AskedInv, Own
<1>2. CASE r.types \in {s.types} \cup asked.types
  BY <1>1, <1>2 DEF Known
<1>3. CASE r.types \notin {s.types} \cup asked.types
  <2>1. /\ r.types = obj.types /\ (family \in Linked => obj.ready)
        /\ obj.types = << >> /\ (family \in Linked => ~obj.ready)
    BY <1>3 DEF Own, AskedInv
  <2>2. Len(r.types) = Len(s.types)
    BY <2>1 DEF Own, Suits, Linked
  <2>3. s.types = r.types
    BY <1>1, <2>1, <2>2
  <2> QED BY <1>3, <2>3
<1> QED BY <1>2, <1>3

\* The species that an object keeps are those of a call.
LEMMA ComputeSpecies ==
  ASSUME Shape, Compute
  PROVE  \/ obj'.types = Current.types
         \/ obj'.types = obj.types /\ (family \in Linked => obj'.ready = obj.ready)
<1>1. ASSUME NEW at, XtbForce(at)
      PROVE  obj'.types = Current.types \/ (obj'.types = obj.types /\ obj'.ready = obj.ready)
  BY <1>1 DEF XtbForce, Shape, ObjShape
<1>2. ASSUME NEW at, TbliteForce(at)
      PROVE  obj'.types = Current.types \/ (obj'.types = obj.types /\ obj'.ready = obj.ready)
  BY <1>2 DEF TbliteForce, Shape, ObjShape
<1>3. ASSUME NEW at, DftdForce(at)
      PROVE  obj'.types = Current.types \/ (obj'.types = obj.types /\ obj'.ready = obj.ready)
  BY <1>3 DEF DftdForce, Shape, ObjShape
<1>4. ASSUME NEW f, MetatomicForce(f)
      PROVE  obj'.types \in {Current.types, obj.types} /\ family \notin Linked
  BY <1>4 DEF MetatomicForce, Species, Shape, ObjShape, Linked
<1>5. ASSUME NEW f, UmaForce(f)
      PROVE  obj'.types = obj.types /\ family \notin Linked
  BY <1>5 DEF UmaForce, EnsureLoaded, Shape, ObjShape, Linked
<1>6. ASSUME NEW f, DlopenForce(f)
      PROVE  obj'.types = obj.types /\ family \notin Linked
  <2>1. obj' = obj \/ \E o : obj' = [obj EXCEPT !.session = {o}]
    BY <1>6, Zenon DEF DlopenForce
  <2>2. family \in DLoaded /\ DOMAIN obj = DOMAIN Gone
    BY <1>6 DEF DlopenForce, Shape, ObjShape, Gone
  <2> QED BY <2>1, <2>2 DEF DLoaded, Linked, Gone
<1> QED BY <1>1, <1>2, <1>3, <1>4, <1>5, <1>6, ComputeCases, Zenon

LEMMA ComputeAsked ==
  ASSUME Shape, CauseInv, ObjInv, AskedInv, Compute
  PROVE  AskedInv'
<1>1. /\ call.stage = "force" /\ UNCHANGED <<family, cached, cache, asked>>
      /\ Current.types \in asked.types /\ obj'.params = obj.params
  BY ComputeCases, ComputeObj, TurnIsDue DEF AskedInv, Current
<1>2. obj'.types \in asked.types
      \/ (obj'.types = << >> /\ (family \in Linked => obj'.ready = FALSE))
  <2>1. obj.ready \in BOOLEAN
    BY DEF Shape, ObjShape
  <2> QED BY <1>1, <2>1, ComputeSpecies DEF AskedInv
<1>3. \A r : Known(r) => Known(r)'
  BY <1>1 DEF Known
<1>4. cached => \A k \in DOMAIN cache : Known(cache[k])'
  BY <1>1, <1>3 DEF AskedInv
<1>5. CASE call'.stage = "force"
  <2>1. PICK results : /\ DOMAIN results \subseteq call.todo /\ call' = Filled(results)
                       /\ \A i \in DOMAIN results : Own(call.batch[i], results[i])
    BY <1>5, ComputeOwn
  <2>2. /\ call'.batch = call.batch
        /\ call'.out = [i \in DOMAIN call.out |->
                          IF i \in DOMAIN results THEN Both(results[i]) ELSE call.out[i]]
    BY <1>1, <2>1, FilledCall
  <2>3. DOMAIN call.out = DOMAIN call.batch /\ call.todo \subseteq DOMAIN call.batch
    BY <1>1 DEF Shape, CallShape, BuffersShape, NoCall
  <2>4. ASSUME NEW i \in DOMAIN call.batch, NEW r \in call'.out[i].E
        PROVE  Known(r)
    <3>1. CASE i \in DOMAIN results
      <4>1. r = results[i]
        BY <2>2, <2>3, <2>4, <3>1 DEF Both
      <4> QED BY <1>1, <2>1, <3>1, <4>1, OwnKnown
    <3>2. CASE i \notin DOMAIN results
      BY <1>1, <2>2, <2>3, <2>4, <3>2 DEF AskedInv
    <3> QED BY <3>1, <3>2
  <2>5. \A i \in DOMAIN call.batch : \A r \in call'.out[i].E : Known(r)'
    BY <1>3, <2>4
  <2> QED BY <1>1, <1>2, <1>4, <2>2, <2>5 DEF AskedInv
<1>6. CASE call'.stage # "force"
  BY <1>1, <1>2, <1>4, <1>6 DEF AskedInv
<1> QED BY <1>5, <1>6

LEMMA GreatestNat ==
  ASSUME NEW n \in Nat, NEW T \in SUBSET (1 .. n), T # {}
  PROVE  \E x \in T : \A y \in T : x >= y
<1> DEFINE U == {u \in Nat : n - u \in T}
<1>1. \A x \in T : x \in Nat /\ x <= n
  OBVIOUS
<1>2. \A x \in T : n - x \in Nat /\ n - (n - x) = x
  BY <1>1
<1>3. \A x \in T : n - x \in U
  BY <1>2
<1>4. U \in SUBSET Nat /\ U # {} /\ \A u \in U : u \in Nat /\ n - u \in T
  BY <1>3
<1> HIDE DEF U
<1>5. PICK u \in U : \A v \in U : u <= v
  BY <1>4, LeastNat
<1>6. n - u \in T /\ u \in Nat
  BY <1>4, <1>5
<1>7. ASSUME NEW y \in T
      PROVE  n - u >= y
  <2>1. u <= n - y /\ n - y \in Nat /\ y \in Nat
    BY <1>1, <1>2, <1>3, <1>5, <1>7
  <2> QED BY <1>6, <2>1
<1> QED BY <1>6, <1>7

\* What is in the cache after a call: what was there, and results of the call.
LEMMA StoredIs ==
  ASSUME Shape, BuffersInv, AskedInv, Return, NEW k \in DOMAIN cache'
  PROVE  \/ k \in DOMAIN cache /\ cache'[k] = cache[k]
         \/ cached /\ \E i \in DOMAIN call.batch :
                        k = CacheKey(call.batch[i]) /\ cache'[k] \in call.out[i].E
<1> DEFINE new  == IF cached /\ call.via \in {"operator", "batch"} THEN call.misses ELSE {}
           keys == {CacheKey(call.batch[i]) : i \in new}
           at(l) == {i \in new : CacheKey(call.batch[i]) = l}
           last == [l \in keys |-> Max(at(l))]
           kept(l) == CHOOSE r \in call.out[last[l]].E : TRUE
<1>1. /\ call.stage = "force" /\ call.todo = {}
      /\ cache' = [l \in DOMAIN cache \cup keys |-> IF l \in keys THEN kept(l) ELSE cache[l]]
  BY DEF Return, Stored
<1>2. /\ k \in keys => cache'[k] = kept(k)
      /\ k \notin keys => k \in DOMAIN cache /\ cache'[k] = cache[k]
  <2> HIDE DEF keys, kept
  <2> QED BY <1>1
<1>3. /\ call.batch \in Seq(Systems) /\ call.misses \subseteq DOMAIN call.batch
      /\ new \subseteq DOMAIN call.batch
  <2>1. call.batch \in Seq(Systems)
    BY <1>1 DEF AskedInv
  <2>2. call.misses \subseteq DOMAIN call.batch
    <3>1. call # NoCall
      <4>1. call.stage = "force"
        BY <1>1
      <4> HIDE <1>1
      <4> QED BY <4>1 DEF NoCall
    <3> QED BY <3>1 DEF Shape, CallShape
  <2> QED BY <2>1, <2>2
<1>4. CASE k \in keys
  <2>1. at(k) # {} /\ at(k) \subseteq new
    BY <1>4
  <2>2. at(k) \in SUBSET (1 .. Len(call.batch)) /\ Len(call.batch) \in Nat
    BY <1>3, <2>1
  <2>3. \E x \in at(k) : \A y \in at(k) : x >= y
    <3> HIDE DEF at
    <3> QED BY <2>1, <2>2, GreatestNat
  <2>4. Max(at(k)) \in at(k)
    <3> HIDE DEF at
    <3> QED BY <2>3, Zenon DEF Max
  <2>5. PICK i : i = Max(at(k)) /\ i \in new /\ CacheKey(call.batch[i]) = k
    BY <2>4
  <2>6. last[k] = i
    <3> HIDE DEF at, keys
    <3> QED BY <1>4, <2>5
  <2>7. i \in DOMAIN call.batch /\ cached
    BY <1>3, <2>5
  <2>8. call.out[i].E # {}
    BY <1>1, <2>7 DEF BuffersInv
  <2>9. cache'[k] \in call.out[i].E
    <3>1. cache'[k] = CHOOSE r \in call.out[i].E : TRUE
      <4>1. cache'[k] = kept(k)
        <5> HIDE DEF keys, kept
        <5> QED BY <1>2, <1>4, Zenon
      <4> HIDE DEF last
      <4> QED BY <2>6, <4>1
    <3> QED BY <2>8, <3>1
  <2> QED BY <2>5, <2>7, <2>9
<1> QED BY <1>2, <1>4

LEMMA ReturnAsked ==
  ASSUME Shape, BuffersInv, AskedInv, Return
  PROVE  AskedInv'
<1>1. /\ call.stage = "force" /\ call'.stage = "done"
      /\ UNCHANGED <<family, cached, obj, asked>>
  BY DEF Return, Shape, CallShape, NoCall
<1>2. ASSUME cached, NEW k \in DOMAIN cache'
      PROVE  Known(cache'[k])
  BY <1>1, <1>2, StoredIs DEF AskedInv
<1>3. \A r : Known(r) => Known(r)'
  BY <1>1 DEF Known
<1> QED BY <1>1, <1>2, <1>3 DEF AskedInv

\* Nothing computes, or what does goes on.
LEMMA IdleAsked ==
  ASSUME AskedInv, UNCHANGED <<family, cached, cache, asked>>,
         obj'.types = obj.types, obj'.ready = obj.ready,
         call' = NoCall \/ (call' = call /\ obj' = obj)
  PROVE  AskedInv'
<1>1. \A r : Known(r) => Known(r)'
  BY DEF Known
<1>2. cached => \A k \in DOMAIN cache : Known(cache[k])'
  BY <1>1 DEF AskedInv
<1>3. CASE call' = NoCall
  BY <1>2, <1>3 DEF AskedInv, NoCall
<1>4. CASE call' = call /\ obj' = obj
  BY <1>1, <1>2, <1>4 DEF AskedInv
<1> QED BY <1>3, <1>4

LEMMA NewAsked ==
  ASSUME AskedInv, obj' = Gone \/ (\E p : obj' = NewObject(p)), call' = NoCall,
         UNCHANGED <<family, cached, cache>>,
         asked' = asked \/ (~cached /\ asked' = Nothing)
  PROVE  AskedInv'
<1>1. obj'.types = << >> /\ obj'.ready = FALSE
  <2>1. ASSUME NEW p, obj' = NewObject(p)
        PROVE  obj'.types = << >> /\ obj'.ready = FALSE
    BY <2>1, Zenon DEF Gone, NewObject
  <2>2. Gone.types = << >> /\ Gone.ready = FALSE
    BY DEF Gone
  <2> QED BY <2>1, <2>2
<1>2. asked'.types \subseteq Seq(Nat)
  BY DEF AskedInv, Nothing
<1>3. cached => \A k \in DOMAIN cache : Known(cache[k])'
  BY DEF AskedInv, Known
<1> QED BY <1>1, <1>2, <1>3 DEF AskedInv, NoCall

LEMMA FreshAsked ==
  ASSUME AskedInv, NEW via, NEW batch \in Seq(Systems), call' = Fresh(via, batch),
         asked' = Asked(batch), UNCHANGED <<family, cached, cache, obj>>
  PROVE  AskedInv'
<1>1. /\ asked'.types = asked.types \cup {s.types : s \in Range(batch)}
      /\ asked'.params = asked.params \cup {obj.params}
  BY DEF Asked
<1>2. \A i \in DOMAIN batch : batch[i] \in Range(batch) /\ batch[i] \in Systems
  BY DEF Range
<1>3. \A s \in Range(batch) : s.types \in Seq(Nat)
  BY AdapterAssumption DEF Range, Systems
<1>4. \A r : Known(r) => Known(r)'
  BY <1>1 DEF Known
<1>5. cached => \A k \in DOMAIN cache : Known(cache[k])'
  BY <1>4 DEF AskedInv
<1>6. ASSUME NEW i \in DOMAIN batch, NEW r \in call'.out[i].E
      PROVE  Known(r)'
  <2>1. Hit(via, batch[i]) /\ r = cache[CacheKey(batch[i])]
    BY <1>6 DEF Fresh, Both, Old
  <2> QED BY <1>5, <2>1 DEF Hit
<1>7. call'.batch = batch
  BY DEF Fresh
<1> QED BY <1>1, <1>2, <1>3, <1>5, <1>6, <1>7 DEF AskedInv

-----------------------------------------------------------------------------
(* The cache, and what a caller gets                                       *)

\* What is in the cache answers the system that its key is of, under the parameters
\* that the key is of.
CachedFor(k, s, p) ==
  /\ k = Key(s, KeyOf(p))
  /\ Suits(s, cache[k])
  /\ family \in Keyed => cache[k].params = p

CacheInv == \A k \in DOMAIN cache : \E s \in Systems : \E p : CachedFor(k, s, p)

\* While a call computes, what it has is an answer to the caller.
FitInv ==
  /\ call.stage = "force" =>
       \A i \in DOMAIN call.batch : \A r \in call.out[i].E :
         /\ Suits(call.batch[i], r)
         /\ ~cached \/ family \in Keyed => r.params = obj.params
         /\ obj.orbital # None /\ i \in call.misses => r.orbital = obj.orbital
  /\ CacheInv
  /\ AnswerFits

LEMMA SuitsKept ==
  ASSUME NEW s, NEW r, UNCHANGED <<family, package>>, Suits(s, r)
  PROVE  Suits(s, r)'
BY DEF Suits, Frames

LEMMA CacheKept ==
  ASSUME CacheInv, UNCHANGED <<family, package, cache>>
  PROVE  CacheInv'
<1>1. ASSUME NEW k, NEW s, NEW p, CachedFor(k, s, p)
      PROVE  CachedFor(k, s, p)'
  BY <1>1 DEF CachedFor, Suits, Frames, Key, KeyOf
<1> QED BY <1>1 DEF CacheInv

LEMMA FilledFit ==
  ASSUME Shape, call.stage = "force", FitInv, UNCHANGED <<family, package, cached, cache>>,
         obj'.params = obj.params, obj'.orbital = obj.orbital,
         NEW results, DOMAIN results \subseteq call.todo, call' = Filled(results),
         \A i \in DOMAIN results : Own(call.batch[i], results[i])
  PROVE  FitInv'
<1>1. /\ call'.stage = "force" /\ call'.batch = call.batch /\ call'.misses = call.misses
      /\ call'.out = [i \in DOMAIN call.out |->
                        IF i \in DOMAIN results THEN Both(results[i]) ELSE call.out[i]]
  BY FilledCall
<1>2. DOMAIN call.out = DOMAIN call.batch
  BY DEF Shape, CallShape, BuffersShape, NoCall
<1>3. ASSUME NEW i \in DOMAIN call.batch, NEW r \in call'.out[i].E
      PROVE  /\ Suits(call.batch[i], r)
             /\ ~cached \/ family \in Keyed => r.params = obj.params
             /\ obj.orbital # None /\ i \in call.misses => r.orbital = obj.orbital
  <2>1. CASE i \in DOMAIN results
    <3>1. r = results[i]
      BY <1>1, <1>2, <2>1 DEF Both
    <3> QED BY <2>1, <3>1 DEF Own
  <2>2. CASE i \notin DOMAIN results
    <3>1. call'.out[i] = call.out[i]
      BY <1>1, <1>2, <2>2
    <3> QED BY <3>1 DEF FitInv
  <2> QED BY <2>1, <2>2
<1>4. \A s, r : Suits(s, r) => Suits(s, r)'
  BY SuitsKept
<1>5. CacheInv'
  BY CacheKept DEF FitInv
<1>6. AnswerFits'
  BY <1>1 DEF AnswerFits
<1>7. UNCHANGED <<family, cached>> /\ obj'.params = obj.params /\ obj'.orbital = obj.orbital
  OBVIOUS
<1>8. ASSUME NEW i \in DOMAIN call'.batch, NEW r \in call'.out[i].E
      PROVE  /\ Suits(call.batch[i], r)'
             /\ ~cached' \/ family' \in Keyed => r.params = obj'.params
             /\ obj'.orbital # None /\ i \in call'.misses => r.orbital = obj'.orbital
  <2>1. i \in DOMAIN call.batch /\ call'.batch[i] = call.batch[i] /\ call'.misses = call.misses
    BY <1>1
  <2>2. PICK s : s = call.batch[i]
    OBVIOUS
  <2>3. /\ Suits(s, r)
        /\ ~cached \/ family \in Keyed => r.params = obj.params
        /\ obj.orbital # None /\ i \in call.misses => r.orbital = obj.orbital
    BY <1>3, <2>1, <2>2
  <2>4. Suits(s, r)'
    BY <1>4, <2>3
  <2>5. Suits(call.batch[i], r)'
    BY <2>1, <2>2, <2>4
  <2> QED BY <1>7, <2>1, <2>3, <2>5
<1> QED BY <1>5, <1>6, <1>8, Zenon DEF FitInv

\* A hit is of this system, under these parameters if the adapter has a fingerprint.
LEMMA HitFits ==
  ASSUME cached => PartsDistinct, ObjInv, obj.live, CacheInv, NEW via, NEW s \in Systems, Hit(via, s)
  PROVE  /\ Suits(s, cache[CacheKey(s)])
         /\ cached
         /\ family \in Keyed => cache[CacheKey(s)].params = obj.params
<1>1. CacheKey(s) \in DOMAIN cache /\ cached /\ PartsDistinct
  BY DEF Hit
<1>2. PICK t \in Systems : \E p : CachedFor(CacheKey(s), t, p)
  BY <1>1 DEF CacheInv
<1>3. PICK p : CachedFor(CacheKey(s), t, p)
  BY <1>2
<1>4. Key(s, KeyOf(obj.params)) = Key(t, KeyOf(p))
  BY <1>3, CacheKeyIs DEF CachedFor, ObjInv
<1>5. s.pos = t.pos /\ s.box = t.box /\ s.types = t.types /\ KeyOf(obj.params) = KeyOf(p)
  BY <1>1, <1>4, KeysApart
<1>6. Suits(s, cache[CacheKey(s)])
  BY <1>3, <1>5 DEF CachedFor, Suits
<1>7. family \in Keyed => cache[CacheKey(s)].params = obj.params
  BY <1>3, <1>5 DEF CachedFor, KeyOf
<1> QED BY <1>1, <1>6, <1>7

LEMMA FreshFit ==
  ASSUME cached => PartsDistinct, ObjInv, obj.live, FitInv, NEW via, NEW batch \in Seq(Systems),
         call' = Fresh(via, batch), UNCHANGED <<family, package, cached, cache, obj>>
  PROVE  FitInv'
<1> DEFINE misses == {i \in DOMAIN batch : ~Hit(via, batch[i])}
<1>1. /\ call'.stage = "force" /\ call'.batch = batch /\ call'.misses = misses
      /\ call'.out = [i \in DOMAIN batch |->
                        IF i \in misses THEN Old ELSE Both(cache[CacheKey(batch[i])])]
  BY DEF Fresh
<1>2. ASSUME NEW i \in DOMAIN batch, NEW r \in call'.out[i].E
      PROVE  /\ Suits(batch[i], r)
             /\ ~cached \/ family \in Keyed => r.params = obj.params
             /\ i \notin misses
  <2>1. i \notin misses /\ r = cache[CacheKey(batch[i])]
    BY <1>1, <1>2 DEF Both, Old
  <2>2. Hit(via, batch[i]) /\ batch[i] \in Systems
    BY <2>1
  <2> QED BY <2>1, <2>2, HitFits DEF FitInv
<1>3. \A s, r : Suits(s, r) => Suits(s, r)'
  BY SuitsKept
<1>4. CacheInv'
  BY CacheKept DEF FitInv
<1>5. AnswerFits'
  BY <1>1 DEF AnswerFits
<1> HIDE DEF misses
<1> QED BY <1>1, <1>2, <1>3, <1>4, <1>5 DEF FitInv

\* What returns is in the buffers of the caller and, if there is one, in the cache.
LEMMA StoredFit ==
  ASSUME Shape, obj.live, BuffersInv, ObjInv, AskedInv, FitInv, Return
  PROVE  CacheInv'
<1>1. call.stage = "force" /\ UNCHANGED <<family, package>>
  BY DEF Return
<1>2. ASSUME NEW k \in DOMAIN cache'
      PROVE  \E s \in Systems : \E p : k = Key(s, KeyOf(p)) /\ Suits(s, cache'[k])
                                  /\ (family \in Keyed => cache'[k].params = p)
  <2>1. CASE k \in DOMAIN cache /\ cache'[k] = cache[k]
    BY <2>1 DEF FitInv, CacheInv, CachedFor
  <2>2. ASSUME NEW i \in DOMAIN call.batch, k = CacheKey(call.batch[i]),
               cache'[k] \in call.out[i].E
        PROVE  \E s \in Systems : \E p : k = Key(s, KeyOf(p)) /\ Suits(s, cache'[k])
                                    /\ (family \in Keyed => cache'[k].params = p)
    <3>1. call.batch[i] \in Systems
      BY <1>1 DEF AskedInv
    <3>2. Suits(call.batch[i], cache'[k]) /\ (family \in Keyed => cache'[k].params = obj.params)
      BY <1>1, <2>2 DEF FitInv
    <3>3. k = Key(call.batch[i], KeyOf(obj.params))
      BY <2>2, CacheKeyIs DEF ObjInv
    <3> QED BY <3>1, <3>2, <3>3
  <2> QED BY <1>2, <2>1, <2>2, StoredIs
<1>3. ASSUME NEW k, NEW s, NEW p, NEW v, cache'[k] = v,
             k = Key(s, KeyOf(p)), Suits(s, v), family \in Keyed => v.params = p
      PROVE  CachedFor(k, s, p)'
  BY <1>1, <1>3 DEF CachedFor, Key, KeyOf, Suits, Frames
<1>4. ASSUME NEW k \in DOMAIN cache'
      PROVE  \E s \in Systems : \E p : CachedFor(k, s, p)'
  BY <1>2, <1>3, <1>4
<1> QED BY <1>4, Zenon DEF CacheInv

LEMMA ReturnFit ==
  ASSUME Shape, obj.live, BuffersInv, ObjInv, AskedInv, FitInv, Return
  PROVE  FitInv'
<1>1. /\ call.stage = "force" /\ call.todo = {} /\ UNCHANGED <<family, package, cached, obj, asked>>
      /\ call'.stage = "done" /\ call'.batch = call.batch /\ call'.misses = call.misses
      /\ call'.seen = call.out
  BY DEF Return, Shape, CallShape, NoCall
<1>2. ASSUME NEW i \in DOMAIN call.batch
      PROVE  /\ call.out[i].E # {} /\ call.out[i].F = call.out[i].E
             /\ \A r \in call.out[i].E : Fits(i, r)
  <2>1. call.out[i].E # {} /\ call.out[i].F = call.out[i].E
    BY <1>1, <1>2 DEF BuffersInv
  <2>2. ASSUME NEW r \in call.out[i].E
        PROVE  Fits(i, r)
    <3>1. /\ Suits(call.batch[i], r) /\ Known(r)
          /\ call.batch[i].types \in asked.types /\ obj.params \in asked.params
          /\ ~cached \/ family \in Keyed => r.params = obj.params
          /\ obj.orbital # None /\ i \in call.misses => r.orbital = obj.orbital
      BY <1>1 DEF FitInv, AskedInv
    <3>2. ~SpeciesMixed => r.types = call.batch[i].types
      BY <3>1 DEF SpeciesMixed, Suits, Known, Shape, Family, Linked
    <3>3. ~ParamsMixed => r.params = obj.params
      BY <3>1 DEF ParamsMixed, Known
    <3> QED BY <3>1, <3>2, <3>3, RotationGroupsClosed DEF Fits, Suits
  <2> QED BY <2>1, <2>2
<1>3. \A i \in DOMAIN call.batch : \A r : Fits(i, r) => Fits(i, r)'
  BY <1>1 DEF Fits, Frames, SpeciesMixed, ParamsMixed
<1>4. AnswerFits'
  BY <1>1, <1>2, <1>3 DEF AnswerFits
<1>5. CacheInv'
  BY StoredFit
<1> QED BY <1>1, <1>4, <1>5 DEF FitInv

\* Nothing computes: the cache is what there is to keep.
LEMMA IdleFit ==
  ASSUME FitInv, call' = NoCall, UNCHANGED <<family, package, cache>>
  PROVE  FitInv'
<1>1. CacheInv'
  BY CacheKept DEF FitInv
<1> QED BY <1>1 DEF FitInv, AnswerFits, NoCall

LEMMA SameFit ==
  ASSUME FitInv, UNCHANGED <<family, package, cached, obj, cache, call, asked>>
  PROVE  FitInv'
<1>1. CacheInv'
  BY CacheKept DEF FitInv
<1>2. \A s, r : Suits(s, r) => Suits(s, r)'
  BY SuitsKept
<1>3. AnswerFits'
  <2>1. AnswerFits
    BY DEF FitInv
  <2>2. \A i, r : Fits(i, r) => Fits(i, r)'
    BY DEF Fits, Frames, SpeciesMixed, ParamsMixed
  <2> QED BY <2>1, <2>2 DEF AnswerFits
<1> QED BY <1>1, <1>2, <1>3 DEF FitInv

LEMMA ComputeFit ==
  ASSUME Shape, CauseInv, obj.live, ObjInv, FitInv, Compute
  PROVE  FitInv'
<1>1. /\ call.stage = "force" /\ UNCHANGED <<family, package, cached, cache>>
      /\ obj'.params = obj.params /\ obj'.orbital = obj.orbital
  BY ComputeCases, ComputeObj
<1>2. CASE call'.stage = "force"
  <2>1. PICK results : /\ DOMAIN results \subseteq call.todo /\ call' = Filled(results)
                       /\ \A i \in DOMAIN results : Own(call.batch[i], results[i])
    BY <1>1, <1>2, ComputeOwn
  <2> QED BY <1>1, <2>1, FilledFit
<1>3. CASE call'.stage # "force"
  <2>1. call'.stage = "threw"
    BY <1>1, <1>3, ComputeCalls, ThrownCall, FilledCall
  <2>2. CacheInv'
    BY <1>1, CacheKept DEF FitInv
  <2> QED BY <2>1, <2>2 DEF FitInv, AnswerFits
<1> QED BY <1>2, <1>3

\* A request that the server works on: numbers as the atoms say, units with a factor.
Taken(r) ==
  /\ r.op = "calculate" /\ ~r.ragged
  /\ NoFactor \notin {Factors(r).length, Factors(r).energy}

\* A client has sent nothing, or one of its requests; the one that is served has
\* not got its answer, and what runs is the call for its system.
ClientInv ==
  /\ DOMAIN client = Client
  /\ \A c \in Client :
       \/ client[c] = Idle
       \/ /\ DOMAIN client[c] = {"stage", "request", "answer"}
          /\ client[c].stage \in {"sent", "answered"}
          /\ client[c].request \in Request(c)
  /\ serving \in Client \cup {None}
  /\ server.state # "down" => host = "potserv"
  /\ server.state # "up" => serving = None
  /\ serving # None =>
       /\ client[serving].stage = "sent" /\ Taken(Sent(serving))
       /\ call.stage # "none" /\ call.batch = <<Sent(serving).system>>

LEMMA AnsweredClient ==
  ASSUME ClientInv, NEW c \in Client, client[c].stage = "sent", NEW a, Answered(c, a)
  PROVE  /\ DOMAIN client' = Client /\ \A d \in Client : d # c => client'[d] = client[d]
         /\ DOMAIN client'[c] = {"stage", "request", "answer"}
         /\ client'[c].stage = "answered" /\ client'[c].request = client[c].request
         /\ client'[c].answer = a
<1>1. DOMAIN client = Client /\ DOMAIN client[c] = {"stage", "request", "answer"}
  BY DEF ClientInv, Idle
<1> QED BY <1>1 DEF Answered

\* A request that is answered while it is served, or while nothing is.
LEMMA AnswerKeeps ==
  ASSUME ClientInv, NEW c \in Client, client[c].stage = "sent", NEW a, Answered(c, a),
         UNCHANGED <<host, server>>, serving' = None
  PROVE  ClientInv'
<1>1. /\ DOMAIN client' = Client /\ \A d \in Client : d # c => client'[d] = client[d]
      /\ DOMAIN client'[c] = {"stage", "request", "answer"}
      /\ client'[c].stage = "answered" /\ client'[c].request = client[c].request
  BY AnsweredClient
<1>2. client[c].request \in Request(c) /\ client[c] # Idle
  BY DEF ClientInv, Idle
<1>3. ASSUME NEW d \in Client
      PROVE  \/ client'[d] = Idle
             \/ /\ DOMAIN client'[d] = {"stage", "request", "answer"}
                /\ client'[d].stage \in {"sent", "answered"}
                /\ client'[d].request \in Request(d)
  BY <1>1, <1>2 DEF ClientInv
<1> QED BY <1>1, <1>3 DEF ClientInv

\* A step of the engine is for the call that runs.
LEMMA EngineClient ==
  ASSUME Shape, ClientInv, Engine
  PROVE  ClientInv'
<1>1. UNCHANGED svars /\ (Compute \/ Return)
  BY DEF Engine
<1>2. call'.batch = call.batch /\ call'.stage # "none"
  <2>1. CASE Compute
    <3>1. call.stage = "force"
      BY <2>1, ComputeCases
    <3> QED BY <2>1, <3>1, ComputeCalls, ThrownCall, FilledCall
  <2>2. CASE Return
    BY <2>2 DEF Return, Shape, CallShape, NoCall
  <2> QED BY <1>1, <2>1, <2>2
<1> QED BY <1>1, <1>2 DEF svars, ClientInv, Sent, Taken, Factors

LEMMA RequestClient ==
  ASSUME Shape, ClientInv, NEW c \in Client, RequestStep(c)
  PROVE  ClientInv'
<1>1. CASE \E r \in Request(c) : Send(c, r)
  <2>1. PICK r \in Request(c) : Send(c, r)
    BY <1>1
  <2>2. /\ client[c].stage # "sent" /\ UNCHANGED <<host, server, serving, call>>
        /\ client' = [client EXCEPT ![c] = [stage |-> "sent", request |-> r, answer |-> Untold]]
    BY <2>1 DEF Send
  <2>3. serving # None => serving # c /\ client'[serving] = client[serving]
    BY <2>2 DEF ClientInv
  <2> QED BY <2>2, <2>3 DEF ClientInv, Sent
<1>2. CASE Refuse(c)
  <2>1. client[c].stage = "sent" /\ server.state # "up" /\ Answered(c, Failure)
        /\ UNCHANGED <<host, server, serving>>
    BY <1>2 DEF Refuse
  <2> QED BY <2>1, AnswerKeeps DEF ClientInv
<1>3. CASE \E fits \in BOOLEAN : ForeignReply(c, fits)
  <2>1. /\ client[c].stage = "sent" /\ host = "foreign" /\ \E a : Answered(c, a)
        /\ UNCHANGED <<host, server, serving>>
    BY <1>3, Zenon DEF ForeignReply
  <2>2. server.state = "down" /\ serving = None
    BY <2>1 DEF ClientInv
  <2> QED BY <2>1, <2>2, AnswerKeeps
<1>4. CASE Receive(c)
  <2>1. /\ server.state = "up" /\ serving = None /\ client[c].stage = "sent"
        /\ Sent(c).op = "calculate" /\ UNCHANGED <<host, server>>
        /\ \/ Answered(c, Failure) /\ serving' = serving
           \/ /\ ~(Sent(c).ragged \/ NoFactor \in {Factors(Sent(c)).length, Factors(Sent(c)).energy})
              /\ call' = Fresh("operator", <<Sent(c).system>>) /\ serving' = c /\ UNCHANGED client
    BY <1>4, Zenon DEF Receive
  <2>2. CASE Answered(c, Failure) /\ serving' = serving
    BY <2>1, <2>2, AnswerKeeps
  <2>3. CASE /\ ~(Sent(c).ragged \/ NoFactor \in {Factors(Sent(c)).length, Factors(Sent(c)).energy})
             /\ call' = Fresh("operator", <<Sent(c).system>>) /\ serving' = c /\ UNCHANGED client
    <3>1. call'.stage = "force" /\ call'.batch = <<Sent(c).system>>
      BY <2>3 DEF Fresh
    <3>2. Taken(Sent(c))
      BY <2>1, <2>3 DEF Taken
    <3> QED BY <2>1, <2>3, <3>1, <3>2 DEF ClientInv, Sent, Taken, Factors
  <2> QED BY <2>1, <2>2, <2>3
<1>5. CASE Reply(c)
  <2>1. /\ serving = c /\ (\E a : Answered(c, a)) /\ serving' = None /\ UNCHANGED <<host, server>>
    BY <1>5 DEF Reply
  <2>2. client[c].stage = "sent"
    BY <2>1, ServiceAssumption DEF ClientInv
  <2> QED BY <2>1, <2>2, AnswerKeeps
<1>6. CASE Configure(c)
  <2>1. /\ serving = None /\ client[c].stage = "sent" /\ (\E a : Answered(c, a))
        /\ UNCHANGED <<host, server, serving>>
    BY <1>6 DEF Configure
  <2> QED BY <2>1, AnswerKeeps
<1> QED BY <1>1, <1>2, <1>3, <1>4, <1>5, <1>6 DEF RequestStep

LEMMA ClientStep == Shape /\ HostInv /\ ClientInv /\ [Next]_vars => ClientInv'
<1> SUFFICES ASSUME Shape, HostInv, ClientInv, [Next]_vars PROVE ClientInv'
  OBVIOUS
<1>1. CASE UNCHANGED service \/ Convert
  BY <1>1 DEF service, avars, svars, Convert, ClientInv, Sent, Taken, Factors
<1>2. CASE host = "program" /\ Calls /\ UNCHANGED svars
  BY <1>2 DEF ClientInv, HostInv, svars
<1>3. CASE Engine
  BY <1>3, EngineClient
<1>4. CASE StartStep
  <2>1. /\ server.state = "down" /\ host = "potserv" /\ UNCHANGED <<host, client, serving>>
    BY <1>4 DEF StartStep, Start
  <2> QED BY <2>1 DEF ClientInv
<1>5. CASE Dies
  BY <1>5 DEF Dies, ClientInv, HostInv
<1>6. CASE \E c \in Client : RequestStep(c)
  BY <1>6, RequestClient
<1> QED BY <1>1, <1>2, <1>3, <1>4, <1>5, <1>6, StepCases

LEMMA ClientInit == Init => ClientInv
BY DEF Init, ClientInv

\* The systems that a program or a client asks for.
LEMMA BatchSystems ==
  ASSUME NEW b \in Batch
  PROVE  b \in Seq(Systems)
<1>1. b \in Seq(Range(b)) /\ Range(b) \subseteq Systems
  BY AdapterAssumption DEF Systems
<1> QED BY <1>1

LEMMA SentSystem ==
  ASSUME ClientInv, NEW c \in Client, client[c].stage = "sent", Sent(c).op = "calculate"
  PROVE  <<Sent(c).system>> \in Seq(Systems)
<1>1. Sent(c).system \in System
  BY DEF ClientInv, Idle, Request, Sent
<1> QED BY <1>1 DEF Systems

LEMMA AskedStep ==
  Shape /\ HostInv /\ CauseInv /\ BuffersInv /\ ObjInv /\ ClientInv /\ AskedInv /\ [Next]_vars
    => AskedInv'
<1> SUFFICES ASSUME Shape, HostInv, CauseInv, BuffersInv, ObjInv, ClientInv, AskedInv, [Next]_vars
             PROVE  AskedInv'
  OBVIOUS
<1>1. CASE UNCHANGED avars
  BY <1>1, IdleAsked DEF avars
<1>2. CASE Calls
  <2>1. CASE \E p \in Param, n \in 0 .. 3 : Construct(p, n)
    BY <2>1, NewAsked DEF Construct
  <2>2. CASE Destroy
    BY <2>2, NewAsked DEF Destroy
  <2>3. CASE \E p \in Param : Reconfigure(p)
    BY <2>3, IdleAsked DEF Reconfigure, Configured, Shape, ObjShape
  <2>4. CASE \E k \in OrbitalKey : SelectOrbitals(k)
    BY <2>4, IdleAsked DEF SelectOrbitals, Shape, ObjShape
  <2>5. CASE \E via \in Via, b \in Batch : Enter(via, b)
    <3>1. PICK via, b : b \in Batch /\ Enter(via, b)
      BY <2>5
    <3>2. b \in Seq(Systems)
      BY <3>1, BatchSystems
    <3>3. /\ call' = Fresh(via, b) /\ asked' = Asked(b)
          /\ UNCHANGED <<family, cached, cache, obj>>
      BY <3>1 DEF Enter
    <3> QED BY <3>2, <3>3, FreshAsked
  <2> QED BY <1>2, <2>1, <2>2, <2>3, <2>4, <2>5 DEF Calls
<1>3. CASE Engine
  <2>1. Compute \/ Return
    BY <1>3 DEF Engine
  <2> QED BY <2>1, ComputeAsked, ReturnAsked
<1>4. CASE StartStep
  <2>1. /\ UNCHANGED <<family, cached, cache, call, asked>>
        /\ obj' = obj \/ \E p : obj' = NewObject(p)
        /\ host = "potserv" /\ server.state = "down"
    BY <1>4 DEF StartStep, Start
  <2>2. call' = NoCall /\ obj = Gone
    BY <2>1 DEF HostInv
  <2> QED BY <2>1, <2>2, NewAsked
<1>5. ASSUME NEW c \in Client, RequestStep(c)
      PROVE  AskedInv'
  <2>1. CASE /\ client[c].stage = "sent" /\ Sent(c).op = "calculate"
             /\ call' = Fresh("operator", <<Sent(c).system>>) /\ asked' = Asked(<<Sent(c).system>>)
             /\ UNCHANGED <<family, cached, cache, obj>>
    BY <2>1, SentSystem, FreshAsked
  <2>2. CASE /\ UNCHANGED <<family, cached, cache, asked>>
             /\ obj'.types = obj.types /\ obj'.ready = obj.ready
             /\ call' = NoCall \/ (call' = call /\ obj' = obj)
    BY <2>2, IdleAsked
  <2>3. CASE Receive(c)
    <3>1. /\ client[c].stage = "sent" /\ Sent(c).op = "calculate"
          /\ UNCHANGED <<family, cached, cache, obj>>
          /\ \/ UNCHANGED <<call, asked>>
             \/ /\ call' = Fresh("operator", <<Sent(c).system>>)
                /\ asked' = Asked(<<Sent(c).system>>)
      BY <2>3, Zenon DEF Receive
    <3> QED BY <2>1, <2>2, <3>1
  <2>4. CASE Configure(c)
    <3>1. /\ UNCHANGED <<family, cached, cache, asked>> /\ call' = NoCall
          /\ obj' = obj \/ \E p : obj' = Configured(p)
      BY <2>4 DEF Configure
    <3>2. obj'.types = obj.types /\ obj'.ready = obj.ready
      BY <3>1 DEF Configured, Shape, ObjShape
    <3> QED BY <2>2, <3>1, <3>2
  <2>5. CASE (\E r \in Request(c) : Send(c, r)) \/ Refuse(c)
             \/ (\E fits \in BOOLEAN : ForeignReply(c, fits)) \/ Reply(c)
    BY <2>2, <2>5 DEF Send, Refuse, ForeignReply, Reply, avars
  <2> QED BY <1>5, <2>3, <2>4, <2>5 DEF RequestStep
<1>6. Dies \/ Convert \/ UNCHANGED service => UNCHANGED avars
  BY DEF Dies, Convert, service
<1> QED BY <1>1, <1>2, <1>3, <1>4, <1>5, <1>6, StepCases

LEMMA AskedInit == Init => AskedInv
<1> SUFFICES ASSUME Init PROVE AskedInv
  OBVIOUS
<1>1. asked.types = {} /\ obj.types = << >> /\ obj.ready = FALSE
  BY DEF Init, AInit, Nothing, Gone
<1>2. call.stage # "force" /\ DOMAIN cache = {}
  BY DEF Init, AInit, NoCall
<1> QED BY <1>1, <1>2 DEF AskedInv

LEMMA FitStep ==
  (cached => PartsDistinct) /\ Shape /\ HostInv /\ CauseInv /\ BuffersInv /\ ObjInv /\ ClientInv
    /\ AskedInv /\ FitInv /\ [Next]_vars => FitInv'
<1> SUFFICES ASSUME cached => PartsDistinct, Shape, HostInv, CauseInv, BuffersInv, ObjInv,
                    ClientInv, AskedInv, FitInv, [Next]_vars
             PROVE  FitInv'
  OBVIOUS
<1>1. CASE UNCHANGED avars
  BY <1>1, SameFit DEF avars
<1>2. CASE Calls
  <2>1. CASE \E via, b : b \in Batch /\ Enter(via, b)
    <3>1. PICK via, b : b \in Batch /\ Enter(via, b)
      BY <2>1
    <3>2. b \in Seq(Systems)
      BY <3>1, BatchSystems
    <3>3. /\ call' = Fresh(via, b) /\ obj.live
          /\ UNCHANGED <<family, package, cached, cache, obj>>
      BY <3>1 DEF Enter
    <3> QED BY <3>2, <3>3, FreshFit
  <2>2. CASE call' = NoCall /\ UNCHANGED <<family, package, cache>>
    BY <2>2, IdleFit
  <2>3. \/ call' = NoCall /\ UNCHANGED <<family, package, cache>>
        \/ \E via, b : b \in Batch /\ Enter(via, b)
    BY <1>2, Zenon DEF Calls, Construct, Destroy, Reconfigure, SelectOrbitals
  <2> QED BY <2>1, <2>2, <2>3
<1>3. CASE Engine
  <2>1. (Compute \/ Return) /\ obj.live
    BY <1>3 DEF Engine, Compute, Return, HostInv
  <2> QED BY <2>1, ComputeFit, ReturnFit
<1>4. CASE StartStep
  <2>1. UNCHANGED <<family, package, cache, call>> /\ host = "potserv" /\ server.state = "down"
    BY <1>4 DEF StartStep, Start
  <2>2. call' = NoCall
    BY <2>1 DEF HostInv
  <2> QED BY <2>1, <2>2, IdleFit
<1>5. ASSUME NEW c \in Client, RequestStep(c)
      PROVE  FitInv'
  <2>1. CASE /\ server.state = "up" /\ client[c].stage = "sent" /\ Sent(c).op = "calculate"
             /\ call' = Fresh("operator", <<Sent(c).system>>)
             /\ UNCHANGED <<family, package, cached, cache, obj>>
    <3>1. <<Sent(c).system>> \in Seq(Systems)
      BY <2>1, SentSystem
    <3> QED BY <2>1, <3>1, FreshFit DEF HostInv
  <2>2. CASE UNCHANGED <<family, package, cached, obj, cache, call, asked>>
    BY <2>2, SameFit
  <2>3. CASE call' = NoCall /\ UNCHANGED <<family, package, cache>>
    BY <2>3, IdleFit
  <2>4. CASE Receive(c)
    <3>1. /\ server.state = "up" /\ client[c].stage = "sent" /\ Sent(c).op = "calculate"
          /\ UNCHANGED <<family, package, cached, cache, obj>>
          /\ UNCHANGED <<call, asked>> \/ call' = Fresh("operator", <<Sent(c).system>>)
      BY <2>4, Zenon DEF Receive
    <3> QED BY <2>1, <2>2, <3>1
  <2>5. CASE Configure(c)
    BY <2>3, <2>5 DEF Configure
  <2>6. CASE (\E r \in Request(c) : Send(c, r)) \/ Refuse(c)
             \/ (\E fits \in BOOLEAN : ForeignReply(c, fits)) \/ Reply(c)
    BY <2>2, <2>3, <2>6 DEF Send, Refuse, ForeignReply, Reply, avars
  <2> QED BY <1>5, <2>4, <2>5, <2>6 DEF RequestStep
<1>6. Dies \/ Convert \/ UNCHANGED service => UNCHANGED avars
  BY DEF Dies, Convert, service
<1> QED BY <1>1, <1>2, <1>3, <1>4, <1>5, <1>6, StepCases

LEMMA FitInit == Init => FitInv
BY DEF Init, AInit, FitInv, CacheInv, AnswerFits, NoCall

LEMMA Foundations == Spec => [](CauseInv /\ BuffersInv /\ ObjInv /\ ClientInv /\ AskedInv)
<1>1. BuffersInv /\ (Shape /\ HostInv) /\ [Next]_vars => BuffersInv'
  BY BuffersStep
<1>2. CauseInv /\ (Shape /\ HostInv) /\ [Next]_vars => CauseInv'
  BY CauseStep
<1>3. ClientInv /\ (Shape /\ HostInv) /\ [Next]_vars => ClientInv'
  BY ClientStep
<1>4. AskedInv /\ (Shape /\ HostInv) /\ CauseInv /\ BuffersInv /\ ObjInv /\ ClientInv /\ [Next]_vars
        => AskedInv'
  BY AskedStep
<1> QED BY <1>1, <1>2, <1>3, <1>4, BuffersInit, CauseInit, ClientInit, AskedInit, Shapes,
           ObjectsKeepTheirOwn, PTL DEF Spec

\* Every answer is of one computation on its own system and its species, under the
\* parameters of now and with the selected orbitals, through every entry point, with
\* a cache or without, after any configurations and failures: as long as the host has
\* not mixed species that the engine of the object cannot tell apart (SpeciesMixed),
\* or parameter sets over a cache without a fingerprint of them (ParamsMixed).
THEOREM AnswerFitsHolds == PartsDistinct => (Spec => []AnswerFits)
<1> SUFFICES ASSUME PartsDistinct PROVE Spec => []AnswerFits
  OBVIOUS
<1>1. FitInv /\ (Shape /\ HostInv) /\ (CauseInv /\ BuffersInv /\ ObjInv /\ ClientInv /\ AskedInv)
        /\ [Next]_vars => FitInv'
  BY FitStep
<1>2. FitInv => AnswerFits
  BY DEF FitInv
<1> QED BY <1>1, <1>2, FitInit, Foundations, Shapes, PTL DEF Spec

-----------------------------------------------------------------------------
(* Replies                                                                 *)

\* What a client may be told when it asked for r, by a server of make h.
Fair(h, r, a) ==
  /\ a.rc # 0 => a.error /\ a.F = {}
  /\ a.rc = -1 => a.E = {}
  /\ a.rc = 0 /\ r.op = "calculate" =>
       /\ {} \notin {a.E, a.F}
       /\ h = "potserv" => ~r.ragged /\ \A e \in a.E, f \in a.F : Told(r, e, f)

\* That an answer is about the own system.
OwnTold(r, a) == a.rc = 0 /\ r.op = "calculate" => \A e \in a.E : OwnSystem(r, e)

LEMMA FairReplies ==
  ReplyFits <=>
    /\ \A c \in Client : client[c].stage = "answered" =>
                          Fair(host, client[c].request, client[c].answer)
    /\ host = "potserv" /\ ~SpeciesMixed =>
         \A c \in Client : client[c].stage = "answered" =>
                           OwnTold(client[c].request, client[c].answer)
BY Zenon DEF ReplyFits, Fair, OwnTold

LEMMA FairRepliesNext ==
  ReplyFits' <=>
    /\ \A c \in Client : client'[c].stage = "answered" =>
                          Fair(host', client'[c].request, client'[c].answer)
    /\ host' = "potserv" /\ ~SpeciesMixed' =>
         \A c \in Client : client'[c].stage = "answered" =>
                           OwnTold(client'[c].request, client'[c].answer)
BY Zenon DEF ReplyFits, Fair, OwnTold

\* Species that were mixed stay mixed while the host asks for more.
LEMMA MixedKept ==
  ASSUME UNCHANGED family, asked.types \subseteq asked'.types
  PROVE  ~SpeciesMixed' => ~SpeciesMixed
BY DEF SpeciesMixed

LEMMA RequestAsked ==
  ASSUME NEW c \in Client, RequestStep(c)
  PROVE  /\ UNCHANGED <<family, host>>
         /\ ~SpeciesMixed' => ~SpeciesMixed
<1>1. UNCHANGED <<family, host>>
  BY DEF RequestStep, Send, Refuse, ForeignReply, Receive, Reply, Configure, avars
<1>2. asked' = asked \/ \E b : asked' = Asked(b)
  BY Zenon DEF RequestStep, Send, Refuse, ForeignReply, Receive, Reply, Configure, avars
<1>3. asked.types \subseteq asked'.types
  BY <1>2 DEF Asked
<1> QED BY <1>1, <1>3, MixedKept

\* So have the units of the message schema.
LEMMA SchemaRead ==
  ASSUME UnitsRead, NEW u \in LengthUnit \cup EnergyUnit \cup {Angstrom, EV}
  PROVE  u # << >> /\ (Parse(u) = Error \/ Parse(u).size \in [Basis -> Int])
<1>1. CASE u \in LengthUnit \cup EnergyUnit
  BY <1>1 DEF UnitsRead
<1>2. CASE u \in {Angstrom, EV}
  <2>1. "angstrom" \in DOMAIN Units /\ "ev" \in DOMAIN Units
    BY DEF Units
  <2>2. PICK w \in DOMAIN Units : u = <<w>>
    BY <1>2, <2>1 DEF Angstrom, EV
  <2> QED BY <2>2, ParseOfUnit
<1> QED BY <1>1, <1>2

\* The factor between two units that have one is the difference of their sizes.
LEMMA FactorIs ==
  ASSUME UnitsRead, NEW u \in LengthUnit \cup EnergyUnit \cup {Angstrom, EV},
         NEW v \in LengthUnit \cup EnergyUnit \cup {Angstrom, EV}, Factor(u, v) # NoFactor
  PROVE  /\ Parse(u).size \in [Basis -> Int] /\ Parse(v).size \in [Basis -> Int]
         /\ Factor(u, v) = Less(Parse(u).size, Parse(v).size)
<1>1. u # << >> /\ v # << >>
  BY SchemaRead
<1>2. Factor(u, v) = Ratio(Parse(u), Parse(v))
  BY <1>1 DEF Factor
<1>3. Parse(u) # Error /\ Parse(v) # Error /\ Ratio(Parse(u), Parse(v)) = Over(Parse(u), Parse(v)).size
  BY <1>2 DEF Ratio
<1>4. Parse(u).size \in [Basis -> Int] /\ Parse(v).size \in [Basis -> Int]
  BY <1>3, SchemaRead
<1>5. Over(Parse(u), Parse(v)).size = [b \in Basis |-> Parse(u).size[b] + (-1) * Parse(v).size[b]]
  BY DEF Over, Times, Scaled
<1>6. \A b \in Basis : Parse(u).size[b] + (-1) * Parse(v).size[b]
                         = Parse(u).size[b] - Parse(v).size[b]
  BY <1>4
<1> QED BY <1>2, <1>3, <1>4, <1>5, <1>6 DEF Less

LEMMA LessLess ==
  ASSUME NEW x \in [Basis -> Int], NEW y \in [Basis -> Int]
  PROVE  Less(x, Less(x, y)) = y /\ Less(x, y) \in [Basis -> Int]
<1>1. Less(x, y) \in [Basis -> Int] /\ \A b \in Basis : Less(x, y)[b] = x[b] - y[b]
  BY DEF Less
<1>2. \A b \in Basis : x[b] - Less(x, y)[b] = y[b]
  BY <1>1
<1>3. Less(x, Less(x, y)) = [b \in Basis |-> y[b]]
  BY <1>2 DEF Less
<1> QED BY <1>1, <1>3

\* The coordinates reach the potential in angstrom, its energy leaves in the unit
\* that was asked for.
LEMMA UnitsMatch ==
  ASSUME UnitsRead, NEW c \in Client, NEW r \in Request(c), Taken(r)
  PROVE  /\ InUnits(r).coordinates = SizeOf[Angstrom]
         /\ InUnits(r).energy = SizeOf[r.energy]
         /\ SizeOf[r.length] = SizeOf[Angstrom] =>
              InUnits(r).forces = Less(SizeOf[r.energy], SizeOf[Angstrom])
<1>1. r.length \in LengthUnit \cup {Angstrom} /\ r.energy \in EnergyUnit \cup {EV}
  BY DEF Request, Taken
<1> DEFINE L == Parse(r.length).size  A == Parse(Angstrom).size
           E == Parse(EV).size        U == Parse(r.energy).size
<1>2. /\ SizeOf[r.length] = L /\ SizeOf[Angstrom] = A /\ SizeOf[EV] = E /\ SizeOf[r.energy] = U
      /\ Factors(r).length = Factor(r.length, Angstrom) /\ Factors(r).energy = Factor(EV, r.energy)
  BY <1>1 DEF SizeOf, Factors, ToAngstrom, FromEV
<1>3. /\ L \in [Basis -> Int] /\ A \in [Basis -> Int]
      /\ Factors(r).length = Less(L, A)
  BY <1>1, <1>2, FactorIs DEF Taken
<1>4. /\ E \in [Basis -> Int] /\ U \in [Basis -> Int]
      /\ Factors(r).energy = Less(E, U)
  BY <1>1, <1>2, FactorIs DEF Taken
<1>5. EVPerAngstrom = [b \in Basis |-> E[b] + (-1) * A[b]]
  BY DEF EVPerAngstrom, Over, Times, Scaled
<1> HIDE DEF L, A, E, U
<1>6. /\ InUnits(r).coordinates = Less(L, Less(L, A))
      /\ InUnits(r).energy = Less(E, Less(E, U))
      /\ InUnits(r).forces = Less(EVPerAngstrom, Less(Less(E, U), Less(L, A)))
  BY <1>2, <1>3, <1>4 DEF InUnits
<1>7. ASSUME L = A
      PROVE  InUnits(r).forces = Less(U, A)
  <2>1. ASSUME NEW b \in Basis
        PROVE  EVPerAngstrom[b] - Less(Less(E, U), Less(L, A))[b] = U[b] - A[b]
    <3>1. /\ E[b] \in Int /\ U[b] \in Int /\ A[b] \in Int /\ L[b] = A[b]
          /\ EVPerAngstrom[b] = E[b] + (-1) * A[b]
      BY <1>3, <1>4, <1>5, <1>7
    <3>2. Less(Less(E, U), Less(L, A))[b] = (E[b] - U[b]) - (L[b] - A[b])
      BY DEF Less
    <3> QED BY <3>1, <3>2
  <2>2. Less(EVPerAngstrom, Less(Less(E, U), Less(L, A))) = [b \in Basis |-> U[b] - A[b]]
    BY <2>1 DEF Less
  <2> QED BY <1>6, <2>2 DEF Less
<1> QED BY <1>2, <1>3, <1>4, <1>6, <1>7, LessLess

LEMMA FairSuccess ==
  ASSUME UnitsRead, ClientInv, BuffersInv, FitInv, NEW c \in Client, serving = c, call.stage = "done"
  PROVE  /\ Fair("potserv", Sent(c), Success(Sent(c)))
         /\ ~SpeciesMixed => OwnTold(Sent(c), Success(Sent(c)))
<1> DEFINE r == Sent(c)
<1>1. /\ r \in Request(c) /\ Taken(r) /\ call.batch = <<r.system>>
  BY ServiceAssumption DEF ClientInv, Sent, Idle
<1>2. PICK x : call.seen[1].E = {x} /\ Fits(1, x)
  <2>1. 1 \in DOMAIN call.batch
    BY <1>1
  <2> QED BY <2>1 DEF FitInv, AnswerFits, BuffersInv
<1>3. ~SpeciesMixed => x.types = r.system.types /\ x.pos = r.system.pos
  BY <1>1, <1>2 DEF Fits
<1> HIDE DEF r
<1>4. /\ Success(r).rc = 0
      /\ Success(r).E = {[result |-> x, unit |-> InUnits(r).energy,
                          coordinates |-> InUnits(r).coordinates]}
      /\ Success(r).F = {[result |-> x, unit |-> InUnits(r).forces,
                          coordinates |-> InUnits(r).coordinates]}
  BY <1>2 DEF Success, Untold
<1>5. /\ InUnits(r).coordinates = SizeOf[Angstrom]
      /\ InUnits(r).energy = SizeOf[r.energy]
      /\ SizeOf[r.length] = SizeOf[Angstrom] =>
           InUnits(r).forces = Less(SizeOf[r.energy], SizeOf[Angstrom])
  BY <1>1, UnitsMatch
<1>6. \A e \in Success(r).E, f \in Success(r).F : Told(r, e, f)
  BY <1>4, <1>5 DEF Told
<1>7. ~SpeciesMixed => \A e \in Success(r).E : OwnSystem(r, e)
  BY <1>3, <1>4 DEF OwnSystem
<1> QED BY <1>1, <1>4, <1>6, <1>7 DEF Fair, OwnTold, Taken, r

LEMMA FairFailure ==
  ASSUME NEW h, NEW r
  PROVE  Fair(h, r, Failure) /\ OwnTold(r, Failure)
BY DEF Fair, OwnTold, Failure, Untold

\* An answer to c leaves the others'.
LEMMA AnswerFair ==
  ASSUME ClientInv, ReplyFits, NEW c \in Client, client[c].stage = "sent", NEW a, Answered(c, a),
         UNCHANGED host, Fair(host, client[c].request, a), ~SpeciesMixed' => ~SpeciesMixed,
         host = "potserv" /\ ~SpeciesMixed => OwnTold(client[c].request, a)
  PROVE  ReplyFits'
<1>1. ASSUME NEW d \in Client, client'[d].stage = "answered"
      PROVE  Fair(host, client'[d].request, client'[d].answer)
  BY <1>1, AnsweredClient, FairReplies
<1>2. ASSUME NEW d \in Client, client'[d].stage = "answered", host = "potserv", ~SpeciesMixed'
      PROVE  OwnTold(client'[d].request, client'[d].answer)
  BY <1>2, AnsweredClient, FairReplies
<1> QED BY <1>1, <1>2, FairRepliesNext

LEMMA RequestFair ==
  ASSUME UnitsRead, ClientInv, BuffersInv, host # "program" => FitInv, ReplyFits,
         NEW c \in Client, RequestStep(c)
  PROVE  ReplyFits'
<1>0. UNCHANGED host /\ (~SpeciesMixed' => ~SpeciesMixed)
  BY RequestAsked
<1>1. CASE \E r \in Request(c) : Send(c, r)
  <2>1. PICK r \in Request(c) : Send(c, r)
    BY <1>1
  <2>2. /\ UNCHANGED host
        /\ client' = [client EXCEPT ![c] = [stage |-> "sent", request |-> r, answer |-> Untold]]
    BY <2>1 DEF Send
  <2>3. \A d \in Client : client'[d].stage = "answered" => client'[d] = client[d]
    BY <2>2 DEF ClientInv
  <2> QED BY <1>0, <2>3, FairReplies, FairRepliesNext
<1>2. CASE Refuse(c)
  BY <1>0, <1>2, FairFailure, AnswerFair DEF Refuse
<1>3. CASE \E fits \in BOOLEAN : ForeignReply(c, fits)
  <2>1. PICK fits \in BOOLEAN : ForeignReply(c, fits)
    BY <1>3
  <2> DEFINE a == IF fits THEN [Untold EXCEPT !.E = {"theirs"}, !.F = {"theirs"}]
                  ELSE [Untold EXCEPT !.E = {"theirs"}, !.rc = -2, !.error = TRUE]
  <2>2. host = "foreign" /\ client[c].stage = "sent" /\ Answered(c, a) /\ UNCHANGED host
    BY <2>1 DEF ForeignReply
  <2>3. Fair(host, client[c].request, a)
    BY <2>2 DEF Fair, Untold
  <2> HIDE DEF a
  <2> QED BY <1>0, <2>2, <2>3, AnswerFair
<1>4. CASE Receive(c)
  <2>1. /\ client[c].stage = "sent" /\ UNCHANGED host
        /\ Answered(c, Failure) \/ UNCHANGED client
    BY <1>4 DEF Receive
  <2>2. CASE UNCHANGED client
    BY <1>0, <2>2, FairReplies, FairRepliesNext
  <2> QED BY <1>0, <2>1, <2>2, FairFailure, AnswerFair
<1>5. CASE Reply(c)
  <2>1. /\ server.state = "up" /\ serving = c /\ UNCHANGED host
        /\ \/ Answered(c, Failure)
           \/ call.stage = "done" /\ Answered(c, Success(Sent(c)))
    BY <1>5, Zenon DEF Reply
  <2>2. client[c].stage = "sent" /\ host = "potserv"
    BY <2>1, ServiceAssumption DEF ClientInv
  <2>3. CASE Answered(c, Failure)
    BY <1>0, <2>1, <2>2, <2>3, FairFailure, AnswerFair
  <2>4. CASE call.stage = "done" /\ Answered(c, Success(Sent(c)))
    <3>1. /\ Fair(host, client[c].request, Success(Sent(c)))
          /\ ~SpeciesMixed => OwnTold(client[c].request, Success(Sent(c)))
      BY <2>1, <2>2, <2>4, FairSuccess DEF Sent
    <3> QED BY <1>0, <2>1, <2>2, <2>4, <3>1, AnswerFair
  <2> QED BY <2>1, <2>3, <2>4
<1>6. CASE Configure(c)
  <2>1. /\ client[c].stage = "sent" /\ client[c].request.op = "configure" /\ UNCHANGED host
        /\ Answered(c, Untold) \/ Answered(c, Failure)
    BY <1>6, Zenon DEF Configure, Sent
  <2>2. Fair(host, client[c].request, Untold) /\ OwnTold(client[c].request, Untold)
    BY <2>1 DEF Fair, OwnTold, Untold
  <2> QED BY <1>0, <2>1, <2>2, FairFailure, AnswerFair
<1> QED BY <1>1, <1>2, <1>3, <1>4, <1>5, <1>6 DEF RequestStep

\* A server has no cache, so that its answers need no keys that are apart.
ServedInv == (host # "program" => ~cached /\ FitInv) /\ ReplyFits

LEMMA ServedStep ==
  UnitsRead => (Shape /\ HostInv /\ CauseInv /\ BuffersInv /\ ObjInv /\ ClientInv /\ AskedInv
                  /\ ServedInv /\ [Next]_vars => ServedInv')
<1> SUFFICES ASSUME UnitsRead, Shape, HostInv, CauseInv, BuffersInv, ObjInv, ClientInv, AskedInv,
                    ServedInv, [Next]_vars
             PROVE  ServedInv'
  OBVIOUS
<1>1. UNCHANGED <<host, cached>>
  <2>1. Calls => UNCHANGED cached
    BY Zenon DEF Calls, Construct, Destroy, Reconfigure, SelectOrbitals, Enter
  <2>2. Engine => UNCHANGED <<host, cached>>
    BY ComputeCases DEF Engine, Return, svars
  <2>3. \A c \in Client : RequestStep(c) => UNCHANGED <<host, cached>>
    BY DEF RequestStep, Send, Refuse, ForeignReply, Receive, Reply, Configure, avars
  <2>4. StartStep \/ Dies \/ Convert \/ UNCHANGED service => UNCHANGED <<host, cached>>
    BY DEF StartStep, Start, Dies, Convert, service, avars, svars
  <2> QED BY <2>1, <2>2, <2>3, <2>4, StepCases DEF svars
<1>2. host # "program" => FitInv'
  BY FitStep DEF ServedInv
<1>3. ReplyFits'
  <2>1. CASE UNCHANGED client /\ (host = "potserv" => UNCHANGED <<family, asked>>)
    <3>1. host = "potserv" /\ ~SpeciesMixed' => ~SpeciesMixed
      BY <2>1, MixedKept
    <3> QED BY <1>1, <2>1, <3>1, FairReplies, FairRepliesNext DEF ServedInv
  <2>2. CASE \E c \in Client : RequestStep(c)
    BY <2>2, RequestFair DEF ServedInv
  <2>3. CASE host = "program" /\ Calls /\ UNCHANGED svars
    BY <2>1, <2>3 DEF svars
  <2>4. CASE Engine
    <3>1. UNCHANGED <<family, asked>>
      BY <2>4, ComputeCases DEF Engine, Return
    <3> QED BY <2>1, <2>4, <3>1 DEF Engine, svars
  <2>5. CASE StartStep \/ Dies \/ Convert \/ UNCHANGED service
    BY <2>1, <2>5 DEF StartStep, Start, Dies, Convert, service, svars, avars
  <2> QED BY <2>2, <2>3, <2>4, <2>5, StepCases
<1> QED BY <1>1, <1>2, <1>3 DEF ServedInv

LEMMA ServedInit == Init => ServedInv
BY FitInit DEF Init, ServedInv, ReplyFits, Idle

\* What a client is told is about its own request, in the units it named: for any
\* clients, peers and units that read as units.
THEOREM ReplyFitsHolds == UnitsRead => (Spec => []ReplyFits)
<1> SUFFICES ASSUME UnitsRead PROVE Spec => []ReplyFits
  OBVIOUS
<1>1. ServedInv /\ (Shape /\ HostInv) /\ (CauseInv /\ BuffersInv /\ ObjInv /\ ClientInv /\ AskedInv)
        /\ [Next]_vars => ServedInv'
  BY ServedStep
<1>2. ServedInv => ReplyFits
  BY DEF ServedInv
<1> QED BY <1>1, <1>2, ServedInit, Foundations, Shapes, PTL DEF Spec

-----------------------------------------------------------------------------
(* The core's objects                                                      *)
(*                                                                         *)
(* AllocationsOwned counts owners.  The invariant says the same without    *)
(* counting, as the pair of OneOwner and NothingDangling, and adds that    *)
(* the heap is a function on positive numbers whose values carry a class.  *)
(* For the gradients it adds that a cache holds the latest evaluation and  *)
(* that no parameter changes under an evaluation.                          *)

HeapShape ==
  /\ held \in [Variable -> Int]
  /\ heap = [n \in DOMAIN heap |-> heap[n]]
  /\ DOMAIN heap \subseteq Nat \ {0}
  /\ \A id \in DOMAIN heap : "class" \in DOMAIN heap[id]

OneOwner ==
  \A id \in DOMAIN heap :
    \E v \in Variable : held[v] = id /\ \A w \in Variable : held[w] = id => w = v

NothingDangling ==
  \A v \in Variable : held[v] # Absent /\ held[v] # Null =>
    held[v] \in DOMAIN heap /\ heap[held[v]].class = v.class

CoreInv == HeapShape /\ OneOwner /\ NothingDangling

\* There is a number for a new allocation, because every allocation has an
\* owner of its own: one more number than variables cannot all be in use.
LEMMA FreshId ==
  ASSUME HeapShape, OneOwner
  PROVE  NewId \in Nat \ {0} /\ NewId \notin DOMAIN heap
<1> DEFINE N == Cardinality(Variable)
           S == 1 .. N + 1
           f == [n \in S |-> CHOOSE v \in Variable : held[v] = n]
<1>1. N \in Nat
  BY FS_CardinalityType, CoreAssumption
<1>2. IsFiniteSet(S) /\ Cardinality(S) = N + 1
  BY <1>1, FS_Interval, SMTT(30)
<1>3. ~(S \subseteq DOMAIN heap)
  <2>1. SUFFICES ASSUME S \subseteq DOMAIN heap PROVE FALSE
    OBVIOUS
  <2>2. \A n \in S : f[n] \in Variable /\ held[f[n]] = n
    BY <2>1 DEF OneOwner
  <2>3. f \in [S -> Variable]
    BY <2>2
  <2>4. Cardinality(Variable) < Cardinality(S)
    BY <1>1, <1>2
  <2>5. \E x, y \in S : x # y /\ f[x] = f[y]
    <3> HIDE DEF f, S
    <3> QED BY <1>2, <2>3, <2>4, CoreAssumption, FS_PigeonHole
  <2> QED BY <2>2, <2>5
<1>4. \E n \in 1 .. Cardinality(Variable) + 1 : n \notin DOMAIN heap
  BY <1>3
<1>5. NewId \in 1 .. Cardinality(Variable) + 1 /\ NewId \notin DOMAIN heap
  BY <1>4 DEF NewId
<1> QED BY <1>1, <1>5

\* What is left when a variable's allocation, if it has one, is freed; the
\* other variables hold other allocations.
Rest(v) == IF Live(v) THEN Released(heap, held[v]) ELSE heap

\* Freeing a variable's allocation takes that one from the heap and no other,
\* and it was no other variable's.
LEMMA RestFacts ==
  ASSUME CoreInv, NEW v \in Variable
  PROVE  /\ Rest(v) = [n \in DOMAIN Rest(v) |-> Rest(v)[n]]
         /\ DOMAIN Rest(v) = DOMAIN heap \ {held[v]}
         /\ \A n \in DOMAIN Rest(v) : Rest(v)[n] = heap[n]
         /\ \A u \in Variable : u # v /\ Live(u) => held[u] \in DOMAIN Rest(v)
<1>1. CASE Live(v)
  <2>1. Rest(v) = [n \in DOMAIN heap \ {held[v]} |-> heap[n]]
    BY <1>1 DEF Rest, Released
  <2>2. \A u \in Variable : u # v /\ Live(u) => held[u] \in DOMAIN heap /\ held[u] # held[v]
    BY DEF CoreInv, OneOwner, NothingDangling, Live
  <2> QED BY <2>1, <2>2
<1>2. CASE ~Live(v)
  <2>1. Rest(v) = heap
    BY <1>2 DEF Rest
  <2>2. held[v] \notin DOMAIN heap
    BY <1>2 DEF CoreInv, HeapShape, Live, Absent, Null
  <2>3. \A u \in Variable : Live(u) => held[u] \in DOMAIN heap
    BY DEF CoreInv, NothingDangling, Live
  <2> QED BY <2>1, <2>2, <2>3 DEF CoreInv, HeapShape
<1> QED BY <1>1, <1>2

\* A variable frees what it held and takes over what another held, which is
\* left null.
LEMMA MovePreserves ==
  ASSUME CoreInv, NEW v \in Variable, NEW w \in Variable, v # w, v.class = w.class,
         held' = [held EXCEPT ![v] = held[w], ![w] = Null], heap' = Rest(v)
  PROVE  CoreInv'
<1>1. \A u \in Variable : held'[u] = IF u = w THEN Null ELSE IF u = v THEN held[w] ELSE held[u]
  BY DEF CoreInv, HeapShape
<1>2. /\ DOMAIN heap' = DOMAIN heap \ {held[v]}
      /\ \A n \in DOMAIN heap' : heap'[n] = heap[n]
      /\ \A u \in Variable : u # v /\ Live(u) => held[u] \in DOMAIN heap'
  BY RestFacts
<1>3. HeapShape'
  <2>1. heap' = [n \in DOMAIN heap' |-> heap'[n]]
    BY RestFacts
  <2>2. held' \in [Variable -> Int]
    BY DEF CoreInv, HeapShape, Null
  <2> QED BY <1>2, <2>1, <2>2 DEF CoreInv, HeapShape
<1>4. OneOwner'
  <2>1. SUFFICES ASSUME NEW id \in DOMAIN heap'
        PROVE  \E u \in Variable : held'[u] = id /\ \A x \in Variable : held'[x] = id => x = u
    BY DEF OneOwner
  <2>2. id \in DOMAIN heap /\ id # held[v] /\ id # Null
    BY <1>2 DEF CoreInv, HeapShape, Null
  <2>3. PICK u \in Variable : held[u] = id /\ \A x \in Variable : held[x] = id => x = u
    BY <2>2 DEF CoreInv, OneOwner
  <2>4. CASE u = w
    <3>1. held'[v] = id
      BY <1>1, <2>3, <2>4
    <3>2. ASSUME NEW x \in Variable, held'[x] = id PROVE x = v
      <4>1. x # w
        BY <1>1, <2>2, <3>2
      <4>2. x # v => held[x] = id
        BY <1>1, <3>2, <4>1
      <4> QED BY <2>3, <2>4, <4>1, <4>2
    <3> QED BY <3>1, <3>2
  <2>5. CASE u # w
    <3>1. u # v
      BY <2>2, <2>3
    <3>2. held'[u] = id
      BY <1>1, <2>3, <2>5, <3>1
    <3>3. ASSUME NEW x \in Variable, held'[x] = id PROVE x = u
      <4>1. x # w
        BY <1>1, <2>2, <3>3
      <4>2. x # v
        BY <1>1, <2>3, <2>5, <3>3
      <4>3. held[x] = id
        BY <1>1, <3>3, <4>1, <4>2
      <4> QED BY <2>3, <4>3
    <3> QED BY <3>2, <3>3
  <2> QED BY <2>4, <2>5
<1>5. NothingDangling'
  <2>1. SUFFICES ASSUME NEW u \in Variable, held'[u] # Absent, held'[u] # Null
        PROVE  held'[u] \in DOMAIN heap' /\ heap'[held'[u]].class = u.class
    BY DEF NothingDangling
  <2>2. PICK x \in {w, u} : x # v /\ held'[u] = held[x] /\ x.class = u.class
    BY <1>1, <2>1
  <2> QED BY <1>2, <2>1, <2>2 DEF CoreInv, NothingDangling, Live
<1> QED BY <1>3, <1>4, <1>5 DEF CoreInv

\* A variable frees what it held and holds no allocation any more.
LEMMA FreePreserves ==
  ASSUME CoreInv, NEW v \in Variable, NEW value \in {Absent, Null},
         held' = [held EXCEPT ![v] = value], heap' = Rest(v)
  PROVE  CoreInv'
<1>1. \A u \in Variable : held'[u] = IF u = v THEN value ELSE held[u]
  BY DEF CoreInv, HeapShape
<1>2. /\ DOMAIN heap' = DOMAIN heap \ {held[v]}
      /\ \A n \in DOMAIN heap' : heap'[n] = heap[n]
      /\ \A u \in Variable : u # v /\ Live(u) => held[u] \in DOMAIN heap'
  BY RestFacts
<1>3. HeapShape'
  <2>1. heap' = [n \in DOMAIN heap' |-> heap'[n]]
    BY RestFacts
  <2>2. held' \in [Variable -> Int]
    BY DEF CoreInv, HeapShape, Null, Absent
  <2> QED BY <1>2, <2>1, <2>2 DEF CoreInv, HeapShape
<1>4. OneOwner'
  <2>1. SUFFICES ASSUME NEW id \in DOMAIN heap'
        PROVE  \E u \in Variable : held'[u] = id /\ \A x \in Variable : held'[x] = id => x = u
    BY DEF OneOwner
  <2>2. id \in DOMAIN heap /\ id # held[v] /\ id # Null /\ id # Absent
    BY <1>2 DEF CoreInv, HeapShape, Null, Absent
  <2>3. PICK u \in Variable : held[u] = id /\ \A x \in Variable : held[x] = id => x = u
    BY <2>2 DEF CoreInv, OneOwner
  <2> QED BY <1>1, <2>2, <2>3
<1>5. NothingDangling'
  BY <1>1, <1>2 DEF CoreInv, NothingDangling, Live
<1> QED BY <1>3, <1>4, <1>5 DEF CoreInv

\* A variable frees what it held and gets a new allocation of its class.
LEMMA NewPreserves ==
  ASSUME CoreInv, NEW v \in Variable, NEW a, "class" \in DOMAIN a, a.class = v.class,
         held' = [held EXCEPT ![v] = NewId], heap' = With(Rest(v), NewId, a)
  PROVE  CoreInv'
<1> DEFINE id == NewId
<1>0. id \in Nat \ {0} /\ id \notin DOMAIN heap
  BY FreshId DEF CoreInv
<1>a. held' = [held EXCEPT ![v] = id] /\ heap' = With(Rest(v), id, a)
  OBVIOUS
<1> HIDE DEF id
<1>1. \A u \in Variable : held'[u] = IF u = v THEN id ELSE held[u]
  BY <1>0, <1>a DEF CoreInv, HeapShape
<1>2. /\ DOMAIN heap' = (DOMAIN heap \ {held[v]}) \cup {id}
      /\ heap'[id] = a
      /\ \A n \in DOMAIN heap' : n # id => heap'[n] = heap[n]
      /\ \A u \in Variable : u # v /\ Live(u) => held[u] \in DOMAIN heap'
  BY <1>a, RestFacts, ZenonT(60) DEF With
<1>3. HeapShape'
  <2>1. heap' = [n \in DOMAIN heap' |-> heap'[n]]
    BY <1>a DEF With
  <2>2. held' \in [Variable -> Int]
    BY <1>0, <1>a DEF CoreInv, HeapShape
  <2>3. \A n \in DOMAIN heap' : "class" \in DOMAIN heap'[n]
    BY <1>2 DEF CoreInv, HeapShape
  <2> QED BY <1>0, <1>2, <2>1, <2>2, <2>3 DEF CoreInv, HeapShape
<1>4. \A u \in Variable : held[u] # id
  BY <1>0 DEF CoreInv, NothingDangling, Absent, Null
<1>5. OneOwner'
  <2>1. SUFFICES ASSUME NEW n \in DOMAIN heap'
        PROVE  \E u \in Variable : held'[u] = n /\ \A x \in Variable : held'[x] = n => x = u
    BY DEF OneOwner
  <2>2. CASE n = id
    BY <1>1, <1>4, <2>2
  <2>3. CASE n # id
    <3>1. n \in DOMAIN heap /\ n # held[v]
      BY <1>2, <2>3
    <3>2. PICK u \in Variable : held[u] = n /\ \A x \in Variable : held[x] = n => x = u
      BY <3>1 DEF CoreInv, OneOwner
    <3> QED BY <1>1, <2>3, <3>1, <3>2
  <2> QED BY <2>2, <2>3
<1>6. NothingDangling'
  <2>1. SUFFICES ASSUME NEW u \in Variable, held'[u] # Absent, held'[u] # Null
        PROVE  held'[u] \in DOMAIN heap' /\ heap'[held'[u]].class = u.class
    BY DEF NothingDangling
  <2>2. CASE u = v
    BY <1>1, <1>2, <2>2
  <2>3. CASE u # v
    <3>1. held'[u] = held[u] /\ held[u] \in DOMAIN heap' /\ held[u] # id
      BY <1>1, <1>2, <1>4, <2>1, <2>3 DEF Live
    <3>2. heap[held[u]].class = u.class
      BY <2>1, <3>1 DEF CoreInv, NothingDangling
    <3> QED BY <1>2, <3>1, <3>2
  <2> QED BY <2>2, <2>3
<1> QED BY <1>3, <1>5, <1>6 DEF CoreInv

\* An evaluation changes what an allocation holds, and neither its class nor owner.
LEMMA UpdatePreserves ==
  ASSUME CoreInv, UNCHANGED held, DOMAIN heap' = DOMAIN heap,
         heap' = [n \in DOMAIN heap' |-> heap'[n]],
         \A n \in DOMAIN heap : /\ "class" \in DOMAIN heap'[n]
                                /\ heap'[n].class = heap[n].class
  PROVE  CoreInv'
BY DEF CoreInv, HeapShape, OneOwner, NothingDangling

-----------------------------------------------------------------------------
(* The steps.                                                              *)

\* A variable is constructed: input, result, potential or client.
LEMMA MakePreserves ==
  ASSUME CoreInv, NEW v \in Variable, Make(v)
  PROVE  CoreInv'
<1>1. ~Live(v) /\ Rest(v) = heap
  BY DEF Make, Exists, Live, Rest
<1>2. CASE \E x \in Place : MakeInput(v, x)
  <2>1. PICK x \in Place : MakeInput(v, x)
    BY <1>2
  <2>2. "class" \in DOMAIN InputAt(x) /\ InputAt(x).class = v.class
    BY <2>1 DEF MakeInput, InputAt
  <2>3. held' = [held EXCEPT ![v] = NewId] /\ heap' = With(Rest(v), NewId, InputAt(x))
    BY <1>1, <2>1 DEF MakeInput
  <2> QED BY <2>2, <2>3, NewPreserves
<1>3. CASE MakeResult(v)
  <2>1. held' = [held EXCEPT ![v] = Null] /\ heap' = Rest(v)
    BY <1>1, <1>3 DEF MakeResult
  <2> QED BY <2>1, FreePreserves
<1>4. CASE MakePotential(v)
  <2>1. "class" \in DOMAIN NewPotential /\ NewPotential.class = v.class
    BY <1>4 DEF MakePotential, NewPotential
  <2>2. held' = [held EXCEPT ![v] = NewId] /\ heap' = With(Rest(v), NewId, NewPotential)
    BY <1>1, <1>4 DEF MakePotential
  <2> QED BY <2>1, <2>2, NewPreserves
<1>5. CASE \E made \in BOOLEAN : MakeClient(v, made)
  <2> DEFINE a == [class |-> "client"]
  <2>1. CASE UNCHANGED <<held, heap>>
    BY <2>1 DEF CoreInv, HeapShape, OneOwner, NothingDangling
  <2>2. CASE held' = [held EXCEPT ![v] = NewId] /\ heap' = With(heap, NewId, a)
    <3>1. "class" \in DOMAIN a /\ a.class = v.class
      BY <1>5 DEF MakeClient
    <3>2. heap' = With(Rest(v), NewId, a)
      BY <1>1, <2>2
    <3> HIDE DEF a
    <3> QED BY <2>2, <3>1, <3>2, NewPreserves
  <2> QED BY <1>5, <2>1, <2>2 DEF MakeClient
<1> QED BY <1>2, <1>3, <1>4, <1>5 DEF Make

\* A computation frees the result it is assigned to, and no other.
LEMMA CalculatePreserves ==
  ASSUME CoreInv, NEW v \in Variable, NEW i \in Variable, NEW r \in Variable,
         NEW fails \in BOOLEAN, Calculate(v, i, r, fails)
  PROVE  CoreInv'
<1> DEFINE a == ResultAt(heap[held[i]].at)
<1>1. CASE Status(v, i, fails) = "success"
  <2>1. held' = [held EXCEPT ![r] = NewId] /\ heap' = With(Rest(r), NewId, a)
    BY <1>1 DEF Calculate, Rest
  <2>2. "class" \in DOMAIN a /\ a.class = r.class
    BY DEF Calculate, ResultAt
  <2> HIDE DEF a
  <2> QED BY <2>1, <2>2, NewPreserves
<1>2. CASE Status(v, i, fails) # "success"
  BY <1>2 DEF Calculate, CoreInv, HeapShape, OneOwner, NothingDangling
<1> QED BY <1>1, <1>2

\* The callbacks of the objective write a potential's cache only.
LEMMA CallbackPreserves ==
  ASSUME CoreInv, NEW id, NEW c, NEW l,
         UNCHANGED held,
         \/ UNCHANGED heap
         \/ heap' = [heap EXCEPT ![id].cache = c]
         \/ heap' = [heap EXCEPT ![id].cache = c, ![id].latest = l]
  PROVE  CoreInv'
<1>1. CASE UNCHANGED heap
  BY <1>1 DEF CoreInv, HeapShape, OneOwner, NothingDangling
<1>2. CASE heap' = [heap EXCEPT ![id].cache = c]
  <2>1. DOMAIN heap' = DOMAIN heap /\ heap' = [n \in DOMAIN heap' |-> heap'[n]]
    BY <1>2
  <2>2. \A n \in DOMAIN heap : "class" \in DOMAIN heap'[n] /\ heap'[n].class = heap[n].class
    BY <1>2 DEF CoreInv, HeapShape
  <2> QED BY <2>1, <2>2, UpdatePreserves
<1>3. CASE heap' = [heap EXCEPT ![id].cache = c, ![id].latest = l]
  <2>1. DOMAIN heap' = DOMAIN heap /\ heap' = [n \in DOMAIN heap' |-> heap'[n]]
    BY <1>3
  <2>2. \A n \in DOMAIN heap : "class" \in DOMAIN heap'[n] /\ heap'[n].class = heap[n].class
    BY <1>3 DEF CoreInv, HeapShape
  <2> QED BY <2>1, <2>2, UpdatePreserves
<1> QED BY <1>1, <1>2, <1>3

\* Every step of the program and of its threads keeps the invariant.
LEMMA StepPreserves ==
  ASSUME CoreInv, [CoreNext]_cvars
  PROVE  CoreInv'
<1>1. ASSUME NEW v \in Variable, Make(v) PROVE CoreInv'
  BY <1>1, MakePreserves
<1>2. ASSUME NEW v \in Variable, DestroyVariable(v) PROVE CoreInv'
  <2>1. held' = [held EXCEPT ![v] = Absent] /\ heap' = Rest(v)
    BY <1>2 DEF DestroyVariable, Rest
  <2> QED BY <2>1, FreePreserves
<1>3. ASSUME NEW v \in Variable, NEW w \in Variable, MoveConstruct(v, w) PROVE CoreInv'
  <2>1. v # w /\ v.class = w.class
    BY <1>3 DEF MoveConstruct, Exists
  <2>2. held' = [held EXCEPT ![v] = held[w], ![w] = Null] /\ heap' = Rest(v)
    BY <1>3 DEF MoveConstruct, Exists, Live, Rest
  <2> QED BY <2>1, <2>2, MovePreserves
<1>4. ASSUME NEW v \in Variable, NEW w \in Variable, MoveAssign(v, w) PROVE CoreInv'
  <2>1. CASE v = w
    BY <1>4, <2>1 DEF MoveAssign, CoreInv, HeapShape, OneOwner, NothingDangling
  <2>2. CASE v # w
    <3>1. /\ v.class = w.class
          /\ held' = [held EXCEPT ![v] = held[w], ![w] = Null] /\ heap' = Rest(v)
      BY <1>4, <2>2 DEF MoveAssign, Rest
    <3> QED BY <2>2, <3>1, MovePreserves
  <2> QED BY <2>1, <2>2
<1>5. ASSUME NEW v \in Variable, NEW i \in Variable, NEW r \in Variable,
             NEW fails \in BOOLEAN, Calculate(v, i, r, fails)
      PROVE  CoreInv'
  BY <1>5, CalculatePreserves
<1>6. ASSUME NEW t \in Thread, NEW v \in Variable, NEW x \in Place,
             BeginEval(t, v, x) \/ BeginGrad(t, v, x)
      PROVE  CoreInv'
  <2>1. UNCHANGED held /\ (UNCHANGED heap \/ heap' = [heap EXCEPT ![held[v]].cache = NoValue])
    BY <1>6 DEF BeginEval, BeginGrad
  <2> QED BY <2>1, CallbackPreserves
<1>7. ASSUME NEW t \in Thread, NEW forces \in BOOLEAN, EndEval(t, forces) \/ EndGrad(t, forces)
      PROVE  CoreInv'
  <2>1. PICK c : /\ UNCHANGED held
                 /\ \/ UNCHANGED heap
                    \/ heap' = [heap EXCEPT ![thread[t].pot].cache = c,
                                            ![thread[t].pot].latest = c]
    BY <1>7 DEF EndEval, EndGrad
  <2> QED BY <2>1, CallbackPreserves
<1>8. ASSUME NEW s \in Setting, ChangeSetting(s) PROVE CoreInv'
  BY <1>8 DEF ChangeSetting, CoreInv, HeapShape, OneOwner, NothingDangling
<1>9. CASE UNCHANGED cvars
  BY <1>9 DEF cvars, CoreInv, HeapShape, OneOwner, NothingDangling
<1> QED BY <1>1, <1>2, <1>3, <1>4, <1>5, <1>6, <1>7, <1>8, <1>9 DEF CoreNext

LEMMA CoreOwned == CoreInv => AllocationsOwned
<1> SUFFICES ASSUME CoreInv PROVE AllocationsOwned
  OBVIOUS
<1>1. ASSUME NEW id \in DOMAIN heap
      PROVE  Cardinality({v \in Variable : held[v] = id}) = 1
  <2>1. PICK v \in Variable : held[v] = id /\ \A w \in Variable : held[w] = id => w = v
    BY <1>1 DEF CoreInv, OneOwner
  <2>2. {w \in Variable : held[w] = id} = {v}
    BY <2>1
  <2> QED BY <2>2, FS_Singleton
<1> QED BY <1>1 DEF AllocationsOwned, CoreInv, NothingDangling, Live

\* The cache of a potential is empty, or holds its latest evaluation.
Fused(a) == \E c, l : /\ a = [class |-> "potential", cache |-> c, latest |-> l]
                      /\ c # NoValue => c = l

CachesFused == \A id \in DOMAIN heap : heap[id].class = "potential" => Fused(heap[id])

\* The parameters do not change under an evaluation.
SettingKept ==
  /\ thread = [t \in Thread |-> thread[t]]
  /\ \A t \in Thread : thread[t].op # "none" => thread[t].under = setting

\* What a variable gives up or moves is no potential's cache.
LEMMA RestFused ==
  ASSUME CoreInv, CachesFused, NEW v \in Variable, heap' = Rest(v)
  PROVE  CachesFused'
BY RestFacts DEF CachesFused

\* A new allocation: only a potential has a cache, and it is empty.
LEMMA NewFused ==
  ASSUME CoreInv, CachesFused, NEW v \in Variable, NEW a,
         a.class = "potential" => Fused(a), heap' = With(Rest(v), NewId, a)
  PROVE  CachesFused'
<1>1. \A n \in DOMAIN heap' : heap'[n] = a \/ (n \in DOMAIN Rest(v) /\ heap'[n] = Rest(v)[n])
  BY DEF With
<1>2. \A n \in DOMAIN Rest(v) : n \in DOMAIN heap /\ Rest(v)[n] = heap[n]
  BY RestFacts
<1> QED BY <1>1, <1>2 DEF CachesFused

\* A callback empties a cache, or fills it and the latest evaluation alike.
LEMMA CallbackFused ==
  ASSUME CoreInv, CachesFused, NEW id, NEW c,
         \/ heap' = [heap EXCEPT ![id].cache = NoValue]
         \/ heap' = [heap EXCEPT ![id].cache = c, ![id].latest = c]
  PROVE  CachesFused'
<1> SUFFICES ASSUME NEW n \in DOMAIN heap', heap'[n].class = "potential"
             PROVE  Fused(heap'[n])
  BY DEF CachesFused
<1>1. n \in DOMAIN heap
  OBVIOUS
<1>2. CASE n # id
  <2>1. heap'[n] = heap[n]
    BY <1>1, <1>2
  <2> QED BY <1>1, <2>1 DEF CachesFused
<1>3. CASE n = id
  <2>1. heap[n].class = "potential"
    <3>1. "class" \in DOMAIN heap[n]
      BY <1>1 DEF CoreInv, HeapShape
    <3>2. \/ heap'[n] = [heap[n] EXCEPT !.cache = NoValue]
          \/ heap'[n] = [heap[n] EXCEPT !.cache = c, !.latest = c]
      BY <1>1, <1>3
    <3> QED BY <3>1, <3>2
  <2>2. PICK b, l : heap[n] = [class |-> "potential", cache |-> b, latest |-> l]
    BY <1>1, <2>1 DEF CachesFused, Fused
  <2>3. CASE heap' = [heap EXCEPT ![id].cache = NoValue]
    <3>1. heap'[n] = [heap[n] EXCEPT !.cache = NoValue]
      BY <1>1, <1>3, <2>3
    <3>2. heap'[n] = [class |-> "potential", cache |-> NoValue, latest |-> l]
      BY <2>2, <3>1
    <3> QED BY <3>2 DEF Fused
  <2>4. CASE heap' = [heap EXCEPT ![id].cache = c, ![id].latest = c]
    <3>1. heap'[n] = [heap[n] EXCEPT !.cache = c, !.latest = c]
      BY <1>1, <1>3, <2>4
    <3>2. heap'[n] = [class |-> "potential", cache |-> c, latest |-> c]
      BY <2>2, <3>1
    <3> QED BY <3>2 DEF Fused
  <2> QED BY <2>3, <2>4
<1> QED BY <1>2, <1>3

\* Every step leaves the caches fused.
LEMMA FusedStep ==
  ASSUME CoreInv, CachesFused, CoreNext
  PROVE  CachesFused'
<1>1. ASSUME NEW v \in Variable, Make(v) PROVE CachesFused'
  <2>1. Rest(v) = heap
    BY <1>1 DEF Make, Exists, Live, Rest
  <2>2. CASE UNCHANGED heap
    BY <2>2 DEF CachesFused
  <2>3. CASE ~UNCHANGED heap
    <3>1. PICK a : heap' = With(heap, NewId, a) /\ (a.class = "potential" => a = NewPotential)
      <4>1. CASE \E x \in Place : MakeInput(v, x)
        <5>1. PICK x \in Place : MakeInput(v, x)
          BY <4>1
        <5>2. InputAt(x).class # "potential" /\ heap' = With(heap, NewId, InputAt(x))
          BY <5>1 DEF MakeInput, InputAt
        <5> QED BY <5>2
      <4>2. CASE MakePotential(v)
        BY <4>2 DEF MakePotential
      <4>3. CASE \E made \in BOOLEAN : MakeClient(v, made)
        <5> DEFINE b == [class |-> "client"]
        <5>1. b.class # "potential" /\ heap' = With(heap, NewId, b)
          BY <2>3, <4>3 DEF MakeClient
        <5> QED BY <5>1
      <4> QED BY <1>1, <2>3, <4>1, <4>2, <4>3 DEF Make, MakeResult
    <3>2. Fused(NewPotential)
      BY DEF Fused, NewPotential
    <3> QED BY <2>1, <3>1, <3>2, NewFused
  <2> QED BY <2>2, <2>3
<1>2. ASSUME NEW v \in Variable, DestroyVariable(v) PROVE CachesFused'
  <2>1. heap' = Rest(v)
    BY <1>2 DEF DestroyVariable, Rest
  <2> QED BY <2>1, RestFused
<1>3. ASSUME NEW v \in Variable, NEW w \in Variable, MoveAssign(v, w) PROVE CachesFused'
  <2>1. UNCHANGED heap \/ heap' = Rest(v)
    BY <1>3 DEF MoveAssign, Rest
  <2> QED BY <2>1, RestFused DEF CachesFused
<1>4. ASSUME NEW v \in Variable, NEW i \in Variable, NEW r \in Variable,
             NEW fails \in BOOLEAN, Calculate(v, i, r, fails)
      PROVE  CachesFused'
  <2> DEFINE a == ResultAt(heap[held[i]].at)
  <2>1. UNCHANGED heap \/ heap' = With(Rest(r), NewId, a)
    BY <1>4 DEF Calculate, Rest
  <2>2. a.class # "potential"
    BY DEF ResultAt
  <2> HIDE DEF a
  <2> QED BY <2>1, <2>2, NewFused DEF CachesFused
<1>5. ASSUME NEW t \in Thread, NEW v \in Variable, NEW x \in Place, BeginGrad(t, v, x)
      PROVE  CachesFused'
  <2>1. heap' = [heap EXCEPT ![held[v]].cache = NoValue]
    BY <1>5 DEF BeginGrad
  <2> QED BY <2>1, CallbackFused
<1>6. ASSUME NEW t \in Thread, NEW forces \in BOOLEAN, EndEval(t, forces) PROVE CachesFused'
  <2>1. PICK c : heap' = [heap EXCEPT ![thread[t].pot].cache = c, ![thread[t].pot].latest = c]
    BY <1>6 DEF EndEval
  <2> QED BY <2>1, CallbackFused
<1>7. CASE UNCHANGED heap
  BY <1>7 DEF CachesFused
<1> QED BY <1>1, <1>2, <1>3, <1>4, <1>5, <1>6, <1>7
        DEF CoreNext, MoveConstruct, BeginEval, EndGrad, ChangeSetting

\* The parameters change only while no thread computes.
LEMMA SettingStep ==
  ASSUME SettingKept, CoreNext
  PROVE  SettingKept'
<1>1. ASSUME NEW t \in Thread, NEW op, NEW v, NEW x, Begin(t, op, v, x), UNCHANGED setting
      PROVE  SettingKept'
  BY <1>1 DEF Begin, SettingKept
<1>2. ASSUME NEW t \in Thread, thread' = [thread EXCEPT ![t] = Resting], UNCHANGED setting
      PROVE  SettingKept'
  BY <1>2 DEF SettingKept, Resting
<1>3. CASE UNCHANGED <<thread, setting>>
  BY <1>3 DEF SettingKept
<1>4. ASSUME NEW s \in Setting, ChangeSetting(s) PROVE SettingKept'
  BY <1>4 DEF ChangeSetting, SettingKept
<1>5. ASSUME NEW t \in Thread, NEW v \in Variable, NEW x \in Place,
             BeginEval(t, v, x) \/ BeginGrad(t, v, x)
      PROVE  SettingKept'
  <2>1. UNCHANGED setting /\ (UNCHANGED thread \/ Begin(t, "eval", v, x) \/ Begin(t, "grad", v, x))
    BY <1>5 DEF BeginEval, BeginGrad
  <2> QED BY <1>1, <1>3, <2>1
<1>6. ASSUME NEW t \in Thread, NEW forces \in BOOLEAN, EndEval(t, forces) \/ EndGrad(t, forces)
      PROVE  SettingKept'
  <2>1. UNCHANGED setting /\ thread' = [thread EXCEPT ![t] = Resting]
    BY <1>6 DEF EndEval, EndGrad
  <2> QED BY <1>2, <2>1
<1> QED BY <1>3, <1>4, <1>5, <1>6
        DEF CoreNext, Make, DestroyVariable, MoveConstruct, MoveAssign, Calculate

\* An answered gradient: from the cache, or computed for the thread that asked.
LEMMA GradientStep ==
  ASSUME CoreInv, CachesFused, SettingKept, GradientMatches, CoreNext
  PROVE  GradientMatches'
<1>1. ASSUME NEW t \in Thread, NEW v \in Variable, NEW x \in Place, BeginGrad(t, v, x),
             gradient' # gradient
      PROVE  GradientMatches'
  <2> DEFINE pot == heap[held[v]]
  <2>1. v.class = "potential" /\ held[v] \in DOMAIN heap /\ pot.class = "potential"
    BY <1>1 DEF BeginGrad, Live, CoreInv, NothingDangling
  <2>2. PICK c, l : /\ pot = [class |-> "potential", cache |-> c, latest |-> l]
                    /\ c # NoValue => c = l
    BY <2>1 DEF CachesFused, Fused
  <2>3. Serves(c, x) /\ pot.cache = c /\ pot.latest = l
    BY <1>1, <2>2 DEF BeginGrad
  <2>4. gradient' = [asked |-> x, at |-> c.at, under |-> c.under, now |-> setting, latest |-> l]
    BY <1>1, <2>3 DEF BeginGrad, Answer
  <2> QED BY <2>2, <2>3, <2>4 DEF GradientMatches, Serves
<1>2. ASSUME NEW t \in Thread, NEW forces \in BOOLEAN, EndGrad(t, forces), gradient' # gradient
      PROVE  GradientMatches'
  <2>1. thread[t].under = setting
    BY <1>2 DEF EndGrad, SettingKept
  <2>2. PICK l : gradient' = [asked |-> thread[t].at, at |-> thread[t].at,
                              under |-> thread[t].under, now |-> setting, latest |-> l]
    BY <1>2 DEF EndGrad, Answer
  <2> QED BY <2>1, <2>2 DEF GradientMatches
<1>3. CASE UNCHANGED gradient
  BY <1>3 DEF GradientMatches
<1> QED BY <1>1, <1>2, <1>3
        DEF CoreNext, Make, DestroyVariable, MoveConstruct, MoveAssign, Calculate, BeginEval,
            EndEval, ChangeSetting

ObjectsInv == CoreInv /\ CachesFused /\ SettingKept /\ GradientMatches

LEMMA ObjectsInit == CoreInit => ObjectsInv
<1>1. CoreInit => CoreInv
  BY DEF CoreInit, CoreInv, HeapShape, OneOwner, NothingDangling, Absent
<1>2. CoreInit => CachesFused /\ SettingKept /\ GradientMatches
  BY DEF CoreInit, CachesFused, SettingKept, Resting, GradientMatches
<1> QED BY <1>1, <1>2 DEF ObjectsInv

LEMMA ObjectsStep == ObjectsInv /\ [CoreNext]_cvars => ObjectsInv'
<1> SUFFICES ASSUME ObjectsInv, [CoreNext]_cvars PROVE ObjectsInv'
  OBVIOUS
<1>1. CoreInv'
  BY StepPreserves DEF ObjectsInv
<1>2. CASE CoreNext
  BY <1>1, <1>2, FusedStep, SettingStep, GradientStep DEF ObjectsInv
<1>3. CASE UNCHANGED cvars
  BY <1>1, <1>3 DEF cvars, ObjectsInv, CachesFused, SettingKept, GradientMatches
<1> QED BY <1>2, <1>3

\* The program over the core is one of the hosts: whatever else a host is, its steps
\* leave the core's objects alone.
LEMMA CoreStep == [Next]_vars => [CoreNext]_cvars
BY Zenon DEF Next, vars

\* Whatever the program moves, assigns, computes and destroys, in whatever order,
\* an allocation has one owner and an owner's allocation was not freed
\* (AllocationsOwned), for any number of variables, threads and steps.
THEOREM AllocationsOwnedHolds == (Spec => []AllocationsOwned) /\ (CoreSpec => []AllocationsOwned)
<1>1. ObjectsInv => AllocationsOwned
  BY CoreOwned DEF ObjectsInv
<1>2. Init => ObjectsInv
  BY ObjectsInit DEF Init
<1> QED BY <1>1, <1>2, ObjectsInit, ObjectsStep, CoreStep, PTL DEF Spec, CoreSpec

\* A gradient is of the place that was asked, and under the parameters of now or of
\* the potential's latest evaluation, whatever other threads evaluate, move or
\* compute meanwhile (rgpot-core/src/eindir.rs: eval-then-grad): what the cache
\* holds is the latest evaluation, and the parameters never change under one.
THEOREM GradientMatchesHolds == (Spec => []GradientMatches) /\ (CoreSpec => []GradientMatches)
<1>1. ObjectsInv => GradientMatches
  BY DEF ObjectsInv
<1>2. Init => ObjectsInv
  BY ObjectsInit DEF Init
<1> QED BY <1>1, <1>2, ObjectsInit, ObjectsStep, CoreStep, PTL DEF Spec, CoreSpec

-----------------------------------------------------------------------------
(* Conversions                                                             *)

\* A conversion is of one of the strings, and has no factor yet or that string's.
ConversionInv ==
  host = "converter" =>
    \E u \in Expression : \/ conversion = [of |-> u, factor |-> None]
                          \/ conversion = [of |-> u, factor |-> Factor(u, Angstrom)]

LEMMA ConversionStep == ConversionInv /\ [Next]_vars => ConversionInv'
<1> SUFFICES ASSUME ConversionInv, [Next]_vars, host' = "converter" PROVE ConversionInv'
  BY DEF ConversionInv
<1>1. ASSUME UNCHANGED host, UNCHANGED conversion
      PROVE  ConversionInv'
  BY <1>1 DEF ConversionInv
<1>2. CASE Convert
  <2>1. PICK u \in Expression : \E f : conversion = [of |-> u, factor |-> f]
    BY <1>2 DEF Convert, ConversionInv
  <2>2. conversion' = [of |-> u, factor |-> Factor(u, Angstrom)]
    BY <1>2, <2>1 DEF Convert
  <2> QED BY <2>2 DEF ConversionInv
<1>3. ASSUME NEW c \in Client, RequestStep(c)
      PROVE  UNCHANGED host /\ UNCHANGED conversion
  BY <1>3 DEF RequestStep, Send, Refuse, ForeignReply, Receive, Reply, Configure
<1>4. StartStep => UNCHANGED host /\ UNCHANGED conversion
  BY DEF StartStep, Start
<1>5. Engine \/ Dies \/ UNCHANGED svars \/ UNCHANGED service =>
        UNCHANGED host /\ UNCHANGED conversion
  BY DEF Engine, Dies, service, svars
<1> QED BY <1>1, <1>2, <1>3, <1>4, <1>5, StepCases

\* A string that has a meaning has the factor that it means (unit_conversion_factor):
\* the parser gives each string of any words, operators, parentheses and blanks, of
\* any length and depth, its usual reading.
THEOREM ConversionMeansHolds == Spec => []ConversionMeans
<1>1. Init => ConversionInv
  BY DEF Init, ConversionInv
<1>2. ConversionInv => ConversionMeans
  <2> DEFINE m == Meaning[Tokenize(conversion.of)]
             P == Parse(Angstrom)
  <2> SUFFICES ASSUME ConversionInv, host = "converter", conversion.factor # None,
                      conversion.of # << >>, m # Error
               PROVE  conversion.factor = IF m.dim = P.dim THEN Over(m, P).size ELSE NoFactor
    BY DEF ConversionMeans
  <2>1. /\ conversion.of \in Seq(Token \cup {"blank"})
        /\ conversion.factor = Factor(conversion.of, Angstrom)
    BY ServiceAssumption DEF ConversionInv
  <2>2. P # Error /\ Angstrom # << >>
    <3>1. "angstrom" \in DOMAIN Units
      BY DEF Units
    <3> QED BY <3>1, ParseOfUnit DEF Angstrom
  <2>3. Parse(conversion.of) = m
    <3>1. Tokenize(conversion.of) \in Seq(Token)
      BY <2>1, TokensOfString
    <3> QED BY <3>1, ParseMeans DEF Parse
  <2> HIDE DEF m, P
  <2>4. Factor(conversion.of, Angstrom) = Ratio(m, P)
    BY <2>2, <2>3 DEF Factor, P
  <2> QED BY <2>1, <2>2, <2>4 DEF Ratio
<1> QED BY <1>1, <1>2, ConversionStep, PTL DEF Spec

===============================================================================
