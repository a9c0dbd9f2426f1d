---------------------------- MODULE EngineAdapters ----------------------------
(***************************************************************************)
(* Force calls on the potentials that wrap an external engine, through     *)
(* every entry point: operator(), forceBatch, the engine C ABIs and        *)
(* PotentialHandle (CppCore/rgpot/Potential.hpp and the *Pot directories). *)
(*                                                                         *)
(* A result is the record of what the engine was given; whatever an object *)
(* keeps between calls (a molecule, cached species, a session, a loaded    *)
(* package, parameters) may put something else into it than the call.      *)
(* "d3" stands for D3Pot and D4Pot, which differ in their parameters only. *)
(***************************************************************************)
EXTENDS Integers, Sequences, FiniteSets, SequencesExt

CONSTANTS System,       \* [types, pos, box]: atomic numbers, and bytes of coordinates and cell
          Batch,        \* sequences of systems the host evaluates together
          Param,        \* parameter sets; BadParam: one that the engine refuses
          BadParam,
          UmaPackage,   \* [batch, types, param, cube, readable]
          Model,        \* Metatomic's configuration: [rotations, probe, random]
          OrbitalKey,
          None,
          MaxCalls,     \* bound: calls of the host or requests of the clients
          MaxFaults     \* bound: failures inside the engines

ASSUME AdapterAssumption ==
  /\ \A b \in Batch : b \in Seq(Range(b))
  /\ \A s \in System \cup UNION {Range(b) : b \in Batch} : s.types \in Seq(Nat)

Linked  == {"xtb", "tblite", "d3"}
DLoaded == {"mopac", "nwchem", "skala", "cpmd"}
Family  == Linked \cup DLoaded \cup {"metatomic", "uma"}

VARIABLES family,       \* the class of the object
          cached,       \* a PotentialCache is set
          package,      \* what the model file holds
          present,      \* the engine library is installed
          obj,          \* the object
          natives,      \* how many native objects of each kind exist
          cache,        \* the database: it outlives the object
          call,         \* the call that runs, or the last one
          used,         \* [calls, faults] so far
          asked         \* history: the species lists and the parameters that the object, or
                        \* with a cache the database, was asked for

avars == <<family, cached, package, present, obj, natives, cache, call, used, asked>>

\* Something that may be missing is a set of at most one: the contents of the
\* caller's buffers for energy and forces, a session, a contract.
Old == [E |-> {}, F |-> {}]

-----------------------------------------------------------------------------
(* The object and its native handles                                       *)

Kind == {"env", "calc", "res", "param", "mol", "model"}

\* Handles made by the constructor, in order.
Handles ==
  IF family = "xtb" THEN <<"env", "calc", "res">>
  ELSE IF family = "tblite" THEN <<"env", "res">>
  ELSE IF family = "d3" THEN <<"env", "param">> ELSE << >>

Gone == [live |-> FALSE, params |-> None, key |-> None, ready |-> FALSE, broken |-> FALSE,
         types |-> << >>, natoms |-> 0, held |-> {}, contract |-> {},
         session |-> {}, orbital |-> None]

Keyed == {"uma", "skala", "cpmd"}
\* paramsKey: most adapters keep the default.
KeyOf(p) == IF family \in Keyed THEN p ELSE "0"

NoCall == [stage |-> "none"]
Nothing == [types |-> {}, params |-> {}]
MayFail == used.faults < MaxFaults

Made(kinds) == [k \in Kind |-> natives[k] + (IF k \in kinds THEN 1 ELSE 0)]

\* CPMD: a session holds the parameters it was created with and an orbital key.
NewSession(p) ==
  IF family = "cpmd" /\ present /\ p # BadParam THEN {[params |-> p, orbital |-> None]} ELSE {}

NewObject(p) == [Gone EXCEPT !.live = TRUE, !.params = p, !.key = KeyOf(p),
                             !.held = Range(Handles), !.session = NewSession(p)]

\* Mutant: the handles made before the one that failed are kept.
ConstructLeaks(p, n) ==
  /\ used.calls < MaxCalls
  /\ ~obj.live
  /\ call.stage # "force"
  /\ call' = NoCall
  /\ n # 0 => n \in DOMAIN Handles /\ MayFail
  /\ used' = [calls |-> used.calls + 1, faults |-> used.faults + (IF n = 0 THEN 0 ELSE 1)]
  /\ IF n = 0
     THEN obj' = NewObject(p) /\ natives' = Made(Range(Handles))
     ELSE obj' = Gone /\ natives' = Made(Range(SubSeq(Handles, 1, n - 1)))
  /\ UNCHANGED <<family, cached, package, present, cache, asked>>

\* A constructor; its n-th handle fails (0: none).  xtb and tblite give back
\* what they made; D3Pot throws out of the constructor with its error handle.
Construct(p, n) ==
  /\ used.calls < MaxCalls
  /\ ~obj.live
  /\ call.stage # "force"
  /\ call' = NoCall
  /\ n # 0 => n \in DOMAIN Handles /\ MayFail
  /\ used' = [calls |-> used.calls + 1, faults |-> used.faults + (IF n = 0 THEN 0 ELSE 1)]
  /\ ~(family = "skala" /\ p = BadParam)
  /\ IF n = 0
     THEN obj' = NewObject(p) /\ natives' = Made(Range(Handles))
     ELSE /\ obj' = Gone
          /\ natives' = Made(IF family = "d3" THEN Range(SubSeq(Handles, 1, n - 1)) ELSE {})
  /\ UNCHANGED <<family, cached, package, present, cache, asked>>

Destroy ==
  /\ used.calls < MaxCalls
  /\ obj.live
  /\ call.stage # "force"
  /\ call' = NoCall
  /\ used' = [used EXCEPT !.calls = @ + 1]
  /\ obj' = Gone
  /\ natives' = [k \in Kind |-> natives[k] - (IF k \in obj.held THEN 1 ELSE 0)]
  /\ asked' = IF cached THEN asked ELSE Nothing
  /\ UNCHANGED <<family, cached, package, present, cache>>

\* setChargeSpin, setChargeMultiplicity, setParams: the fingerprint follows the
\* parameters.  Skala throws on bad ones before either changes; a CPMD session
\* is kept if its parameters are the same ones and recreated if not.
Configured(p) ==
  IF family = "skala" /\ p = BadParam THEN obj
  ELSE [obj EXCEPT !.params = p, !.key = KeyOf(p),
                   !.session = IF \E o \in @ : o.params = p THEN @ ELSE NewSession(p)]

\* Whether the caller is told that the parameters hold.
Accepted(p) ==
  /\ p # BadParam
  /\ family = "nwchem" => present
  /\ family = "cpmd" => Configured(p).session # {}

Reconfigure(p) ==
  /\ used.calls < MaxCalls
  /\ obj.live
  /\ call.stage # "force"
  /\ call' = NoCall
  /\ family \in {"uma", "skala", "nwchem", "cpmd"}
  /\ used' = [used EXCEPT !.calls = @ + 1]
  /\ obj' = Configured(p)
  /\ UNCHANGED <<family, cached, package, present, natives, cache, asked>>

\* selectOrbitals
SelectOrbitals(k) ==
  /\ used.calls < MaxCalls
  /\ obj.live
  /\ call.stage # "force"
  /\ call' = NoCall
  /\ family = "cpmd"
  /\ used' = [used EXCEPT !.calls = @ + 1]
  /\ obj' = [obj EXCEPT !.orbital = k]
  /\ UNCHANGED <<family, cached, package, present, natives, cache, asked>>

-----------------------------------------------------------------------------
(* The cache                                                               *)

\* The xor of the hashes: equal ones cancel.
Xor(A, B) == (A \ B) \cup (B \ A)

\* Mutant: the cell is left out.
BoxlessKey(s) ==
  Xor(Xor({<<"real", s.pos>>}, {<<"int", s.types>>}),
      Xor({<<"word", family>>}, {<<"word", obj.key>>}))

\* cacheKey.  Cells and the coordinates of three atoms are both nine doubles.
CacheKey(s) ==
  Xor(Xor({<<"real", s.pos>>}, {<<"int", s.types>>}),
      Xor({<<"real", s.box>>}, Xor({<<"word", family>>}, {<<"word", obj.key>>})))

\* find; the other entry points do not ask the cache.
Hit(via, s) == cached /\ via \in {"operator", "batch"} /\ CacheKey(s) \in DOMAIN cache

\* add_serialized, for the computed systems of a call.
Stored ==
  LET new  == IF cached /\ call.via \in {"operator", "batch"} THEN call.misses ELSE {}
      keys == {CacheKey(call.batch[i]) : i \in new}
      last == [k \in keys |-> Max({i \in new : CacheKey(call.batch[i]) = k})]
  IN  [k \in DOMAIN cache \cup keys |->
         IF k \in keys THEN CHOOSE r \in call.out[last[k]].E : TRUE ELSE cache[k]]

-----------------------------------------------------------------------------
(* A call enters, computes its misses one by one, and returns.             *)

Via == {"operator", "batch", "handle"}
       \cup (IF family \in {"xtb", "metatomic", "uma"} THEN {"abi"} ELSE {})
       \cup (IF family = "uma" THEN {"abi_batch"} ELSE {})

Both(r) == [E |-> {r}, F |-> {r}]

Fresh(via, batch) ==
  LET misses == {i \in DOMAIN batch : ~Hit(via, batch[i])}
  IN  [stage  |-> "force", via |-> via, batch |-> batch, fault |-> FALSE,
       misses |-> misses, todo |-> misses,
       out    |-> [i \in DOMAIN batch |->
                     IF i \in misses THEN Old ELSE Both(cache[CacheKey(batch[i])])],
       seen   |-> [i \in DOMAIN batch |-> Old]]

\* The history, with a call for a batch.
Asked(batch) == [types  |-> asked.types \cup {s.types : s \in Range(batch)},
                 params |-> asked.params \cup {obj.params}]

Enter(via, batch) ==
  /\ used.calls < MaxCalls
  /\ obj.live
  /\ call.stage # "force"
  /\ via \in Via
  /\ via \notin {"batch", "abi_batch"} => Len(batch) = 1
  /\ via = "abi_batch" => \A i \in DOMAIN batch : batch[i].types = batch[1].types
  /\ used' = [used EXCEPT !.calls = @ + 1]
  /\ call' = Fresh(via, batch)
  /\ asked' = Asked(batch)
  /\ UNCHANGED <<family, cached, package, present, obj, natives, cache>>

\* The system whose turn it is.
Turn    == Min(call.todo)
Current == call.batch[Turn]
Fault(f) == used' = [used EXCEPT !.faults = @ + (IF f THEN 1 ELSE 0)]

\* What the engine computes from, given the species and parameters it holds.
Result(types, s, params) ==
  [types |-> types, pos |-> s.pos, box |-> s.box, params |-> params,
   orbital |-> obj.orbital, frames |-> {}]

\* The results of some of the systems, the buffers of the rest as they were.
Filled(results) ==
  [call EXCEPT !.todo = @ \ DOMAIN results,
               !.out  = [i \in DOMAIN @ |->
                           IF i \in DOMAIN results THEN Both(results[i]) ELSE @[i]]]

Computed(result) == Filled([i \in {Turn} |-> result])

\* Mutant: the C ABI hands the caller's buffers to forceImpl.
SeenThrough(out) == out

\* operator(), the C ABI and the handle compute into buffers of their own;
\* a cached forceBatch and the batched C ABI pass the caller's force arrays on
\* and write the energies only when all are there.
SeenAfterThrow(out) ==
  [i \in DOMAIN out |->
     IF call.via \in {"operator", "abi", "handle"} THEN Old
     ELSE IF call.via = "abi_batch" \/ (cached /\ i \in call.misses)
     THEN [out[i] EXCEPT !.E = {}] ELSE out[i]]

Thrown(out, fault) ==
  [call EXCEPT !.stage = "threw", !.out = out, !.fault = fault, !.seen = SeenAfterThrow(out)]

-----------------------------------------------------------------------------
(* XTBPot, TBLitePot, D3Pot and D4Pot                                      *)

\* The species of a molecule are set when it is made; an update moves its atoms.
\* With another number of atoms an update reads and writes outside of the
\* buffers: whatever comes out is not a result of this system.
Moved(s) ==
  IF Len(obj.types) = Len(s.types) THEN Result(obj.types, s, obj.params)
  ELSE [Result(obj.types, s, obj.params) EXCEPT !.pos = None]

\* at: what fails in the engine ("calculator", "scf"), or "none".  The first call
\* makes the molecule and loads the parametrisation, and counts as done even if that
\* failed: the object stays broken then.  After an SCF that failed it does not.
XtbForce(at) ==
  LET first == ~obj.ready
      o == IF first THEN [obj EXCEPT !.ready = TRUE, !.types = Current.types,
                                     !.held = @ \cup {"mol"}, !.broken = at = "calculator"]
           ELSE obj
  IN  /\ family = "xtb"
      /\ first \/ at # "calculator"
      /\ obj' = o
      /\ natives' = IF first THEN Made({"mol"}) ELSE natives
      /\ call' = IF at # "none" \/ o.broken THEN Thrown(call.out, at # "none")
                 ELSE Computed(IF first THEN Result(Current.types, Current, obj.params)
                               ELSE Moved(Current))

\* Mutant: a molecule that was made counts as initialized, with a calculator or not.
TbliteEager(at) ==
  LET first == ~obj.ready
      o == IF first THEN [obj EXCEPT !.ready = TRUE, !.types = Current.types,
                                     !.held = @ \cup {"mol", "calc"},
                                     !.broken = at = "calculator"]
           ELSE obj
  IN  /\ family = "tblite"
      /\ obj' = o
      /\ natives' = IF first THEN Made({"mol", "calc"}) ELSE natives
      /\ call' = IF at # "none" \/ o.broken THEN Thrown(call.out, at # "none")
                 ELSE Computed(IF first THEN Result(Current.types, Current, obj.params)
                               ELSE Moved(Current))

\* at: where the engine fails ("structure", "calculator", "scf"), or "none".
\* After a calculator that failed the next call makes both anew, over the old.
TbliteForce(at) ==
  LET first == ~obj.ready
      made  == IF ~first \/ at = "structure" THEN {} ELSE {"mol", "calc"}
      ok    == first /\ at \notin {"structure", "calculator"}
  IN  /\ family = "tblite"
      /\ first \/ at \in {"none", "scf"}
      /\ obj' = [obj EXCEPT !.ready = @ \/ ok, !.held = @ \cup made,
                            !.types = IF ok THEN Current.types ELSE @]
      /\ natives' = Made(made)
      /\ call' = IF at # "none" THEN Thrown(call.out, TRUE)
                 ELSE Computed(IF first THEN Result(Current.types, Current, obj.params)
                               ELSE Moved(Current))

\* The molecule and the model are rebuilt for another number of atoms.  If that
\* fails the old number stays recorded, without a molecule or without a model:
\* calls of the old number of atoms fail until another number is asked for.
DftdForce(at) ==
  LET n       == Len(Current.types)
      rebuild == ~obj.ready \/ obj.natoms # n
      made    == IF ~rebuild \/ at = "structure" THEN {}
                 ELSE IF at = "model" THEN {"mol"} ELSE {"mol", "model"}
      held    == IF rebuild THEN (obj.held \ {"mol", "model"}) \cup made ELSE obj.held
      whole   == {"mol", "model"} \subseteq held
  IN  /\ family = "d3"
      /\ rebuild \/ at \in {"none", "dispersion"}
      /\ obj' = [obj EXCEPT !.held = held,
                            !.ready = @ \/ (rebuild /\ whole),
                            !.natoms = IF rebuild /\ whole THEN n ELSE @,
                            !.types = IF rebuild /\ made # {} THEN Current.types ELSE @]
      /\ natives' = [k \in Kind |-> natives[k]
                       - (IF rebuild /\ k \in obj.held \cap {"mol", "model"} THEN 1 ELSE 0)
                       + (IF k \in made THEN 1 ELSE 0)]
      /\ call' = IF at = "dispersion"   \* the gradient may be in the buffer by then
                 THEN Thrown([call.out EXCEPT ![Turn].F =
                                {[Result(obj'.types, Current, obj.params) EXCEPT !.pos = None]}],
                             TRUE)
                 ELSE IF at # "none" \/ ~whole THEN Thrown(call.out, at # "none")
                 ELSE Computed(Result(obj'.types, Current, obj.params))

-----------------------------------------------------------------------------
(* MetatomicPot                                                            *)

Axes == {<<1, 2, 3>>, <<2, 3, 1>>, <<3, 1, 2>>, <<1, 3, 2>>, <<3, 2, 1>>, <<2, 1, 3>>}
Even == {<<1, 2, 3>>, <<2, 3, 1>>, <<3, 1, 2>>}
Identity == [axis |-> <<1, 2, 3>>, sign |-> <<1, 1, 1>>]

Det(r) == (IF r.axis \in Even THEN 1 ELSE -1) * r.sign[1] * r.sign[2] * r.sign[3]

\* rotation_group: signed permutation matrices with determinant 1, row i of a
\* matrix being sign[i] at axis[i].  All 24, or the 12 with an even permutation
\* and an even number of sign flips.
RotationGroup(n) ==
  {r \in [axis : Axes, sign : [1 .. 3 -> {-1, 1}]] :
     /\ Det(r) = 1
     /\ n < 24 => r.axis \in Even /\ Cardinality({i \in 1 .. 3 : r.sign[i] = -1}) % 2 = 0}

Product(r, q) == [axis |-> [i \in 1 .. 3 |-> q.axis[r.axis[i]]],
                  sign |-> [i \in 1 .. 3 |-> r.sign[i] * q.sign[r.axis[i]]]]

\* The orientations whose average is the answer: the unrotated one if the others
\* only probe the scatter or there are none, a group, or a sample with a seed for
\* each pass.
Frames ==
  IF IF package.rotations = 0 THEN ~package.random ELSE package.probe THEN {"unrotated"}
  ELSE IF package.rotations >= 12 THEN {"group"}
  ELSE {<<"seed", i>> : i \in 1 .. Max({1, package.rotations})}

\* The species are kept for as long as the number of atoms stays the same.
Species(s) == IF obj.natoms # Len(s.types) THEN s.types ELSE obj.types

\* Energy and forces of one model run per pass, turned back and averaged.
Averaged(s) == [Result(Species(s), s, obj.params) EXCEPT !.frames = Frames]

MetatomicForce(fault) ==
  /\ family = "metatomic"
  /\ obj' = [obj EXCEPT !.natoms = Len(Current.types), !.types = Species(Current)]
  /\ call' = IF fault THEN Thrown(call.out, TRUE) ELSE Computed(Averaged(Current))
  /\ UNCHANGED natives

-----------------------------------------------------------------------------
(* UmaPot                                                                  *)

\* UmaContract::fromMetadata, checkConfig and checkSystem.
Contract == IF package.readable THEN {[types |-> package.types, param |-> package.param]} ELSE {}
CountOf(types, z) == Cardinality({i \in DOMAIN types : types[i] = z})
Composed(types, like) ==
  Len(types) = Len(like) /\ \A z \in Range(types) \cup Range(like) :
                              CountOf(types, z) = CountOf(like, z)

Matches(s) ==
  \A c \in obj'.contract : obj.params = c.param /\ Composed(s.types, c.types)

\* The systems of the next run of the package: a band package takes up to its
\* batch, all of them with the species of the first in the same order.
Band ==
  IF package.batch > 1
  THEN {i \in call.todo : Cardinality({j \in call.todo : j < i}) < package.batch}
  ELSE {Turn}

Uniform ==
  package.batch > 1 => \A i, j \in call.misses : call.batch[i].types = call.batch[j].types

\* ensureLoaded, on the first call.
EnsureLoaded(fault) ==
  IF obj.ready \/ fault THEN obj ELSE [obj EXCEPT !.ready = TRUE, !.contract = Contract]

\* One system in a run: a molecular package puts it in a cube of its own.
UmaResult(s) ==
  [Result(s.types, s, obj.params) EXCEPT !.box = IF package.cube THEN None ELSE @]

\* forceImpl and forceBatchImpl.  If the metadata of the package cannot be read, the
\* call that loads it throws, and later ones run without a contract.  A run pads its
\* chunk with copies of the last system and drops their results.
UmaForce(fault) ==
  LET unreadable == ~obj.ready /\ ~package.readable
  IN  /\ family = "uma"
      /\ obj' = EnsureLoaded(fault)
      /\ call' = IF fault \/ unreadable \/ ~Uniform \/ ~Matches(Current)
                 THEN Thrown(call.out, fault)
                 ELSE Filled([i \in Band |-> UmaResult(call.batch[i])])
      /\ UNCHANGED natives

-----------------------------------------------------------------------------
(* MOPACPot, NWChemPot, SkalaPot and CPMDPot                               *)

Available == present /\ (family = "cpmd" => obj.session # {})

\* forceSession: the selected orbital key goes to the session on every call.
OrbitalNamed(o) ==
  [o EXCEPT !.orbital = IF obj.orbital # None THEN obj.orbital ELSE @]

\* NWChem and MOPAC take the parameters with the call; a CPMD session has its own.
DlopenForce(fault) ==
  /\ family \in DLoaded
  /\ IF fault \/ ~Available \/ (family # "mopac" /\ obj.params = BadParam)
     THEN call' = Thrown(call.out, fault) /\ UNCHANGED obj
     ELSE IF family = "cpmd"
     THEN \E o \in obj.session :
            /\ obj' = [obj EXCEPT !.session = {OrbitalNamed(o)}]
            /\ call' = Computed([Result(Current.types, Current, o.params)
                                   EXCEPT !.orbital = OrbitalNamed(o).orbital])
     ELSE /\ UNCHANGED obj
          /\ call' = Computed(Result(Current.types, Current, obj.params))
  /\ UNCHANGED natives

-----------------------------------------------------------------------------

Compute ==
  /\ call.stage = "force"
  /\ call.todo # {}
  /\ \/ \E f \in BOOLEAN :
          /\ f => MayFail
          /\ Fault(f)
          /\ MetatomicForce(f) \/ UmaForce(f) \/ DlopenForce(f)
     \/ \E at \in {"none", "structure", "calculator", "model", "scf", "dispersion"} :
          /\ at # "none" => MayFail
          /\ Fault(at # "none")
          /\ \/ at \in {"none", "calculator", "scf"} /\ XtbForce(at)
             \/ at \notin {"model", "dispersion"} /\ TbliteForce(at)
             \/ at \notin {"calculator", "scf"} /\ DftdForce(at)
  /\ UNCHANGED <<family, cached, package, present, cache, asked>>

Return ==
  /\ call.stage = "force"
  /\ call.todo = {}
  /\ cache' = Stored
  /\ call' = [call EXCEPT !.stage = "done", !.seen = call.out]
  /\ UNCHANGED <<family, cached, package, present, obj, natives, used, asked>>

AInit ==
  /\ family \in Family
  /\ cached \in BOOLEAN
  /\ package \in IF family = "uma" THEN UmaPackage
                ELSE IF family = "metatomic" THEN Model ELSE {None}
  /\ present \in BOOLEAN
  /\ family \notin DLoaded => present
  /\ obj = Gone
  /\ natives = [k \in Kind |-> 0]
  /\ cache = << >>
  /\ call = NoCall
  /\ used = [calls |-> 0, faults |-> 0]
  /\ asked = Nothing
-----------------------------------------------------------------------------
(* Properties                                                              *)

\* The product of two orientations of an orbit is in the orbit.
GroupsClosed ==
  \A G \in {RotationGroup(12), RotationGroup(24)} :
    Cardinality(G) \in {12, 24} /\ \A q, t \in G : Product(q, t) \in G

\* The object, or one of its predecessors whose results a cache kept, was asked for
\* species that its engine cannot tell apart: xtb and tblite make one molecule, D3,
\* D4 and Metatomic keep the species for as long as the number of atoms is the same.
SpeciesMixed ==
  \E a, b \in asked.types :
    a # b /\ \/ family \in {"xtb", "tblite"}
             \/ family \in {"d3", "metatomic"} /\ Len(a) = Len(b)

\* A cache without a fingerprint of the parameters was asked under two sets.
ParamsMixed == cached /\ family \notin Keyed /\ \E p, q \in asked.params : p # q

\* A result that a caller gets for its i-th system.
Fits(i, r) ==
  LET s == call.batch[i]
  IN  /\ ~SpeciesMixed => r.types = s.types /\ r.pos = s.pos
                          /\ (r.box = s.box \/ (family = "uma" /\ package.cube))
      /\ ~ParamsMixed => r.params = obj.params
      /\ family = "uma" /\ package.readable =>
           r.params = package.param /\ Composed(s.types, package.types)
      /\ obj.orbital # None /\ i \in call.misses => r.orbital = obj.orbital
      /\ family = "metatomic" => r.frames = Frames /\ GroupsClosed

\* No system's coordinates are another's cell, nor its own: the keys of two systems
\* are equal then only if the systems are.
PartsDistinct ==
  LET all == System \cup UNION {Range(b) : b \in Batch}
  IN  \A s, t \in all : s.pos # t.box

\* Every answer is an energy and forces of one computation on its own system, its
\* species, coordinates and cell, under the parameters of now, for as long as the
\* host does not mix what the object or its cache cannot tell apart (SpeciesMixed,
\* ParamsMixed; AnswersIndependent fails where it does); with the
\* orbitals the host selected, for a system the package is made for (one that cannot
\* be read is not compared with anything), and an average over orientations that is
\* the same on every call and, for a group, closed.
AnswerFits ==
  call.stage = "done" =>
    \A i \in DOMAIN call.batch :
      /\ call.seen[i].E # {} /\ call.seen[i].F = call.seen[i].E
      /\ \A r \in call.seen[i].E : Fits(i, r)

\* What AnswerFits says under conditions, without them: the systems of a batch and the
\* calls of an object share nothing, so every answer is about the species and the
\* coordinates it was asked for (Potential::forceBatchImpl, ForceStructs.hpp), and
\* results never cross parameter sets (paramsKey and cacheKey in Potential.hpp).
AnswersIndependent ==
  call.stage = "done" =>
    \A i \in DOMAIN call.batch : \A r \in call.seen[i].E :
      /\ r.types = call.batch[i].types /\ r.pos = call.batch[i].pos
      /\ r.params = obj.params

\* A call fails for a fault of its own, an engine that is missing or was given bad
\* parameters, or a system that the package is not made for; only xtb and the
\* dispersion potentials fail for a fault of an earlier call.
FailureHasCause ==
  call.stage = "threw" =>
    \/ call.fault
    \/ family \in DLoaded /\ (~present \/ (family # "mopac" /\ obj.params = BadParam))
    \/ family \in {"xtb", "d3"} /\ used.faults > 0
    \/ /\ family = "uma"
       /\ \/ ~package.readable
          \/ obj.params # package.param
          \/ \E i \in DOMAIN call.batch : ~Composed(call.batch[i].types, package.types)
          \/ package.batch > 1 /\ \E i, j \in DOMAIN call.batch :
                                    call.batch[i].types # call.batch[j].types

\* After an exception a caller that owns its buffers through the C ABI, a handle or
\* operator() finds them as they were, and nobody an energy without its forces.
OutputsWhole ==
  call.stage = "threw" =>
    \A i \in DOMAIN call.batch :
      /\ call.seen[i].E # {} => call.seen[i].F = call.seen[i].E
      /\ call.via \in {"operator", "abi", "handle"} => call.seen[i] = Old

\* Each native handle is the object's: none is freed twice, and none is left over
\* but those of TBLitePot and D3Pot after a failure.
NativesHeld ==
  \A k \in Kind :
    LET extra == natives[k] - (IF k \in obj.held THEN 1 ELSE 0)
    IN  extra \in 0 .. (IF family \in {"tblite", "d3"} THEN used.faults ELSE 0)
===============================================================================
