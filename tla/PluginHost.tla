------------------------------ MODULE PluginHost ------------------------------
(***************************************************************************)
(* Third-party potentials behind the C plugin ABI: the registry that loads *)
(* their libraries (plugin/PluginRegistry.cc), and the wrapper that calls  *)
(* into them (plugin/PluginBridge.cc).                                     *)
(*                                                                         *)
(* A library stays mapped while some shared_ptr made at its dlopen lives:  *)
(* the registry's, until static destruction, and those of the wrappers.    *)
(* Calls into plugins without RGPOT_CAP_INSTANCE_SAFE, every create and    *)
(* every destroy hold one recursive mutex of the process.                  *)
(***************************************************************************)
EXTENDS Integers, Sequences, FiniteSets, SequencesExt

CONSTANTS
  Thread,      \* host threads
  Pot,         \* wrappers a host may hold
  Name,        \* plugin names
  Library,     \* files on disk, numbered in the order of their paths
  NameOf,      \* the name in a library's descriptor
  Broken,      \* libraries with no entry point or an invalid descriptor
  Safe,        \* libraries that declare RGPOT_CAP_INSTANCE_SAFE
  Unitless,    \* libraries whose units do not convert to angstrom and eV
  PluginPath,  \* RGPOT_PLUGIN_PATH: the sequence of its directories, sets of files
  MaxCalls     \* bound on the calls of all threads

Builtin     == 0             \* the library of the built-in, which is the program
BuiltinName == "lennard-jones"

ASSUME PluginAssumption ==
  /\ IsFiniteSet(Thread) /\ Library \subseteq Nat \ {Builtin}
  /\ BuiltinName \in Name /\ NameOf \in [Library -> Name]
  /\ Broken \subseteq Library /\ Safe \subseteq Library /\ Unitless \subseteq Library
  /\ "nobody" \notin Thread /\ "no wrapper" \notin Pot
  /\ PluginPath \in Seq(SUBSET Library) /\ MaxCalls \in Nat

VARIABLES
  refs,        \* dlopen's count per library; at zero it is unmapped
  registry,    \* the PluginRegistry singleton still exists
  plugins,     \* the libraries it registered, in order
  pot,         \* per wrapper, the library it calls
  keeps,       \* wrappers whose m_library shares the registry's handle
  raw,         \* per wrapper, plugin instances created and not destroyed
  scratch,     \* per wrapper, the thread whose positions it converted last
  mutex,       \* the serial mutex: [owner, depth]
  call,        \* per thread: [step, lib, pot, queue] of the call it is in
  output,      \* per thread, whose result the caller's buffers hold
  left         \* calls the threads may still begin

libraries == <<refs, registry, plugins>>
wrappers  == <<pot, keeps, raw, scratch>>
vars      == <<libraries, wrappers, mutex, call, output, left>>

Nobody == "nobody"
NoPot  == "no wrapper"
None   == -1

Free  == [owner |-> Nobody, depth |-> 0]
Ready == [step |-> "host", lib |-> None, pot |-> NoPot, queue |-> << >>]

Init ==
  /\ refs = [f \in Library |-> 0]
  /\ registry = TRUE /\ plugins = <<Builtin>>
  /\ pot = [w \in Pot |-> None] /\ keeps = {}
  /\ raw = [w \in Pot |-> 0]
  /\ scratch = [w \in Pot |-> Nobody]
  /\ mutex = Free
  /\ call = [t \in Thread |-> Ready]
  /\ output = [t \in Thread |-> Nobody]
  /\ left = MaxCalls

At(t, step)   == call[t].step = step
Goes(t, step) == call' = [call EXCEPT ![t].step = step]
Returns(t)    == call' = [call EXCEPT ![t] = Ready]
Begins(t, step, f, w, paths) ==
  /\ At(t, "host") /\ left > 0
  /\ left' = left - 1
  /\ call' = [call EXCEPT ![t] = [step |-> step, lib |-> f, pot |-> w, queue |-> paths]]

-----------------------------------------------------------------------------
(* The serial mutex and the libraries' owners.                             *)

PlainMutex(t) == mutex.owner = Nobody

CanLock(t) == mutex.owner \in {Nobody, t}
Lock(t)    == CanLock(t) /\ mutex' = [owner |-> t, depth |-> mutex.depth + 1]
Unlock     == mutex' = IF mutex.depth = 1 THEN Free ELSE [mutex EXCEPT !.depth = @ - 1]

PluginName(f) == IF f = Builtin THEN BuiltinName ELSE NameOf[f]
SameFile(f) == f \in ToSet(plugins)

Taken(f)      == \E g \in ToSet(plugins) : PluginName(g) = PluginName(f)
IsSafe(f)     == f = Builtin \/ f \in Safe
Keepers(f)    == {w \in keeps : pot[w] = f}

\* A wrapper's m_library goes: the handle closes with the last owner of it.
DropLibrary(w) ==
  /\ pot' = [pot EXCEPT ![w] = None]
  /\ keeps' = keeps \ {w}
  /\ refs' = IF w \in keeps /\ ~registry /\ Keepers(pot[w]) = {w}
             THEN [refs EXCEPT ![pot[w]] = @ - 1] ELSE refs
  /\ UNCHANGED <<registry, plugins, raw, scratch>>

-----------------------------------------------------------------------------
(* The registry.                                                           *)

\* discover: every directory of RGPOT_PLUGIN_PATH in turn.
Discover(t) ==
  /\ registry
  /\ Begins(t, "scan", None, NoPot, PluginPath)
  /\ UNCHANGED <<libraries, wrappers, mutex, output>>

\* load_plugin, called by the host.
Load(t) ==
  /\ registry
  /\ \E f \in Library : Begins(t, "scan", None, NoPot, <<{f}>>)
  /\ UNCHANGED <<libraries, wrappers, mutex, output>>

\* load_plugin up to its mutex: dlopen, the entry point and checkedDescriptor, for
\* the next file of the directory in the order of paths.  A file that fails one of
\* them is closed again.
OpenPlugin(t) ==
  /\ At(t, "scan") /\ call[t].queue # << >>
  /\ \E f \in Head(call[t].queue) :
       /\ \A g \in Head(call[t].queue) : f <= g
       /\ refs' = IF f \in Broken THEN refs ELSE [refs EXCEPT ![f] = @ + 1]
       /\ call' = [call EXCEPT
            ![t] = [step |-> IF f \in Broken THEN "scan" ELSE "opened", lib |-> f, pot |-> NoPot,
                    queue |-> <<Head(@.queue) \ {f}>> \o Tail(@.queue)]]
  /\ UNCHANGED <<registry, plugins, wrappers, mutex, output, left>>

NextDirectory(t) ==
  /\ At(t, "scan") /\ call[t].queue # << >> /\ Head(call[t].queue) = {}
  /\ call' = [call EXCEPT ![t].queue = Tail(@)]
  /\ UNCHANGED <<libraries, wrappers, mutex, output, left>>

\* The mutex of load_plugin: the name is free, or the plugin is turned down.
Register(t) ==
  /\ At(t, "opened")
  /\ IF Taken(call[t].lib)
     THEN Goes(t, "unwanted") /\ UNCHANGED plugins
     ELSE Goes(t, "scan") /\ plugins' = Append(plugins, call[t].lib)
  /\ UNCHANGED <<refs, registry, wrappers, mutex, output, left>>

\* A library turned down is closed once the mutex is released.
CloseUnwanted(t) ==
  /\ At(t, "unwanted")
  /\ refs' = [refs EXCEPT ![call[t].lib] = @ - 1]
  /\ Goes(t, "scan")
  /\ UNCHANGED <<registry, plugins, wrappers, mutex, output, left>>

EndScan(t) ==
  /\ At(t, "scan") /\ call[t].queue = << >>
  /\ Returns(t)
  /\ UNCHANGED <<libraries, wrappers, mutex, output, left>>

\* Static destruction, when no thread is inside rgpot any more but globals of the
\* host may still own wrappers (tests/PluginLifetimeTest.cc).
DestroyRegistry ==
  /\ registry /\ \A t \in Thread : At(t, "host")
  /\ registry' = FALSE /\ plugins' = << >>
  /\ refs' = [f \in Library |-> IF f \in ToSet(plugins) /\ Keepers(f) = {}
                                THEN refs[f] - 1 ELSE refs[f]]
  /\ UNCHANGED <<wrappers, mutex, call, output, left>>

-----------------------------------------------------------------------------
(* The wrapper.                                                            *)

UnretainedCreate(t) ==
  /\ registry
  /\ \E w \in Pot, f \in ToSet(plugins) :
       /\ pot[w] = None
       /\ Begins(t, "create", f, w, << >>)
       /\ pot' = [pot EXCEPT ![w] = f]
  /\ UNCHANGED <<libraries, keeps, raw, scratch, mutex, output>>

\* create_from_plugin up to its mutex: the host found a plugin by name, and the
\* registry hands out the library that goes with the descriptor.
BeginCreate(t) ==
  /\ registry
  /\ \E w \in Pot, f \in ToSet(plugins) :
       /\ pot[w] = None
       /\ Begins(t, "create", f, w, << >>)
       /\ pot' = [pot EXCEPT ![w] = f]
       /\ keeps' = IF f = Builtin THEN keeps ELSE keeps \cup {w}
  /\ UNCHANGED <<libraries, raw, scratch, mutex, output>>

\* The units of the descriptor are converted before the mutex is taken: the exception
\* releases the library, and there is no instance yet.
UnitsRefused(t) ==
  /\ At(t, "create") /\ call[t].lib \in Unitless
  /\ DropLibrary(call[t].pot)
  /\ Returns(t)
  /\ UNCHANGED <<mutex, output, left>>

EnterCreate(t) ==
  /\ At(t, "create") /\ call[t].lib \notin Unitless /\ Lock(t)
  /\ Goes(t, "creating")
  /\ UNCHANGED <<libraries, wrappers, output, left>>

\* Mutant: an instance that comes with a failure is dropped.
FailureForgets(t) ==
  /\ At(t, "creating")
  /\ \E instance, works \in BOOLEAN :
       /\ raw' = IF instance THEN [raw EXCEPT ![call[t].pot] = @ + 1] ELSE raw
       /\ Goes(t, IF instance /\ works THEN "created" ELSE "failed")
  /\ UNCHANGED <<libraries, pot, keeps, scratch, mutex, output, left>>

\* create returns or throws, with an instance or without.  An instance that comes
\* with a failure, or lacks energy or forces, is given back.
CreateReturns(t) ==
  /\ At(t, "creating")
  /\ \E instance, works \in BOOLEAN :
       /\ raw' = IF instance THEN [raw EXCEPT ![call[t].pot] = @ + 1] ELSE raw
       /\ Goes(t, IF ~instance THEN "failed" ELSE IF works THEN "created" ELSE "giveback")
  /\ UNCHANGED <<libraries, pot, keeps, scratch, mutex, output, left>>

\* The deleter, called under the mutex that its own thread holds.
GiveBack(t) ==
  /\ At(t, "giveback") /\ Lock(t)
  /\ Goes(t, "discarding")
  /\ UNCHANGED <<libraries, wrappers, output, left>>

Discarded(t) ==
  /\ At(t, "discarding")
  /\ raw' = [raw EXCEPT ![call[t].pot] = @ - 1]
  /\ Unlock
  /\ Goes(t, "failed")
  /\ UNCHANGED <<libraries, pot, keeps, scratch, output, left>>

\* The exception leaves: it releases the mutex, then the library.
CreateFails(t) ==
  /\ At(t, "failed")
  /\ Unlock /\ DropLibrary(call[t].pot)
  /\ Returns(t)
  /\ UNCHANGED <<output, left>>

Created(t) ==
  /\ At(t, "created")
  /\ Unlock
  /\ Returns(t)
  /\ UNCHANGED <<libraries, wrappers, output, left>>

\* A host calls a wrapper that it holds and that nobody creates or destroys.  PotCaps
\* allows one call at a time where instances are safe, and any number where the
\* process is serial.
Held(w)   == pot[w] # None /\ \A t \in Thread : call[t].pot = w =>
                                call[t].step \in {"force", "forcing"}
Unused(w) == \A t \in Thread : call[t].pot # w

FilledBeforeLock(t) ==
  /\ \E w \in Pot :
       /\ Held(w) /\ (IsSafe(pot[w]) => Unused(w))
       /\ Begins(t, "force", pot[w], w, << >>)
       /\ scratch' = [scratch EXCEPT ![w] = t]
  /\ output' = [output EXCEPT ![t] = Nobody]
  /\ UNCHANGED <<libraries, pot, keeps, raw, mutex>>

BeginForce(t) ==
  /\ \E w \in Pot :
       /\ Held(w) /\ (IsSafe(pot[w]) => Unused(w))
       /\ Begins(t, "force", pot[w], w, << >>)
  /\ output' = [output EXCEPT ![t] = Nobody]
  /\ UNCHANGED <<libraries, wrappers, mutex>>

\* forceImpl: a serial plugin under the mutex, then the scratch buffers filled.
Guard(t) == IF IsSafe(call[t].lib) THEN UNCHANGED mutex ELSE Lock(t)

EnterForce(t) ==
  /\ At(t, "force") /\ Guard(t)
  /\ scratch' = [scratch EXCEPT ![call[t].pot] = t]
  /\ Goes(t, "forcing")
  /\ UNCHANGED <<libraries, pot, keeps, raw, output, left>>

\* The plugin computes for the positions in the scratch buffer.  A failure, or a
\* value that is not finite, throws before the caller's buffers are written.
ForceReturns(t) ==
  /\ At(t, "forcing")
  /\ \/ output' = [output EXCEPT ![t] = scratch[call[t].pot]]
     \/ UNCHANGED output
  /\ IF IsSafe(call[t].lib) THEN UNCHANGED mutex ELSE Unlock
  /\ Returns(t)
  /\ UNCHANGED <<libraries, wrappers, left>>

\* ~PluginPot: the instance, under the mutex, then the library.
BeginDestroy(t) ==
  /\ \E w \in Pot : Held(w) /\ Unused(w) /\ Begins(t, "destroy", pot[w], w, << >>)
  /\ UNCHANGED <<libraries, wrappers, mutex, output>>

DestroyUnlocked(t) == At(t, "destroy") /\ mutex' = [mutex EXCEPT !.depth = @ + 1]
                      /\ Goes(t, "destroying") /\ UNCHANGED <<libraries, wrappers, output, left>>

EnterDestroy(t) ==
  /\ At(t, "destroy") /\ Lock(t)
  /\ Goes(t, "destroying")
  /\ UNCHANGED <<libraries, wrappers, output, left>>

Destroyed(t) ==
  /\ At(t, "destroying")
  /\ raw' = [raw EXCEPT ![call[t].pot] = @ - 1]
  /\ Unlock
  /\ Goes(t, "release")
  /\ UNCHANGED <<libraries, pot, keeps, scratch, output, left>>

ReleaseLibrary(t) ==
  /\ At(t, "release")
  /\ DropLibrary(call[t].pot)
  /\ Returns(t)
  /\ UNCHANGED <<mutex, output, left>>

-----------------------------------------------------------------------------

Begin(t) == Discover(t) \/ Load(t) \/ BeginCreate(t) \/ BeginForce(t) \/ BeginDestroy(t)

Proceed(t) ==
  \/ OpenPlugin(t) \/ NextDirectory(t) \/ Register(t) \/ CloseUnwanted(t) \/ EndScan(t)
  \/ UnitsRefused(t) \/ EnterCreate(t) \/ CreateReturns(t) \/ GiveBack(t) \/ Discarded(t)
  \/ CreateFails(t) \/ Created(t)
  \/ EnterForce(t) \/ ForceReturns(t)
  \/ EnterDestroy(t) \/ Destroyed(t) \/ ReleaseLibrary(t)

\* The program has ended, perhaps without destroying every wrapper.
Ended == ~registry /\ (\A t \in Thread : At(t, "host")) /\ UNCHANGED vars

Next == (\E t \in Thread : Begin(t) \/ Proceed(t)) \/ DestroyRegistry \/ Ended

Spec == Init /\ [][Next]_vars

\* Threads are scheduled and plugins return.  A thread gets the serial mutex in the
\* end because the calls of the others are bounded.
FairSpec == Spec /\ \A t \in Thread : WF_vars(Proceed(t))

-----------------------------------------------------------------------------
(* Properties.                                                             *)

Mapped(f) == f = Builtin \/ refs[f] > 0

\* The code of an instance stays mapped until its destructor has run, also when
\* the registry goes first: "Keep a registered descriptor's library mapped for a
\* live instance" (PluginRegistry.hpp:37).
CodeStaysMapped == \A w \in Pot : pot[w] # None => Mapped(pot[w])

InCode(t) == call[t].step \in {"creating", "discarding", "forcing", "destroying"}

\* "the host serializes calls across all instances of this plugin" (plugin.h:56-57):
\* two threads are never at once inside plugins that are not instance-safe.
SerialCodeAlone ==
  \A s, t \in Thread :
    s # t /\ InCode(s) /\ InCode(t)
    => IsSafe(call[s].lib) \/ IsSafe(call[t].lib)

\* What a force call hands back was computed from its own positions, although
\* the buffers belong to the wrapper (PluginBridge.cc:69-101, 149-150).
OwnResult == \A t \in Thread : output[t] \in {Nobody, t}

\* A name finds one plugin, whoever loads what at the same time
\* (PluginRegistry.cc:75-81, 104-111).
OnePluginPerName ==
  \A i, j \in DOMAIN plugins : PluginName(plugins[i]) = PluginName(plugins[j]) => i = j

Opening(f) == {t \in Thread : call[t].step \in {"opened", "unwanted"} /\ call[t].lib = f}
Shared(f)  == f \in ToSet(plugins) \/ Keepers(f) # {}

\* Every dlopen is undone once: a library is open once for the plugin and the
\* wrappers that share it, and once for each load that is still deciding.  An
\* instance that create made is owned until it is destroyed, also when create
\* reports a failure (PluginBridge.cc:141-156).
NothingLost ==
  /\ \A f \in Library : refs[f] = Cardinality(Opening(f)) + (IF Shared(f) THEN 1 ELSE 0)
  /\ \A w \in Pot : raw[w] \in {0, 1} /\ (raw[w] = 1 => pot[w] # None)

\* The guards of Proceed: inside a call a thread waits for the serial mutex only.
CanProceed(t) ==
  LET step == call[t].step IN
  /\ step # "host"
  /\ step = "create" => call[t].lib \in Unitless \/ CanLock(t)
  /\ step \in {"giveback", "destroy"} => CanLock(t)
  /\ step = "force" => IsSafe(call[t].lib) \/ CanLock(t)

\* A thread that waits for the serial mutex waits for another one, which does not
\* wait itself: not for itself after a create that failed under the mutex, and not for
\* one that has left and kept it (PluginBridge.cc:35-44, 71-73, 132-157).
HolderProceeds ==
  \A t \in Thread : At(t, "host") \/ CanProceed(t)
                    \/ (mutex.owner \in Thread \ {t} /\ CanProceed(mutex.owner))

\* Every call returns: the mutex is recursive because a failed create destroys its
\* instance under it.
CallsReturn == \A t \in Thread : ~At(t, "host") ~> At(t, "host")

=============================================================================
