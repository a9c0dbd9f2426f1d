---------------------------- MODULE EngineLibraries ----------------------------
(***************************************************************************)
(* The shared libraries of the heavy engines, and who keeps them mapped.   *)
(* XTBDlopen and MetatomicDlopen own a handle and a native potential;      *)
(* MOPACPot owns a handle; NWChemPot hands its handle to a process-wide    *)
(* registry; CPMDPot owns a handle and a session, and pins one more for    *)
(* the communicator adopter that librgpot will call; ProfileLoader may     *)
(* load again.  Each family has its own libraries, so a behaviour is about *)
(* one family, chosen by Init.                                             *)
(*                                                                         *)
(* Calls are steps.  Only where a call ends native objects before it       *)
(* closes their library is it two steps.                                   *)
(***************************************************************************)
EXTENDS Integers, FiniteSets

CONSTANTS
  Calc,        \* objects a host constructs
  Lib,         \* library files
  Default,     \* what the environment and the default names find, if present
  Disks,       \* what the files may be: functions from Lib to Kind
  MaxCalls     \* bound on the calls of the host

Family == {"xtb", "metatomic", "mopac", "nwchem", "cpmd", "profile"}

\* A file is missing; lacks entry points or has another ABI version; is a stub
\* that says it is not available; or is whole, with sessions or one-shot calls.
Kind == {"absent", "partial", "stub", "oneshot", "whole"}

ASSUME LibraryAssumption ==
  /\ IsFiniteSet(Calc) /\ Default \in Lib /\ "no library" \notin Lib
  /\ Disks \subseteq [Lib -> Kind] /\ MaxCalls \in Nat

None == "no library"

VARIABLES
  family, disk,   \* fixed by Init
  refs,           \* dlopen's count per library
  calc,           \* per object: [phase, path, handle, table, loaded, native]
  natives,        \* potentials and sessions alive in each library
  registry,       \* libraries that a process-wide registry holds a handle of
  adopters,       \* libraries whose callback librgpot will call
  abandoned,      \* handles that MetatomicDlopen left open on purpose
  probe,          \* the static bundle of the probes: [handle, loaded]
  left            \* calls the host may still make

vars == <<family, disk, refs, calc, natives, registry, adopters, abandoned, probe, left>>

NoCalc == [phase |-> "none", path |-> None, handle |-> None, table |-> None,
           loaded |-> FALSE, native |-> None]
NoProbe == [handle |-> None, loaded |-> FALSE]

Init ==
  /\ family \in Family /\ disk \in Disks
  /\ refs = [l \in Lib |-> 0]
  /\ calc = [c \in Calc |-> NoCalc]
  /\ natives = [l \in Lib |-> 0]
  /\ registry = {} /\ adopters = {}
  /\ abandoned = [l \in Lib |-> 0]
  /\ probe = NoProbe
  /\ left = MaxCalls

Calls == left > 0 /\ left' = left - 1 /\ UNCHANGED <<family, disk>>

\* f with one more at l; one less; None is no library.
Plus(f, l)  == [k \in Lib |-> IF k = l THEN f[k] + 1 ELSE f[k]]
Minus(f, l) == [k \in Lib |-> IF k = l THEN f[k] - 1 ELSE f[k]]

-----------------------------------------------------------------------------
(* Finding and resolving a library.                                        *)

\* The first that dlopen takes: the explicit path, then the environment and the
\* default names.
Opened(path) ==
  IF path # None /\ disk[path] # "absent" THEN path
  ELSE IF disk[Default] # "absent" THEN Default ELSE None

\* What try_load_engine, or a constructor, asks of the symbols it resolved.
Loads(l) ==
  /\ l # None /\ disk[l] # "partial"
  /\ family \in {"xtb", "metatomic", "mopac"} => disk[l] # "stub"

\* cpmd: newer engines have sessions, and a callback for the communicator.
HasSession(l) == disk[l] # "oneshot"
HasAdopter(l) == disk[l] # "oneshot"

\* An object's handle, as DynLib::open leaves it: what it held is closed first.
Swapped(c, l) == Plus(Minus(refs, calc[c].handle), l)

-----------------------------------------------------------------------------
(* xtb and metatomic: construct or throw, destroy.                         *)

\* A library without the symbols, the version or a potential is closed again.
NewNative(c, path) ==
  /\ family \in {"xtb", "metatomic"} /\ calc[c].phase = "none"
  /\ Calls
  /\ LET l == Opened(path) IN
       \/ /\ Loads(l)                          \* create returned a potential
          /\ refs' = Plus(refs, l)
          /\ natives' = Plus(natives, l)
          /\ calc' = [calc EXCEPT ![c] = [phase |-> "live", path |-> path, handle |-> l,
                                          table |-> l, loaded |-> TRUE, native |-> l]]
       \/ UNCHANGED <<refs, natives, calc>>    \* it threw
  /\ UNCHANGED <<registry, adopters, abandoned, probe>>

-----------------------------------------------------------------------------
(* mopac, nwchem, cpmd: an object whose engine may be missing.             *)

\* retain_engine: the registry holds one handle per engine for ever, and the
\* bundle none.
Retained(l) == family = "nwchem" /\ Loads(l)

\* The handles of the process once c loaded l: c has closed the one it held.
RefsAfterLoad(c, l) ==
  IF Retained(l) /\ l \in registry THEN Minus(refs, calc[c].handle) ELSE Swapped(c, l)

Bundle(c, path, l) ==
  [calc[c] EXCEPT !.phase = "live", !.path = path,
                  !.handle = IF Retained(l) THEN None ELSE l,
                  !.table = l, !.loaded = Loads(l)]

\* MOPACPot and NWChemPot, constructed, or NWChemPot::setParams while no engine
\* is loaded; later calls keep the one that is.
LoadEngine(c, path) ==
  /\ family \in {"mopac", "nwchem"}
  /\ \/ calc[c].phase = "none"
     \/ family = "nwchem" /\ calc[c].phase = "live" /\ ~calc[c].loaded
  /\ Calls
  /\ LET l == Opened(path) IN
       /\ refs' = RefsAfterLoad(c, l)
       /\ calc' = [calc EXCEPT ![c] = Bundle(c, path, l)]
       /\ registry' = IF Retained(l) THEN registry \cup {l} ELSE registry
  /\ UNCHANGED <<natives, adopters, abandoned, probe>>

\* register_engine_adopter: the first time, a handle of the registry's own.
Pins(l, before) ==
  IF ~HasAdopter(l) THEN refs' = before /\ UNCHANGED <<registry, adopters>>
  ELSE /\ registry' = registry \cup {l} /\ adopters' = adopters \cup {l}
       /\ refs' = IF l \in registry THEN before ELSE Plus(before, l)

\* configure: the adopter, then the parameters, in a new session if the engine has
\* sessions.  The engine may refuse either.
Configured(c, b, before) ==
  /\ Pins(b.table, before)
  /\ \/ /\ HasSession(b.table)
        /\ natives' = Plus(Minus(natives, calc[c].native), b.table)
        /\ calc' = [calc EXCEPT ![c] = [b EXCEPT !.native = b.table]]
     \/ /\ natives' = Minus(natives, calc[c].native)
        /\ calc' = [calc EXCEPT ![c] = [b EXCEPT !.native = None]]
     \/ /\ HasAdopter(b.table)
        /\ natives' = Minus(natives, calc[c].native)
        /\ calc' = [calc EXCEPT ![c] = [b EXCEPT !.native = None, !.loaded = FALSE]]

LoadCpmd(c, path) ==
  LET l == Opened(path)
      b == Bundle(c, path, l)
  IN  IF b.loaded THEN Configured(c, b, Swapped(c, l))
      ELSE /\ refs' = Swapped(c, l)
           /\ calc' = [calc EXCEPT ![c] = b]
           /\ UNCHANGED <<natives, registry, adopters>>

NewCpmd(c, path) ==
  /\ family = "cpmd" /\ calc[c].phase = "none"
  /\ Calls
  /\ LoadCpmd(c, path)
  /\ UNCHANGED <<abandoned, probe>>

\* Mutant: the session is not destroyed.
SessionForgotten(c, phase, path) ==
  /\ natives' = natives
  /\ calc' = [calc EXCEPT ![c].native = None, ![c].phase = phase, ![c].path = path]

\* setParams with another path, or with no engine loaded: the session ends in the
\* old library, which the bundle closes before it loads the new one.
SessionEnds(c, phase, path) ==
  /\ natives' = Minus(natives, calc[c].native)
  /\ calc' = [calc EXCEPT ![c].native = None, ![c].phase = phase, ![c].path = path]

BeginReload(c, path) ==
  /\ family = "cpmd" /\ calc[c].phase = "live"
  /\ ~calc[c].loaded \/ path # calc[c].path
  /\ Calls
  /\ SessionEnds(c, "reloading", path)
  /\ UNCHANGED <<refs, registry, adopters, abandoned, probe>>

Reload(c) ==
  /\ calc[c].phase = "reloading"
  /\ LoadCpmd(c, calc[c].path)
  /\ UNCHANGED <<family, disk, abandoned, probe, left>>

\* setParams with the same path and other parameters.
Reconfigure(c) ==
  /\ family = "cpmd" /\ calc[c].phase = "live" /\ calc[c].loaded
  /\ Calls
  /\ Configured(c, calc[c], refs)
  /\ UNCHANGED <<abandoned, probe>>

TransientAdopts(l) == adopters' = adopters \cup {l} /\ UNCHANGED <<refs, registry>>

\* CPMDPot::bindCalculators: the adopter, from a bundle that closes on return.
AdoptsFrom(l) == Pins(l, refs)

BindCalculators ==
  /\ family = "cpmd"
  /\ Calls
  /\ LET l == Opened(None) IN Loads(l) /\ HasAdopter(l) /\ AdoptsFrom(l)
  /\ UNCHANGED <<calc, natives, abandoned, probe>>

-----------------------------------------------------------------------------
(* profile: ProfileLoader::load, on a fresh loader or again.               *)

\* load throws on a partial library with the new handle open; when nothing opens,
\* the old one is closed all the same.  loaded() then asks for a handle and for one
\* of the thirteen symbols.
LoadProfile(c, path) ==
  /\ family = "profile" /\ calc[c].phase \in {"none", "live"}
  /\ Calls
  /\ LET l == Opened(path) IN
       /\ refs' = Swapped(c, l)
       /\ \E has \in (IF l = None THEN {FALSE} ELSE IF Loads(l) THEN {TRUE} ELSE BOOLEAN) :
            calc' = [calc EXCEPT ![c] =
              [phase |-> "live", path |-> path, handle |-> l,
               table |-> IF l = None THEN calc[c].table ELSE l,
               loaded |-> has, native |-> None]]
  /\ UNCHANGED <<natives, registry, adopters, abandoned, probe>>

-----------------------------------------------------------------------------
(* The end of an object, and the probes.                                   *)

BeginDestroy(c) ==
  /\ calc[c].phase = "live"
  /\ Calls
  /\ SessionEnds(c, "closing", calc[c].path)
  /\ UNCHANGED <<refs, registry, adopters, abandoned, probe>>

ClosesAll(c) ==
  /\ calc[c].phase = "closing"
  /\ refs' = Minus(refs, calc[c].handle)
  /\ calc' = [calc EXCEPT ![c] = NoCalc]
  /\ UNCHANGED <<family, disk, natives, registry, adopters, abandoned, probe, left>>

\* MetatomicDlopen leaves its library mapped; every other handle closes.
CloseLibrary(c) ==
  /\ calc[c].phase = "closing"
  /\ IF family = "metatomic"
     THEN abandoned' = Plus(abandoned, calc[c].handle) /\ UNCHANGED refs
     ELSE refs' = Minus(refs, calc[c].handle) /\ UNCHANGED abandoned
  /\ calc' = [calc EXCEPT ![c] = NoCalc]
  /\ UNCHANGED <<family, disk, natives, registry, adopters, probe, left>>

\* A probe loads by the default names.  NWChem and MOPAC keep the bundle they probed
\* with, and try again while it is not loaded; CPMD closes it.
ProbeLoad ==
  LET l    == Opened(None)
      kept == IF family = "cpmd" \/ Retained(l) THEN None ELSE l
  IN  IF probe.loaded THEN UNCHANGED <<probe, refs, registry>>
      ELSE /\ probe' = [handle |-> kept, loaded |-> Loads(l) /\ family # "cpmd"]
           /\ registry' = IF Retained(l) THEN registry \cup {l} ELSE registry
           /\ refs' = LET freed == Minus(refs, probe.handle) IN
                IF ~Retained(l) THEN Plus(freed, kept)
                ELSE IF l \in registry THEN freed ELSE Plus(freed, l)

\* probe_available and abi_available, each of which loads once.
Probe ==
  /\ family \in {"mopac", "nwchem", "cpmd"}
  /\ Calls
  /\ ProbeLoad
  /\ UNCHANGED <<calc, natives, adopters, abandoned>>

Next ==
  \/ \E c \in Calc, path \in Lib \cup {None} :
       \/ NewNative(c, path) \/ LoadEngine(c, path) \/ NewCpmd(c, path)
       \/ BeginReload(c, path) \/ LoadProfile(c, path)
  \/ \E c \in Calc : Reload(c) \/ Reconfigure(c) \/ BeginDestroy(c) \/ CloseLibrary(c)
  \/ BindCalculators \/ Probe

Spec == Init /\ [][Next]_vars

-----------------------------------------------------------------------------
(* Properties.                                                             *)

Mapped(l) == refs[l] > 0

\* No pointer that a call may follow leads into an unmapped library: the table of an
\* object that says it is loaded, its native object until that is destroyed, and the
\* adopters librgpot holds ("Instance destruction and enginePath changes cannot unload
\* a registered callback", CPMDPot.cc:205-206).
PointersMapped ==
  /\ \A c \in Calc :
       /\ calc[c].loaded => calc[c].table # None /\ Mapped(calc[c].table)
       /\ calc[c].native # None => Mapped(calc[c].native)
  /\ \A l \in adopters : Mapped(l)

Owners(l) == {c \in Calc : calc[c].handle = l}

\* Every dlopen is undone once, or held by an owner that is still there; and a
\* potential or session lives as long as the object that created it: none outlives
\* its destructor or a reload, and none is shared.
HandlesBalance ==
  \A l \in Lib :
    /\ refs[l] = Cardinality(Owners(l)) + (IF l \in registry THEN 1 ELSE 0)
                + (IF probe.handle = l THEN 1 ELSE 0) + abandoned[l]
    /\ natives[l] = Cardinality({c \in Calc : calc[c].native = l})

Ran(l) ==
  \/ l \in registry \/ abandoned[l] > 0
  \/ \E c \in Calc : calc[c].loaded /\ calc[c].table = l

\* "Do not dlclose libnwchemc once loaded" (NWChemPot.cc:312), nor torch once it has
\* run (MetatomicDlopen.cc:163-164): their libraries stay mapped for ever.
RuntimesStay ==
  [][\A l \in Lib : family \in {"nwchem", "metatomic"} /\ Ran(l) => (refs'[l] > 0)]_vars

=============================================================================
