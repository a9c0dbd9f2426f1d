------------------------- MODULE EngineLibrariesProofs -------------------------
(***************************************************************************)
(* The properties of EngineLibraries, for every set of objects and of      *)
(* library files, whatever the files are, and any number of calls.         *)
(*                                                                         *)
(* HandlesBalance is inductive with Links, which says where the pointers   *)
(* of an object lead: into the library it has a handle of, or, for NWChem, *)
(* into one that the process-wide registry holds.                          *)
(***************************************************************************)
EXTENDS EngineLibraries, TLAPS, FiniteSetTheorems

Phase   == {"none", "live", "reloading", "closing"}
AnyLib  == Lib \cup {None}
Counts  == [Lib -> Int]
CalcRec == [phase : Phase, path : AnyLib, handle : AnyLib, table : AnyLib,
            loaded : BOOLEAN, native : AnyLib]

Types ==
  /\ family \in Family /\ disk \in [Lib -> Kind]
  /\ refs \in Counts /\ natives \in Counts /\ abandoned \in [Lib -> Nat]
  /\ calc \in [Calc -> CalcRec]
  /\ registry \subseteq Lib /\ adopters \subseteq registry
  /\ probe \in [handle : AnyLib, loaded : BOOLEAN]

\* What an object's fields say of each other.
Linked(r, fam, kept) ==
  /\ r.loaded => r.table \in Lib
  /\ r.loaded => IF fam = "nwchem" THEN r.table \in kept ELSE r.table = r.handle
  /\ r.native # None => r.native = r.handle /\ fam \in {"xtb", "metatomic", "cpmd"}
  /\ r.phase = "none" => r = NoCalc
  /\ r.phase = "reloading" => fam = "cpmd"
  /\ r.phase \in {"reloading", "closing"} => r.native = None

Links == \A c \in Calc : Linked(calc[c], family, registry)

IInv == Types /\ Links /\ HandlesBalance

One(k, l)   == IF k = l THEN 1 ELSE 0
Held(l)     == IF l \in registry THEN 1 ELSE 0

-----------------------------------------------------------------------------
(* Counting.                                                               *)

\* The numbers of a set that gains or loses one element.
LEMMA OneMember ==
  ASSUME NEW A, NEW B, NEW c, IsFiniteSet(A), \A x : x # c => (x \in A <=> x \in B)
  PROVE  /\ Cardinality(A) \in Nat
         /\ Cardinality(B) = Cardinality(A) + (IF c \in B THEN 1 ELSE 0) - (IF c \in A THEN 1 ELSE 0)
<1>1. Cardinality(A) \in Nat
  BY FS_CardinalityType
<1>2. CASE c \in B
  <2>1. B = A \cup {c}
    BY <1>2
  <2> QED BY <1>1, <1>2, <2>1, FS_AddElement, SMTT(30)
<1>3. CASE c \notin B
  <2>1. B = A \ {c}
    BY <1>3
  <2>2. Cardinality(B) = IF c \in A THEN Cardinality(A) - 1 ELSE Cardinality(A)
    BY <2>1, FS_RemoveElement
  <2> QED BY <1>1, <1>3, <2>2
<1> QED BY <1>1, <1>2, <1>3

\* One handle more or one less; no library is no handle.
LEMMA Counted ==
  ASSUME NEW f \in Counts, NEW k \in AnyLib
  PROVE  /\ Plus(f, k) \in Counts /\ Minus(f, k) \in Counts
         /\ \A l \in Lib : Plus(f, k)[l] = f[l] + One(k, l) /\ Minus(f, k)[l] = f[l] - One(k, l)
BY DEF Plus, Minus, One, Counts

\* The object c changes; the others are as they were.
Changed(c, r) == calc' \in [Calc -> CalcRec] /\ calc'[c] = r
                 /\ \A d \in Calc : d # c => calc'[d] = calc[d]

\* The books balance when each count changes with its owners: the handle and the
\* native of one object, the registry's handle, the probe's and the abandoned ones.
LEMMA BalanceKept ==
  ASSUME IInv, NEW c \in Calc, NEW r, Changed(c, r),
         \A l \in Lib : refs'[l] = refs[l] + One(r.handle, l) - One(calc[c].handle, l)
                          + Held(l)' - Held(l) + One(probe'.handle, l) - One(probe.handle, l)
                          + abandoned'[l] - abandoned[l],
         \A l \in Lib : natives'[l] = natives[l] + One(r.native, l) - One(calc[c].native, l),
         abandoned' \in [Lib -> Nat]
  PROVE  HandlesBalance'
<1>1. ASSUME NEW l \in Lib
      PROVE  /\ refs'[l] = Cardinality(Owners(l)') + (IF l \in registry' THEN 1 ELSE 0)
                             + (IF probe'.handle = l THEN 1 ELSE 0) + abandoned'[l]
             /\ natives'[l] = Cardinality({d \in Calc : calc'[d].native = l})
  <2> DEFINE A == Owners(l)
             B == {d \in Calc : calc'[d].handle = l}
             C == {d \in Calc : calc[d].native = l}
             D == {d \in Calc : calc'[d].native = l}
  <2>1. IsFiniteSet(A) /\ IsFiniteSet(C)
    BY LibraryAssumption, FS_Subset DEF Owners
  <2>2. /\ \A d : d # c => (d \in A <=> d \in B)
        /\ \A d : d # c => (d \in C <=> d \in D)
    BY DEF Owners, Changed
  <2>3. /\ (IF c \in A THEN 1 ELSE 0) = One(calc[c].handle, l)
        /\ (IF c \in B THEN 1 ELSE 0) = One(r.handle, l)
        /\ (IF c \in C THEN 1 ELSE 0) = One(calc[c].native, l)
        /\ (IF c \in D THEN 1 ELSE 0) = One(r.native, l)
    BY DEF Owners, Changed, One
  <2>4. Owners(l)' = B
    BY DEF Owners
  <2>5. /\ refs[l] = Cardinality(A) + (IF l \in registry THEN 1 ELSE 0)
                       + (IF probe.handle = l THEN 1 ELSE 0) + abandoned[l]
        /\ natives[l] = Cardinality(C)
    BY DEF IInv, HandlesBalance
  <2>6. Held(l) \in {0, 1} /\ Held(l)' \in {0, 1} /\ One(probe.handle, l) \in {0, 1}
        /\ One(probe'.handle, l) \in {0, 1} /\ abandoned[l] \in Nat /\ abandoned'[l] \in Nat
    BY DEF Held, One, IInv, Types
  <2> HIDE DEF A, B, C, D
  <2>7. /\ Cardinality(A) \in Nat
        /\ Cardinality(B) = Cardinality(A) + One(r.handle, l) - One(calc[c].handle, l)
    BY <2>1, <2>2, <2>3, OneMember
  <2>8. /\ Cardinality(C) \in Nat
        /\ Cardinality(D) = Cardinality(C) + One(r.native, l) - One(calc[c].native, l)
    BY <2>1, <2>2, <2>3, OneMember
  <2>9. refs'[l] = Cardinality(B) + (IF l \in registry' THEN 1 ELSE 0)
                     + (IF probe'.handle = l THEN 1 ELSE 0) + abandoned'[l]
    <3>1. One(r.handle, l) \in {0, 1} /\ One(calc[c].handle, l) \in {0, 1}
      BY DEF One
    <3>2. refs[l] = Cardinality(A) + Held(l) + One(probe.handle, l) + abandoned[l]
      BY <2>5 DEF Held, One
    <3>3. refs'[l] = Cardinality(B) + Held(l)' + One(probe'.handle, l) + abandoned'[l]
      BY <2>6, <2>7, <3>1, <3>2
    <3> QED BY <3>3 DEF Held, One
  <2>10. natives'[l] = Cardinality(D)
    BY <2>5, <2>8 DEF One
  <2> QED BY <2>4, <2>9, <2>10 DEF D
<1> QED BY <1>1 DEF HandlesBalance, Owners

\* A new record for one object.
LEMMA SetCalc ==
  ASSUME Types, NEW c \in Calc, NEW r \in CalcRec, calc' = [calc EXCEPT ![c] = r]
  PROVE  Changed(c, r)
BY DEF Types, Changed

\* The other objects' pointers still lead where they led.
LEMMA LinksKept ==
  ASSUME IInv, NEW c \in Calc, NEW r, Changed(c, r), UNCHANGED family,
         registry \subseteq registry', Linked(r, family, registry')
  PROVE  Links'
<1>1. ASSUME NEW d \in Calc PROVE Linked(calc'[d], family', registry')
  <2>1. CASE d = c
    BY <2>1 DEF Changed
  <2>2. CASE d # c
    <3>1. calc'[d] = calc[d] /\ Linked(calc[d], family, registry)
      BY <2>2 DEF IInv, Links, Changed
    <3> QED BY <3>1 DEF Linked
  <2> QED BY <2>1, <2>2
<1> QED BY <1>1 DEF Links

\* The counts are numbers.
LEMMA Numbers ==
  ASSUME IInv, NEW l \in Lib
  PROVE  /\ refs[l] \in Int /\ natives[l] \in Int /\ abandoned[l] \in Nat
         /\ Held(l) \in {0, 1} /\ Held(l)' \in {0, 1}
         /\ \A k : One(k, l) \in {0, 1}
BY DEF IInv, Types, Counts, Held, One

\* The books of a call that changes no object: the registry's and the probe's handles.
LEMMA RegistryBalance ==
  ASSUME IInv, UNCHANGED <<calc, natives, abandoned>>,
         \A l \in Lib : refs'[l] = refs[l] + Held(l)' - Held(l)
                          + One(probe'.handle, l) - One(probe.handle, l)
  PROVE  HandlesBalance'
<1>1. ASSUME NEW l \in Lib
      PROVE  refs'[l] = Cardinality(Owners(l)) + (IF l \in registry' THEN 1 ELSE 0)
                          + (IF probe'.handle = l THEN 1 ELSE 0) + abandoned[l]
  <2>1. Cardinality(Owners(l)) \in Nat
    BY LibraryAssumption, FS_Subset, FS_CardinalityType DEF Owners
  <2>2. refs[l] = Cardinality(Owners(l)) + Held(l) + One(probe.handle, l) + abandoned[l]
    BY DEF IInv, HandlesBalance, Held, One
  <2>3. refs'[l] = Cardinality(Owners(l)) + Held(l)' + One(probe'.handle, l) + abandoned[l]
    BY <2>1, <2>2, Numbers
  <2> QED BY <2>3 DEF Held, One
<1>2. \A l \in Lib : Owners(l)' = Owners(l)
  BY DEF Owners
<1>3. \A l \in Lib : natives'[l] = Cardinality({c \in Calc : calc'[c].native = l})
  BY DEF IInv, HandlesBalance
<1> QED BY <1>1, <1>2, <1>3 DEF HandlesBalance

\* The books of a call that leaves the registry and the probe alone.
LEMMA ObjectBalance ==
  ASSUME IInv, NEW c \in Calc, NEW r, Changed(c, r),
         UNCHANGED <<registry, abandoned, probe>>,
         \A l \in Lib : refs'[l] = refs[l] + One(r.handle, l) - One(calc[c].handle, l),
         \A l \in Lib : natives'[l] = natives[l] + One(r.native, l) - One(calc[c].native, l)
  PROVE  HandlesBalance'
<1>1. ASSUME NEW l \in Lib
      PROVE  refs'[l] = refs[l] + One(r.handle, l) - One(calc[c].handle, l)
                          + Held(l)' - Held(l) + One(probe'.handle, l) - One(probe.handle, l)
                          + abandoned'[l] - abandoned[l]
  <2>1. Held(l)' = Held(l) /\ One(probe'.handle, l) = One(probe.handle, l) /\ abandoned' = abandoned
    BY DEF Held, One
  <2>2. /\ Held(l) \in Int /\ One(probe.handle, l) \in Int /\ abandoned[l] \in Int
        /\ refs[l] \in Int /\ One(r.handle, l) \in Int /\ One(calc[c].handle, l) \in Int
    BY DEF Held, One, IInv, Types, Counts
  <2> QED BY <2>1, <2>2
<1>2. abandoned' \in [Lib -> Nat]
  BY DEF IInv, Types
<1> QED BY <1>1, <1>2, BalanceKept

\* A call that finds or changes nothing.
LEMMA NothingChanges ==
  ASSUME IInv, UNCHANGED <<family, disk, refs, calc, natives, registry, adopters, abandoned, probe>>
  PROVE  IInv'
<1>1. Types'
  BY DEF IInv, Types
<1>2. Links'
  BY DEF IInv, Links, Linked
<1>3. HandlesBalance'
  BY DEF IInv, HandlesBalance, Owners
<1> QED BY <1>1, <1>2, <1>3 DEF IInv

\* What is opened is a file, or nothing.
LEMMA OpenedIs ==
  ASSUME NEW path \in AnyLib
  PROVE  Opened(path) \in AnyLib /\ (Loads(Opened(path)) => Opened(path) \in Lib)
BY LibraryAssumption DEF Opened, Loads, AnyLib

\* No library is counted.
LEMMA NoneCounts == \A l \in Lib : One(None, l) = 0 /\ None # l
<1>1. "no library" \notin Lib
  BY LibraryAssumption
<1>2. None \notin Lib
  BY <1>1, Zenon DEF None
<1> QED BY <1>2 DEF One

-----------------------------------------------------------------------------
(* The steps.                                                              *)

\* xtb and metatomic construct or throw.
LEMMA NewNativePreserves ==
  ASSUME IInv, NEW c \in Calc, NEW path \in AnyLib, NewNative(c, path)
  PROVE  IInv'
<1> DEFINE l == Opened(path)
           r == [phase |-> "live", path |-> path, handle |-> l, table |-> l,
                 loaded |-> TRUE, native |-> l]
<1>1. family \in {"xtb", "metatomic"} /\ calc[c].phase = "none"
      /\ UNCHANGED <<family, disk, registry, adopters, abandoned, probe>>
  BY DEF NewNative, Calls
<1>2. CASE UNCHANGED <<refs, natives, calc>>
  BY <1>1, <1>2, NothingChanges
<1>3. CASE Loads(l) /\ refs' = Plus(refs, l) /\ natives' = Plus(natives, l)
           /\ calc' = [calc EXCEPT ![c] = r]
  <2>1. l \in Lib /\ l \in AnyLib
    BY <1>3, OpenedIs
  <2>2. r \in CalcRec
    BY <2>1 DEF CalcRec, Phase
  <2>3. Changed(c, r) /\ r.handle = l /\ r.native = l
    <3> HIDE DEF l
    <3> QED BY <1>3, <2>2, SetCalc DEF IInv
  <2>4. calc[c].handle = None /\ calc[c].native = None
    BY <1>1 DEF IInv, Links, Linked, NoCalc
  <2>5. /\ refs' \in Counts /\ natives' \in Counts
        /\ \A k \in Lib : refs'[k] = refs[k] + One(l, k) /\ natives'[k] = natives[k] + One(l, k)
    BY <1>3, <2>1, Counted DEF IInv, Types
  <2> HIDE DEF l, r
  <2>6. HandlesBalance'
    <3>1. ASSUME NEW k \in Lib
          PROVE  /\ refs'[k] = refs[k] + One(r.handle, k) - One(calc[c].handle, k)
                 /\ natives'[k] = natives[k] + One(r.native, k) - One(calc[c].native, k)
      <4>1. natives[k] \in Int /\ refs[k] \in Int /\ One(l, k) \in Int /\ One(None, k) = 0
        BY NoneCounts DEF One, IInv, Types, Counts
      <4> QED BY <2>3, <2>4, <2>5, <4>1
    <3> QED BY <1>1, <2>3, <3>1, ObjectBalance
  <2>7. Linked(r, family, registry')
    BY <1>1, <2>1 DEF Linked, r
  <2>8. Links'
    BY <1>1, <2>3, <2>7, LinksKept
  <2>9. Types'
    BY <1>1, <2>3, <2>5 DEF IInv, Types, Changed
  <2> QED BY <2>6, <2>8, <2>9 DEF IInv
<1> QED BY <1>2, <1>3 DEF NewNative

\* mopac and nwchem load: the handle is the object's, or the registry's.
LEMMA LoadEnginePreserves ==
  ASSUME IInv, NEW c \in Calc, NEW path \in AnyLib, LoadEngine(c, path)
  PROVE  IInv'
<1> DEFINE l == Opened(path)
           r == Bundle(c, path, l)
           h == calc[c].handle
<1>1. /\ family \in {"mopac", "nwchem"}
      /\ UNCHANGED <<family, disk, natives, adopters, abandoned, probe>>
      /\ refs' = RefsAfterLoad(c, l)
      /\ calc' = [calc EXCEPT ![c] = r]
      /\ registry' = IF Retained(l) THEN registry \cup {l} ELSE registry
  BY DEF LoadEngine, Calls
<1>2. l \in AnyLib /\ (Loads(l) => l \in Lib) /\ None \in AnyLib
  BY OpenedIs DEF AnyLib
<1>3. calc[c] \in CalcRec /\ Linked(calc[c], family, registry) /\ h \in AnyLib
  BY DEF IInv, Types, Links, CalcRec
<1>4. calc[c].native = None
  BY <1>1, <1>3 DEF Linked
<1> HIDE DEF l
<1>5. /\ r \in CalcRec /\ r.handle = IF Retained(l) THEN None ELSE l
      /\ r.native = None /\ r.table = l /\ r.loaded = Loads(l) /\ r.phase = "live"
  <2>1. Loads(l) \in BOOLEAN
    BY DEF Loads
  <2> QED BY <1>2, <1>3, <1>4, <2>1 DEF Bundle, CalcRec, Phase
<1> HIDE DEF r
<1>6. Changed(c, r)
  BY <1>1, <1>5, SetCalc DEF IInv
<1>7. /\ refs' \in Counts
      /\ \A k \in Lib : refs'[k] = refs[k] - One(h, k)
                          + (IF Retained(l) /\ l \in registry THEN 0 ELSE One(l, k))
  <2>1. /\ Minus(refs, h) \in Counts
        /\ \A k \in Lib : Minus(refs, h)[k] = refs[k] - One(h, k)
    BY <1>3, Counted DEF IInv, Types
  <2>2. /\ Plus(Minus(refs, h), l) \in Counts
        /\ \A k \in Lib : Plus(Minus(refs, h), l)[k] = Minus(refs, h)[k] + One(l, k)
    BY <1>2, <2>1, Counted
  <2>3. refs' = IF Retained(l) /\ l \in registry THEN Minus(refs, h) ELSE Plus(Minus(refs, h), l)
    BY <1>1 DEF RefsAfterLoad, Swapped
  <2>4. \A k \in Lib : refs[k] \in Int /\ One(h, k) \in Int
    BY Numbers
  <2> QED BY <2>1, <2>2, <2>3, <2>4
<1>8. HandlesBalance'
  <2>1. ASSUME NEW k \in Lib
        PROVE  /\ refs'[k] = refs[k] + One(r.handle, k) - One(h, k)
                          + Held(k)' - Held(k) + One(probe'.handle, k) - One(probe.handle, k)
                          + abandoned'[k] - abandoned[k]
               /\ natives'[k] = natives[k] + One(r.native, k) - One(calc[c].native, k)
    <3>1. /\ refs[k] \in Int /\ natives[k] \in Int /\ abandoned[k] \in Int
          /\ Held(k) \in Int /\ One(probe.handle, k) \in Int /\ One(h, k) \in Int
          /\ One(l, k) \in Int /\ One(None, k) = 0
      BY Numbers, NoneCounts
    <3>2. Held(k)' = IF Retained(l) /\ l \notin registry THEN Held(k) + One(l, k) ELSE Held(k)
      BY <1>1 DEF Held, One
    <3>3. One(r.handle, k) = IF Retained(l) THEN 0 ELSE One(l, k)
      BY <1>5, <3>1
    <3>4. probe' = probe /\ abandoned' = abandoned /\ natives' = natives
      BY <1>1
    <3> QED BY <1>4, <1>5, <1>7, <3>1, <3>2, <3>3, <3>4
  <2>2. abandoned' \in [Lib -> Nat]
    BY <1>1 DEF IInv, Types
  <2> QED BY <1>6, <2>1, <2>2, BalanceKept
<1>9. Links'
  <2>1. Linked(r, family, registry')
    BY <1>1, <1>2, <1>5 DEF Linked, Retained
  <2>2. registry \subseteq registry'
    BY <1>1
  <2> QED BY <1>1, <1>6, <2>1, <2>2, LinksKept
<1>10. Types'
  <2>1. registry' \subseteq Lib /\ adopters' \subseteq registry'
    BY <1>1, <1>2 DEF Retained, IInv, Types
  <2> QED BY <1>1, <1>6, <1>7, <2>1 DEF IInv, Types, Changed
<1> QED BY <1>8, <1>9, <1>10 DEF IInv

\* CPMD's adopter, parameters and session, after a load or without one.
LEMMA ConfiguredPreserves ==
  ASSUME IInv, NEW c \in Calc, NEW b \in CalcRec, NEW before \in Counts,
         family = "cpmd", b.loaded, b.phase = "live", b.table \in Lib, b.handle = b.table,
         \A l \in Lib : before[l] = refs[l] + One(b.handle, l) - One(calc[c].handle, l),
         Configured(c, b, before), UNCHANGED <<family, disk, abandoned, probe>>
  PROVE  IInv'
<1> DEFINE l == b.table
<1>1. PICK r \in {[b EXCEPT !.native = l], [b EXCEPT !.native = None],
                  [b EXCEPT !.native = None, !.loaded = FALSE]} :
        /\ calc' = [calc EXCEPT ![c] = r]
        /\ natives' = IF r = [b EXCEPT !.native = l] THEN Plus(Minus(natives, calc[c].native), l)
                      ELSE Minus(natives, calc[c].native)
  <2>1. [b EXCEPT !.native = l].native = l /\ [b EXCEPT !.native = None].native = None
        /\ [b EXCEPT !.native = None, !.loaded = FALSE].native = None
    BY DEF CalcRec
  <2>2. l # None
    BY NoneCounts
  <2> QED BY <2>1, <2>2 DEF Configured
<1>2. /\ r \in CalcRec /\ r.handle = l /\ r.table = l /\ r.phase = "live"
      /\ r.native \in {l, None} /\ (r.native = l <=> r = [b EXCEPT !.native = l])
  <2>1. l # None
    BY NoneCounts
  <2> QED BY <1>1, <2>1, ZenonT(60) DEF CalcRec, AnyLib
<1>3. Changed(c, r)
  BY <1>1, <1>2, SetCalc DEF IInv
<1>4. /\ registry' \in {registry, registry \cup {l}} /\ adopters' \subseteq registry'
      /\ registry' \subseteq Lib
      /\ refs' = IF l \in registry' /\ l \notin registry THEN Plus(before, l) ELSE before
  BY DEF Configured, Pins, IInv, Types
<1>5. /\ Plus(before, l) \in Counts
      /\ \A k \in Lib : Plus(before, l)[k] = before[k] + One(l, k)
  <2>1. l \in AnyLib
    BY DEF AnyLib
  <2> HIDE DEF l
  <2> QED BY <2>1, Counted
<1>6. /\ natives' \in Counts
      /\ \A k \in Lib : natives'[k] = natives[k] + One(r.native, k) - One(calc[c].native, k)
  <2> DEFINE n == calc[c].native
             m == Minus(natives, n)
  <2>1. n \in AnyLib /\ l \in AnyLib
    BY DEF IInv, Types, CalcRec
  <2>2. m \in Counts /\ \A k \in Lib : m[k] = natives[k] - One(n, k)
    <3>1. natives \in Counts
      BY DEF IInv, Types
    <3> HIDE DEF n
    <3> QED BY <2>1, <3>1, Counted
  <2>3. natives' = IF r.native = l THEN Plus(m, l) ELSE m
    BY <1>1, <1>2
  <2> HIDE DEF m, n
  <2>4. Plus(m, l) \in Counts /\ \A k \in Lib : Plus(m, l)[k] = m[k] + One(l, k)
    BY <2>1, <2>2, Counted, ZenonT(60)
  <2>5. \A k \in Lib : natives[k] \in Int /\ One(n, k) \in Int /\ One(l, k) \in Int /\ One(None, k) = 0
    BY Numbers, NoneCounts
  <2>6. natives' \in Counts
    BY <2>2, <2>3, <2>4
  <2>7. \A k \in Lib : natives'[k] = natives[k] + One(r.native, k) - One(n, k)
    BY <1>2, <2>2, <2>3, <2>4, <2>5
  <2> QED BY <2>6, <2>7 DEF n
<1>7. HandlesBalance'
  <2>1. ASSUME NEW k \in Lib
        PROVE  refs'[k] = refs[k] + One(r.handle, k) - One(calc[c].handle, k)
                          + Held(k)' - Held(k) + One(probe'.handle, k) - One(probe.handle, k)
                          + abandoned'[k] - abandoned[k]
    <3>1. /\ refs[k] \in Int /\ abandoned[k] \in Int
          /\ Held(k) \in Int /\ One(probe.handle, k) \in Int
          /\ One(calc[c].handle, k) \in Int /\ One(l, k) \in Int
      BY Numbers
    <3>2. Held(k)' = IF l \in registry' /\ l \notin registry THEN Held(k) + One(l, k) ELSE Held(k)
      BY <1>4 DEF Held, One
    <3>3. before[k] = refs[k] + One(l, k) - One(calc[c].handle, k)
      OBVIOUS
    <3> QED BY <1>2, <1>4, <1>5, <3>1, <3>2, <3>3
  <2>2. abandoned' \in [Lib -> Nat]
    BY DEF IInv, Types
  <2> QED BY <1>3, <1>6, <2>1, <2>2, BalanceKept
<1>8. Links'
  <2>1. Linked(r, family, registry')
    BY <1>2 DEF Linked
  <2> QED BY <1>3, <1>4, <2>1, LinksKept
<1>9. Types'
  <2>1. refs' \in Counts
    BY <1>4, <1>5
  <2> QED BY <1>3, <1>4, <1>6, <2>1 DEF IInv, Types, Changed
<1> QED BY <1>7, <1>8, <1>9 DEF IInv

\* CPMD loads, the first time or after a session ended.
LEMMA LoadCpmdPreserves ==
  ASSUME IInv, NEW c \in Calc, NEW path \in AnyLib, LoadCpmd(c, path), family = "cpmd",
         calc[c].native = None, UNCHANGED <<family, disk, abandoned, probe>>
  PROVE  IInv'
<1> DEFINE l == Opened(path)
           b == Bundle(c, path, l)
           h == calc[c].handle
<1>1. l \in AnyLib /\ (Loads(l) => l \in Lib)
  BY OpenedIs
<1>2. calc[c] \in CalcRec /\ h \in AnyLib
  BY DEF IInv, Types, CalcRec
<1>3. IF b.loaded THEN Configured(c, b, Swapped(c, l))
      ELSE /\ refs' = Swapped(c, l) /\ calc' = [calc EXCEPT ![c] = b]
           /\ UNCHANGED <<natives, registry, adopters>>
  BY DEF LoadCpmd
<1> HIDE DEF l
<1>4. /\ b \in CalcRec /\ b.handle = l /\ b.table = l /\ b.loaded = Loads(l)
      /\ b.phase = "live" /\ b.native = None
  <2>1. Loads(l) \in BOOLEAN /\ ~Retained(l)
    BY DEF Loads, Retained
  <2> QED BY <1>1, <1>2, <2>1 DEF Bundle, CalcRec, Phase
<1> HIDE DEF b
<1>5. /\ Swapped(c, l) \in Counts
      /\ \A k \in Lib : Swapped(c, l)[k] = refs[k] + One(l, k) - One(h, k)
  <2>1. Minus(refs, h) \in Counts /\ \A k \in Lib : Minus(refs, h)[k] = refs[k] - One(h, k)
    BY <1>2, Counted DEF IInv, Types
  <2>2. /\ Plus(Minus(refs, h), l) \in Counts
        /\ \A k \in Lib : Plus(Minus(refs, h), l)[k] = Minus(refs, h)[k] + One(l, k)
    BY <1>1, <2>1, Counted
  <2>3. \A k \in Lib : refs[k] \in Int /\ One(h, k) \in Int /\ One(l, k) \in Int
    BY Numbers
  <2> QED BY <2>1, <2>2, <2>3 DEF Swapped
<1>6. CASE b.loaded
  BY <1>1, <1>3, <1>4, <1>5, <1>6, ConfiguredPreserves
<1>7. CASE ~b.loaded
  <2>1. Changed(c, b)
    BY <1>3, <1>4, <1>7, SetCalc DEF IInv
  <2>2. HandlesBalance'
    <3>1. ASSUME NEW k \in Lib
          PROVE  /\ refs'[k] = refs[k] + One(b.handle, k) - One(calc[c].handle, k)
                 /\ natives'[k] = natives[k] + One(b.native, k) - One(calc[c].native, k)
      <4>1. natives[k] \in Int /\ One(None, k) = 0
        BY Numbers, NoneCounts
      <4> QED BY <1>3, <1>4, <1>5, <1>7, <4>1
    <3> QED BY <1>3, <1>7, <2>1, <3>1, ObjectBalance
  <2>3. Links'
    <3>1. Linked(b, family, registry')
      BY <1>4, <1>7 DEF Linked
    <3> QED BY <1>3, <1>7, <2>1, <3>1, LinksKept
  <2>4. Types'
    BY <1>3, <1>5, <1>7, <2>1 DEF IInv, Types, Changed
  <2> QED BY <2>2, <2>3, <2>4 DEF IInv
<1> QED BY <1>6, <1>7

\* The calls that load CPMD or give it new parameters.
LEMMA CpmdPreserves ==
  ASSUME IInv, NEW c \in Calc, NEW path \in AnyLib,
         NewCpmd(c, path) \/ Reload(c) \/ Reconfigure(c)
  PROVE  IInv'
<1>1. calc[c] \in CalcRec /\ Linked(calc[c], family, registry)
  BY DEF IInv, Types, Links
<1>2. CASE NewCpmd(c, path)
  <2>1. family = "cpmd" /\ LoadCpmd(c, path) /\ calc[c].phase = "none"
        /\ UNCHANGED <<family, disk, abandoned, probe>>
    BY <1>2 DEF NewCpmd, Calls
  <2>2. calc[c].native = None
    BY <1>1, <2>1 DEF Linked, NoCalc
  <2> QED BY <2>1, <2>2, LoadCpmdPreserves
<1>3. CASE Reload(c)
  <2>1. calc[c].phase = "reloading" /\ LoadCpmd(c, calc[c].path)
        /\ UNCHANGED <<family, disk, abandoned, probe>>
    BY <1>3 DEF Reload
  <2>2. calc[c].native = None /\ family = "cpmd" /\ calc[c].path \in AnyLib
    BY <1>1, <2>1 DEF Linked, CalcRec
  <2> QED BY <2>1, <2>2, LoadCpmdPreserves
<1>4. CASE Reconfigure(c)
  <2>1. /\ family = "cpmd" /\ calc[c].phase = "live" /\ calc[c].loaded
        /\ Configured(c, calc[c], refs) /\ UNCHANGED <<family, disk, abandoned, probe>>
    BY <1>4 DEF Reconfigure, Calls
  <2>2. calc[c].table \in Lib /\ calc[c].handle = calc[c].table
    BY <1>1, <2>1 DEF Linked
  <2>3. refs \in Counts
        /\ \A k \in Lib : refs[k] = refs[k] + One(calc[c].handle, k) - One(calc[c].handle, k)
    <3>1. \A k \in Lib : refs[k] \in Int /\ One(calc[c].handle, k) \in Int
      BY Numbers
    <3> QED BY <3>1 DEF IInv, Types
  <2> QED BY <1>1, <2>1, <2>2, <2>3, ConfiguredPreserves
<1> QED BY <1>2, <1>3, <1>4

\* A session ends, in the library that is still open.
LEMMA SessionEndPreserves ==
  ASSUME IInv, NEW c \in Calc, NEW path \in AnyLib, BeginReload(c, path) \/ BeginDestroy(c)
  PROVE  IInv'
<1>1. PICK phase \in {"reloading", "closing"}, to \in AnyLib :
        /\ SessionEnds(c, phase, to) /\ (phase = "reloading" => family = "cpmd")
  <2>1. calc[c].path \in AnyLib
    BY DEF IInv, Types, CalcRec
  <2> QED BY <2>1 DEF BeginReload, BeginDestroy
<1>2. /\ UNCHANGED <<family, disk, refs, registry, adopters, abandoned, probe>>
      /\ calc[c].phase = "live"
  BY DEF BeginReload, BeginDestroy, Calls
<1>3. calc[c] \in CalcRec /\ Linked(calc[c], family, registry) /\ None \in AnyLib
  BY DEF IInv, Types, Links, AnyLib
<1> DEFINE r == [[[calc[c] EXCEPT !.native = None] EXCEPT !.phase = phase] EXCEPT !.path = to]
<1>4. /\ r \in CalcRec /\ r.handle = calc[c].handle /\ r.native = None /\ r.phase = phase
      /\ r.table = calc[c].table /\ r.loaded = calc[c].loaded
  BY <1>3 DEF CalcRec, Phase
<1>5. calc' = [calc EXCEPT ![c] = r]
  BY <1>1, <1>3 DEF SessionEnds, IInv, Types, CalcRec
<1> HIDE DEF r
<1>6. Changed(c, r)
  BY <1>4, <1>5, SetCalc DEF IInv
<1>7. /\ natives' \in Counts
      /\ \A k \in Lib : natives'[k] = natives[k] - One(calc[c].native, k)
  <2>1. natives \in Counts /\ calc[c].native \in AnyLib
    BY DEF IInv, Types, CalcRec
  <2>2. natives' = Minus(natives, calc[c].native)
    BY <1>1 DEF SessionEnds
  <2> QED BY <2>1, <2>2, Counted
<1>8. HandlesBalance'
  <2>1. ASSUME NEW k \in Lib
        PROVE  /\ refs'[k] = refs[k] + One(r.handle, k) - One(calc[c].handle, k)
               /\ natives'[k] = natives[k] + One(r.native, k) - One(calc[c].native, k)
    <3>1. refs[k] \in Int /\ natives[k] \in Int /\ One(calc[c].handle, k) \in Int
          /\ One(calc[c].native, k) \in Int /\ One(None, k) = 0
      BY Numbers, NoneCounts
    <3> QED BY <1>2, <1>4, <1>7, <3>1
  <2> QED BY <1>2, <1>6, <2>1, ObjectBalance
<1>9. Links'
  <2>1. Linked(r, family, registry')
    BY <1>1, <1>2, <1>3, <1>4 DEF Linked
  <2> QED BY <1>2, <1>6, <2>1, LinksKept
<1>10. Types'
  BY <1>2, <1>6, <1>7 DEF IInv, Types, Changed
<1> QED BY <1>8, <1>9, <1>10 DEF IInv

\* A profile loader closes what it held, whether the new library will do or not.
LEMMA LoadProfilePreserves ==
  ASSUME IInv, NEW c \in Calc, NEW path \in AnyLib, LoadProfile(c, path)
  PROVE  IInv'
<1> DEFINE l == Opened(path)
           h == calc[c].handle
<1>1. l \in AnyLib /\ (Loads(l) => l \in Lib)
  BY OpenedIs
<1>2. calc[c] \in CalcRec /\ Linked(calc[c], family, registry) /\ h \in AnyLib
  BY DEF IInv, Types, Links, CalcRec
<1>3. /\ family = "profile" /\ refs' = Swapped(c, l)
      /\ UNCHANGED <<family, disk, natives, registry, adopters, abandoned, probe>>
  BY DEF LoadProfile, Calls
<1>4. PICK has \in BOOLEAN :
        /\ l = None => ~has
        /\ calc' = [calc EXCEPT ![c] =
             [phase |-> "live", path |-> path, handle |-> l,
              table |-> IF l = None THEN calc[c].table ELSE l, loaded |-> has, native |-> None]]
  BY DEF LoadProfile
<1> DEFINE r == [phase |-> "live", path |-> path, handle |-> l,
                 table |-> IF l = None THEN calc[c].table ELSE l, loaded |-> has, native |-> None]
<1> HIDE DEF l
<1>5. r \in CalcRec
  BY <1>1, <1>2 DEF CalcRec, Phase, AnyLib
<1>6. /\ r.handle = l /\ r.native = None /\ r.phase = "live"
      /\ r.loaded => l \in Lib /\ r.table = l
  BY <1>1, <1>4 DEF AnyLib
<1>7. calc' = [calc EXCEPT ![c] = r]
  BY <1>4
<1> HIDE DEF r
<1>8. Changed(c, r)
  BY <1>5, <1>7, SetCalc DEF IInv
<1>9. calc[c].native = None
  BY <1>2, <1>3 DEF Linked
<1>10. /\ refs' \in Counts
       /\ \A k \in Lib : refs'[k] = refs[k] + One(l, k) - One(h, k)
  <2>1. Minus(refs, h) \in Counts /\ \A k \in Lib : Minus(refs, h)[k] = refs[k] - One(h, k)
    BY <1>2, Counted DEF IInv, Types
  <2>2. /\ Plus(Minus(refs, h), l) \in Counts
        /\ \A k \in Lib : Plus(Minus(refs, h), l)[k] = Minus(refs, h)[k] + One(l, k)
    BY <1>1, <2>1, Counted
  <2>3. \A k \in Lib : refs[k] \in Int /\ One(h, k) \in Int /\ One(l, k) \in Int
    BY Numbers
  <2> QED BY <1>3, <2>1, <2>2, <2>3 DEF Swapped
<1>11. HandlesBalance'
  <2>1. ASSUME NEW k \in Lib
        PROVE  /\ refs'[k] = refs[k] + One(r.handle, k) - One(calc[c].handle, k)
               /\ natives'[k] = natives[k] + One(r.native, k) - One(calc[c].native, k)
    <3>1. natives[k] \in Int /\ One(None, k) = 0
      BY Numbers, NoneCounts
    <3> QED BY <1>3, <1>6, <1>9, <1>10, <3>1
  <2> QED BY <1>3, <1>8, <2>1, ObjectBalance
<1>12. Links'
  <2>1. Linked(r, family, registry')
    BY <1>3, <1>6 DEF Linked
  <2> QED BY <1>3, <1>8, <2>1, LinksKept
<1>13. Types'
  BY <1>3, <1>8, <1>10 DEF IInv, Types, Changed
<1> QED BY <1>11, <1>12, <1>13 DEF IInv

\* An object ends: its handle closes, or is left open for torch.
LEMMA ClosePreserves ==
  ASSUME IInv, NEW c \in Calc, CloseLibrary(c)
  PROVE  IInv'
<1> DEFINE h == calc[c].handle
<1>1. /\ calc[c].phase = "closing" /\ calc' = [calc EXCEPT ![c] = NoCalc]
      /\ UNCHANGED <<family, disk, natives, registry, adopters, probe>>
      /\ IF family = "metatomic" THEN abandoned' = Plus(abandoned, h) /\ UNCHANGED refs
         ELSE refs' = Minus(refs, h) /\ UNCHANGED abandoned
  BY DEF CloseLibrary
<1>2. calc[c] \in CalcRec /\ Linked(calc[c], family, registry) /\ h \in AnyLib
  BY DEF IInv, Types, Links, CalcRec
<1>3. NoCalc \in CalcRec /\ NoCalc.handle = None /\ NoCalc.native = None
      /\ ~NoCalc.loaded /\ NoCalc.phase = "none"
  BY DEF NoCalc, CalcRec, Phase, AnyLib
<1>4. Changed(c, NoCalc) /\ calc[c].native = None
  BY <1>1, <1>2, <1>3, SetCalc DEF IInv, Linked
<1>5. /\ refs' \in Counts /\ abandoned' \in [Lib -> Nat]
      /\ \A k \in Lib : refs'[k] - abandoned'[k] = refs[k] - abandoned[k] - One(h, k)
  <2>1. \A k \in Lib : /\ refs[k] \in Int /\ abandoned[k] \in Int /\ One(h, k) \in {0, 1}
    BY Numbers
  <2>2. CASE family = "metatomic"
    <3>1. abandoned \in Counts
      BY DEF IInv, Types, Counts
    <3>2. Plus(abandoned, h) \in Counts
          /\ \A k \in Lib : Plus(abandoned, h)[k] = abandoned[k] + One(h, k)
      BY <1>2, <3>1, Counted
    <3>3. \A k \in Lib : abandoned'[k] \in Nat
      BY <1>1, <2>1, <2>2, <3>2 DEF IInv, Types
    <3>4. abandoned' \in [Lib -> Nat]
      BY <1>1, <2>2, <3>2, <3>3 DEF Counts
    <3>5. refs' \in Counts
      BY <1>1, <2>2 DEF IInv, Types
    <3>6. \A k \in Lib : refs'[k] - abandoned'[k] = refs[k] - abandoned[k] - One(h, k)
      BY <1>1, <2>1, <2>2, <3>2
    <3> QED BY <3>4, <3>5, <3>6
  <2>3. CASE family # "metatomic"
    <3>1. Minus(refs, h) \in Counts /\ \A k \in Lib : Minus(refs, h)[k] = refs[k] - One(h, k)
      BY <1>2, Counted DEF IInv, Types
    <3>2. abandoned' \in [Lib -> Nat] /\ refs' \in Counts
      BY <1>1, <2>3, <3>1 DEF IInv, Types
    <3>3. \A k \in Lib : refs'[k] - abandoned'[k] = refs[k] - abandoned[k] - One(h, k)
      BY <1>1, <2>1, <2>3, <3>1
    <3> QED BY <3>2, <3>3
  <2> QED BY <2>2, <2>3
<1>6. HandlesBalance'
  <2>1. ASSUME NEW k \in Lib
        PROVE  /\ refs'[k] = refs[k] + One(NoCalc.handle, k) - One(calc[c].handle, k)
                          + Held(k)' - Held(k) + One(probe'.handle, k) - One(probe.handle, k)
                          + abandoned'[k] - abandoned[k]
               /\ natives'[k] = natives[k] + One(NoCalc.native, k) - One(calc[c].native, k)
    <3>1. /\ refs[k] \in Int /\ natives[k] \in Int /\ abandoned[k] \in Int
          /\ Held(k) \in Int /\ One(probe.handle, k) \in Int /\ One(h, k) \in Int
          /\ One(None, k) = 0
      BY Numbers, NoneCounts
    <3>2. refs'[k] \in Int /\ abandoned'[k] \in Int
      BY <1>5 DEF Counts
    <3>3. Held(k)' = Held(k) /\ probe' = probe /\ natives' = natives
      BY <1>1 DEF Held
    <3>4. refs'[k] - abandoned'[k] = refs[k] - abandoned[k] - One(h, k)
      BY <1>5
    <3>5. natives'[k] = natives[k] + One(NoCalc.native, k) - One(calc[c].native, k)
      BY <1>3, <1>4, <3>1, <3>3
    <3>6. One(NoCalc.handle, k) = 0 /\ One(probe'.handle, k) = One(probe.handle, k)
      BY <1>3, <3>1, <3>3
    <3> QED BY <3>1, <3>2, <3>3, <3>4, <3>5, <3>6
  <2> QED BY <1>4, <1>5, <2>1, BalanceKept
<1>7. Links'
  <2>1. Linked(NoCalc, family, registry')
    BY <1>3 DEF Linked
  <2> QED BY <1>1, <1>4, <2>1, LinksKept
<1>8. Types'
  BY <1>1, <1>4, <1>5 DEF IInv, Types, Changed
<1> QED BY <1>6, <1>7, <1>8 DEF IInv

\* The adopter of the default engine is pinned; no object changes.
LEMMA BindPreserves ==
  ASSUME IInv, BindCalculators
  PROVE  IInv'
<1> DEFINE l == Opened(None)
<1>1. /\ l \in Lib /\ l \in AnyLib /\ Pins(l, refs)
      /\ UNCHANGED <<family, disk, calc, natives, abandoned, probe>>
  BY OpenedIs DEF BindCalculators, AdoptsFrom, Calls, AnyLib
<1> HIDE DEF l
<1>2. /\ registry' \in {registry, registry \cup {l}} /\ adopters' \subseteq registry'
      /\ registry' \subseteq Lib
      /\ refs' = IF l \in registry' /\ l \notin registry THEN Plus(refs, l) ELSE refs
  BY <1>1 DEF Pins, IInv, Types
<1>3. /\ Plus(refs, l) \in Counts
      /\ \A k \in Lib : Plus(refs, l)[k] = refs[k] + One(l, k)
  BY <1>1, Counted DEF IInv, Types
<1>4. HandlesBalance'
  <2>1. ASSUME NEW k \in Lib
        PROVE  refs'[k] = refs[k] + Held(k)' - Held(k)
                            + One(probe'.handle, k) - One(probe.handle, k)
    <3>1. Held(k)' = IF l \in registry' /\ l \notin registry THEN Held(k) + One(l, k) ELSE Held(k)
      BY <1>2 DEF Held, One
    <3>2. refs[k] \in Int /\ Held(k) \in Int /\ One(l, k) \in Int /\ One(probe.handle, k) \in Int
      BY Numbers
    <3> QED BY <1>1, <1>2, <1>3, <3>1, <3>2
  <2> QED BY <1>1, <2>1, RegistryBalance
<1>5. Links'
  BY <1>1, <1>2 DEF IInv, Links, Linked
<1>6. Types'
  BY <1>1, <1>2, <1>3 DEF IInv, Types
<1> QED BY <1>4, <1>5, <1>6 DEF IInv

\* A probe's bundle keeps its handle, gives it to the registry, or closes it.
LEMMA ProbePreserves ==
  ASSUME IInv, Probe
  PROVE  IInv'
<1> DEFINE l == Opened(None)
           kept == IF family = "cpmd" \/ Retained(l) THEN None ELSE l
           freed == Minus(refs, probe.handle)
<1>1. UNCHANGED <<family, disk, calc, natives, adopters, abandoned>> /\ ProbeLoad
  BY DEF Probe, Calls
<1>2. l \in AnyLib /\ (Loads(l) => l \in Lib) /\ kept \in AnyLib
  BY OpenedIs DEF AnyLib
<1>3. CASE probe.loaded
  BY <1>1, <1>3, NothingChanges DEF ProbeLoad
<1>4. CASE ~probe.loaded
  <2>1. /\ probe' = [handle |-> kept, loaded |-> Loads(l) /\ family # "cpmd"]
        /\ registry' = IF Retained(l) THEN registry \cup {l} ELSE registry
        /\ refs' = IF ~Retained(l) THEN Plus(freed, kept)
                   ELSE IF l \in registry THEN freed ELSE Plus(freed, l)
    BY <1>1, <1>4 DEF ProbeLoad
  <2>2. Retained(l) => l \in Lib /\ kept = None
    BY <1>2 DEF Retained
  <2>3. probe' \in [handle : AnyLib, loaded : BOOLEAN] /\ probe'.handle = kept
    <3>1. (Loads(l) /\ family # "cpmd") \in BOOLEAN
      OBVIOUS
    <3> HIDE DEF kept, l
    <3> QED BY <1>2, <2>1, <3>1
  <2>4. /\ freed \in Counts /\ \A k \in Lib : freed[k] = refs[k] - One(probe.handle, k)
    BY Counted DEF IInv, Types
  <2> HIDE DEF l, kept, freed
  <2>5. /\ Plus(freed, l) \in Counts /\ Plus(freed, kept) \in Counts
        /\ \A k \in Lib : /\ Plus(freed, l)[k] = freed[k] + One(l, k)
                          /\ Plus(freed, kept)[k] = freed[k] + One(kept, k)
    BY <1>2, <2>4, Counted
  <2>6. HandlesBalance'
    <3>1. ASSUME NEW k \in Lib
          PROVE  refs'[k] = refs[k] + Held(k)' - Held(k)
                              + One(probe'.handle, k) - One(probe.handle, k)
      <4>1. Held(k)' = IF Retained(l) /\ l \notin registry THEN Held(k) + One(l, k) ELSE Held(k)
        BY <2>1 DEF Held, One
      <4>2. /\ refs[k] \in Int /\ Held(k) \in Int /\ One(l, k) \in Int /\ One(kept, k) \in Int
            /\ One(probe.handle, k) \in Int /\ One(None, k) = 0
        BY Numbers, NoneCounts
      <4> QED BY <2>1, <2>2, <2>3, <2>4, <2>5, <4>1, <4>2
    <3> QED BY <1>1, <3>1, RegistryBalance
  <2>7. Links'
    BY <1>1, <2>1 DEF IInv, Links, Linked
  <2>8. Types'
    <3>1. refs' \in Counts
      BY <2>1, <2>4, <2>5
    <3>2. registry' \subseteq Lib /\ adopters' \subseteq registry'
      BY <1>1, <2>1, <2>2 DEF IInv, Types
    <3> QED BY <1>1, <2>3, <3>1, <3>2 DEF IInv, Types
  <2> QED BY <2>6, <2>7, <2>8 DEF IInv
<1> QED BY <1>3, <1>4

-----------------------------------------------------------------------------
(* The invariant.                                                          *)

\* It holds before anything is loaded.
LEMMA InitHolds == (Init /\ disk \in [Lib -> Kind]) => IInv
<1>1. SUFFICES ASSUME Init, disk \in [Lib -> Kind] PROVE IInv
  OBVIOUS
<1>2. NoCalc \in CalcRec /\ NoProbe \in [handle : AnyLib, loaded : BOOLEAN]
  BY DEF NoCalc, NoProbe, CalcRec, Phase, AnyLib
<1>3. Types
  <2>1. refs \in Counts /\ natives \in Counts /\ abandoned \in [Lib -> Nat]
    BY <1>1 DEF Init, Counts
  <2>2. calc \in [Calc -> CalcRec] /\ probe \in [handle : AnyLib, loaded : BOOLEAN]
    BY <1>1, <1>2 DEF Init
  <2> QED BY <1>1, <2>1, <2>2 DEF Init, Types
<1>4. Links
  BY <1>1 DEF Init, Links, Linked, NoCalc
<1>5. HandlesBalance
  <2>1. ASSUME NEW l \in Lib
        PROVE  Owners(l) = {} /\ {c \in Calc : calc[c].native = l} = {} /\ probe.handle # l
    BY <1>1, NoneCounts DEF Init, Owners, NoCalc, NoProbe
  <2>2. ASSUME NEW l \in Lib
        PROVE  /\ refs[l] = 0 /\ natives[l] = 0 /\ abandoned[l] = 0 /\ l \notin registry
               /\ Cardinality(Owners(l)) = 0 /\ Cardinality({c \in Calc : calc[c].native = l}) = 0
    BY <1>1, <2>1, FS_EmptySet DEF Init
  <2> QED BY <2>1, <2>2 DEF HandlesBalance
<1> QED BY <1>3, <1>4, <1>5 DEF IInv

\* Every call of the host keeps it.
LEMMA StepPreserves == IInv /\ [Next]_vars => IInv'
<1>1. SUFFICES ASSUME IInv, [Next]_vars PROVE IInv'
  OBVIOUS
<1>2. ASSUME NEW c \in Calc, NEW path \in AnyLib,
             \/ NewNative(c, path) \/ LoadEngine(c, path) \/ NewCpmd(c, path)
             \/ BeginReload(c, path) \/ LoadProfile(c, path)
      PROVE  IInv'
  BY <1>1, <1>2, NewNativePreserves, LoadEnginePreserves, CpmdPreserves, SessionEndPreserves,
     LoadProfilePreserves
<1>3. ASSUME NEW c \in Calc,
             Reload(c) \/ Reconfigure(c) \/ BeginDestroy(c) \/ CloseLibrary(c)
      PROVE  IInv'
  <2>1. None \in AnyLib
    BY DEF AnyLib
  <2> QED BY <1>1, <1>3, <2>1, CpmdPreserves, SessionEndPreserves, ClosePreserves
<1>4. CASE BindCalculators \/ Probe
  BY <1>1, <1>4, BindPreserves, ProbePreserves
<1>5. CASE UNCHANGED vars
  BY <1>1, <1>5, NothingChanges DEF vars
<1> QED BY <1>1, <1>2, <1>3, <1>4, <1>5 DEF Next, AnyLib

\* The invariant holds in every behaviour.
LEMMA Inductive == Spec => []IInv
<1>1. Init => IInv
  BY InitHolds, LibraryAssumption DEF Init
<1> QED BY <1>1, StepPreserves, PTL DEF Spec

\* Every dlopen is undone once or held by an owner that is still there, and no
\* potential or session outlives its object (HandlesBalance).
THEOREM HandlesBalanceHolds == Spec => []HandlesBalance
<1>1. IInv => HandlesBalance
  BY DEF IInv
<1> QED BY <1>1, Inductive, PTL

\* Something keeps the library open.
Owned(l) == (\E c \in Calc : calc[c].handle = l) \/ l \in registry \/ abandoned[l] > 0
OwnedMapped == \A l \in Lib : Owned(l) => refs[l] > 0

\* What an owner, the registry or an abandoned handle keeps open is mapped.
LEMMA OwnedIsMapped == IInv => OwnedMapped
<1> SUFFICES ASSUME IInv, NEW l \in Lib, Owned(l) PROVE refs[l] > 0
  BY DEF OwnedMapped
<1>1. IsFiniteSet(Owners(l)) /\ Cardinality(Owners(l)) \in Nat
  BY LibraryAssumption, FS_Subset, FS_CardinalityType DEF Owners
<1>2. Cardinality(Owners(l)) = 0 => Owners(l) = {}
  BY <1>1, FS_EmptySet
<1>3. refs[l] = Cardinality(Owners(l)) + Held(l) + One(probe.handle, l) + abandoned[l]
  BY DEF IInv, HandlesBalance, Held, One
<1>4. Held(l) \in {0, 1} /\ (l \in registry => Held(l) = 1)
      /\ One(probe.handle, l) \in {0, 1} /\ abandoned[l] \in Nat
  BY Numbers DEF Held
<1>5. (\E c \in Calc : calc[c].handle = l) => Owners(l) # {}
  BY DEF Owners
<1> QED BY <1>1, <1>2, <1>3, <1>4, <1>5 DEF Owned

\* No pointer that a call may follow leads into an unmapped library (PointersMapped):
\* what an object points into it or the registry keeps open.
THEOREM PointersMappedHolds == Spec => []PointersMapped
<1>1. IInv => PointersMapped
  <2>1. SUFFICES ASSUME IInv PROVE PointersMapped
    OBVIOUS
  <2>2. ASSUME NEW c \in Calc, calc[c].loaded
        PROVE  calc[c].table # None /\ Mapped(calc[c].table)
    <3>1. calc[c].table \in Lib /\ (calc[c].table \in registry \/ calc[c].table = calc[c].handle)
      BY <2>1, <2>2 DEF IInv, Links, Linked
    <3> QED BY <2>1, <3>1, OwnedIsMapped, NoneCounts DEF Mapped, OwnedMapped, Owned
  <2>3. ASSUME NEW c \in Calc, calc[c].native # None PROVE Mapped(calc[c].native)
    <3>1. calc[c].native \in Lib /\ calc[c].native = calc[c].handle
      BY <2>1, <2>3 DEF IInv, Types, Links, Linked, CalcRec, AnyLib
    <3> QED BY <2>1, <3>1, OwnedIsMapped DEF Mapped, OwnedMapped, Owned
  <2>4. \A l \in adopters : Mapped(l)
    BY <2>1, OwnedIsMapped DEF IInv, Types, Mapped, OwnedMapped, Owned
  <2> QED BY <2>2, <2>3, <2>4 DEF PointersMapped
<1> QED BY <1>1, Inductive, PTL

\* A step leaves what ran to an owner: the registry never lets go, and torch's
\* handle is abandoned when its object ends.
LEMMA RanIsOwned ==
  ASSUME IInv, Next, NEW l \in Lib, family \in {"nwchem", "metatomic"}, Ran(l)
  PROVE  Owned(l)'
<1>1. registry \subseteq registry'
  <2>1. ASSUME NEW k, NEW before, Pins(k, before) PROVE registry \subseteq registry'
    BY <2>1 DEF Pins
  <2>2. ASSUME NEW c, NEW b, NEW before, Configured(c, b, before) PROVE registry \subseteq registry'
    <3>1. Pins(b.table, before)
      BY <2>2 DEF Configured
    <3> QED BY <2>1, <3>1
  <2>3. ASSUME NEW c, NEW path, LoadCpmd(c, path) PROVE registry \subseteq registry'
    <3>1. \/ Configured(c, Bundle(c, path, Opened(path)), Swapped(c, Opened(path)))
          \/ UNCHANGED registry
      BY <2>3 DEF LoadCpmd
    <3> QED BY <2>2, <3>1
  <2>4. ASSUME NEW c, NEW path, NewNative(c, path) PROVE registry \subseteq registry'
    BY <2>4 DEF NewNative
  <2>5. ASSUME NEW c, NEW path, LoadEngine(c, path) PROVE registry \subseteq registry'
    BY <2>5 DEF LoadEngine
  <2>6. ASSUME NEW c, NEW path, NewCpmd(c, path) PROVE registry \subseteq registry'
    BY <2>3, <2>6 DEF NewCpmd
  <2>7. ASSUME NEW c, NEW path, BeginReload(c, path) \/ LoadProfile(c, path)
        PROVE  registry \subseteq registry'
    BY <2>7 DEF BeginReload, LoadProfile
  <2>8. ASSUME NEW c, Reload(c) PROVE registry \subseteq registry'
    BY <2>3, <2>8 DEF Reload
  <2>9. ASSUME NEW c, Reconfigure(c) PROVE registry \subseteq registry'
    BY <2>2, <2>9 DEF Reconfigure
  <2>10. ASSUME NEW c, BeginDestroy(c) \/ CloseLibrary(c) PROVE registry \subseteq registry'
    BY <2>10 DEF BeginDestroy, CloseLibrary
  <2>11. ASSUME BindCalculators PROVE registry \subseteq registry'
    BY <2>1, <2>11 DEF BindCalculators, AdoptsFrom
  <2>12. ASSUME Probe PROVE registry \subseteq registry'
    BY <2>12 DEF Probe, ProbeLoad
  <2> QED BY <2>4, <2>5, <2>6, <2>7, <2>8, <2>9, <2>10, <2>11, <2>12, Zenon DEF Next
<1>2. abandoned[l] \in Nat /\ (abandoned'[l] = abandoned[l] \/ abandoned'[l] = abandoned[l] + 1)
  <2>1. UNCHANGED abandoned \/ \E c \in Calc : CloseLibrary(c)
    BY ZenonT(60)
       DEF Next, NewNative, LoadEngine, NewCpmd, BeginReload, LoadProfile, Reload, Reconfigure,
           BeginDestroy, BindCalculators, Probe
  <2>2. abandoned \in [Lib -> Nat]
    BY DEF IInv, Types
  <2> QED BY <2>1, <2>2 DEF CloseLibrary, Plus
<1>3. CASE l \in registry \/ abandoned[l] > 0
  BY <1>1, <1>2, <1>3 DEF Owned
<1>4. CASE \E c \in Calc : calc[c].loaded /\ calc[c].table = l
  <2>1. PICK c \in Calc : calc[c].loaded /\ calc[c].table = l
    BY <1>4
  <2>2. /\ calc[c] \in CalcRec /\ Linked(calc[c], family, registry)
        /\ calc \in [Calc -> CalcRec]
    BY DEF IInv, Types, Links
  <2>3. CASE family = "nwchem"
    BY <1>1, <2>1, <2>2, <2>3 DEF Linked, Owned
  <2>4. CASE family = "metatomic"
    <3>1. calc[c].handle = l /\ calc[c].phase # "none"
      BY <2>1, <2>2, <2>4 DEF Linked, NoCalc
    <3>2. \/ \E d \in Calc, path \in AnyLib : NewNative(d, path)
          \/ \E d \in Calc : BeginDestroy(d) \/ CloseLibrary(d)
      <4>1. ASSUME NEW d \in Calc PROVE ~Reload(d)
        BY <2>4 DEF Reload, IInv, Links, Linked
      <4> QED BY <2>4, <4>1 DEF Next, LoadEngine, NewCpmd, BeginReload, LoadProfile, Reconfigure,
                                BindCalculators, Probe, AnyLib
    <3>3. ASSUME NEW d \in Calc, NEW path \in AnyLib, NewNative(d, path)
          PROVE  calc'[c].handle = l
      <4>1. d # c
        BY <3>1, <3>3 DEF NewNative
      <4> QED BY <2>2, <3>1, <3>3, <4>1 DEF NewNative
    <3>4. ASSUME NEW d \in Calc, BeginDestroy(d)
          PROVE  calc'[c].handle = l
      BY <2>2, <3>1, <3>4 DEF BeginDestroy, SessionEnds, CalcRec
    <3>5. ASSUME NEW d \in Calc, CloseLibrary(d)
          PROVE  calc'[c].handle = l \/ abandoned'[l] > 0
      <4>1. CASE d # c
        BY <2>2, <3>1, <3>5, <4>1 DEF CloseLibrary
      <4>2. CASE d = c
        <5>1. abandoned' = Plus(abandoned, l)
          BY <2>4, <3>1, <3>5, <4>2 DEF CloseLibrary
        <5>2. abandoned'[l] = abandoned[l] + 1
          BY <5>1 DEF Plus
        <5> QED BY <1>2, <5>2
      <4> QED BY <4>1, <4>2
    <3> QED BY <3>2, <3>3, <3>4, <3>5 DEF Owned
  <2> QED BY <2>3, <2>4
<1>5. l \in registry \/ abandoned[l] > 0 \/ \E c \in Calc : calc[c].loaded /\ calc[c].table = l
  BY DEF Ran
<1> QED BY <1>3, <1>4, <1>5

\* An NWChem or torch library that ran stays mapped (RuntimesStay).
THEOREM RuntimesStayHolds == Spec => RuntimesStay
<1> DEFINE Stays == \A l \in Lib : family \in {"nwchem", "metatomic"} /\ Ran(l) => refs'[l] > 0
<1>1. IInv /\ OwnedMapped' /\ [Next]_vars => [Stays]_vars
  BY RanIsOwned DEF OwnedMapped
<1>2. RuntimesStay <=> [][Stays]_vars
  BY DEF RuntimesStay
<1> HIDE DEF Stays
<1> QED BY <1>1, <1>2, Inductive, OwnedIsMapped, PTL DEF Spec

=============================================================================
