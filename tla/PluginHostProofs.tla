---------------------------- MODULE PluginHostProofs ----------------------------
(***************************************************************************)
(* The safety properties of PluginHost, for every set of threads, wrappers *)
(* and libraries, every plugin path and any number of calls.               *)
(*                                                                         *)
(* The inductive invariant has a part for each thing that must agree:      *)
(* MutexInv the serial mutex with the steps of its owner, CallInv the      *)
(* threads with the wrappers they call, ScratchInv the scratch buffers     *)
(* with the thread that computes, RawInv the instances with the steps of   *)
(* their calls, KeepInv the registry with the wrappers that share its      *)
(* libraries, and RefInv dlopen's counts with their owners.                *)
(***************************************************************************)
EXTENDS PluginHost, TLAPS, FiniteSetTheorems

ScanStep == {"host", "scan", "opened", "unwanted"}
WrapperStep == {"create", "creating", "giveback", "discarding", "failed", "created",
                "force", "forcing", "destroy", "destroying", "release"}

Files == Library \cup {Builtin}

Call == [step : ScanStep \cup WrapperStep, lib : Files \cup {None}, pot : Pot \cup {NoPot},
         queue : Seq(SUBSET Library)]

Types ==
  /\ refs \in [Library -> Int] /\ registry \in BOOLEAN /\ plugins \in Seq(Files)
  /\ pot \in [Pot -> Files \cup {None}] /\ keeps \subseteq Pot
  /\ raw \in [Pot -> Int] /\ scratch \in [Pot -> Thread \cup {Nobody}]
  /\ mutex \in [owner : Thread \cup {Nobody}, depth : Int]
  /\ call \in [Thread -> Call]
  /\ output \in [Thread -> Thread \cup {Nobody}]

\* How often a step holds the serial mutex.
DepthAt(step, lib) ==
  CASE step = "discarding" -> 2
    [] step \in {"creating", "giveback", "failed", "created", "destroying"} -> 1
    [] step = "forcing" -> IF IsSafe(lib) THEN 0 ELSE 1
    [] OTHER -> 0

Depth(t) == DepthAt(call[t].step, call[t].lib)

MutexInv ==
  /\ \A t \in Thread : Depth(t) = IF mutex.owner = t THEN mutex.depth ELSE 0
  /\ mutex.owner # Nobody => mutex.depth > 0
  /\ mutex.owner = Nobody => mutex.depth = 0

\* A thread in a wrapper is in the library of that wrapper, and alone in it except
\* for forces of a serial plugin; an opened library is a file.
CallInv ==
  /\ \A t \in Thread : call[t].step \in ScanStep => call[t].pot = NoPot
  /\ \A t \in Thread : call[t].step \in WrapperStep =>
       call[t].pot \in Pot /\ call[t].lib = pot[call[t].pot] /\ call[t].lib # None
  /\ \A t \in Thread : call[t].step \in {"opened", "unwanted"} => call[t].lib \in Library
  /\ \A s, t \in Thread : s # t /\ call[s].pot = call[t].pot /\ call[t].pot # NoPot =>
       call[t].step \in {"force", "forcing"} /\ ~IsSafe(call[t].lib)

ScratchInv ==
  /\ \A t \in Thread : call[t].step = "forcing" => scratch[call[t].pot] = t
  /\ OwnResult

Before == {"create", "creating", "failed", "release"}

RawInv ==
  /\ \A w \in Pot : pot[w] = None => raw[w] = 0
  /\ \A w \in Pot : pot[w] # None /\ Unused(w) => raw[w] = 1
  /\ \A t \in Thread : call[t].step \in WrapperStep =>
       raw[call[t].pot] = IF call[t].step \in Before THEN 0 ELSE 1

KeepInv ==
  /\ \A w \in Pot : w \in keeps <=> pot[w] \in Library
  /\ \A w \in Pot : registry /\ pot[w] # None => pot[w] \in ToSet(plugins)
  /\ ~registry => plugins = << >>
                  /\ \A t \in Thread : call[t].step \notin {"scan", "opened", "unwanted"}
  /\ OnePluginPerName

RefInv == \A f \in Library : refs[f] = Cardinality(Opening(f)) + (IF Shared(f) THEN 1 ELSE 0)

IInv == Types /\ MutexInv /\ CallInv /\ ScratchInv /\ RawInv /\ KeepInv /\ RefInv

\* Files are numbered apart from the built-in and from no library.
LEMMA FileNumbers ==
  /\ \A f \in Library : f # None /\ f # Builtin
  /\ Builtin # None /\ NoPot \notin Pot /\ Nobody \notin Thread
<1>1. Library \subseteq Nat \ {Builtin} /\ "no wrapper" \notin Pot /\ "nobody" \notin Thread
  BY PluginAssumption
<1>2. \A f \in Library : f # None /\ f # Builtin
  <2>1. \A n \in Nat : n # -1
    OBVIOUS
  <2> QED BY <1>1, <2>1 DEF None
<1>3. Builtin # None
  BY DEF None, Builtin
<1>4. NoPot \notin Pot /\ Nobody \notin Thread
  BY <1>1, Zenon DEF NoPot, Nobody
<1> QED BY <1>2, <1>3, <1>4

-----------------------------------------------------------------------------
(* How a call moves.                                                       *)

\* Thread t's call is at that step, in that library and wrapper; the other calls
\* are where they were.
Moved(t, step, lib, w) ==
  /\ call' \in [Thread -> Call]
  /\ call'[t].step = step /\ call'[t].lib = lib /\ call'[t].pot = w
  /\ \A s \in Thread : s # t => call'[s] = call[s]

\* A new record for the call of one thread.
LEMMA SetCall ==
  ASSUME Types, NEW t \in Thread, NEW c \in Call, call' = [call EXCEPT ![t] = c]
  PROVE  Moved(t, c.step, c.lib, c.pot)
BY DEF Types, Moved

\* The next step of a call.
LEMMA GoesMoves ==
  ASSUME Types, NEW t \in Thread, NEW step \in ScanStep \cup WrapperStep, Goes(t, step)
  PROVE  Moved(t, step, call[t].lib, call[t].pot)
<1>1. call[t] \in Call
  BY DEF Types
<1>2. [call[t] EXCEPT !.step = step] \in Call
  BY <1>1 DEF Call
<1>3. call' = [call EXCEPT ![t] = [call[t] EXCEPT !.step = step]]
  BY DEF Goes
<1>4. /\ [call[t] EXCEPT !.step = step].step = step
      /\ [call[t] EXCEPT !.step = step].lib = call[t].lib
      /\ [call[t] EXCEPT !.step = step].pot = call[t].pot
  BY <1>1 DEF Call
<1> QED BY <1>2, <1>3, <1>4, SetCall

\* The end of a call.
LEMMA ReturnsMoves ==
  ASSUME Types, NEW t \in Thread, Returns(t)
  PROVE  Moved(t, "host", None, NoPot)
<1>1. Ready \in Call /\ Ready.step = "host" /\ Ready.lib = None /\ Ready.pot = NoPot
  BY DEF Ready, Call, ScanStep
<1>2. call' = [call EXCEPT ![t] = Ready]
  BY DEF Returns
<1> QED BY <1>1, <1>2, SetCall

\* The begin of a call.
LEMMA BeginsMoves ==
  ASSUME Types, NEW t \in Thread, NEW step \in ScanStep \cup WrapperStep,
         NEW f \in Files \cup {None}, NEW w \in Pot \cup {NoPot},
         NEW q \in Seq(SUBSET Library), Begins(t, step, f, w, q)
  PROVE  Moved(t, step, f, w)
<1> DEFINE c == [step |-> step, lib |-> f, pot |-> w, queue |-> q]
<1>1. c \in Call /\ c.step = step /\ c.lib = f /\ c.pot = w
  BY DEF Call
<1>2. call' = [call EXCEPT ![t] = c]
  BY DEF Begins
<1> HIDE DEF c
<1> QED BY <1>1, <1>2, SetCall

-----------------------------------------------------------------------------
(* The registry's side.                                                    *)

\* What the registry does in a call disturbs no wrapper and not the mutex.
LEMMA ScanKeepsWrappers ==
  ASSUME IInv, NEW t \in Thread, call[t].step \in ScanStep,
         NEW step \in ScanStep, NEW lib, Moved(t, step, lib, NoPot),
         step \in {"opened", "unwanted"} => lib \in Library,
         UNCHANGED <<wrappers, mutex, output>>
  PROVE  MutexInv' /\ CallInv' /\ ScratchInv' /\ RawInv'
<1>1. /\ call'[t].step = step /\ call'[t].lib = lib /\ call'[t].pot = NoPot
      /\ \A s \in Thread : s # t => call'[s] = call[s]
      /\ call[t].pot = NoPot /\ step \notin WrapperStep /\ call[t].step \notin WrapperStep
  BY DEF IInv, CallInv, Moved, ScanStep, WrapperStep
<1>2. UNCHANGED <<pot, keeps, raw, scratch, mutex, output>>
  BY DEF wrappers
<1>3. MutexInv'
  <2>1. \A s \in Thread : Depth(s)' = Depth(s)
    BY <1>1 DEF Depth, DepthAt, ScanStep
  <2> QED BY <1>2, <2>1 DEF IInv, MutexInv
<1>4. CallInv'
  BY <1>1, <1>2 DEF IInv, CallInv
<1>5. ScratchInv'
  BY <1>1, <1>2 DEF IInv, ScratchInv, OwnResult, WrapperStep
<1>6. RawInv'
  <2>1. \A w \in Pot : Unused(w)' => Unused(w)
    BY <1>1, PluginAssumption DEF Unused, NoPot
  <2> QED BY <1>1, <1>2, <2>1 DEF IInv, RawInv
<1> QED BY <1>3, <1>4, <1>5, <1>6

\* One for a call that holds f open until it decided.
Deciding(step, lib, f) == IF step \in {"opened", "unwanted"} /\ lib = f THEN 1 ELSE 0

\* Counting the threads that hold a library open until they decided.
LEMMA OpeningCounts ==
  ASSUME IInv, NEW t \in Thread, NEW step, NEW lib, NEW w, Moved(t, step, lib, w),
         NEW f \in Library
  PROVE  /\ Cardinality(Opening(f)) \in Nat
         /\ Cardinality(Opening(f)') =
              Cardinality(Opening(f)) + Deciding(step, lib, f) - Deciding(call[t].step, call[t].lib, f)
<1> DEFINE after  == Deciding(step, lib, f)
           before == Deciding(call[t].step, call[t].lib, f)
<1>1. IsFiniteSet(Opening(f))
  BY PluginAssumption, FS_Subset DEF Opening
<1>2. Opening(f)' = IF after = 1 THEN Opening(f) \cup {t} ELSE Opening(f) \ {t}
  BY DEF Moved, Opening, Deciding
<1>3. Cardinality(Opening(f)) \in Nat
  BY <1>1, FS_CardinalityType
<1>4. Cardinality(Opening(f) \cup {t}) =
        IF t \in Opening(f) THEN Cardinality(Opening(f)) ELSE Cardinality(Opening(f)) + 1
  BY <1>1, FS_AddElement
<1>5. Cardinality(Opening(f) \ {t}) =
        IF t \in Opening(f) THEN Cardinality(Opening(f)) - 1 ELSE Cardinality(Opening(f))
  BY <1>1, FS_RemoveElement
<1>6. before = (IF t \in Opening(f) THEN 1 ELSE 0) /\ after \in {0, 1}
  BY DEF Deciding, Opening
<1> HIDE DEF before, after
<1>7. Cardinality(Opening(f)') = Cardinality(Opening(f)) + after - before
  BY <1>2, <1>3, <1>4, <1>5, <1>6
<1> QED BY <1>3, <1>7 DEF before, after

\* A call that opens and closes nothing leaves the registry's side as it is.
LEMMA RegistryKept ==
  ASSUME IInv, NEW t \in Thread, NEW step, NEW lib, NEW w, Moved(t, step, lib, w),
         call[t].step \notin {"opened", "unwanted"}, step \notin {"opened", "unwanted"},
         step = "scan" => registry,
         UNCHANGED <<libraries, pot, keeps>>
  PROVE  KeepInv' /\ RefInv'
<1>1. UNCHANGED <<refs, registry, plugins, pot, keeps>>
  BY DEF libraries
<1>2. \A s \in Thread : call'[s].step \in {"scan", "opened", "unwanted"} =>
        registry \/ call[s].step \in {"scan", "opened", "unwanted"}
  BY DEF Moved
<1>3. KeepInv'
  BY <1>1, <1>2 DEF IInv, KeepInv, OnePluginPerName, PluginName
<1>4. ASSUME NEW f \in Library
      PROVE  Opening(f)' = Opening(f) /\ (Shared(f)' <=> Shared(f))
  BY <1>1 DEF Moved, Opening, Shared, Keepers
<1>5. RefInv'
  BY <1>1, <1>4 DEF IInv, RefInv
<1> QED BY <1>3, <1>5

\* discover and load_plugin begin.
LEMMA ScanBegins ==
  ASSUME IInv, NEW t \in Thread, Discover(t) \/ Load(t)
  PROVE  IInv'
<1>1. PICK q \in Seq(SUBSET Library) : Begins(t, "scan", None, NoPot, q)
  <2>1. CASE Discover(t)
    BY <2>1, PluginAssumption DEF Discover
  <2>2. CASE Load(t)
    <3>1. PICK f \in Library : Begins(t, "scan", None, NoPot, <<{f}>>)
      BY <2>2 DEF Load
    <3>2. <<{f}>> \in Seq(SUBSET Library)
      OBVIOUS
    <3> QED BY <3>1, <3>2
  <2> QED BY <2>1, <2>2
<1>2. Moved(t, "scan", None, NoPot)
  BY <1>1, BeginsMoves DEF IInv, ScanStep
<1>3. registry /\ call[t].step = "host" /\ UNCHANGED <<libraries, wrappers, mutex, output>>
  BY <1>1 DEF Discover, Load, Begins, At
<1>4. MutexInv' /\ CallInv' /\ ScratchInv' /\ RawInv'
  BY <1>2, <1>3, ScanKeepsWrappers DEF ScanStep
<1>5. KeepInv' /\ RefInv'
  BY <1>2, <1>3, RegistryKept DEF wrappers
<1>6. Types'
  BY <1>2, <1>3 DEF IInv, Types, Moved, libraries, wrappers
<1> QED BY <1>4, <1>5, <1>6 DEF IInv

\* The next directory, and the end of the scan.
LEMMA ScanProceeds ==
  ASSUME IInv, NEW t \in Thread, NextDirectory(t) \/ EndScan(t)
  PROVE  IInv'
<1>1. \E step \in {"scan", "host"} : \E lib : Moved(t, step, lib, NoPot)
  <2>1. CASE EndScan(t)
    BY <2>1, ReturnsMoves DEF EndScan, IInv
  <2>2. CASE NextDirectory(t)
    <3>1. call[t] \in Call /\ call[t].step = "scan" /\ call[t].queue # << >>
      BY <2>2 DEF NextDirectory, At, IInv, Types
    <3>2. call[t].pot = NoPot
      BY <3>1 DEF IInv, CallInv, ScanStep
    <3>3. Tail(call[t].queue) \in Seq(SUBSET Library)
      BY <3>1 DEF Call
    <3> DEFINE c == [call[t] EXCEPT !.queue = Tail(call[t].queue)]
    <3>4. c \in Call /\ c.step = "scan" /\ c.pot = NoPot
      BY <3>1, <3>2, <3>3 DEF Call
    <3>5. call' = [call EXCEPT ![t] = c]
      BY <2>2 DEF NextDirectory
    <3> HIDE DEF c
    <3> QED BY <3>4, <3>5, SetCall DEF IInv
  <2> QED BY <2>1, <2>2
<1>2. PICK step, lib : step \in {"scan", "host"} /\ Moved(t, step, lib, NoPot)
  BY <1>1
<1>3. call[t].step = "scan" /\ UNCHANGED <<libraries, wrappers, mutex, output>>
  BY DEF NextDirectory, EndScan, At
<1>4. registry
  BY <1>3 DEF IInv, KeepInv, Types
<1>5. MutexInv' /\ CallInv' /\ ScratchInv' /\ RawInv'
  BY <1>2, <1>3, ScanKeepsWrappers DEF ScanStep
<1>6. KeepInv' /\ RefInv'
  BY <1>2, <1>3, <1>4, RegistryKept DEF wrappers
<1>7. Types'
  BY <1>2, <1>3 DEF IInv, Types, Moved, libraries, wrappers
<1> QED BY <1>5, <1>6, <1>7 DEF IInv

\* dlopen: one more handle if the file is a plugin.
LEMMA OpenPreserves ==
  ASSUME IInv, NEW t \in Thread, OpenPlugin(t)
  PROVE  IInv'
<1>1. /\ call[t] \in Call /\ call[t].step = "scan" /\ call[t].queue # << >>
      /\ UNCHANGED <<registry, plugins, wrappers, mutex, output>>
  BY DEF OpenPlugin, At, IInv, Types
<1>2. PICK f \in Head(call[t].queue) :
        /\ refs' = IF f \in Broken THEN refs ELSE [refs EXCEPT ![f] = @ + 1]
        /\ call' = [call EXCEPT
             ![t] = [step |-> IF f \in Broken THEN "scan" ELSE "opened", lib |-> f, pot |-> NoPot,
                     queue |-> <<Head(call[t].queue) \ {f}>> \o Tail(call[t].queue)]]
  BY DEF OpenPlugin
<1> DEFINE step == IF f \in Broken THEN "scan" ELSE "opened"
           q == <<Head(call[t].queue) \ {f}>> \o Tail(call[t].queue)
           c == [step |-> step, lib |-> f, pot |-> NoPot, queue |-> q]
<1>3. f \in Library /\ q \in Seq(SUBSET Library)
  <2>1. call[t].queue \in Seq(SUBSET Library) /\ call[t].queue # << >>
    BY <1>1 DEF Call
  <2>2. Head(call[t].queue) \in SUBSET Library /\ Tail(call[t].queue) \in Seq(SUBSET Library)
    BY <2>1
  <2>3. <<Head(call[t].queue) \ {f}>> \in Seq(SUBSET Library)
    BY <2>2
  <2>4. f \in Library
    BY <2>2, <1>2
  <2> QED BY <2>2, <2>3, <2>4
<1>4. c \in Call /\ c.step = step /\ c.lib = f /\ c.pot = NoPot
  <2> HIDE DEF q
  <2> QED BY <1>3 DEF Call, ScanStep, Files
<1>5. call' = [call EXCEPT ![t] = c]
  BY <1>2
<1> HIDE DEF c
<1>6. Moved(t, step, f, NoPot)
  BY <1>4, <1>5, SetCall DEF IInv
<1>7. MutexInv' /\ CallInv' /\ ScratchInv' /\ RawInv'
  BY <1>1, <1>3, <1>6, ScanKeepsWrappers DEF ScanStep
<1>8. KeepInv'
  <2>1. registry
    BY <1>1 DEF IInv, KeepInv, Types
  <2> QED BY <1>1, <2>1 DEF IInv, KeepInv, OnePluginPerName, PluginName, wrappers
<1>9. RefInv'
  <2>1. ASSUME NEW g \in Library
        PROVE  refs'[g] = Cardinality(Opening(g)') + (IF Shared(g)' THEN 1 ELSE 0)
    <3>1. Shared(g)' <=> Shared(g)
      BY <1>1 DEF Shared, Keepers, wrappers
    <3>2. refs[g] = Cardinality(Opening(g)) + (IF Shared(g) THEN 1 ELSE 0)
      BY DEF IInv, RefInv
    <3>3. Deciding(call[t].step, call[t].lib, g) = 0
      BY <1>1 DEF Deciding
    <3>4. /\ Cardinality(Opening(g)) \in Nat
          /\ Cardinality(Opening(g)') =
               Cardinality(Opening(g)) + Deciding(step, f, g) - Deciding(call[t].step, call[t].lib, g)
      BY <1>6, OpeningCounts
    <3>5. refs'[g] = refs[g] + Deciding(step, f, g)
      BY <1>2 DEF IInv, Types, Deciding
    <3>6. Deciding(step, f, g) \in {0, 1}
      BY DEF Deciding
    <3> QED BY <3>1, <3>2, <3>3, <3>4, <3>5, <3>6
  <2> QED BY <2>1 DEF RefInv
<1>10. Types'
  <2>1. refs' \in [Library -> Int]
    BY <1>2, <1>3 DEF IInv, Types
  <2> QED BY <1>1, <1>6, <2>1 DEF IInv, Types, Moved, wrappers
<1> QED BY <1>7, <1>8, <1>9, <1>10 DEF IInv

\* The name is free, and the handle becomes the plugin's; or it is taken.
LEMMA RegisterPreserves ==
  ASSUME IInv, NEW t \in Thread, Register(t)
  PROVE  IInv'
<1> DEFINE l == call[t].lib
           step == IF Taken(l) THEN "unwanted" ELSE "scan"
<1>1. /\ call[t].step = "opened" /\ l \in Library /\ call[t].pot = NoPot /\ registry
      /\ UNCHANGED <<refs, registry, wrappers, mutex, output>>
  BY DEF Register, At, IInv, CallInv, KeepInv, Types, ScanStep
<1>2. Moved(t, step, l, NoPot)
  BY <1>1, GoesMoves DEF Register, IInv, ScanStep
<1>3. plugins' = IF Taken(l) THEN plugins ELSE Append(plugins, l)
  BY DEF Register
<1>4. MutexInv' /\ CallInv' /\ ScratchInv' /\ RawInv'
  BY <1>1, <1>2, ScanKeepsWrappers DEF ScanStep
<1>5. plugins \in Seq(Files) /\ plugins' \in Seq(Files)
  BY <1>1, <1>3 DEF IInv, Types, Files
<1>6. ToSet(plugins') = IF Taken(l) THEN ToSet(plugins) ELSE ToSet(plugins) \cup {l}
  BY <1>1, <1>3, <1>5 DEF ToSet, Files
<1>7. KeepInv'
  <2>1. OnePluginPerName'
    <3>1. CASE Taken(l)
      BY <1>3, <3>1 DEF IInv, KeepInv, OnePluginPerName, PluginName
    <3>2. CASE ~Taken(l)
      <4>1. \A i \in DOMAIN plugins : PluginName(plugins[i]) # PluginName(l)
        BY <3>2 DEF Taken, ToSet
      <4>2. /\ DOMAIN plugins' = 1 .. Len(plugins) + 1 /\ DOMAIN plugins = 1 .. Len(plugins)
            /\ Len(plugins) \in Nat /\ plugins'[Len(plugins) + 1] = l
            /\ \A i \in 1 .. Len(plugins) : plugins'[i] = plugins[i]
        BY <1>1, <1>3, <1>5, <3>2 DEF Files
      <4>3. \A i, j \in DOMAIN plugins' :
              PluginName(plugins'[i]) = PluginName(plugins'[j]) => i = j
        BY <4>1, <4>2 DEF IInv, KeepInv, OnePluginPerName
      <4> QED BY <4>3 DEF OnePluginPerName, PluginName
    <3> QED BY <3>1, <3>2
  <2> QED BY <1>1, <1>6, <2>1 DEF IInv, KeepInv, wrappers
<1>8. RefInv'
  <2>1. ASSUME NEW g \in Library
        PROVE  refs'[g] = Cardinality(Opening(g)') + (IF Shared(g)' THEN 1 ELSE 0)
    <3>1. refs'[g] = Cardinality(Opening(g)) + (IF Shared(g) THEN 1 ELSE 0)
      BY <1>1 DEF IInv, RefInv
    <3>2. /\ Cardinality(Opening(g)) \in Nat
          /\ Cardinality(Opening(g)') =
               Cardinality(Opening(g)) + Deciding(step, l, g) - Deciding(call[t].step, l, g)
      BY <1>2, OpeningCounts
    <3>3. CASE Taken(l) \/ g # l
      <4>1. Deciding(step, l, g) = Deciding(call[t].step, l, g) /\ Deciding(step, l, g) \in {0, 1}
        BY <1>1, <3>3 DEF Deciding
      <4>2. Shared(g)' <=> Shared(g)
        BY <1>1, <1>6, <3>3 DEF Shared, Keepers, wrappers
      <4> QED BY <3>1, <3>2, <4>1, <4>2
    <3>4. CASE ~Taken(l) /\ g = l
      <4>1. Deciding(step, l, g) = 0 /\ Deciding(call[t].step, l, g) = 1
        BY <1>1, <3>4 DEF Deciding
      <4>2. g \notin ToSet(plugins)
        BY <3>4 DEF Taken
      <4>3. ~Shared(g)
        <5>1. g # None
          BY FileNumbers
        <5>2. \A w \in Pot : pot[w] # g
          BY <1>1, <4>2, <5>1 DEF IInv, KeepInv
        <5>3. Keepers(g) = {}
          BY <5>2 DEF Keepers, IInv, Types
        <5> QED BY <4>2, <5>3 DEF Shared
      <4>4. Shared(g)'
        BY <1>6, <3>4 DEF Shared
      <4> QED BY <3>1, <3>2, <4>1, <4>3, <4>4
    <3> QED BY <3>3, <3>4
  <2> QED BY <2>1 DEF RefInv
<1>9. Types'
  BY <1>1, <1>2, <1>5 DEF IInv, Types, Moved, wrappers
<1> QED BY <1>4, <1>7, <1>8, <1>9 DEF IInv

\* The handle of a plugin that was turned down is closed.
LEMMA ClosePreserves ==
  ASSUME IInv, NEW t \in Thread, CloseUnwanted(t)
  PROVE  IInv'
<1> DEFINE l == call[t].lib
<1>1. /\ call[t].step = "unwanted" /\ l \in Library /\ call[t].pot = NoPot /\ registry
      /\ UNCHANGED <<registry, plugins, wrappers, mutex, output>>
      /\ refs' = [refs EXCEPT ![l] = @ - 1]
  BY DEF CloseUnwanted, At, IInv, CallInv, KeepInv, Types, ScanStep
<1>2. Moved(t, "scan", l, NoPot)
  BY <1>1, GoesMoves DEF CloseUnwanted, IInv, ScanStep
<1>3. MutexInv' /\ CallInv' /\ ScratchInv' /\ RawInv'
  BY <1>1, <1>2, ScanKeepsWrappers DEF ScanStep
<1>4. KeepInv'
  BY <1>1 DEF IInv, KeepInv, OnePluginPerName, PluginName, wrappers
<1>5. RefInv'
  <2>1. ASSUME NEW g \in Library
        PROVE  refs'[g] = Cardinality(Opening(g)') + (IF Shared(g)' THEN 1 ELSE 0)
    <3>1. refs[g] = Cardinality(Opening(g)) + (IF Shared(g) THEN 1 ELSE 0)
      BY DEF IInv, RefInv
    <3>2. /\ Cardinality(Opening(g)) \in Nat
          /\ Cardinality(Opening(g)') =
               Cardinality(Opening(g)) + Deciding("scan", l, g) - Deciding(call[t].step, l, g)
      BY <1>2, OpeningCounts
    <3>3. Deciding("scan", l, g) = 0 /\ Deciding(call[t].step, l, g) = IF g = l THEN 1 ELSE 0
      BY <1>1 DEF Deciding
    <3>4. refs'[g] = refs[g] - (IF g = l THEN 1 ELSE 0)
      BY <1>1 DEF IInv, Types
    <3>5. Shared(g)' <=> Shared(g)
      BY <1>1 DEF Shared, Keepers, wrappers
    <3> QED BY <3>1, <3>2, <3>3, <3>4, <3>5
  <2> QED BY <2>1 DEF RefInv
<1>6. Types'
  <2>1. refs' \in [Library -> Int]
    BY <1>1 DEF IInv, Types
  <2> QED BY <1>1, <1>2, <2>1 DEF IInv, Types, Moved, wrappers
<1> QED BY <1>3, <1>4, <1>5, <1>6 DEF IInv

\* Static destruction closes the handles that no wrapper shares.
LEMMA DestroyRegistryPreserves ==
  ASSUME IInv, DestroyRegistry
  PROVE  IInv'
<1>1. /\ UNCHANGED <<pot, keeps, raw, scratch, mutex, call, output>>
      /\ registry /\ registry' = FALSE /\ plugins' = << >>
      /\ \A t \in Thread : call[t].step = "host"
  BY DEF DestroyRegistry, wrappers, At
<1>2. MutexInv' /\ CallInv' /\ ScratchInv' /\ RawInv'
  BY <1>1 DEF IInv, MutexInv, CallInv, ScratchInv, RawInv, Depth, DepthAt, OwnResult, Unused
<1>3. KeepInv'
  BY <1>1 DEF IInv, KeepInv, OnePluginPerName
<1>4. RefInv'
  <2>1. ASSUME NEW g \in Library
        PROVE  refs'[g] = Cardinality(Opening(g)') + (IF Shared(g)' THEN 1 ELSE 0)
    <3>1. refs[g] = Cardinality(Opening(g)) + (IF Shared(g) THEN 1 ELSE 0)
      BY DEF IInv, RefInv
    <3>2. Opening(g) = {} /\ Opening(g)' = {}
      BY <1>1 DEF Opening
    <3>3. Keepers(g)' = Keepers(g) /\ ToSet(plugins') = {}
      BY <1>1 DEF Keepers, ToSet
    <3>4. refs'[g] = IF g \in ToSet(plugins) /\ Keepers(g) = {} THEN refs[g] - 1 ELSE refs[g]
      BY DEF DestroyRegistry
    <3>5. Cardinality(Opening(g)) = 0 /\ Cardinality(Opening(g)') = 0
      BY <3>2, FS_EmptySet
    <3> QED BY <3>1, <3>3, <3>4, <3>5 DEF Shared
  <2> QED BY <2>1 DEF RefInv
<1>5. Types'
  <2>1. refs' \in [Library -> Int]
    BY DEF DestroyRegistry, IInv, Types
  <2>2. plugins' \in Seq(Files) /\ registry' \in BOOLEAN
    <3>1. << >> \in Seq(Files)
      OBVIOUS
    <3> QED BY <1>1, <3>1
  <2> QED BY <1>1, <2>1, <2>2 DEF IInv, Types
<1> QED BY <1>2, <1>3, <1>4, <1>5 DEF IInv

-----------------------------------------------------------------------------
(* The wrappers' side.                                                     *)

\* The mutex goes with its owner's step.
Locks(t, step, lib) ==
  \/ Lock(t) /\ DepthAt(step, lib) = Depth(t) + 1
  \/ Unlock /\ DepthAt(step, lib) = Depth(t) - 1
  \/ UNCHANGED mutex /\ DepthAt(step, lib) = Depth(t)

\* Locking, unlocking or neither, as the step has it, keeps the mutex its owner's.
LEMMA LocksPreserve ==
  ASSUME IInv, NEW t \in Thread, NEW step, NEW lib, NEW w, Moved(t, step, lib, w),
         Locks(t, step, lib)
  PROVE  MutexInv' /\ mutex' \in [owner : Thread \cup {Nobody}, depth : Int]
<1> DEFINE after(s) == IF s = t THEN DepthAt(step, lib) ELSE Depth(s)
<1>1. \A s \in Thread : Depth(s)' = after(s)
  BY DEF Moved, Depth, DepthAt
<1>2. mutex \in [owner : Thread \cup {Nobody}, depth : Int] /\ Nobody \notin Thread
  BY FileNumbers DEF IInv, Types
<1>3. /\ \A s \in Thread : Depth(s) = IF mutex.owner = s THEN mutex.depth ELSE 0
      /\ mutex.owner # Nobody => mutex.depth > 0
      /\ mutex.owner = Nobody => mutex.depth = 0
  BY DEF IInv, MutexInv
<1>4. DepthAt(step, lib) \in {0, 1, 2}
  BY DEF DepthAt
<1> HIDE DEF after
<1>5. /\ mutex' \in [owner : Thread \cup {Nobody}, depth : Int]
      /\ \A s \in Thread : after(s) = IF mutex'.owner = s THEN mutex'.depth ELSE 0
      /\ mutex'.owner # Nobody => mutex'.depth > 0
      /\ mutex'.owner = Nobody => mutex'.depth = 0
  <2>1. CASE Lock(t) /\ DepthAt(step, lib) = Depth(t) + 1
    BY <1>2, <1>3, <2>1 DEF Lock, CanLock, after
  <2>2. CASE Unlock /\ DepthAt(step, lib) = Depth(t) - 1
    <3>1. mutex.owner = t /\ mutex.depth = DepthAt(step, lib) + 1
      BY <1>2, <1>3, <1>4, <2>2
    <3> QED BY <1>2, <1>3, <1>4, <2>2, <3>1 DEF Unlock, Free, after
  <2>3. CASE UNCHANGED mutex /\ DepthAt(step, lib) = Depth(t)
    BY <1>2, <1>3, <2>3 DEF after
  <2> QED BY <2>1, <2>2, <2>3 DEF Locks
<1>6. MutexInv'
  BY <1>1, <1>5 DEF MutexInv
<1> QED BY <1>5, <1>6

\* A step within a call of a wrapper: the mutex, the instance and the scratch
\* buffer go with it.
LEMMA WithinCall ==
  ASSUME IInv, NEW t \in Thread, NEW step \in WrapperStep, call[t].step \in WrapperStep,
         Moved(t, step, call[t].lib, call[t].pot), Locks(t, step, call[t].lib),
         call[t].step \in {"force", "forcing"} <=> step \in {"force", "forcing"},
         UNCHANGED <<libraries, pot, keeps, output>>,
         raw' = [raw EXCEPT ![call[t].pot] = IF step \in Before THEN 0 ELSE 1],
         scratch' = IF step = "forcing" THEN [scratch EXCEPT ![call[t].pot] = t] ELSE scratch,
         step = "forcing" => call[t].step = "force"
  PROVE  IInv'
<1> DEFINE w == call[t].pot
<1>1. w \in Pot /\ call[t].lib = pot[w] /\ call[t].lib # None /\ w # NoPot
  BY FileNumbers DEF IInv, CallInv
<1>2. /\ call'[t].step = step /\ call'[t].lib = call[t].lib /\ call'[t].pot = w
      /\ \A s \in Thread : s # t => call'[s] = call[s]
  BY DEF Moved
<1>3. step \notin ScanStep /\ call[t].step \notin ScanStep
  BY DEF WrapperStep, ScanStep
<1>4. MutexInv' /\ mutex' \in [owner : Thread \cup {Nobody}, depth : Int]
  BY LocksPreserve
<1>5. CallInv'
  BY <1>1, <1>2, <1>3 DEF IInv, CallInv, ScanStep
<1>6. ScratchInv'
  <2>1. ASSUME NEW s \in Thread, call'[s].step = "forcing", s # t, call[s].pot = w, step = "forcing"
        PROVE  FALSE
    <3>1. ~IsSafe(call[t].lib) /\ call[s].lib = call[t].lib /\ call[s].step = "forcing"
      BY <1>1, <1>2, <2>1 DEF IInv, CallInv, WrapperStep
    <3>2. Depth(s) = 1 /\ Depth(t) = 0 /\ DepthAt(step, call[t].lib) = 1
      BY <2>1, <3>1 DEF Depth, DepthAt
    <3>3. mutex.owner = s
      BY <3>2 DEF IInv, MutexInv
    <3>4. CanLock(t)
      BY <3>2 DEF Locks, Lock
    <3> QED BY <2>1, <3>3, <3>4, FileNumbers DEF CanLock
  <2>2. \A s \in Thread : call'[s].step = "forcing" => scratch'[call'[s].pot] = s
    BY <1>1, <1>2, <2>1, SMTT(30) DEF IInv, ScratchInv, Types
  <2> QED BY <2>2 DEF IInv, ScratchInv, OwnResult
<1>7. RawInv'
  <2>1. \A x \in Pot : raw'[x] = IF x = w THEN (IF step \in Before THEN 0 ELSE 1) ELSE raw[x]
    BY <1>1 DEF IInv, Types
  <2>2. \A x \in Pot : Unused(x)' => Unused(x) /\ x # w
    BY <1>2 DEF Unused
  <2>3. ASSUME NEW s \in Thread, call'[s].step \in WrapperStep
        PROVE  raw'[call'[s].pot] = IF call'[s].step \in Before THEN 0 ELSE 1
    <3>1. CASE s = t
      BY <1>1, <1>2, <2>1, <3>1
    <3>2. CASE s # t /\ call[s].pot = w
      <4>1. call[s].step \in {"force", "forcing"} /\ call[t].step \in {"force", "forcing"}
        BY <1>1, <3>2 DEF IInv, CallInv
      <4> QED BY <1>1, <1>2, <2>1, <3>2, <4>1 DEF Before
    <3>3. CASE s # t /\ call[s].pot # w
      BY <1>2, <2>1, <2>3, <3>3 DEF IInv, RawInv, CallInv
    <3> QED BY <3>1, <3>2, <3>3
  <2> QED BY <1>1, <2>1, <2>2, <2>3 DEF IInv, RawInv
<1>8. KeepInv' /\ RefInv'
  BY <1>3, RegistryKept DEF ScanStep
<1>9. Types'
  <2>1. call' \in [Thread -> Call] /\ UNCHANGED <<refs, registry, plugins, pot, keeps, output>>
    BY DEF Moved, libraries
  <2>2. raw' \in [Pot -> Int] /\ scratch' \in [Pot -> Thread \cup {Nobody}]
    BY <1>1 DEF IInv, Types
  <2> QED BY <1>4, <2>1, <2>2 DEF IInv, Types
<1> QED BY <1>4, <1>5, <1>6, <1>7, <1>8, <1>9 DEF IInv

\* The steps within create, force and destroy.
LEMMA ProceedsWithin ==
  ASSUME IInv, NEW t \in Thread,
         \/ EnterCreate(t) \/ CreateReturns(t) \/ GiveBack(t) \/ Discarded(t)
         \/ EnterForce(t) \/ EnterDestroy(t) \/ Destroyed(t)
  PROVE  IInv'
<1> DEFINE w == call[t].pot
           value(step) == IF step \in Before THEN 0 ELSE 1
<1>1. ASSUME call[t].step \in WrapperStep
      PROVE  w \in Pot /\ raw[w] = value(call[t].step) /\ raw = [raw EXCEPT ![w] = raw[w]]
  BY <1>1, SMTT(30) DEF IInv, CallInv, RawInv, Types
<1>2. CASE EnterCreate(t)
  <2>1. call[t].step = "create" /\ Lock(t) /\ Goes(t, "creating")
        /\ UNCHANGED <<libraries, pot, keeps, raw, scratch, output>>
    BY <1>2 DEF EnterCreate, At, wrappers
  <2>2. Moved(t, "creating", call[t].lib, w)
    BY <2>1, GoesMoves DEF IInv, WrapperStep
  <2>3. Locks(t, "creating", call[t].lib)
    BY <2>1 DEF Locks, Depth, DepthAt
  <2>4. raw' = [raw EXCEPT ![w] = value("creating")]
    BY <1>1, <2>1 DEF WrapperStep, Before
  <2> QED BY <2>1, <2>2, <2>3, <2>4, WithinCall DEF WrapperStep
<1>3. CASE CreateReturns(t)
  <2>1. call[t].step = "creating"
        /\ UNCHANGED <<libraries, pot, keeps, mutex, scratch, output>>
    BY <1>3 DEF CreateReturns, At
  <2>2. PICK instance \in BOOLEAN, works \in BOOLEAN :
          /\ raw' = IF instance THEN [raw EXCEPT ![call[t].pot] = @ + 1] ELSE raw
          /\ Goes(t, IF ~instance THEN "failed" ELSE IF works THEN "created" ELSE "giveback")
    BY <1>3 DEF CreateReturns
  <2> DEFINE step == IF ~instance THEN "failed" ELSE IF works THEN "created" ELSE "giveback"
  <2>3. Moved(t, step, call[t].lib, w)
    BY <2>2, GoesMoves DEF IInv, WrapperStep
  <2>4. Locks(t, step, call[t].lib)
    BY <2>1 DEF Locks, Depth, DepthAt
  <2>5. raw' = [raw EXCEPT ![w] = value(step)]
    <3>1. raw[w] = 0 /\ raw = [raw EXCEPT ![w] = raw[w]]
      BY <1>1, <2>1 DEF WrapperStep, Before
    <3>2. value(step) = IF instance THEN raw[w] + 1 ELSE raw[w]
      BY <3>1 DEF Before
    <3>3. raw' = IF instance THEN [raw EXCEPT ![w] = raw[w] + 1] ELSE raw
      BY <2>2
    <3> HIDE DEF value, step
    <3> QED BY <3>1, <3>2, <3>3
  <2>6. step \in {"failed", "created", "giveback"}
    OBVIOUS
  <2> HIDE DEF step
  <2> QED BY <2>1, <2>3, <2>4, <2>5, <2>6, WithinCall DEF WrapperStep
<1>4. CASE GiveBack(t)
  <2>1. call[t].step = "giveback" /\ Lock(t) /\ Goes(t, "discarding")
        /\ UNCHANGED <<libraries, pot, keeps, raw, scratch, output>>
    BY <1>4 DEF GiveBack, At, wrappers
  <2>2. Moved(t, "discarding", call[t].lib, w)
    BY <2>1, GoesMoves DEF IInv, WrapperStep
  <2>3. Locks(t, "discarding", call[t].lib)
    BY <2>1 DEF Locks, Depth, DepthAt
  <2>4. raw' = [raw EXCEPT ![w] = value("discarding")]
    BY <1>1, <2>1 DEF WrapperStep, Before
  <2> QED BY <2>1, <2>2, <2>3, <2>4, WithinCall DEF WrapperStep
<1>5. CASE Discarded(t)
  <2>1. call[t].step = "discarding" /\ Unlock /\ Goes(t, "failed")
        /\ UNCHANGED <<libraries, pot, keeps, scratch, output>>
        /\ raw' = [raw EXCEPT ![w] = raw[w] - 1]
    BY <1>5 DEF Discarded, At
  <2>2. Moved(t, "failed", call[t].lib, w)
    BY <2>1, GoesMoves DEF IInv, WrapperStep
  <2>3. Locks(t, "failed", call[t].lib)
    BY <2>1 DEF Locks, Depth, DepthAt
  <2>4. raw' = [raw EXCEPT ![w] = value("failed")]
    <3>1. raw[w] - 1 = value("failed")
      BY <1>1, <2>1 DEF WrapperStep, Before
    <3> HIDE DEF value
    <3> QED BY <2>1, <3>1
  <2> QED BY <2>1, <2>2, <2>3, <2>4, WithinCall DEF WrapperStep
<1>6. CASE EnterForce(t)
  <2>1. call[t].step = "force" /\ Guard(t) /\ Goes(t, "forcing")
        /\ UNCHANGED <<libraries, pot, keeps, raw, output>>
        /\ scratch' = [scratch EXCEPT ![w] = t]
    BY <1>6 DEF EnterForce, At
  <2>2. Moved(t, "forcing", call[t].lib, w)
    BY <2>1, GoesMoves DEF IInv, WrapperStep
  <2>3. Locks(t, "forcing", call[t].lib)
    BY <2>1 DEF Guard, Locks, Depth, DepthAt
  <2>4. raw' = [raw EXCEPT ![w] = value("forcing")]
    BY <1>1, <2>1 DEF WrapperStep, Before
  <2> QED BY <2>1, <2>2, <2>3, <2>4, WithinCall DEF WrapperStep
<1>7. CASE EnterDestroy(t)
  <2>1. call[t].step = "destroy" /\ Lock(t) /\ Goes(t, "destroying")
        /\ UNCHANGED <<libraries, pot, keeps, raw, scratch, output>>
    BY <1>7 DEF EnterDestroy, At, wrappers
  <2>2. Moved(t, "destroying", call[t].lib, w)
    BY <2>1, GoesMoves DEF IInv, WrapperStep
  <2>3. Locks(t, "destroying", call[t].lib)
    BY <2>1 DEF Locks, Depth, DepthAt
  <2>4. raw' = [raw EXCEPT ![w] = value("destroying")]
    BY <1>1, <2>1 DEF WrapperStep, Before
  <2> QED BY <2>1, <2>2, <2>3, <2>4, WithinCall DEF WrapperStep
<1>8. CASE Destroyed(t)
  <2>1. call[t].step = "destroying" /\ Unlock /\ Goes(t, "release")
        /\ UNCHANGED <<libraries, pot, keeps, scratch, output>>
        /\ raw' = [raw EXCEPT ![w] = raw[w] - 1]
    BY <1>8 DEF Destroyed, At
  <2>2. Moved(t, "release", call[t].lib, w)
    BY <2>1, GoesMoves DEF IInv, WrapperStep
  <2>3. Locks(t, "release", call[t].lib)
    BY <2>1 DEF Locks, Depth, DepthAt
  <2>4. raw' = [raw EXCEPT ![w] = value("release")]
    <3>1. raw[w] - 1 = value("release")
      BY <1>1, <2>1 DEF WrapperStep, Before
    <3> HIDE DEF value
    <3> QED BY <2>1, <3>1
  <2> QED BY <2>1, <2>2, <2>3, <2>4, WithinCall DEF WrapperStep
<1> QED BY <1>2, <1>3, <1>4, <1>5, <1>6, <1>7, <1>8

\* A create or a force that returns: the thread leaves the wrapper as it is.
LEMMA LeavesWrapper ==
  ASSUME IInv, NEW t \in Thread, Created(t) \/ ForceReturns(t)
  PROVE  IInv'
<1> DEFINE w == call[t].pot
<1>1. /\ call[t].step \in {"created", "forcing"} /\ Returns(t)
      /\ UNCHANGED <<libraries, pot, keeps, raw, scratch>>
      /\ output' \in {output, [output EXCEPT ![t] = scratch[w]]}
      /\ call[t].step = "created" => UNCHANGED output
  BY DEF Created, ForceReturns, At, wrappers
<1>2. /\ w \in Pot /\ call[t].step \in WrapperStep /\ raw[w] = 1
      /\ call[t].step = "forcing" => scratch[w] = t
  BY <1>1 DEF IInv, CallInv, RawInv, ScratchInv, WrapperStep, Before
<1>3. Moved(t, "host", None, NoPot)
  BY <1>1, ReturnsMoves DEF IInv
<1>4. /\ call'[t].step = "host" /\ call'[t].pot = NoPot
      /\ \A s \in Thread : s # t => call'[s] = call[s]
  BY <1>3 DEF Moved
<1>5. Locks(t, "host", None)
  BY DEF Created, ForceReturns, At, Locks, Depth, DepthAt
<1>6. MutexInv' /\ mutex' \in [owner : Thread \cup {Nobody}, depth : Int]
  BY <1>3, <1>5, LocksPreserve
<1>7. CallInv'
  BY <1>1, <1>4 DEF IInv, CallInv, ScanStep, WrapperStep
<1>8. output' \in [Thread -> Thread \cup {Nobody}] /\ ScratchInv'
  <2>1. output' = output \/ (output' = [output EXCEPT ![t] = t])
    BY <1>1, <1>2
  <2>2. /\ output \in [Thread -> Thread \cup {Nobody}] /\ OwnResult
        /\ \A s \in Thread : call[s].step = "forcing" => scratch[call[s].pot] = s
    BY DEF IInv, ScratchInv, Types
  <2>3. output' \in [Thread -> Thread \cup {Nobody}]
    BY <2>1, <2>2
  <2>4. OwnResult'
    BY <2>1, <2>2 DEF OwnResult
  <2>5. ASSUME NEW s \in Thread, call'[s].step = "forcing"
        PROVE  scratch'[call'[s].pot] = s
    <3>1. s # t
      BY <1>4, <2>5
    <3>2. call'[s] = call[s] /\ scratch' = scratch
      BY <1>1, <1>4, <3>1
    <3> QED BY <2>2, <2>5, <3>2
  <2> QED BY <2>3, <2>4, <2>5 DEF ScratchInv
<1>9. RawInv'
  <2>1. \A x \in Pot : Unused(x)' => x = w \/ Unused(x)
    BY <1>4 DEF Unused
  <2> QED BY <1>1, <1>2, <1>4, <2>1 DEF IInv, RawInv, WrapperStep
<1>10. KeepInv' /\ RefInv'
  BY <1>1, <1>3, RegistryKept
<1>11. Types'
  BY <1>1, <1>3, <1>6, <1>8 DEF IInv, Types, Moved, libraries
<1> QED BY <1>6, <1>7, <1>8, <1>9, <1>10, <1>11 DEF IInv

\* The last owner of a library closes it: a wrapper after the registry.
LEMMA DropPreserves ==
  ASSUME IInv, NEW t \in Thread, UnitsRefused(t) \/ CreateFails(t) \/ ReleaseLibrary(t)
  PROVE  IInv'
<1> DEFINE w == call[t].pot
           l == pot[w]
<1>1. /\ call[t].step \in {"create", "failed", "release"} /\ Returns(t) /\ DropLibrary(w)
      /\ UNCHANGED <<registry, plugins, raw, scratch, output>>
  BY DEF UnitsRefused, CreateFails, ReleaseLibrary, At, DropLibrary
<1>2. w \in Pot /\ w # NoPot /\ raw[w] = 0 /\ l # None /\ call[t].step \in WrapperStep
  BY <1>1, FileNumbers DEF IInv, CallInv, RawInv, WrapperStep, Before
<1>3. Moved(t, "host", None, NoPot)
  BY <1>1, ReturnsMoves DEF IInv
<1>4. /\ call'[t].step = "host" /\ call'[t].pot = NoPot /\ call' \in [Thread -> Call]
      /\ \A s \in Thread : s # t => call'[s] = call[s]
      /\ \A s \in Thread : s # t => call[s].pot # w
  BY <1>1, <1>2, <1>3 DEF Moved, IInv, CallInv
<1>5. Locks(t, "host", None)
  BY DEF UnitsRefused, CreateFails, ReleaseLibrary, At, Locks, Depth, DepthAt
<1>6. MutexInv' /\ mutex' \in [owner : Thread \cup {Nobody}, depth : Int]
  BY <1>3, <1>5, LocksPreserve
<1>7. /\ pot' = [pot EXCEPT ![w] = None] /\ keeps' = keeps \ {w}
      /\ refs' = IF w \in keeps /\ ~registry /\ Keepers(l) = {w}
                 THEN [refs EXCEPT ![l] = @ - 1] ELSE refs
  BY <1>1 DEF DropLibrary
<1>8. \A x \in Pot : pot'[x] = IF x = w THEN None ELSE pot[x]
  BY <1>7 DEF IInv, Types
<1>9. CallInv'
  BY <1>4, <1>8 DEF IInv, CallInv, ScanStep, WrapperStep
<1>10. ScratchInv'
  BY <1>1, <1>4 DEF IInv, ScratchInv, OwnResult
<1>11. RawInv'
  <2>1. \A x \in Pot : Unused(x)' => x = w \/ Unused(x)
    BY <1>4 DEF Unused
  <2> QED BY <1>1, <1>2, <1>4, <1>8, <2>1 DEF IInv, RawInv, WrapperStep
<1>12. KeepInv'
  BY <1>1, <1>4, <1>7, <1>8, FileNumbers DEF IInv, KeepInv, OnePluginPerName, PluginName
<1>13. RefInv'
  <2>1. ASSUME NEW g \in Library
        PROVE  refs'[g] = Cardinality(Opening(g)') + (IF Shared(g)' THEN 1 ELSE 0)
    <3>1. refs[g] = Cardinality(Opening(g)) + (IF Shared(g) THEN 1 ELSE 0)
      BY DEF IInv, RefInv
    <3>2. Opening(g)' = Opening(g)
      BY <1>1, <1>4 DEF Opening
    <3>3. Keepers(g)' = Keepers(g) \ {w} /\ (w \in Keepers(g) <=> g = l)
      BY <1>2, <1>7, <1>8, FileNumbers DEF Keepers, IInv, KeepInv, Types
    <3>4. CASE w \in keeps /\ ~registry /\ Keepers(l) = {w} /\ g = l
      <4>1. ToSet(plugins) = {} /\ plugins' = plugins
        BY <1>1, <3>4 DEF IInv, KeepInv, ToSet
      <4>2. Shared(g) /\ ~Shared(g)'
        BY <3>3, <3>4, <4>1 DEF Shared
      <4>3. refs'[g] = refs[g] - 1
        BY <1>7, <3>4 DEF IInv, Types
      <4>4. Cardinality(Opening(g)) \in Nat
        BY <1>3, OpeningCounts
      <4> QED BY <3>1, <3>2, <4>2, <4>3, <4>4
    <3>5. CASE ~(w \in keeps /\ ~registry /\ Keepers(l) = {w} /\ g = l)
      <4>1. refs'[g] = refs[g]
        BY <1>7, <3>5 DEF IInv, Types
      <4>2. Shared(g)' <=> Shared(g)
        <5>1. CASE g # l
          BY <1>1, <3>3, <5>1 DEF Shared
        <5>2. CASE g = l /\ registry
          BY <1>1, <1>2, <5>2 DEF Shared, IInv, KeepInv
        <5>3. CASE g = l /\ ~registry
          <6>1. w \in keeps /\ w \in Keepers(g) /\ Keepers(g) # {w}
            BY <1>2, <3>3, <3>5, <5>3 DEF IInv, KeepInv
          <6> QED BY <3>3, <6>1 DEF Shared
        <5> QED BY <5>1, <5>2, <5>3 DEF IInv, Types
      <4> QED BY <3>1, <3>2, <4>1, <4>2
    <3> QED BY <3>4, <3>5
  <2> QED BY <2>1 DEF RefInv
<1>14. Types'
  <2>1. pot' \in [Pot -> Files \cup {None}] /\ keeps' \subseteq Pot
    BY <1>7 DEF IInv, Types
  <2>2. refs' \in [Library -> Int]
    <3>1. w \in keeps => l \in Library
      BY <1>2 DEF IInv, KeepInv
    <3>2. refs' = refs \/ (l \in Library /\ refs' = [refs EXCEPT ![l] = refs[l] - 1])
      BY <1>7, <3>1
    <3> QED BY <3>2 DEF IInv, Types
  <2> QED BY <1>1, <1>4, <1>6, <2>1, <2>2 DEF IInv, Types
<1> QED BY <1>6, <1>9, <1>10, <1>11, <1>12, <1>13, <1>14 DEF IInv

\* A force or a destroy begins: the wrapper is the thread's, or a serial plugin's
\* that others compute with too.
LEMMA CallBegins ==
  ASSUME IInv, NEW t \in Thread, BeginForce(t) \/ BeginDestroy(t)
  PROVE  IInv'
<1>1. PICK w \in Pot, step \in {"force", "destroy"} :
        /\ Held(w) /\ Begins(t, step, pot[w], w, << >>)
        /\ step = "force" => (IsSafe(pot[w]) => Unused(w))
        /\ step = "destroy" => Unused(w)
  BY DEF BeginForce, BeginDestroy
<1>2. /\ call[t].step = "host" /\ UNCHANGED <<libraries, wrappers, mutex>>
      /\ output' \in {output, [output EXCEPT ![t] = Nobody]}
  BY DEF BeginForce, BeginDestroy, Begins, At
<1>3. pot[w] # None /\ pot[w] \in Files /\ w # NoPot
  BY <1>1, FileNumbers DEF Held, IInv, Types
<1>4. Moved(t, step, pot[w], w)
  <2>1. << >> \in Seq(SUBSET Library)
    OBVIOUS
  <2>2. step \in ScanStep \cup WrapperStep
    BY DEF WrapperStep
  <2> QED BY <1>1, <1>3, <2>1, <2>2, BeginsMoves DEF IInv
<1>5. /\ call'[t].step = step /\ call'[t].lib = pot[w] /\ call'[t].pot = w
      /\ call' \in [Thread -> Call]
      /\ \A s \in Thread : s # t => call'[s] = call[s]
  BY <1>4 DEF Moved
<1>6. UNCHANGED <<refs, registry, plugins, pot, keeps, raw, scratch, mutex>>
  BY <1>2 DEF libraries, wrappers
<1>7. MutexInv'
  <2>1. Locks(t, step, pot[w])
    BY <1>2 DEF Locks, Depth, DepthAt
  <2> QED BY <1>4, <2>1, LocksPreserve
<1>8. ASSUME NEW s \in Thread, s # t, call[s].pot = w
      PROVE  /\ step = "force" /\ call[s].step \in {"force", "forcing"}
             /\ call[s].lib = pot[w] /\ ~IsSafe(pot[w])
  BY <1>1, <1>8 DEF Held, Unused, IInv, CallInv, WrapperStep
<1>9. CallInv'
  BY <1>3, <1>5, <1>6, <1>8 DEF IInv, CallInv, ScanStep, WrapperStep
<1>10. output' \in [Thread -> Thread \cup {Nobody}] /\ ScratchInv'
  <2>1. output' = output \/ output' = [output EXCEPT ![t] = Nobody]
    BY <1>2
  <2>2. /\ output \in [Thread -> Thread \cup {Nobody}] /\ OwnResult
        /\ \A s \in Thread : call[s].step = "forcing" => scratch[call[s].pot] = s
    BY DEF IInv, ScratchInv, Types
  <2>3. output' \in [Thread -> Thread \cup {Nobody}]
    BY <2>1, <2>2
  <2>4. OwnResult'
    BY <2>1, <2>2 DEF OwnResult
  <2>5. ASSUME NEW s \in Thread, call'[s].step = "forcing"
        PROVE  scratch'[call'[s].pot] = s
    <3>1. s # t
      BY <1>1, <1>5, <2>5
    <3>2. call'[s] = call[s] /\ scratch' = scratch
      BY <1>5, <1>6, <3>1
    <3> QED BY <2>2, <2>5, <3>2
  <2> QED BY <2>3, <2>4, <2>5 DEF ScratchInv
<1>11. RawInv'
  <2>1. raw[w] = 1
    <3>1. CASE Unused(w)
      BY <1>3, <3>1 DEF IInv, RawInv
    <3>2. CASE ~Unused(w)
      <4>1. PICK s \in Thread : call[s].pot = w
        BY <3>2 DEF Unused
      <4>2. s # t
        BY <1>2, <1>3, <4>1 DEF IInv, CallInv, ScanStep
      <4>3. call[s].step \in {"force", "forcing"}
        BY <1>8, <4>1, <4>2
      <4> QED BY <4>1, <4>3 DEF IInv, RawInv, WrapperStep, Before
    <3> QED BY <3>1, <3>2
  <2>2. call[t].pot = NoPot
    BY <1>2 DEF IInv, CallInv, ScanStep
  <2>3. \A x \in Pot : Unused(x)' => Unused(x)
    BY <1>5, <2>2, FileNumbers DEF Unused
  <2>4. \A s \in Thread : call'[s].step \in WrapperStep =>
          raw'[call'[s].pot] = IF call'[s].step \in Before THEN 0 ELSE 1
    BY <1>5, <1>6, <2>1 DEF IInv, RawInv, Before
  <2> QED BY <1>6, <2>3, <2>4 DEF IInv, RawInv
<1>12. KeepInv' /\ RefInv'
  BY <1>2, <1>4, RegistryKept DEF wrappers
<1>13. Types'
  BY <1>5, <1>6, <1>10 DEF IInv, Types
<1> QED BY <1>7, <1>9, <1>10, <1>11, <1>12, <1>13 DEF IInv

\* A create begins: the wrapper shares the plugin's library.
LEMMA CreateBegins ==
  ASSUME IInv, NEW t \in Thread, BeginCreate(t)
  PROVE  IInv'
<1>1. PICK w \in Pot, l \in ToSet(plugins) :
        /\ pot[w] = None
        /\ Begins(t, "create", l, w, << >>)
        /\ pot' = [pot EXCEPT ![w] = l]
        /\ keeps' = IF l = Builtin THEN keeps ELSE keeps \cup {w}
  BY DEF BeginCreate
<1>2. /\ registry /\ call[t].step = "host" /\ l \in Files /\ l # None
      /\ UNCHANGED <<refs, registry, plugins, raw, scratch, mutex, output>>
  BY <1>1, FileNumbers DEF BeginCreate, Begins, At, libraries, IInv, Types, ToSet, Files
<1>3. Moved(t, "create", l, w)
  <2>1. << >> \in Seq(SUBSET Library)
    OBVIOUS
  <2> QED BY <1>1, <1>2, <2>1, BeginsMoves DEF IInv, WrapperStep
<1>4. /\ call'[t].step = "create" /\ call'[t].lib = l /\ call'[t].pot = w
      /\ call' \in [Thread -> Call]
      /\ \A s \in Thread : s # t => call'[s] = call[s]
  BY <1>3 DEF Moved
<1>5. \A x \in Pot : pot'[x] = IF x = w THEN l ELSE pot[x]
  BY <1>1 DEF IInv, Types
<1>6. MutexInv'
  <2>1. Locks(t, "create", l)
    BY <1>2 DEF Locks, Depth, DepthAt
  <2> QED BY <1>3, <2>1, LocksPreserve
<1>7. \A s \in Thread : call[s].pot # w
  BY <1>1, FileNumbers, ZenonT(60) DEF IInv, CallInv, Types, Call
<1>8. CallInv'
  BY <1>2, <1>4, <1>5, <1>7 DEF IInv, CallInv, ScanStep, WrapperStep
<1>9. ScratchInv'
  BY <1>2, <1>4 DEF IInv, ScratchInv, OwnResult
<1>10. RawInv'
  <2>1. raw[w] = 0 /\ call[t].pot = NoPot
    BY <1>1, <1>2 DEF IInv, RawInv, CallInv, ScanStep
  <2>2. \A x \in Pot : Unused(x)' => Unused(x) /\ x # w
    BY <1>4, <2>1, FileNumbers DEF Unused
  <2>3. \A s \in Thread : call'[s].step \in WrapperStep =>
          raw'[call'[s].pot] = IF call'[s].step \in Before THEN 0 ELSE 1
    BY <1>2, <1>4, <2>1 DEF IInv, RawInv, Before
  <2> QED BY <1>2, <1>5, <2>1, <2>2, <2>3 DEF IInv, RawInv
<1>11. KeepInv'
  <2>1. \A x \in Pot : x \in keeps' <=> pot'[x] \in Library
    BY <1>1, <1>2, <1>5, FileNumbers DEF IInv, KeepInv, Files
  <2>2. \A x \in Pot : registry' /\ pot'[x] # None => pot'[x] \in ToSet(plugins')
    BY <1>1, <1>2, <1>5 DEF IInv, KeepInv
  <2> QED BY <1>2, <2>1, <2>2 DEF IInv, KeepInv, OnePluginPerName, PluginName
<1>12. RefInv'
  <2>1. ASSUME NEW g \in Library
        PROVE  Opening(g)' = Opening(g) /\ (Shared(g)' <=> Shared(g))
    <3>1. Opening(g)' = Opening(g)
      BY <1>2, <1>4 DEF Opening
    <3>2. g # l => Keepers(g)' = Keepers(g)
      BY <1>1, <1>5, FileNumbers DEF Keepers, IInv, KeepInv, Types
    <3> QED BY <1>1, <1>2, <3>1, <3>2 DEF Shared
  <2> QED BY <1>2, <2>1 DEF IInv, RefInv
<1>13. Types'
  <2>1. pot' \in [Pot -> Files \cup {None}] /\ keeps' \subseteq Pot
    BY <1>1, <1>2 DEF IInv, Types
  <2> QED BY <1>2, <1>4, <2>1 DEF IInv, Types
<1> QED BY <1>6, <1>8, <1>9, <1>10, <1>11, <1>12, <1>13 DEF IInv

-----------------------------------------------------------------------------
(* The invariant.                                                          *)

\* It holds in a program that has just found its plugin registry.
LEMMA InitHolds == Init => IInv
<1>1. SUFFICES ASSUME Init PROVE IInv
  OBVIOUS
<1>2. /\ refs = [f \in Library |-> 0] /\ registry = TRUE /\ plugins = <<Builtin>>
      /\ pot = [w \in Pot |-> None] /\ keeps = {} /\ raw = [w \in Pot |-> 0]
      /\ scratch = [w \in Pot |-> Nobody] /\ mutex = Free
      /\ call = [t \in Thread |-> Ready] /\ output = [t \in Thread |-> Nobody]
  BY <1>1 DEF Init
<1>3. Types
  <2>1. Ready \in Call
    BY DEF Ready, Call, ScanStep
  <2>2. plugins \in Seq(Files)
    BY <1>2 DEF Files
  <2> QED BY <1>2, <2>1, <2>2 DEF Types, Free
<1>4. MutexInv /\ CallInv /\ ScratchInv
  BY <1>2, FileNumbers
     DEF MutexInv, CallInv, ScratchInv, OwnResult, Depth, DepthAt, Ready, Free, WrapperStep
<1>5. RawInv
  BY <1>2 DEF RawInv, Ready, WrapperStep
<1>6. KeepInv
  <2>1. \A i \in DOMAIN plugins : i = 1
    BY <1>2
  <2> QED BY <1>2, <2>1, FileNumbers DEF KeepInv, OnePluginPerName
<1>7. RefInv
  <2>1. ASSUME NEW f \in Library PROVE refs[f] = 0 /\ Opening(f) = {} /\ ~Shared(f)
    <3>1. ToSet(plugins) = {Builtin}
      BY <1>2 DEF ToSet
    <3> QED BY <1>2, <3>1, FileNumbers DEF Opening, Shared, Keepers, Ready
  <2> QED BY <2>1, FS_EmptySet DEF RefInv
<1> QED BY <1>3, <1>4, <1>5, <1>6, <1>7 DEF IInv

\* Every step of every thread, and the end of the program, keeps it.
LEMMA StepPreserves == IInv /\ [Next]_vars => IInv'
<1>1. SUFFICES ASSUME IInv, [Next]_vars PROVE IInv'
  OBVIOUS
<1>2. ASSUME NEW t \in Thread, Begin(t) PROVE IInv'
  BY <1>1, <1>2, ScanBegins, CreateBegins, CallBegins DEF Begin
<1>3. ASSUME NEW t \in Thread, Proceed(t) PROVE IInv'
  BY <1>1, <1>3, OpenPreserves, ScanProceeds, RegisterPreserves, ClosePreserves,
     ProceedsWithin, LeavesWrapper, DropPreserves DEF Proceed
<1>4. CASE DestroyRegistry
  BY <1>1, <1>4, DestroyRegistryPreserves
<1>5. CASE UNCHANGED vars
  <2>1. UNCHANGED <<refs, registry, plugins, pot, keeps, raw, scratch, mutex, call, output>>
    BY <1>5 DEF vars, libraries, wrappers
  <2>2. Types'
    BY <1>1, <2>1 DEF IInv, Types
  <2>3. MutexInv'
    BY <1>1, <2>1 DEF IInv, MutexInv, Depth
  <2>4. CallInv' /\ ScratchInv'
    BY <1>1, <2>1 DEF IInv, CallInv, ScratchInv, OwnResult
  <2>5. RawInv'
    BY <1>1, <2>1 DEF IInv, RawInv, Unused
  <2>6. KeepInv'
    BY <1>1, <2>1 DEF IInv, KeepInv, OnePluginPerName, PluginName
  <2>7. RefInv'
    BY <1>1, <2>1 DEF IInv, RefInv, Opening, Shared, Keepers
  <2> QED BY <2>2, <2>3, <2>4, <2>5, <2>6, <2>7 DEF IInv
<1> QED BY <1>1, <1>2, <1>3, <1>4, <1>5 DEF Next, Ended

\* The invariant holds in every behaviour.
LEMMA Inductive == Spec => []IInv
BY InitHolds, StepPreserves, PTL DEF Spec

\* No two threads are at once inside plugins that are not instance-safe
\* (SerialCodeAlone): in each of those steps a thread owns the serial mutex.
THEOREM SerialCodeAloneHolds == Spec => []SerialCodeAlone
<1>1. IInv => SerialCodeAlone
  <2>1. SUFFICES ASSUME IInv, NEW s \in Thread, NEW t \in Thread, s # t, InCode(s), InCode(t),
                        ~IsSafe(call[s].lib), ~IsSafe(call[t].lib)
                 PROVE  FALSE
    BY DEF SerialCodeAlone
  <2>2. Depth(s) > 0 /\ Depth(t) > 0
    BY <2>1 DEF InCode, Depth, DepthAt
  <2> QED BY <2>1, <2>2 DEF IInv, MutexInv
<1> QED BY <1>1, Inductive, PTL

\* A force call hands back what was computed from its own positions (OwnResult).
THEOREM OwnResultHolds == Spec => []OwnResult
<1>1. IInv => OwnResult
  BY DEF IInv, ScratchInv
<1> QED BY <1>1, Inductive, PTL

\* Two registered plugins never have one name, whoever loads at the same time
\* (OnePluginPerName).
THEOREM OnePluginPerNameHolds == Spec => []OnePluginPerName
<1>1. IInv => OnePluginPerName
  BY DEF IInv, KeepInv
<1> QED BY <1>1, Inductive, PTL

\* Every dlopen has one owner or one load that is still deciding, and no instance is
\* lost (NothingLost).
THEOREM NothingLostHolds == Spec => []NothingLost
<1>1. IInv => NothingLost
  <2>1. SUFFICES ASSUME IInv PROVE NothingLost
    OBVIOUS
  <2>2. ASSUME NEW w \in Pot PROVE raw[w] \in {0, 1} /\ (raw[w] = 1 => pot[w] # None)
    <3>1. CASE pot[w] = None \/ Unused(w)
      BY <2>1, <3>1 DEF IInv, RawInv
    <3>2. CASE pot[w] # None /\ ~Unused(w)
      <4>1. PICK t \in Thread : call[t].pot = w
        BY <3>2 DEF Unused
      <4>2. call[t].step \in WrapperStep
        BY <2>1, <4>1, FileNumbers DEF IInv, Types, CallInv, Call
      <4> QED BY <2>1, <3>2, <4>1, <4>2 DEF IInv, RawInv
    <3> QED BY <3>1, <3>2
  <2> QED BY <2>1, <2>2 DEF NothingLost, IInv, RefInv
<1> QED BY <1>1, Inductive, PTL

\* The code of a wrapper stays mapped until the wrapper is gone, also after the
\* registry went (CodeStaysMapped).
THEOREM CodeStaysMappedHolds == Spec => []CodeStaysMapped
<1>1. IInv => CodeStaysMapped
  <2>1. SUFFICES ASSUME IInv, NEW w \in Pot, pot[w] # None, pot[w] # Builtin
                 PROVE  refs[pot[w]] > 0
    BY DEF CodeStaysMapped, Mapped
  <2>2. pot[w] \in Library /\ w \in keeps
    BY <2>1 DEF IInv, Types, Files, KeepInv
  <2>3. Shared(pot[w])
    BY <2>2 DEF Shared, Keepers
  <2>4. Cardinality(Opening(pot[w])) \in Nat
    <3>1. IsFiniteSet(Opening(pot[w]))
      BY PluginAssumption, FS_Subset DEF Opening
    <3> QED BY <3>1, FS_CardinalityType
  <2> QED BY <2>1, <2>2, <2>3, <2>4 DEF IInv, RefInv
<1> QED BY <1>1, Inductive, PTL

\* A thread that does not get the serial mutex waits for another thread that can go on
\* (HolderProceeds): the owner's step holds the mutex, and no such step waits.
THEOREM HolderProceedsHolds == Spec => []HolderProceeds
<1>1. IInv => HolderProceeds
  <2>1. SUFFICES ASSUME IInv, NEW t \in Thread, ~At(t, "host"), ~CanProceed(t)
                 PROVE  mutex.owner \in Thread \ {t} /\ CanProceed(mutex.owner)
    BY DEF HolderProceeds
  <2>2. mutex.owner \notin {Nobody, t}
    BY <2>1 DEF CanProceed, At, CanLock
  <2>3. mutex.owner \in Thread \ {t}
    BY <2>1, <2>2 DEF IInv, Types
  <2>4. PICK s \in Thread : s = mutex.owner
    BY <2>3
  <2>5. Depth(s) > 0
    BY <2>1, <2>2, <2>4 DEF IInv, MutexInv
  <2>6. call[s].step \in {"discarding", "creating", "giveback", "failed", "created",
                         "destroying", "forcing"}
    BY <2>5 DEF Depth, DepthAt
  <2>7. CanProceed(s)
    BY <2>4, <2>6 DEF CanProceed, CanLock
  <2> QED BY <2>3, <2>4, <2>7
<1> QED BY <1>1, Inductive, PTL

=============================================================================
