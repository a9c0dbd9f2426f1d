------------------------- MODULE UnitExpressionsProofs -------------------------
(***************************************************************************)
(* Proof that the parser of unit strings (CppCore/rgpot/units.cc) reads    *)
(* every string that has a meaning as what it means.                       *)
(*                                                                         *)
(* The folds and the recursive reference are CHOOSEn functions, so that    *)
(* each is first shown to exist, one number at a time.  Then the shortest  *)
(* part of a string that the yard misreads is shown not to be there: its   *)
(* own parts are shorter, and the operator between them binds as they do.  *)
(***************************************************************************)
EXTENDS UnitExpressions, SequenceTheorems, FiniteSetTheorems, WellFoundedInduction, TLAPS

LEMMA LeastNat ==
  ASSUME NEW T \in SUBSET Nat, T # {}
  PROVE  \E x \in T : \A y \in T : x <= y
<1> DEFINE R == {p \in Nat \X Nat : p[1] < p[2]}
<1>1. R = OpToRel(<, Nat)
  BY DEF OpToRel
<1>2. IsWellFoundedOn(R, Nat)
  BY <1>1, NatLessThanWellFounded, Zenon
<1>3. PICK x \in T : \A y \in T : ~ (<<y, x>> \in R)
  BY <1>2, WFMin
<1>4. \A y \in T : ~(y < x)
  BY <1>3
<1> QED BY <1>4

\* The greatest of the first numbers, without which fewer are left.
LEMMA MaxUpTo ==
  ASSUME NEW k \in Nat, NEW s \in SUBSET (1 .. k), s # {}
  PROVE  /\ Max(s) \in s /\ \A y \in s : Max(s) >= y
         /\ k \in Nat \ {0} /\ s \ {Max(s)} \in SUBSET (1 .. k - 1)
<1> DEFINE below == {u \in Nat : k - u \in s}
<1>1. \A x \in s : x \in 1 .. k
  OBVIOUS
<1>2. \A x \in s : k - x \in below
  <2> SUFFICES ASSUME NEW x \in s PROVE k - x \in below
    OBVIOUS
  <2>1. x \in Nat /\ x <= k
    BY <1>1
  <2>2. k - x \in Nat /\ k - (k - x) = x
    BY <2>1
  <2> QED BY <2>2
<1>3. PICK u \in below : \A v \in below : u <= v
  BY <1>2, LeastNat
<1>4. \E x \in s : \A y \in s : x >= y
  <2>1. k - u \in s
    BY <1>3
  <2>2. \A y \in s : u <= k - y
    BY <1>2, <1>3
  <2>3. \A y \in s : k - u >= y
    <3> SUFFICES ASSUME NEW y \in s PROVE k - u >= y
      OBVIOUS
    <3>1. y \in Nat /\ u \in Nat /\ u <= k - y
      BY <1>1, <2>2
    <3> QED BY <3>1
  <2> QED BY <2>1, <2>3
<1>5. Max(s) \in s /\ \A y \in s : Max(s) >= y
  BY <1>4, Zenon DEF Max
<1>6. PICK x \in s : x = Max(s) /\ \A y \in s : x >= y
  BY <1>5
<1>7. \A y \in s \ {x} : y \in 1 .. k - 1
  <2> SUFFICES ASSUME NEW y \in s, y # x PROVE y \in 1 .. k - 1
    OBVIOUS
  <2>1. y \in 1 .. k /\ x \in 1 .. k /\ x >= y
    BY <1>1, <1>6
  <2> QED BY <2>1
<1>8. k # 0
  BY <1>1, <1>6
<1> QED BY <1>6, <1>7, <1>8

LEMMA MaxFirst ==
  ASSUME NEW k \in Nat
  PROVE  Max(1 .. k + 1) = k + 1 /\ (1 .. k + 1) \ {k + 1} = 1 .. k
BY DEF Max

\* The three folds of a conversion, as one.
Next3(op, x, t) ==
  IF op = "yard" THEN Step(x, t) ELSE IF op = "value" THEN Reduce(x, t) ELSE Scan(x, t)

FoldOf(op, base, seq) ==
  (CHOOSE g : g = [s \in SUBSET (DOMAIN seq) |->
                     IF s = {} THEN base ELSE Next3(op, g[s \ {Max(s)}], seq[Max(s)])])[DOMAIN seq]

LEMMA FoldsAre ==
  ASSUME NEW base, NEW seq
  PROVE  /\ FoldLeft(Step, base, seq) = FoldOf("yard", base, seq)
         /\ FoldLeft(Reduce, base, seq) = FoldOf("value", base, seq)
         /\ FoldLeft(Scan, base, seq) = FoldOf("scan", base, seq)
<1> DEFINE Run(op, g) == g = [s \in SUBSET (DOMAIN seq) |->
                     IF s = {} THEN base ELSE Next3(op, g[s \ {Max(s)}], seq[Max(s)])]
           RunStep(g) == g = [s \in SUBSET (DOMAIN seq) |->
                     IF s = {} THEN base ELSE Step(g[s \ {Max(s)}], seq[Max(s)])]
           RunReduce(g) == g = [s \in SUBSET (DOMAIN seq) |->
                     IF s = {} THEN base ELSE Reduce(g[s \ {Max(s)}], seq[Max(s)])]
           RunScan(g) == g = [s \in SUBSET (DOMAIN seq) |->
                     IF s = {} THEN base ELSE Scan(g[s \ {Max(s)}], seq[Max(s)])]
<1>1. FoldLeft(Step, base, seq) = FoldOf("yard", base, seq)
  <2>1. FoldLeft(Step, base, seq) = (CHOOSE g : RunStep(g))[DOMAIN seq]
    BY DEF FoldLeft, MapThenFoldSet
  <2>2. FoldOf("yard", base, seq) = (CHOOSE g : Run("yard", g))[DOMAIN seq]
    BY DEF FoldOf
  <2>3. \A g : Run("yard", g) <=> RunStep(g)
    <3>1. \A x, t : Next3("yard", x, t) = Step(x, t)
      BY DEF Next3
    <3> QED BY <3>1
  <2> HIDE DEF Run, RunStep
  <2> QED BY <2>1, <2>2, <2>3
<1>2. FoldLeft(Reduce, base, seq) = FoldOf("value", base, seq)
  <2>1. FoldLeft(Reduce, base, seq) = (CHOOSE g : RunReduce(g))[DOMAIN seq]
    BY DEF FoldLeft, MapThenFoldSet
  <2>2. FoldOf("value", base, seq) = (CHOOSE g : Run("value", g))[DOMAIN seq]
    BY DEF FoldOf
  <2>3. \A g : Run("value", g) <=> RunReduce(g)
    <3>1. \A x, t : Next3("value", x, t) = Reduce(x, t)
      BY DEF Next3
    <3> QED BY <3>1
  <2> HIDE DEF Run, RunReduce
  <2> QED BY <2>1, <2>2, <2>3
<1>3. FoldLeft(Scan, base, seq) = FoldOf("scan", base, seq)
  <2>1. FoldLeft(Scan, base, seq) = (CHOOSE g : RunScan(g))[DOMAIN seq]
    BY DEF FoldLeft, MapThenFoldSet
  <2>2. FoldOf("scan", base, seq) = (CHOOSE g : Run("scan", g))[DOMAIN seq]
    BY DEF FoldOf
  <2>3. \A g : Run("scan", g) <=> RunScan(g)
    <3>1. \A x, t : Next3("scan", x, t) = Scan(x, t)
      BY DEF Next3
    <3> QED BY <3>1
  <2> HIDE DEF Run, RunScan
  <2> QED BY <2>1, <2>2, <2>3
<1> QED BY <1>1, <1>2, <1>3

\* What a fold goes through: its value after each number of the terms.
Runs(op, base, seq) ==
  \E F : /\ F[0] = base
         /\ \A k \in 0 .. Len(seq) - 1 : F[k + 1] = Next3(op, F[k], seq[k + 1])
         /\ FoldOf(op, base, seq) = F[Len(seq)]

LEMMA FoldRuns ==
  ASSUME NEW op, NEW base, NEW S, NEW seq \in Seq(S)
  PROVE  Runs(op, base, seq)
<1> DEFINE n == Len(seq)
           Body(g, s) == IF s = {} THEN base ELSE Next3(op, g[s \ {Max(s)}], seq[Max(s)])
           UpTo(k, g) == g = [s \in SUBSET (1 .. k) |-> Body(g, s)]
           it == CHOOSE g : UpTo(n, g)
<1>1. n \in Nat /\ DOMAIN seq = 1 .. n
  OBVIOUS
<1>2. FoldOf(op, base, seq) = it[1 .. n]
  BY <1>1 DEF FoldOf
<1>3. \A k \in Nat : \E g : UpTo(k, g)
  <2> DEFINE bad == {k \in Nat : ~ \E g : UpTo(k, g)}
  <2> SUFFICES ASSUME bad # {} PROVE FALSE
    OBVIOUS
  <2>1. PICK m \in bad : \A j \in bad : m <= j
    BY LeastNat
  <2>2. CASE m = 0
    <3> DEFINE g == [s \in SUBSET (1 .. 0) |-> base]
    <3>1. \A s \in SUBSET (1 .. 0) : s = {}
      OBVIOUS
    <3>2. UpTo(0, g)
      BY <3>1
    <3> QED BY <2>1, <2>2, <3>2
  <2>3. CASE m # 0
    <3>1. m \in Nat /\ m - 1 \in Nat /\ m - 1 \notin bad
      <4> HIDE DEF UpTo
      <4> QED BY <2>1, <2>3
    <3>2. PICK g : UpTo(m - 1, g)
      BY <3>1
    <3> DEFINE h == [s \in SUBSET (1 .. m) |-> Body(g, s)]
    <3>3. ASSUME NEW s \in SUBSET (1 .. m)
          PROVE  Body(h, s) = Body(g, s)
      <4>1. CASE s = {}
        BY <4>1
      <4>2. CASE s # {}
        <5> DEFINE t == s \ {Max(s)}
        <5>1. t \in SUBSET (1 .. m - 1) /\ t \in SUBSET (1 .. m)
          <6>1. t \in SUBSET (1 .. m - 1)
            BY <3>1, <4>2, MaxUpTo
          <6>2. 1 .. m - 1 \subseteq 1 .. m
            BY <3>1
          <6> QED BY <6>1, <6>2
        <5>2. h[t] = Body(g, t)
          <6> HIDE DEF t, Body
          <6> QED BY <5>1
        <5>3. g[t] = Body(g, t)
          <6> HIDE DEF t, Body
          <6> QED BY <3>2, <5>1
        <5> QED BY <5>2, <5>3
      <4> QED BY <4>1, <4>2
    <3>4. UpTo(m, h)
      <4> HIDE DEF Body
      <4> QED BY <3>3
    <3> QED BY <2>1, <3>4
  <2> QED BY <2>2, <2>3
<1>4. UpTo(n, it)
  <2> HIDE DEF UpTo
  <2> QED BY <1>1, <1>3
<1> DEFINE F == [k \in 0 .. n |-> it[1 .. k]]
<1>5. \A s \in SUBSET (1 .. n) : it[s] = Body(it, s)
  <2> HIDE DEF Body, it
  <2> QED BY <1>4
<1>6. F[0] = base
  <2>1. 1 .. 0 = {} /\ 0 \in 0 .. n
    BY <1>1
  <2> HIDE DEF it
  <2> QED BY <1>5, <2>1
<1>7. ASSUME NEW k \in 0 .. n - 1
      PROVE  F[k + 1] = Next3(op, F[k], seq[k + 1])
  <2>1. k \in Nat /\ k \in 0 .. n /\ k + 1 \in 0 .. n
        /\ 1 .. k + 1 \in SUBSET (1 .. n) /\ 1 .. k + 1 # {}
    <3>1. k \in Nat /\ k + 1 \in 0 .. n /\ k \in 0 .. n /\ k + 1 \in 1 .. k + 1
      BY <1>1
    <3>2. \A j \in 1 .. k + 1 : j \in 1 .. n
      BY <1>1
    <3> QED BY <3>1, <3>2
  <2>2. it[1 .. k + 1] = Next3(op, it[(1 .. k + 1) \ {Max(1 .. k + 1)}], seq[Max(1 .. k + 1)])
    <3> HIDE DEF it
    <3> QED BY <1>5, <2>1
  <2> HIDE DEF it
  <2> QED BY <2>1, <2>2, MaxFirst
<1>8. F[n] = it[1 .. n]
  <2> HIDE DEF it
  <2> QED BY <1>1
<1> QED
  <2> HIDE DEF F, it
  <2> QED BY <1>2, <1>6, <1>7, <1>8 DEF Runs

Yard0 == [out |-> << >>, ops |-> << >>, ok |-> TRUE]

\* The yard's steps, the values' and the scanner's.
LEMMA YardRuns ==
  ASSUME NEW S, NEW seq \in Seq(S)
  PROVE  \E F : /\ F[0] = Yard0
                /\ \A k \in 0 .. Len(seq) - 1 : F[k + 1] = Step(F[k], seq[k + 1])
                /\ FoldLeft(Step, Yard0, seq) = F[Len(seq)]
<1>1. PICK F : /\ F[0] = Yard0
               /\ \A k \in 0 .. Len(seq) - 1 : F[k + 1] = Next3("yard", F[k], seq[k + 1])
               /\ FoldOf("yard", Yard0, seq) = F[Len(seq)]
  <2> DEFINE base == Yard0
  <2> HIDE DEF base
  <2>1. Runs("yard", base, seq)
    BY FoldRuns, Zenon
  <2> QED BY <2>1 DEF Runs, base
<1>2. \A x, t : Next3("yard", x, t) = Step(x, t)
  BY DEF Next3
<1> QED BY <1>1, <1>2, FoldsAre

LEMMA ValuesRun ==
  ASSUME NEW S, NEW seq \in Seq(S)
  PROVE  \E F : /\ F[0] = << >>
                /\ \A k \in 0 .. Len(seq) - 1 : F[k + 1] = Reduce(F[k], seq[k + 1])
                /\ FoldLeft(Reduce, << >>, seq) = F[Len(seq)]
<1>1. PICK F : /\ F[0] = << >>
               /\ \A k \in 0 .. Len(seq) - 1 : F[k + 1] = Next3("value", F[k], seq[k + 1])
               /\ FoldOf("value", << >>, seq) = F[Len(seq)]
  <2> DEFINE base == << >>
  <2> HIDE DEF base
  <2>1. Runs("value", base, seq)
    BY FoldRuns, Zenon
  <2> QED BY <2>1 DEF Runs, base
<1>2. \A x, t : Next3("value", x, t) = Reduce(x, t)
  BY DEF Next3
<1> QED BY <1>1, <1>2, FoldsAre

LEMMA ScanRuns ==
  ASSUME NEW S, NEW seq \in Seq(S)
  PROVE  \E F : /\ F[0] = << >>
                /\ \A k \in 0 .. Len(seq) - 1 : F[k + 1] = Scan(F[k], seq[k + 1])
                /\ FoldLeft(Scan, << >>, seq) = F[Len(seq)]
<1>1. PICK F : /\ F[0] = << >>
               /\ \A k \in 0 .. Len(seq) - 1 : F[k + 1] = Next3("scan", F[k], seq[k + 1])
               /\ FoldOf("scan", << >>, seq) = F[Len(seq)]
  <2> DEFINE base == << >>
  <2> HIDE DEF base
  <2>1. Runs("scan", base, seq)
    BY FoldRuns, Zenon
  <2> QED BY <2>1 DEF Runs, base
<1>2. \A x, t : Next3("scan", x, t) = Scan(x, t)
  BY DEF Next3
<1> QED BY <1>1, <1>2, FoldsAre

Values(out) == FoldLeft(Reduce, << >>, out)

LEMMA ValuesOfNone == Values(<< >>) = << >>
<1>1. << >> \in Seq(Token) /\ Len(<< >>) = 0
  OBVIOUS
<1> QED BY <1>1, ValuesRun DEF Values

LEMMA ValuesAppend ==
  ASSUME NEW out \in Seq(Token), NEW t \in Token
  PROVE  Values(Append(out, t)) = Reduce(Values(out), t)
<1> DEFINE n == Len(out)  longer == Append(out, t)
<1>1. /\ n \in Nat /\ longer \in Seq(Token) /\ Len(longer) = n + 1
      /\ \A k \in 1 .. n : longer[k] = out[k]
      /\ longer[n + 1] = t
  OBVIOUS
<1>2. PICK F : /\ F[0] = << >>
               /\ \A k \in 0 .. n - 1 : F[k + 1] = Reduce(F[k], out[k + 1])
               /\ Values(out) = F[n]
  BY ValuesRun DEF Values
<1>3. PICK G : /\ G[0] = << >>
               /\ \A k \in 0 .. n : G[k + 1] = Reduce(G[k], longer[k + 1])
               /\ Values(longer) = G[n + 1]
  <2> HIDE DEF longer
  <2>1. PICK G : /\ G[0] = << >>
                 /\ \A k \in 0 .. Len(longer) - 1 : G[k + 1] = Reduce(G[k], longer[k + 1])
                 /\ Values(longer) = G[Len(longer)]
    BY <1>1, ValuesRun DEF Values
  <2>2. Len(longer) - 1 = n
    BY <1>1
  <2> QED BY <1>1, <2>1, <2>2
<1>4. \A k \in 0 .. n : G[k] = F[k]
  <2> DEFINE bad == {k \in 0 .. n : G[k] # F[k]}
  <2> SUFFICES ASSUME bad # {} PROVE FALSE
    OBVIOUS
  <2>1. PICK m \in bad : \A j \in bad : m <= j
    <3>1. bad \in SUBSET Nat
      BY <1>1
    <3> HIDE DEF bad
    <3> QED BY <3>1, LeastNat
  <2>2. m # 0 /\ m \in 0 .. n
    BY <1>2, <1>3, <2>1
  <2>3. m - 1 \in 0 .. n /\ m - 1 \in 0 .. n - 1 /\ m - 1 \notin bad /\ m - 1 + 1 = m /\ m \in 1 .. n
    BY <1>1, <2>1, <2>2
  <2>4. G[m - 1] = F[m - 1]
    BY <2>3
  <2>5. G[m] = Reduce(G[m - 1], longer[m])
    BY <1>3, <2>3
  <2>6. F[m] = Reduce(F[m - 1], out[m])
    BY <1>2, <2>3
  <2>7. longer[m] = out[m]
    BY <1>1, <2>3
  <2> QED BY <2>1, <2>4, <2>5, <2>6, <2>7
<1>5. n \in 0 .. n
  BY <1>1
<1>6. Values(longer) = Reduce(Values(out), t)
  <2> HIDE DEF longer
  <2>1. G[n + 1] = Reduce(G[n], longer[n + 1])
    BY <1>3, <1>5
  <2> QED BY <1>1, <1>2, <1>3, <1>4, <1>5, <2>1
<1> QED BY <1>6

-----------------------------------------------------------------------------
(* The reference reads a string by shorter ones.                           *)

Cut(s) == LET prod == LastOutside(s, {"*", "/"})
          IN  IF prod # 0 THEN prod ELSE LastOutside(s, {"^"})

Enclosed(s) ==
  /\ Len(s) > 2 /\ s[1] = "(" /\ s[Len(s)] = ")" /\ DepthAt(s, Len(s)) = 0
  /\ \A i \in 1 .. Len(s) - 1 : DepthAt(s, i) > 0

Before(s) == SubSeq(s, 1, Cut(s) - 1)
Behind(s) == SubSeq(s, Cut(s) + 1, Len(s))
Inside(s) == SubSeq(s, 2, Len(s) - 1)

Reading(g, s) ==
  IF Len(s) = 1 /\ IsWord(s[1]) THEN WordValue(s[1])
  ELSE IF Cut(s) # 0 THEN Apply(s[Cut(s)], g[Before(s)], g[Behind(s)])
  ELSE IF Enclosed(s) THEN g[Inside(s)]
  ELSE Error

LEMMA MeaningDef == Meaning = CHOOSE g : g = [s \in Seq(Token) |-> Reading(g, s)]
BY DEF Meaning, Reading, Cut, Enclosed, Before, Behind, Inside

LEMMA LastOutsideIs ==
  ASSUME NEW s \in Seq(Token), NEW ops
  PROVE  LET c == LastOutside(s, ops)
         IN  \/ c = 0 /\ \A i \in 1 .. Len(s) : s[i] \in ops => DepthAt(s, i) # 0
             \/ /\ c \in 1 .. Len(s) /\ s[c] \in ops /\ DepthAt(s, c) = 0
                /\ \A i \in 1 .. Len(s) : s[i] \in ops /\ DepthAt(s, i) = 0 => i <= c
<1> DEFINE at == {i \in 1 .. Len(s) : s[i] \in ops /\ DepthAt(s, i) = 0}
           c == LastOutside(s, ops)
<1>1. c = IF at = {} THEN 0 ELSE CHOOSE i \in at : \A j \in at : j <= i
  BY DEF LastOutside
<1>2. CASE at = {}
  BY <1>1, <1>2
<1>3. CASE at # {}
  <2>1. Max(at) \in at /\ \A j \in at : Max(at) >= j
    <3>1. Len(s) \in Nat /\ at \in SUBSET (1 .. Len(s))
      OBVIOUS
    <3> HIDE DEF at
    <3> QED BY <1>3, <3>1, MaxUpTo
  <2> QED BY <1>1, <1>3, <2>1
<1> QED BY <1>2, <1>3

LEMMA CutIs ==
  ASSUME NEW s \in Seq(Token)
  PROVE  /\ Len(s) \in Nat /\ Cut(s) \in 0 .. Len(s)
         /\ Cut(s) # 0 =>
              /\ Before(s) \in Seq(Token) /\ Len(Before(s)) = Cut(s) - 1
              /\ Behind(s) \in Seq(Token) /\ Len(Behind(s)) = Len(s) - Cut(s)
         /\ Enclosed(s) => Inside(s) \in Seq(Token) /\ Len(Inside(s)) = Len(s) - 2
<1>1. Len(s) \in Nat /\ Cut(s) \in 0 .. Len(s)
  <2>1. Len(s) \in Nat
    OBVIOUS
  <2> QED BY <2>1, LastOutsideIs DEF Cut
<1>2. ASSUME Cut(s) # 0
      PROVE  /\ Before(s) \in Seq(Token) /\ Len(Before(s)) = Cut(s) - 1
             /\ Behind(s) \in Seq(Token) /\ Len(Behind(s)) = Len(s) - Cut(s)
  BY <1>1, <1>2 DEF Before, Behind
<1>3. ASSUME Enclosed(s)
      PROVE  Inside(s) \in Seq(Token) /\ Len(Inside(s)) = Len(s) - 2
  <2>1. Len(s) > 2
    BY <1>3 DEF Enclosed
  <2> QED BY <1>1, <2>1 DEF Inside
<1> QED BY <1>1, <1>2, <1>3

LEMMA ReadingLocal ==
  ASSUME NEW s \in Seq(Token), NEW g, NEW h,
         \A t \in Seq(Token) : Len(t) < Len(s) => g[t] = h[t]
  PROVE  Reading(g, s) = Reading(h, s)
<1>1. CASE Len(s) = 1 /\ IsWord(s[1])
  BY <1>1 DEF Reading
<1>2. CASE ~(Len(s) = 1 /\ IsWord(s[1])) /\ Cut(s) # 0
  <2>1. Len(Before(s)) < Len(s) /\ Len(Behind(s)) < Len(s)
    BY <1>2, CutIs
  <2>2. g[Before(s)] = h[Before(s)] /\ g[Behind(s)] = h[Behind(s)]
    BY <1>2, <2>1, CutIs
  <2> QED BY <1>2, <2>2 DEF Reading
<1>3. CASE ~(Len(s) = 1 /\ IsWord(s[1])) /\ Cut(s) = 0
  <2>1. Enclosed(s) => g[Inside(s)] = h[Inside(s)]
    BY CutIs
  <2> QED BY <1>3, <2>1 DEF Reading
<1> QED BY <1>1, <1>2, <1>3

UpTo(k, g) == g = [s \in {t \in Seq(Token) : Len(t) <= k} |-> Reading(g, s)]

LEMMA UpToIs ==
  ASSUME NEW k, NEW g, UpTo(k, g), NEW s \in Seq(Token), Len(s) <= k
  PROVE  g[s] = Reading(g, s)
BY DEF UpTo

LEMMA UpToAgree ==
  ASSUME NEW j \in Nat, NEW k \in Nat, j <= k, NEW g, NEW h, UpTo(j, g), UpTo(k, h),
         NEW s \in Seq(Token), Len(s) <= j
  PROVE  g[s] = h[s]
<1> DEFINE bad == {n \in 0 .. j : \E t \in Seq(Token) : Len(t) = n /\ g[t] # h[t]}
<1>1. bad = {}
  <2> SUFFICES ASSUME bad # {} PROVE FALSE
    OBVIOUS
  <2>1. PICK m \in bad : \A n \in bad : m <= n
    <3>1. bad \in SUBSET Nat
      OBVIOUS
    <3> HIDE DEF bad
    <3> QED BY <3>1, LeastNat
  <2>2. m \in 0 .. j
    OBVIOUS
  <2>3. PICK t \in Seq(Token) : Len(t) = m /\ g[t] # h[t]
    OBVIOUS
  <2>4. \A u \in Seq(Token) : Len(u) < Len(t) => g[u] = h[u]
    <3> SUFFICES ASSUME NEW u \in Seq(Token), Len(u) < Len(t) PROVE g[u] = h[u]
      OBVIOUS
    <3>1. Len(u) \in 0 .. j /\ Len(u) \notin bad
      <4>1. Len(u) \in Nat /\ Len(u) < m
        BY <2>3
      <4> HIDE DEF bad
      <4> QED BY <2>1, <2>2, <4>1
    <3> QED BY <3>1
  <2>5. Reading(g, t) = Reading(h, t)
    BY <2>4, ReadingLocal
  <2>6. g[t] = Reading(g, t) /\ h[t] = Reading(h, t)
    <3>1. Len(t) <= j /\ Len(t) <= k
      BY <2>2, <2>3
    <3> QED BY <3>1, UpToIs
  <2> QED BY <2>3, <2>5, <2>6
<1>2. Len(s) \in 0 .. j
  OBVIOUS
<1> QED BY <1>1, <1>2

LEMMA UpToExists == \A k \in Nat : \E g : UpTo(k, g)
<1> DEFINE bad == {k \in Nat : ~ \E g : UpTo(k, g)}
<1> SUFFICES ASSUME bad # {} PROVE FALSE
  OBVIOUS
<1>1. PICK m \in bad : \A j \in bad : m <= j
  <2>1. bad \in SUBSET Nat
    OBVIOUS
  <2> HIDE DEF bad
  <2> QED BY <2>1, LeastNat
<1>2. \E g : \A t \in Seq(Token) : Len(t) < m => g[t] = Reading(g, t)
  <2>1. CASE m = 0
    <3>1. \A t \in Seq(Token) : ~(Len(t) < 0)
      OBVIOUS
    <3> QED BY <2>1, <3>1
  <2>2. CASE m # 0
    <3>1. m - 1 \in Nat /\ m - 1 \notin bad
      BY <1>1, <2>2
    <3>2. PICK g : UpTo(m - 1, g)
      BY <3>1
    <3>3. \A t \in Seq(Token) : Len(t) < m => g[t] = Reading(g, t)
      <4> SUFFICES ASSUME NEW t \in Seq(Token), Len(t) < m PROVE g[t] = Reading(g, t)
        OBVIOUS
      <4>1. Len(t) <= m - 1
        BY <3>1
      <4> QED BY <3>2, <4>1, UpToIs
    <3> QED BY <3>3
  <2> QED BY <2>1, <2>2
<1>3. PICK g : \A t \in Seq(Token) : Len(t) < m => g[t] = Reading(g, t)
  BY <1>2
<1> DEFINE h == [s \in {t \in Seq(Token) : Len(t) <= m} |-> Reading(g, s)]
<1>4. ASSUME NEW s \in Seq(Token), Len(s) <= m
      PROVE  Reading(g, s) = Reading(h, s)
  <2>1. \A t \in Seq(Token) : Len(t) < Len(s) => g[t] = h[t]
    <3> SUFFICES ASSUME NEW t \in Seq(Token), Len(t) < Len(s) PROVE g[t] = h[t]
      OBVIOUS
    <3>1. Len(t) < m /\ Len(t) <= m
      BY <1>4
    <3> QED BY <1>3, <3>1
  <2> HIDE DEF h
  <2> QED BY <2>1, ReadingLocal
<1>5. UpTo(m, h)
  BY <1>4 DEF UpTo
<1> QED BY <1>1, <1>5

LEMMA MeaningIs ==
  ASSUME NEW s \in Seq(Token)
  PROVE  Meaning[s] = Reading(Meaning, s)
<1> DEFINE G(k) == CHOOSE g : UpTo(k, g)
           M == [t \in Seq(Token) |-> G(Len(t))[t]]
<1>1. \A k \in Nat : UpTo(k, G(k))
  BY UpToExists
<1> HIDE DEF G
<1>2. ASSUME NEW t \in Seq(Token)
      PROVE  M[t] = Reading(M, t)
  <2>1. Len(t) \in Nat /\ UpTo(Len(t), G(Len(t)))
    BY <1>1
  <2>2. M[t] = Reading(G(Len(t)), t)
    BY <2>1, UpToIs
  <2>3. \A u \in Seq(Token) : Len(u) < Len(t) => G(Len(t))[u] = M[u]
    <3> SUFFICES ASSUME NEW u \in Seq(Token), Len(u) < Len(t)
                 PROVE  G(Len(t))[u] = G(Len(u))[u]
      OBVIOUS
    <3>1. Len(u) \in Nat /\ Len(u) <= Len(t) /\ UpTo(Len(u), G(Len(u))) /\ Len(u) <= Len(u)
      BY <1>1
    <3> QED BY <2>1, <3>1, UpToAgree
  <2> HIDE DEF M
  <2> QED BY <2>2, <2>3, ReadingLocal
<1>3. M = [t \in Seq(Token) |-> Reading(M, t)]
  BY <1>2
<1>4. Meaning = [t \in Seq(Token) |-> Reading(Meaning, t)]
  <2> HIDE DEF M
  <2> QED BY <1>3, MeaningDef
<1> QED
  <2> DEFINE N == Meaning
  <2>1. N = [t \in Seq(Token) |-> Reading(N, t)]
    BY <1>4
  <2> HIDE DEF N
  <2>2. N[s] = Reading(N, s)
    BY <2>1
  <2> QED BY <2>2 DEF N

-----------------------------------------------------------------------------
(* What the yard does with a string that has a meaning.                    *)

\* A state in which the next part of a string may begin.
Ready(y) ==
  /\ y = [out |-> y.out, ops |-> y.ops, ok |-> TRUE]
  /\ y.out \in Seq(Token) /\ y.ops \in Seq(Token)
  /\ \E S : Values(y.out) \in Seq(S)

Below(ops, p) == ops = << >> \/ Precedence(Last(ops)) < p

\* How tightly the loosest operator outside of parentheses binds.
Level(s) ==
  IF LastOutside(s, {"*", "/"}) # 0 THEN 10 ELSE IF LastOutside(s, {"^"}) # 0 THEN 20 ELSE 30

\* The yard has read s: what it still holds of it are operators, and if they left now
\* there would be one value more.
ReadWith(y, s, z, C) ==
  /\ C \in Seq(Operator) /\ \A i \in 1 .. Len(C) : Precedence(C[i]) >= Level(s)
  /\ z = [out |-> z.out, ops |-> y.ops \o C, ok |-> TRUE]
  /\ z.out \in Seq(Token)
  /\ Values(z.out \o Reverse(C)) = Append(Values(y.out), Meaning[s])

Read(y, s, z) == \E C : ReadWith(y, s, z, C)

LEMMA OperatorsAreTokens == Operator \subseteq Token /\ Seq(Operator) \subseteq Seq(Token)
<1>1. Operator \subseteq Token
  BY DEF Token
<1> QED BY <1>1, SeqMonotonic

LEMMA ReverseIs ==
  ASSUME NEW C \in Seq(Operator)
  PROVE  /\ Reverse(C) \in Seq(Operator) /\ Reverse(C) \in Seq(Token)
         /\ Len(Reverse(C)) = Len(C)
         /\ \A i \in 1 .. Len(C) : Reverse(C)[i] = C[Len(C) - i + 1]
<1> DEFINE n == Len(C)
<1>1. n \in Nat /\ \A i \in 1 .. n : n - i + 1 \in 1 .. n /\ C[n - i + 1] \in Operator
  OBVIOUS
<1>2. Reverse(C) \in Seq(Operator)
  BY <1>1 DEF Reverse
<1> QED BY <1>1, <1>2, OperatorsAreTokens DEF Reverse

LEMMA ReversePrepends ==
  ASSUME NEW C \in Seq(Operator), NEW t \in Operator, NEW out \in Seq(Token)
  PROVE  out \o Reverse(<<t>> \o C) = Append(out \o Reverse(C), t)
<1> DEFINE D == <<t>> \o C
<1>1. D \in Seq(Operator) /\ Len(D) = Len(C) + 1 /\ D[1] = t
      /\ \A i \in 1 .. Len(C) : D[i + 1] = C[i]
  OBVIOUS
<1>2. /\ Reverse(D) \in Seq(Token) /\ Len(Reverse(D)) = Len(C) + 1
      /\ \A i \in 1 .. Len(C) + 1 : Reverse(D)[i] = D[Len(C) + 1 - i + 1]
  <2> HIDE DEF D
  <2> QED BY <1>1, ReverseIs
<1>3. /\ Reverse(C) \in Seq(Token) /\ Len(Reverse(C)) = Len(C)
      /\ \A i \in 1 .. Len(C) : Reverse(C)[i] = C[Len(C) - i + 1]
  BY ReverseIs
<1>4. t \in Token /\ Len(C) \in Nat
  BY OperatorsAreTokens
<1>5. \A i \in 1 .. Len(C) + 1 : Reverse(D)[i] = Append(Reverse(C), t)[i]
  <2> SUFFICES ASSUME NEW i \in 1 .. Len(C) + 1
               PROVE  Reverse(D)[i] = Append(Reverse(C), t)[i]
    OBVIOUS
  <2>1. Reverse(D)[i] = D[Len(C) + 1 - i + 1]
    BY <1>2
  <2>2. CASE i = Len(C) + 1
    <3>1. Len(C) + 1 - i + 1 = 1
      BY <1>4, <2>2
    <3>2. Append(Reverse(C), t)[i] = t
      BY <1>3, <2>2
    <3> HIDE DEF D
    <3> QED BY <1>1, <2>1, <3>1, <3>2
  <2>3. CASE i # Len(C) + 1
    <3>1. i \in 1 .. Len(C) /\ Len(C) - i + 1 \in 1 .. Len(C)
          /\ Len(C) + 1 - i + 1 = Len(C) - i + 1 + 1
      BY <1>4, <2>3
    <3>2. D[Len(C) - i + 1 + 1] = C[Len(C) - i + 1]
      <4> HIDE DEF D
      <4> QED BY <1>1, <3>1
    <3>3. Append(Reverse(C), t)[i] = Reverse(C)[i]
      BY <1>3, <3>1
    <3> HIDE DEF D
    <3> QED BY <1>3, <2>1, <3>1, <3>2, <3>3
  <2> QED BY <2>2, <2>3
<1>6. Reverse(D) = Append(Reverse(C), t)
  <2> HIDE DEF D
  <2>1. Append(Reverse(C), t) \in Seq(Token) /\ Len(Append(Reverse(C), t)) = Len(C) + 1
    BY <1>3, <1>4, AppendProperties
  <2> QED BY <1>2, <1>5, <2>1, SeqEqual
<1> HIDE DEF D
<1>7. out \o Reverse(D) = Append(out \o Reverse(C), t)
  <2> DEFINE R == Reverse(C)
  <2>1. R \in Seq(Token) /\ t \in Token
    BY <1>3, <1>4
  <2> HIDE DEF R
  <2>2. out \o Append(R, t) = Append(out \o R, t)
    BY <2>1
  <2> QED BY <1>6, <2>2 DEF R
<1> QED BY <1>7 DEF D

LEMMA DrainTo ==
  ASSUME NEW y, NEW B \in Seq(Token), NEW C \in Seq(Operator), y.out \in Seq(Token),
         y = [out |-> y.out, ops |-> B \o C, ok |-> TRUE]
  PROVE  Drain(y, Len(B)) = [out |-> y.out \o Reverse(C), ops |-> B, ok |-> TRUE]
<1>1. C \in Seq(Token)
  BY OperatorsAreTokens
<1>2. SubSeq(B \o C, Len(B) + 1, Len(B \o C)) = C /\ SubSeq(B \o C, 1, Len(B)) = B
  <2>1. Len(B \o C) = Len(B) + Len(C) /\ Len(B) \in Nat /\ Len(C) \in Nat
    BY <1>1
  <2>2. SubSeq(B \o C, 1, Len(B)) = B
    BY <1>1, <2>1
  <2>3. SubSeq(B \o C, Len(B) + 1, Len(B) + Len(C)) = C
    BY <1>1, <2>1
  <2> QED BY <2>1, <2>2, <2>3
<1>3. y.ops = B \o C /\ y.ok = TRUE
  OBVIOUS
<1> QED BY <1>2, <1>3 DEF Drain

LEMMA PopsTo ==
  ASSUME NEW B \in Seq(Token), NEW C \in Seq(Operator), NEW t \in Operator,
         Below(B, Precedence(t)), \A i \in 1 .. Len(C) : Precedence(C[i]) >= Precedence(t)
  PROVE  Pops(B \o C, t) = Len(B)
<1> DEFINE ops == B \o C
           kept == {n \in 0 .. Len(ops) :
                      \A i \in n + 1 .. Len(ops) : Precedence(t) <= Precedence(ops[i])}
<1>1. \A x : Precedence(x) \in {0, 10, 20}
  BY DEF Precedence
<1>2. /\ C \in Seq(Token) /\ Len(ops) = Len(B) + Len(C) /\ Len(B) \in Nat /\ Len(C) \in Nat
      /\ \A i \in 1 .. Len(B) : ops[i] = B[i]
      /\ \A i \in 1 .. Len(C) : ops[Len(B) + i] = C[i]
  BY OperatorsAreTokens
<1>3. Len(B) \in kept
  <2> SUFFICES ASSUME NEW i \in Len(B) + 1 .. Len(ops)
               PROVE  Precedence(t) <= Precedence(ops[i])
    BY <1>2
  <2>1. i - Len(B) \in 1 .. Len(C) /\ Len(B) + (i - Len(B)) = i
    BY <1>2
  <2>2. ops[i] = C[i - Len(B)]
    <3> HIDE DEF ops
    <3> QED BY <1>2, <2>1
  <2>3. Precedence(C[i - Len(B)]) >= Precedence(t)
    BY <2>1
  <2> HIDE DEF ops
  <2> QED BY <1>1, <2>2, <2>3
<1>4. ASSUME NEW m \in kept
      PROVE  Len(B) <= m
  <2> SUFFICES ASSUME m < Len(B) PROVE FALSE
    BY <1>2
  <2>1. Len(B) \in m + 1 .. Len(ops) /\ Len(B) # 0 /\ Len(B) \in 1 .. Len(B)
    BY <1>2
  <2>2. Precedence(t) <= Precedence(ops[Len(B)])
    BY <2>1
  <2>3. ops[Len(B)] = Last(B) /\ B # << >>
    BY <1>2, <2>1 DEF Last
  <2>4. Precedence(Last(B)) < Precedence(t)
    BY <2>3 DEF Below
  <2> HIDE DEF ops
  <2> QED BY <1>1, <2>2, <2>3, <2>4
<1>5. Pops(ops, t) = CHOOSE n \in kept : \A m \in kept : n <= m
  BY DEF Pops
<1>6. \A n \in kept : (\A m \in kept : n <= m) => n = Len(B)
  <2> SUFFICES ASSUME NEW n \in kept, \A m \in kept : n <= m PROVE n = Len(B)
    OBVIOUS
  <2>1. n <= Len(B) /\ Len(B) <= n /\ n \in Nat
    <3>1. n \in Nat
      BY <1>2
    <3> HIDE DEF kept
    <3> QED BY <1>3, <1>4, <3>1
  <2> QED BY <1>2, <2>1
<1> HIDE DEF ops, kept
<1>7. Pops(ops, t) = Len(B)
  BY <1>3, <1>4, <1>5, <1>6
<1> QED BY <1>7 DEF ops

LEMMA OpeningIs ==
  ASSUME NEW B \in Seq(Token), NEW C \in Seq(Operator)
  PROVE  Opening(Append(B, "(") \o C) = Len(B) + 1
<1> DEFINE ops == Append(B, "(") \o C
           opens == {i \in 1 .. Len(ops) : ops[i] = "("}
<1> DEFINE P == Append(B, "(")
<1>0. /\ P \in Seq(Token) /\ Len(P) = Len(B) + 1 /\ P[Len(B) + 1] = "("
      /\ Len(B) \in Nat /\ C \in Seq(Token) /\ Len(C) \in Nat
  <2>1. "(" \in Token
    BY DEF Token
  <2>2. C \in Seq(Token)
    BY OperatorsAreTokens
  <2> QED BY <2>1, <2>2, AppendProperties, LenProperties
<1>1. /\ C \in Seq(Token) /\ Len(ops) = Len(B) + 1 + Len(C) /\ Len(B) \in Nat /\ Len(C) \in Nat
      /\ ops[Len(B) + 1] = "("
      /\ \A i \in 1 .. Len(C) : ops[Len(B) + 1 + i] = C[i]
  <2> HIDE DEF P
  <2> DEFINE Q == P \o C
  <2>1. /\ Len(Q) = Len(P) + Len(C)
        /\ \A j \in 1 .. Len(P) + Len(C) :
             Q[j] = IF j <= Len(P) THEN P[j] ELSE C[j - Len(P)]
    BY <1>0, ConcatProperties
  <2>2. ops = Q
    BY DEF P
  <2> HIDE DEF Q, ops
  <2>3. Len(ops) = Len(B) + 1 + Len(C) /\ ops[Len(B) + 1] = "("
    BY <1>0, <2>1, <2>2
  <2>4. ASSUME NEW i \in 1 .. Len(C) PROVE ops[Len(B) + 1 + i] = C[i]
    <3> DEFINE j == Len(B) + 1 + i
    <3>1. j \in 1 .. Len(P) + Len(C) /\ ~(j <= Len(P)) /\ j - Len(P) = i
      BY <1>0
    <3> HIDE DEF j
    <3>2. ops[j] = C[i]
      BY <2>1, <2>2, <3>1
    <3> QED BY <3>2 DEF j
  <2> QED BY <1>0, <2>3, <2>4
<1>2. Len(B) + 1 \in opens
  BY <1>1
<1>3. \A j \in opens : j <= Len(B) + 1
  <2> SUFFICES ASSUME NEW j \in 1 .. Len(ops), ops[j] = "(", j > Len(B) + 1 PROVE FALSE
    BY <1>1
  <2>1. j - (Len(B) + 1) \in 1 .. Len(C) /\ Len(B) + 1 + (j - (Len(B) + 1)) = j
    BY <1>1
  <2>2. ops[j] = C[j - (Len(B) + 1)]
    <3> HIDE DEF ops
    <3> QED BY <1>1, <2>1
  <2>3. C[j - (Len(B) + 1)] \in Operator
    BY <2>1
  <2> HIDE DEF ops
  <2> QED BY <2>2, <2>3 DEF Operator
<1>4. Opening(ops) = IF opens = {} THEN 0 ELSE CHOOSE i \in opens : \A j \in opens : j <= i
  BY DEF Opening
<1>5. \A i \in opens : (\A j \in opens : j <= i) => i = Len(B) + 1
  <2> SUFFICES ASSUME NEW i \in opens, \A j \in opens : j <= i PROVE i = Len(B) + 1
    OBVIOUS
  <2>1. i <= Len(B) + 1 /\ Len(B) + 1 <= i /\ i \in Int
    BY <1>2, <1>3
  <2> QED BY <1>1, <2>1
<1> HIDE DEF ops, opens
<1>6. Opening(ops) = Len(B) + 1
  BY <1>2, <1>3, <1>4, <1>5
<1> QED BY <1>6 DEF ops

LEMMA NoOpening ==
  ASSUME NEW C \in Seq(Operator)
  PROVE  Opening(C) = 0
<1>1. \A i \in 1 .. Len(C) : C[i] # "("
  BY DEF Operator
<1> QED BY <1>1 DEF Opening

-----------------------------------------------------------------------------
(* The depth of a part of a string.                                        *)

Brackets(s, b, i) == {j \in 1 .. i : s[j] = b}

LEMMA BracketsGrow ==
  ASSUME NEW s, NEW b, NEW i \in Nat
  PROVE  /\ Cardinality(Brackets(s, b, 0)) = 0
         /\ Cardinality(Brackets(s, b, i)) \in Nat
         /\ Cardinality(Brackets(s, b, i + 1)) =
              Cardinality(Brackets(s, b, i)) + IF s[i + 1] = b THEN 1 ELSE 0
<1>1. Brackets(s, b, 0) = {}
  BY DEF Brackets
<1>2. IsFiniteSet(Brackets(s, b, i))
  <2>1. IsFiniteSet(1 .. i)
    BY FS_Interval
  <2>2. Brackets(s, b, i) \subseteq 1 .. i
    BY DEF Brackets
  <2> QED BY <2>1, <2>2, FS_Subset
<1>3. CASE s[i + 1] = b
  <2>1. Brackets(s, b, i + 1) = Brackets(s, b, i) \cup {i + 1}
    BY <1>3 DEF Brackets
  <2>2. i + 1 \notin Brackets(s, b, i)
    BY DEF Brackets
  <2>3. Cardinality(Brackets(s, b, i) \cup {i + 1}) = Cardinality(Brackets(s, b, i)) + 1
    BY <1>2, <2>2, FS_AddElement
  <2> QED BY <1>1, <1>2, <1>3, <2>1, <2>3, FS_EmptySet, FS_CardinalityType
<1>4. CASE s[i + 1] # b
  <2>1. Brackets(s, b, i + 1) = Brackets(s, b, i)
    <3>1. \A j \in 1 .. i + 1 : s[j] = b => j \in 1 .. i
      BY <1>4
    <3>2. 1 .. i \subseteq 1 .. i + 1
      OBVIOUS
    <3> QED BY <3>1, <3>2 DEF Brackets
  <2>2. Cardinality(Brackets(s, b, i)) \in Nat
    BY <1>2, FS_CardinalityType
  <2> QED BY <1>1, <1>4, <2>1, <2>2, FS_EmptySet
<1> QED BY <1>3, <1>4

LEMMA DepthStep ==
  ASSUME NEW s, NEW i \in Nat
  PROVE  /\ DepthAt(s, 0) = 0
         /\ DepthAt(s, i) \in Int
         /\ DepthAt(s, i + 1) =
              DepthAt(s, i) + IF s[i + 1] = "(" THEN 1 ELSE IF s[i + 1] = ")" THEN -1 ELSE 0
<1>1. \A k \in Nat : DepthAt(s, k) = Cardinality(Brackets(s, "(", k))
                                      - Cardinality(Brackets(s, ")", k))
  BY DEF DepthAt, Brackets
<1>2. 0 \in Nat /\ i + 1 \in Nat
  OBVIOUS
<1> QED BY <1>1, <1>2, BracketsGrow

\* The first n symbols of t are those of s from its place m on.
Continues(t, s, m, n) == \A i \in 1 .. n : t[i] = s[m + i]

\* A part of a string has the depths of the whole, less the depth it begins at.
LEMMA DepthOfPart ==
  ASSUME NEW s, NEW t, NEW m \in Nat, NEW n \in Nat, Continues(t, s, m, n),
         NEW i \in 0 .. n
  PROVE  DepthAt(t, i) = DepthAt(s, m + i) - DepthAt(s, m)
<1> DEFINE bad == {k \in 0 .. n : DepthAt(t, k) # DepthAt(s, m + k) - DepthAt(s, m)}
<1> SUFFICES ASSUME bad # {} PROVE FALSE
  OBVIOUS
<1>1. PICK k \in bad : \A j \in bad : k <= j
  <2>1. bad \in SUBSET Nat
    OBVIOUS
  <2> HIDE DEF bad
  <2> QED BY <2>1, LeastNat
<1>2. k # 0 /\ k \in 0 .. n
  <2>1. DepthAt(t, 0) = 0 /\ DepthAt(s, m) \in Int /\ m + 0 = m
    BY DepthStep
  <2> QED BY <2>1
<1>3. k - 1 \in 0 .. n /\ k - 1 \notin bad /\ k - 1 \in Nat /\ m + (k - 1) \in Nat
      /\ k - 1 + 1 = k /\ m + (k - 1) + 1 = m + k /\ k \in 1 .. n
  <2>1. k - 1 \in 0 .. n /\ ~(k <= k - 1)
    BY <1>2
  <2>2. k - 1 \notin bad
    <3> HIDE DEF bad
    <3> QED BY <1>1, <2>1
  <2> QED BY <1>2, <2>2
<1>4. DepthAt(t, k - 1) = DepthAt(s, m + (k - 1)) - DepthAt(s, m)
  BY <1>3
<1>5. DepthAt(t, k) =
        DepthAt(t, k - 1) + IF t[k] = "(" THEN 1 ELSE IF t[k] = ")" THEN -1 ELSE 0
  BY <1>3, DepthStep
<1>6. DepthAt(s, m + k) = DepthAt(s, m + (k - 1))
        + IF s[m + k] = "(" THEN 1 ELSE IF s[m + k] = ")" THEN -1 ELSE 0
  BY <1>3, DepthStep
<1>7. /\ DepthAt(s, m + (k - 1)) \in Int /\ DepthAt(s, m) \in Int
      /\ t[k] = s[m + k]
  BY <1>3, DepthStep DEF Continues
<1>8. DepthAt(t, k) = DepthAt(s, m + k) - DepthAt(s, m)
  <2> HIDE DEF bad
  <2> QED BY <1>4, <1>5, <1>6, <1>7
<1> QED BY <1>1, <1>8

\* What a cut divides, and how tightly its sides bind.
LEMMA CutBinds ==
  ASSUME NEW s \in Seq(Token), Cut(s) # 0
  PROVE  /\ Cut(s) \in 1 .. Len(s) /\ s[Cut(s)] \in Operator
         /\ Precedence(s[Cut(s)]) = Level(s)
         /\ Level(Before(s)) >= Level(s)
         /\ Level(Behind(s)) > Level(s)
<1> DEFINE c == Cut(s)  prod == LastOutside(s, {"*", "/"})  pow == LastOutside(s, {"^"})
<1>1. c \in 1 .. Len(s) /\ Len(s) \in Nat /\ c \in Nat
  BY CutIs
<1>2. /\ Before(s) \in Seq(Token) /\ Len(Before(s)) = c - 1
      /\ Behind(s) \in Seq(Token) /\ Len(Behind(s)) = Len(s) - c
  BY CutIs
<1>3. /\ \A i \in 1 .. c - 1 : Before(s)[i] = s[i]
      /\ \A i \in 1 .. Len(s) - c : Behind(s)[i] = s[c + i]
  BY <1>1 DEF Before, Behind
<1>4. DepthAt(s, c) = 0 /\ s[c] \in Operator /\ Precedence(s[c]) = Level(s)
  BY LastOutsideIs DEF Cut, Level, Precedence, Operator
<1>5. ASSUME NEW i \in 1 .. c - 1
      PROVE  i \in 1 .. Len(s) /\ Before(s)[i] = s[i] /\ DepthAt(Before(s), i) = DepthAt(s, i)
  <2>1. i \in 0 .. c - 1 /\ i \in 1 .. Len(s) /\ c - 1 \in Nat /\ 0 + i = i /\ i \in Nat
    BY <1>1
  <2>2. \A j \in 1 .. c - 1 : Before(s)[j] = s[0 + j]
    BY <1>1, <1>3
  <2>3. DepthAt(Before(s), i) = DepthAt(s, 0 + i) - DepthAt(s, 0)
    <3> DEFINE n == c - 1  t == Before(s)  none == 0
    <3>1. none \in Nat /\ n \in Nat /\ i \in 0 .. n /\ Continues(t, s, none, n)
      BY <2>1, <2>2 DEF Continues
    <3> HIDE DEF c, n, t, none
    <3>2. DepthAt(t, i) = DepthAt(s, none + i) - DepthAt(s, none)
      BY <3>1, DepthOfPart
    <3> QED BY <3>2 DEF t, none
  <2>4. DepthAt(s, i) \in Int /\ DepthAt(s, 0) = 0
    BY <2>1, DepthStep
  <2> QED BY <1>3, <2>1, <2>3, <2>4
<1>6. ASSUME NEW i \in 1 .. Len(s) - c
      PROVE  /\ c + i \in 1 .. Len(s) /\ Behind(s)[i] = s[c + i] /\ c + i > c
             /\ DepthAt(Behind(s), i) = DepthAt(s, c + i)
  <2>1. i \in 0 .. Len(s) - c /\ c + i \in 1 .. Len(s) /\ Len(s) - c \in Nat /\ c + i \in Nat
        /\ c + i > c
    BY <1>1
  <2>2. DepthAt(Behind(s), i) = DepthAt(s, c + i) - DepthAt(s, c)
    <3> DEFINE n == Len(s) - c  t == Behind(s)
    <3>1. c \in Nat /\ n \in Nat /\ i \in 0 .. n /\ Continues(t, s, c, n)
      BY <1>1, <1>3, <2>1 DEF Continues
    <3> HIDE DEF c, n, t
    <3>2. DepthAt(t, i) = DepthAt(s, c + i) - DepthAt(s, c)
      BY <3>1, DepthOfPart
    <3> QED BY <3>2 DEF t
  <2>3. DepthAt(s, c + i) \in Int
    BY <2>1, DepthStep
  <2> QED BY <1>3, <1>4, <2>1, <2>2, <2>3
<1> DEFINE Free(u, ops) == \A i \in 1 .. Len(u) : u[i] \in ops => DepthAt(u, i) # 0
<1>7. ASSUME NEW u \in Seq(Token)
      PROVE  /\ Level(u) \in {10, 20, 30}
             /\ Free(u, {"*", "/"}) => Level(u) \in {20, 30}
             /\ Free(u, {"*", "/"}) /\ Free(u, {"^"}) => Level(u) = 30
             /\ Level(u) = 20 => Free(u, {"*", "/"})
  BY LastOutsideIs DEF Level
<1>8. CASE prod # 0
  <2>1. Level(s) = 10 /\ c = prod
    BY <1>8 DEF Level, Cut
  <2>2. \A i \in 1 .. Len(s) : s[i] \in {"*", "/"} /\ DepthAt(s, i) = 0 => i <= c
    BY <1>8, <2>1, LastOutsideIs
  <2>3. Free(Behind(s), {"*", "/"})
    <3> HIDE DEF c
    <3> QED BY <1>1, <1>2, <1>6, <2>2
  <2> HIDE DEF Free
  <2>4. Level(Behind(s)) \in {20, 30} /\ Level(Before(s)) \in {10, 20, 30}
    BY <1>2, <1>7, <2>3
  <2>5. Level(Behind(s)) > Level(s) /\ Level(Before(s)) >= Level(s)
    BY <2>1, <2>4
  <2> QED BY <1>1, <1>4, <2>5
<1>9. CASE prod = 0
  <2>1. pow # 0 /\ c = pow /\ Level(s) = 20
    BY <1>9 DEF Level, Cut
  <2>2. Free(s, {"*", "/"})
    BY <1>7, <2>1
  <2>3. \A i \in 1 .. Len(s) : s[i] \in {"^"} /\ DepthAt(s, i) = 0 => i <= c
    BY <2>1, LastOutsideIs
  <2>4. Free(Before(s), {"*", "/"})
    <3> HIDE DEF c
    <3> QED BY <1>2, <1>5, <2>2
  <2>5. Free(Behind(s), {"*", "/"}) /\ Free(Behind(s), {"^"})
    <3> HIDE DEF c
    <3> QED BY <1>1, <1>2, <1>6, <2>2, <2>3
  <2> HIDE DEF Free
  <2>6. Level(Behind(s)) = 30 /\ Level(Before(s)) \in {20, 30}
    BY <1>2, <1>7, <2>4, <2>5
  <2>7. Level(Behind(s)) > Level(s) /\ Level(Before(s)) >= Level(s)
    BY <2>1, <2>6
  <2> QED BY <1>1, <1>4, <2>7
<1> QED BY <1>8, <1>9

\* What is appended comes before what is joined.
LEMMA AppendConcat ==
  ASSUME NEW B \in Seq(Token), NEW t \in Token, NEW C \in Seq(Token)
  PROVE  Append(B, t) \o C = B \o (<<t>> \o C)
<1>1. <<t>> \in Seq(Token) /\ Append(B, t) = B \o <<t>>
  BY AppendIsConcat
<1> DEFINE one == <<t>>
<1> HIDE DEF one
<1>2. one \in Seq(Token)
  BY <1>1 DEF one
<1>3. (B \o one) \o C = B \o (one \o C)
  BY <1>2, ConcatAssociative, SMTT(30)
<1> QED BY <1>1, <1>3 DEF one

\* The fields of a state of the yard that still reads.
LEMMA Fields ==
  ASSUME NEW x, NEW out, NEW ops, x = [out |-> out, ops |-> ops, ok |-> TRUE]
  PROVE  x.out = out /\ x.ops = ops /\ x.ok = TRUE
OBVIOUS

LEMMA NothingHeld ==
  ASSUME NEW out \in Seq(Token)
  PROVE  /\ << >> \in Seq(Operator) /\ Reverse(<< >>) = << >>
         /\ out \o Reverse(<< >>) = out
<1>1. << >> \in Seq(Operator)
  OBVIOUS
<1>2. Len(Reverse(<< >>)) = 0 /\ Reverse(<< >>) \in Seq(Operator)
  BY <1>1, ReverseIs
<1>3. Reverse(<< >>) = << >>
  BY <1>2
<1> QED BY <1>1, <1>3

\* A word goes to the output.
LEMMA ReadsWord ==
  ASSUME NEW y, Ready(y), NEW s \in Seq(Token), Len(s) = 1, IsWord(s[1]),
         NEW z, z = Step(y, s[1])
  PROVE  Read(y, s, z)
<1> DEFINE t == s[1]
<1>1. t \in Token /\ y.out \in Seq(Token) /\ y.ops \in Seq(Token) /\ y.ok = TRUE
  <2>1. t \in Token
    OBVIOUS
  <2>2. y.out \in Seq(Token) /\ y.ops \in Seq(Token)
    BY DEF Ready
  <2>3. y.ok = TRUE
    BY DEF Ready
  <2> QED BY <2>1, <2>2, <2>3
<1>2. z = [out |-> Append(y.out, t), ops |-> y.ops, ok |-> TRUE]
  BY <1>1 DEF Step, Ready
<1>3. Append(y.out, t) \in Seq(Token) /\ y.ops \o << >> = y.ops
  BY <1>1
<1>4. Values(Append(y.out, t)) = Append(Values(y.out), WordValue(t))
  BY <1>1, ValuesAppend DEF Reduce
<1>5. Meaning[s] = WordValue(t)
  BY MeaningIs DEF Reading
<1>6. z.out = Append(y.out, t)
  BY <1>2
<1>7. ReadWith(y, s, z, << >>)
  <2>1. << >> \in Seq(Operator) /\ z.out \o Reverse(<< >>) = z.out
    BY <1>3, <1>6, NothingHeld
  <2>2. \A i \in 1 .. Len(<< >>) : Precedence(<< >>[i]) >= Level(s)
    OBVIOUS
  <2> HIDE DEF t
  <2>3. z = [out |-> z.out, ops |-> y.ops \o << >>, ok |-> TRUE]
    BY <1>2, <1>3, <1>6
  <2> QED BY <1>3, <1>4, <1>5, <1>6, <2>1, <2>2, <2>3 DEF ReadWith
<1> QED BY <1>7 DEF Read

\* An operator waits for its right side: what binds as tightly has left.
LEMMA ReadsOperator ==
  ASSUME NEW y, Ready(y), NEW s \in Seq(Token), Cut(s) # 0, Below(y.ops, Level(s)),
         NEW a, Read(y, Before(s), a), NEW b, b = Step(a, s[Cut(s)])
  PROVE  /\ Ready(b) /\ b.ops = Append(y.ops, s[Cut(s)])
         /\ Below(b.ops, Level(Behind(s)))
         /\ Values(b.out) = Append(Values(y.out), Meaning[Before(s)])
<1> DEFINE t == s[Cut(s)]  B == y.ops  p == Precedence(t)
<1>0. b = Step(a, t)
  OBVIOUS
<1>1. /\ t \in Operator /\ p = Level(s) /\ Level(Before(s)) >= p /\ Level(Behind(s)) > p
  BY CutBinds
<1>2. B \in Seq(Token) /\ y.out \in Seq(Token) /\ Below(B, p) /\ t \in Token
  BY <1>1, OperatorsAreTokens DEF Ready
<1>3. PICK C : ReadWith(y, Before(s), a, C)
  BY DEF Read
<1> HIDE DEF B, p, t
<1>4. /\ C \in Seq(Operator) /\ a = [out |-> a.out, ops |-> B \o C, ok |-> TRUE]
      /\ a.out \in Seq(Token) /\ a.ok = TRUE /\ a.ops = B \o C
      /\ Values(a.out \o Reverse(C)) = Append(Values(y.out), Meaning[Before(s)])
  <2>1. /\ C \in Seq(Operator) /\ a = [out |-> a.out, ops |-> B \o C, ok |-> TRUE]
        /\ a.out \in Seq(Token)
        /\ Values(a.out \o Reverse(C)) = Append(Values(y.out), Meaning[Before(s)])
    BY <1>3, Zenon DEF ReadWith, B
  <2>2. a.ops = B \o C /\ a.ok = TRUE
    BY <2>1, Fields
  <2> QED BY <2>1, <2>2
<1>5. \A i \in 1 .. Len(C) : Precedence(C[i]) >= p
  <2>1. \A x : Precedence(x) \in Int
    BY DEF Precedence
  <2>2. Level(Before(s)) \in Int /\ p \in Int
    BY <2>1 DEF Level, p
  <2>3. \A i \in 1 .. Len(C) : Precedence(C[i]) >= Level(Before(s))
    BY <1>3 DEF ReadWith
  <2> QED BY <1>1, <2>1, <2>2, <2>3
<1>6. Pops(a.ops, t) = Len(B)
  BY <1>1, <1>2, <1>4, <1>5, PopsTo DEF p
<1> DEFINE d == [out |-> a.out \o Reverse(C), ops |-> B, ok |-> TRUE]
<1>7. Drain(a, Pops(a.ops, t)) = d
  <2>1. Drain(a, Len(B)) = d
    BY <1>2, <1>4, DrainTo
  <2> QED BY <1>6, <2>1
<1>8. ~IsWord(t) /\ t \in Operator
  BY <1>1 DEF IsWord
<1>9. b = [d EXCEPT !.ops = Append(@, t)]
  <2> HIDE DEF d
  <2> QED BY <1>0, <1>4, <1>7, <1>8 DEF Step
<1>10. b = [out |-> a.out \o Reverse(C), ops |-> Append(B, t), ok |-> TRUE]
  BY <1>9
<1> HIDE DEF d
<1>11. b.out = a.out \o Reverse(C) /\ b.ops = Append(B, t)
  BY <1>10
<1>12. b.out \in Seq(Token) /\ b.ops \in Seq(Token)
  <2>1. Reverse(C) \in Seq(Token)
    BY <1>4, ReverseIs
  <2> QED BY <1>2, <1>4, <1>11, <2>1
<1>13. Values(b.out) = Append(Values(y.out), Meaning[Before(s)])
  BY <1>4, <1>11
<1>14. \E S : Values(b.out) \in Seq(S)
  <2>1. PICK S : Values(y.out) \in Seq(S)
    BY DEF Ready
  <2> DEFINE S2 == S \cup {Meaning[Before(s)]}  v == Values(y.out)  m == Meaning[Before(s)]
  <2>2. v \in Seq(S2)
    BY <2>1, SeqMonotonic
  <2>3. m \in S2
    OBVIOUS
  <2> HIDE DEF S2, v, m
  <2>4. Append(v, m) \in Seq(S2)
    BY <2>2, <2>3
  <2> QED BY <1>13, <2>4 DEF v, m
<1>15. Ready(b)
  BY <1>10, <1>11, <1>12, <1>14 DEF Ready
<1>16. Below(b.ops, Level(Behind(s)))
  <2>1. Last(b.ops) = t
    BY <1>2, <1>11, AppendProperties DEF Last
  <2> QED BY <1>1, <2>1 DEF Below, p
<1> QED BY <1>11, <1>13, <1>15, <1>16 DEF t, B

\* Both sides of an operator have been read.
LEMMA ReadsBothSides ==
  ASSUME NEW y, Ready(y), NEW s \in Seq(Token), Cut(s) # 0,
         ~(Len(s) = 1 /\ IsWord(s[1])),
         NEW b, Ready(b), b.ops = Append(y.ops, s[Cut(s)]),
         Values(b.out) = Append(Values(y.out), Meaning[Before(s)]),
         NEW z, Read(b, Behind(s), z)
  PROVE  Read(y, s, z)
<1> DEFINE t == s[Cut(s)]  B == y.ops  ma == Meaning[Before(s)]  mb == Meaning[Behind(s)]
           V == Values(y.out)
<1>1. t \in Operator /\ Precedence(t) = Level(s) /\ Level(Behind(s)) > Level(s)
  BY CutBinds
<1>2. B \in Seq(Token) /\ t \in Token
  BY <1>1, OperatorsAreTokens DEF Ready
<1>3. PICK C : ReadWith(b, Behind(s), z, C)
  BY DEF Read
<1>4. Meaning[s] = Apply(t, ma, mb)
  BY MeaningIs DEF Reading
<1>5. b.ops = Append(B, t) /\ Values(b.out) = Append(V, ma)
  OBVIOUS
<1> HIDE DEF t, B, ma, mb, V
<1>6. /\ C \in Seq(Operator) /\ z = [out |-> z.out, ops |-> Append(B, t) \o C, ok |-> TRUE]
      /\ z.out \in Seq(Token)
      /\ Values(z.out \o Reverse(C)) = Append(Append(V, ma), mb)
  BY <1>3, <1>5 DEF ReadWith, mb
<1> DEFINE D == <<t>> \o C
<1>7. /\ D \in Seq(Operator) /\ Append(B, t) \o C = B \o D
      /\ Len(D) = Len(C) + 1 /\ D[1] = t /\ \A i \in 1 .. Len(C) : D[i + 1] = C[i]
      /\ Len(C) \in Nat
  <2>1. C \in Seq(Token)
    BY <1>6, OperatorsAreTokens
  <2>2. Append(B, t) \o C = B \o D
    BY <1>2, <2>1, AppendConcat
  <2>3. <<t>> \in Seq(Operator) /\ Len(<<t>>) = 1 /\ <<t>>[1] = t
    BY <1>1
  <2>4. C \in Seq(Operator) /\ Len(C) \in Nat
    BY <1>6, LenProperties
  <2> DEFINE one == <<t>>
  <2> HIDE DEF one
  <2>5. /\ one \o C \in Seq(Operator) /\ Len(one \o C) = Len(one) + Len(C)
        /\ \A i \in 1 .. Len(one) + Len(C) :
             (one \o C)[i] = IF i <= Len(one) THEN one[i] ELSE C[i - Len(one)]
    BY <2>3, <2>4, ConcatProperties DEF one
  <2>6. Len(one) = 1 /\ one[1] = t /\ D = one \o C
    BY <2>3 DEF one
  <2> HIDE DEF D
  <2>7. Len(D) = Len(C) + 1 /\ D \in Seq(Operator) /\ D[1] = t
    BY <2>4, <2>5, <2>6
  <2>8. ASSUME NEW i \in 1 .. Len(C) PROVE D[i + 1] = C[i]
    <3>1. i + 1 \in 1 .. 1 + Len(C) /\ ~(i + 1 <= 1) /\ (i + 1) - 1 = i
      BY <2>4
    <3> QED BY <2>5, <2>6, <3>1
  <2> QED BY <2>2, <2>4, <2>7, <2>8
<1>8. z.out \o Reverse(D) = Append(z.out \o Reverse(C), t)
  BY <1>1, <1>6, ReversePrepends
<1> HIDE DEF D
<1>9. Values(z.out \o Reverse(D)) = Reduce(Append(Append(V, ma), mb), t)
  <2>1. z.out \o Reverse(C) \in Seq(Token)
    BY <1>6, ReverseIs
  <2> QED BY <1>2, <1>6, <1>8, <2>1, ValuesAppend
<1>10. Reduce(Append(Append(V, ma), mb), t) = Append(V, Apply(t, ma, mb))
  <2>1. PICK S : V \in Seq(S)
    BY DEF Ready, V
  <2> DEFINE S2 == S \cup {ma, mb}
  <2>2. V \in Seq(S2)
    BY <2>1, SeqMonotonic
  <2>3. ma \in S2 /\ mb \in S2
    OBVIOUS
  <2> HIDE DEF S2
  <2> DEFINE W == Append(Append(V, ma), mb)
  <2>4. /\ W \in Seq(S2) /\ Len(W) = Len(V) + 2 /\ Len(V) \in Nat
        /\ W[Len(W)] = mb /\ W[Len(W) - 1] = ma
        /\ SubSeq(W, 1, Len(W) - 2) = V
    BY <2>2, <2>3
  <2>5. ~IsWord(t)
    BY <1>1 DEF IsWord
  <2> HIDE DEF W
  <2>6. Reduce(W, t) = Append(V, Apply(t, ma, mb))
    <3>1. Reduce(W, t) = Append(SubSeq(W, 1, Len(W) - 2), Apply(t, W[Len(W) - 1], W[Len(W)]))
      <4>1. Len(W) >= 2 /\ ~(Len(W) < 2)
        BY <2>4
      <4> QED BY <2>5, <4>1 DEF Reduce
    <3> QED BY <2>4, <3>1
  <2> QED BY <2>6 DEF W
<1>11. \A i \in 1 .. Len(D) : Precedence(D[i]) >= Level(s)
  <2> SUFFICES ASSUME NEW i \in 1 .. Len(D) PROVE Precedence(D[i]) >= Level(s)
    OBVIOUS
  <2>1. \A x : Precedence(x) \in Int
    BY DEF Precedence
  <2>2. Level(s) \in Int /\ Level(Behind(s)) \in Int
    BY DEF Level
  <2>3. CASE i = 1
    BY <1>1, <1>7, <2>2, <2>3
  <2>4. CASE i # 1
    <3>1. i - 1 \in 1 .. Len(C) /\ i - 1 + 1 = i
      <4>1. Len(C) \in Nat /\ Len(D) = Len(C) + 1
        BY <1>7
      <4> QED BY <2>4, <4>1
    <3>2. Precedence(C[i - 1]) >= Level(Behind(s))
      BY <1>3, <3>1 DEF ReadWith
    <3>3. D[i] = C[i - 1]
      BY <1>7, <3>1
    <3> QED BY <1>1, <2>1, <2>2, <3>2, <3>3
  <2> QED BY <2>3, <2>4
<1>12. ReadWith(y, s, z, D)
  BY <1>4, <1>6, <1>7, <1>9, <1>10, <1>11 DEF ReadWith, B, V
<1> QED BY <1>12 DEF Read

\* An opening parenthesis waits for its closing one.
LEMMA ReadsOpening ==
  ASSUME NEW y, Ready(y), NEW s \in Seq(Token), Enclosed(s), NEW b, b = Step(y, s[1])
  PROVE  /\ Ready(b) /\ b.ops = Append(y.ops, "(") /\ b.out = y.out
         /\ Below(b.ops, Level(Inside(s)))
<1>1. b = Step(y, "(")
  BY DEF Enclosed
<1>2. ~IsWord("(") /\ "(" \notin Operator /\ "(" \in Token
  BY DEF IsWord, Operator, Token
<1>3. y.out \in Seq(Token) /\ y.ops \in Seq(Token) /\ y.ok = TRUE
      /\ y = [out |-> y.out, ops |-> y.ops, ok |-> TRUE]
  BY DEF Ready
<1>4. b = [y EXCEPT !.ops = Append(@, "(")]
  BY <1>1, <1>2, <1>3 DEF Step
<1>5. b = [out |-> y.out, ops |-> Append(y.ops, "("), ok |-> TRUE]
  BY <1>3, <1>4
<1>6. b.out = y.out /\ b.ops = Append(y.ops, "(") /\ b.ops \in Seq(Token)
  BY <1>2, <1>3, <1>5
<1>7. Ready(b)
  BY <1>3, <1>5, <1>6 DEF Ready
<1>8. Below(b.ops, Level(Inside(s)))
  <2>1. Last(b.ops) = "("
    BY <1>2, <1>3, <1>6, AppendProperties DEF Last
  <2>2. Precedence("(") = 0 /\ Level(Inside(s)) > 0
    BY <1>2 DEF Precedence, Level, Operator
  <2> QED BY <2>1, <2>2 DEF Below
<1> QED BY <1>6, <1>7, <1>8

LEMMA ReadsClosing ==
  ASSUME NEW y, Ready(y), NEW s \in Seq(Token), Enclosed(s), Cut(s) = 0,
         NEW b, b.ops = Append(y.ops, "("), b.out = y.out,
         NEW a, Read(b, Inside(s), a), NEW z, z = Step(a, s[Len(s)])
  PROVE  Read(y, s, z)
<1> DEFINE B == y.ops  m == Meaning[Inside(s)]
<1>1. z = Step(a, ")") /\ Len(s) # 1
  BY DEF Enclosed
<1>2. ~IsWord(")") /\ ")" \notin Operator /\ ")" # "(" /\ "(" \in Token
  BY DEF IsWord, Operator, Token
<1>3. B \in Seq(Token) /\ y.out \in Seq(Token)
  BY DEF Ready
<1>4. PICK C : ReadWith(b, Inside(s), a, C)
  BY DEF Read
<1>5. Meaning[s] = m
  <2>1. ~(Len(s) = 1 /\ IsWord(s[1]))
    BY <1>1
  <2>2. Reading(Meaning, s) = m
    BY <2>1 DEF Reading
  <2> QED BY <2>2, MeaningIs
<1> HIDE DEF m, B
<1>6. /\ C \in Seq(Operator) /\ a = [out |-> a.out, ops |-> Append(B, "(") \o C, ok |-> TRUE]
      /\ a.out \in Seq(Token) /\ a.ok = TRUE /\ a.ops = Append(B, "(") \o C
      /\ Values(a.out \o Reverse(C)) = Append(Values(y.out), m)
  <2>1. /\ C \in Seq(Operator) /\ a = [out |-> a.out, ops |-> b.ops \o C, ok |-> TRUE]
        /\ a.out \in Seq(Token)
        /\ Values(a.out \o Reverse(C)) = Append(Values(b.out), Meaning[Inside(s)])
    BY <1>4 DEF ReadWith
  <2>2. a.ok = TRUE /\ a.ops = b.ops \o C
    <3> DEFINE held == b.ops \o C
    <3>1. a = [out |-> a.out, ops |-> held, ok |-> TRUE]
      BY <2>1
    <3> HIDE DEF held
    <3>2. a.ok = TRUE /\ a.ops = held
      BY <3>1, Fields, Zenon
    <3> QED BY <3>2 DEF held
  <2>3. b.ops = Append(B, "(") /\ b.out = y.out /\ m = Meaning[Inside(s)]
    BY DEF B, m
  <2> QED BY <2>1, <2>2, <2>3
<1> DEFINE P == Append(B, "(")
<1>7. P \in Seq(Token) /\ Len(P) = Len(B) + 1 /\ Len(P) # 0 /\ Front(P) = B
  <2>1. P \in Seq(Token) /\ Len(P) = Len(B) + 1 /\ Len(B) \in Nat
    BY <1>2, <1>3
  <2>2. Front(P) = B
    <3>1. Front(P) = SubSeq(P, 1, Len(P) - 1)
      BY DEF Front
    <3>2. Len(P) - 1 = Len(B) /\ SubSeq(P, 1, Len(B)) = B
      BY <1>2, <1>3
    <3> HIDE DEF P
    <3> QED BY <3>1, <3>2
  <2> QED BY <2>1, <2>2
<1>8. Opening(a.ops) = Len(P)
  BY <1>3, <1>6, <1>7, OpeningIs
<1> HIDE DEF P
<1> DEFINE d == [out |-> a.out \o Reverse(C), ops |-> P, ok |-> TRUE]
<1>9. Drain(a, Len(P)) = d
  <2>1. a = [out |-> a.out, ops |-> P \o C, ok |-> TRUE]
    BY <1>6 DEF P
  <2> QED BY <1>6, <1>7, <2>1, DrainTo
<1>10. z = [d EXCEPT !.ops = Front(@)]
  <2> HIDE DEF d
  <2> QED BY <1>1, <1>2, <1>6, <1>7, <1>8, <1>9 DEF Step
<1>11. z = [out |-> a.out \o Reverse(C), ops |-> B, ok |-> TRUE]
  BY <1>7, <1>10
<1> HIDE DEF d
<1>12. z.out = a.out \o Reverse(C) /\ z.out \in Seq(Token) /\ B \o << >> = B
  <2>1. Reverse(C) \in Seq(Token)
    BY <1>6, ReverseIs
  <2>2. z.out = a.out \o Reverse(C)
    BY <1>11, Fields
  <2>3. a.out \o Reverse(C) \in Seq(Token)
    BY <1>6, <2>1, ConcatProperties
  <2>4. B \o << >> = B
    BY <1>3
  <2> QED BY <2>2, <2>3, <2>4
<1>13. << >> \in Seq(Operator) /\ z.out \o Reverse(<< >>) = z.out
  BY <1>12, NothingHeld
<1>14. ReadWith(y, s, z, << >>)
  <2>1. \A i \in 1 .. Len(<< >>) : Precedence(<< >>[i]) >= Level(s)
    OBVIOUS
  <2>2. z = [out |-> z.out, ops |-> B \o << >>, ok |-> TRUE]
    BY <1>11, <1>12
  <2> QED BY <1>5, <1>6, <1>12, <1>13, <2>1, <2>2 DEF ReadWith, B
<1> QED BY <1>14 DEF Read

\* The part of T behind its first i tokens, up to its j-th.
Part(T, i, j) == SubSeq(T, i + 1, j)

LEMMA PartOfPart ==
  ASSUME NEW T \in Seq(Token), NEW i \in 0 .. Len(T), NEW j \in i .. Len(T),
         NEW k \in 0 .. j - i, NEW n \in k .. j - i
  PROVE  /\ Part(T, i, j) \in Seq(Token) /\ Len(Part(T, i, j)) = j - i
         /\ SubSeq(Part(T, i, j), k + 1, n) = Part(T, i + k, i + n)
         /\ n # 0 => Part(T, i, j)[n] = T[i + n]
<1> DEFINE s == Part(T, i, j)
<1>1. /\ Len(T) \in Nat /\ i \in Nat /\ j \in Nat /\ k \in Nat /\ n \in Nat
      /\ i <= j /\ j <= Len(T) /\ k <= n /\ n <= j - i
  OBVIOUS
<1>2. s \in Seq(Token) /\ Len(s) = j - i /\ \A p \in 1 .. j - i : s[p] = T[i + p]
  BY <1>1 DEF Part
<1> HIDE DEF s
<1> DEFINE u == SubSeq(s, k + 1, n)  v == Part(T, i + k, i + n)
<1>3. u \in Seq(Token) /\ Len(u) = n - k /\ \A p \in 1 .. n - k : u[p] = s[k + p]
  BY <1>1, <1>2
<1>4. v \in Seq(Token) /\ Len(v) = n - k /\ \A p \in 1 .. n - k : v[p] = T[i + k + p]
  BY <1>1 DEF Part
<1>5. \A p \in 1 .. n - k : k + p \in 1 .. j - i /\ i + (k + p) = i + k + p
  BY <1>1
<1> HIDE DEF u, v
<1>6. u = v
  <2>1. \A p \in 1 .. n - k : u[p] = v[p]
    BY <1>2, <1>3, <1>4, <1>5
  <2> QED BY <1>3, <1>4, <2>1, SeqEqual
<1>7. n # 0 => s[n] = T[i + n]
  BY <1>1, <1>2
<1> QED BY <1>2, <1>6, <1>7, Zenon DEF s, u, v

Means(T, F, i, j) ==
  LET s == Part(T, i, j)
  IN  Meaning[s] # Error /\ Ready(F[i]) /\ Below(F[i].ops, Level(s)) => Read(F[i], s, F[j])

LEMMA ReadsPart ==
  ASSUME NEW T \in Seq(Token), NEW F,
         \A k \in 0 .. Len(T) - 1 : F[k + 1] = Step(F[k], T[k + 1]),
         NEW m \in Nat, NEW i \in Nat, i + m <= Len(T),
         \A n \in Nat, j \in Nat : n < m /\ j + n <= Len(T) => Means(T, F, j, j + n)
  PROVE  Means(T, F, i, i + m)
<1> DEFINE s == Part(T, i, i + m)  c == Cut(s)
<1> SUFFICES ASSUME Meaning[s] # Error, Ready(F[i]), Below(F[i].ops, Level(s))
             PROVE  Read(F[i], s, F[i + m])
  BY DEF Means
<1>1. Len(T) \in Nat /\ i \in 0 .. Len(T) /\ i + m \in i .. Len(T) /\ i + m - i = m
  OBVIOUS
<1>2. /\ s \in Seq(Token) /\ Len(s) = m
      /\ \A n \in 1 .. m : s[n] = T[i + n]
      /\ \A k \in 0 .. m : \A n \in k .. m : SubSeq(s, k + 1, n) = Part(T, i + k, i + n)
  <2>1. 0 \in 0 .. m
    OBVIOUS
  <2>2. ASSUME NEW k \in 0 .. m, NEW n \in k .. m
        PROVE  /\ s \in Seq(Token) /\ Len(s) = m
               /\ SubSeq(s, k + 1, n) = Part(T, i + k, i + n)
               /\ n # 0 => s[n] = T[i + n]
    <3> DEFINE j == i + m
    <3>1. j \in i .. Len(T) /\ k \in 0 .. j - i /\ n \in k .. j - i /\ j - i = m
      BY <1>1
    <3> HIDE DEF j
    <3>2. /\ Part(T, i, j) \in Seq(Token) /\ Len(Part(T, i, j)) = j - i
          /\ SubSeq(Part(T, i, j), k + 1, n) = Part(T, i + k, i + n)
          /\ n # 0 => Part(T, i, j)[n] = T[i + n]
      BY <1>1, <3>1, PartOfPart
    <3> QED BY <3>1, <3>2 DEF j
  <2> HIDE DEF s
  <2>3. \A n \in 1 .. m : n \in 0 .. m /\ n # 0
    OBVIOUS
  <2> QED BY <2>1, <2>2, <2>3
<1>3. \A n \in 1 .. m : F[i + n] = Step(F[i + (n - 1)], s[n])
  <2> SUFFICES ASSUME NEW n \in 1 .. m PROVE F[i + n] = Step(F[i + (n - 1)], s[n])
    OBVIOUS
  <2>1. i + (n - 1) \in 0 .. Len(T) - 1 /\ i + (n - 1) + 1 = i + n
    BY <1>1
  <2> QED BY <1>2, <2>1
<1> HIDE DEF s
<1>4. Meaning[s] = Reading(Meaning, s)
  BY <1>2, MeaningIs
<1>5. CASE m = 1 /\ IsWord(s[1])
  <2>1. F[i + 1] = Step(F[i], s[1])
    <3>1. 1 \in 1 .. m /\ i + (1 - 1) = i
      BY <1>5
    <3> QED BY <1>3, <3>1
  <2> QED BY <1>2, <1>5, <2>1, ReadsWord
<1>6. CASE ~(m = 1 /\ IsWord(s[1])) /\ c # 0
  <2>1. c \in 1 .. m
    BY <1>2, <1>6, CutBinds
  <2>2. Meaning[s] = Apply(s[c], Meaning[Before(s)], Meaning[Behind(s)])
    BY <1>2, <1>4, <1>6 DEF Reading
  <2>3. Meaning[Before(s)] # Error /\ Meaning[Behind(s)] # Error
    BY <2>2 DEF Apply
  <2> HIDE DEF c
  <2>4. Before(s) = Part(T, i, i + (c - 1)) /\ Behind(s) = Part(T, i + c, i + m)
    <3>1. 0 \in 0 .. m /\ c - 1 \in 0 .. m /\ c \in 0 .. m /\ m \in c .. m /\ i + 0 = i /\ 0 + 1 = 1
      BY <2>1
    <3>2. SubSeq(s, 0 + 1, c - 1) = Part(T, i + 0, i + (c - 1))
      BY <1>2, <3>1
    <3>3. SubSeq(s, c + 1, m) = Part(T, i + c, i + m)
      BY <1>2, <3>1
    <3> QED BY <1>2, <3>1, <3>2, <3>3 DEF Before, Behind, c
  <2>5. Means(T, F, i, i + (c - 1))
    <3>1. c - 1 \in Nat /\ c - 1 < m /\ i + (c - 1) <= Len(T)
      BY <1>1, <2>1
    <3> QED BY <3>1
  <2>6. Means(T, F, i + c, i + m)
    <3>1. m - c \in Nat /\ m - c < m /\ i + c \in Nat /\ i + c + (m - c) <= Len(T)
          /\ i + c + (m - c) = i + m
      BY <1>1, <2>1
    <3>2. Means(T, F, i + c, i + c + (m - c))
      BY <3>1
    <3> QED BY <3>1, <3>2
  <2>7. \A x : Precedence(x) \in Int
    BY DEF Precedence
  <2>8. Below(F[i].ops, Level(Before(s)))
    <3>1. Level(Before(s)) >= Level(s)
      BY <1>2, <1>6, CutBinds DEF c
    <3>2. Level(Before(s)) \in Int /\ Level(s) \in Int
      BY DEF Level
    <3> QED BY <2>7, <3>1, <3>2 DEF Below
  <2>9. Read(F[i], Before(s), F[i + (c - 1)])
    BY <2>3, <2>4, <2>5, <2>8 DEF Means
  <2>10. F[i + c] = Step(F[i + (c - 1)], s[c])
    BY <1>3, <2>1
  <2>11. /\ Ready(F[i + c]) /\ F[i + c].ops = Append(F[i].ops, s[c])
         /\ Below(F[i + c].ops, Level(Behind(s)))
         /\ Values(F[i + c].out) = Append(Values(F[i].out), Meaning[Before(s)])
    <3> DEFINE y == F[i]  a == F[i + (c - 1)]  b == F[i + c]
    <3>1. /\ Ready(y) /\ s \in Seq(Token) /\ Below(y.ops, Level(s)) /\ Read(y, Before(s), a)
          /\ b = Step(a, s[Cut(s)]) /\ Cut(s) # 0
      BY <1>2, <1>6, <2>9, <2>10 DEF c
    <3> HIDE DEF y, a, b
    <3>2. /\ Ready(b) /\ b.ops = Append(y.ops, s[Cut(s)])
          /\ Below(b.ops, Level(Behind(s)))
          /\ Values(b.out) = Append(Values(y.out), Meaning[Before(s)])
      BY <3>1, ReadsOperator, ZenonT(60)
    <3> QED BY <3>2 DEF y, b, c
  <2>12. Read(F[i + c], Behind(s), F[i + m])
    BY <2>3, <2>4, <2>6, <2>11 DEF Means
  <2> QED BY <1>2, <1>6, <2>11, <2>12, ReadsBothSides DEF c
<1>7. CASE ~(m = 1 /\ IsWord(s[1])) /\ c = 0 /\ Enclosed(s)
  <2>1. m > 2
    BY <1>2, <1>7 DEF Enclosed
  <2>2. Meaning[s] = Meaning[Inside(s)]
    BY <1>2, <1>4, <1>7 DEF Reading
  <2>3. Inside(s) = Part(T, i + 1, i + (m - 1))
    <3>1. 1 \in 0 .. m /\ m - 1 \in 1 .. m /\ 1 + 1 = 2
      BY <2>1
    <3>2. SubSeq(s, 1 + 1, m - 1) = Part(T, i + 1, i + (m - 1))
      BY <1>2, <3>1
    <3> QED BY <1>2, <3>1, <3>2 DEF Inside
  <2>4. Means(T, F, i + 1, i + (m - 1))
    <3>1. m - 2 \in Nat /\ m - 2 < m /\ i + 1 \in Nat /\ i + 1 + (m - 2) <= Len(T)
          /\ i + 1 + (m - 2) = i + (m - 1)
      BY <1>1, <2>1
    <3>2. Means(T, F, i + 1, i + 1 + (m - 2))
      BY <3>1
    <3> QED BY <3>1, <3>2
  <2>5. F[i + 1] = Step(F[i], s[1]) /\ F[i + m] = Step(F[i + (m - 1)], s[m])
    <3>1. 1 \in 1 .. m /\ m \in 1 .. m /\ i + (1 - 1) = i
      BY <2>1
    <3> QED BY <1>3, <3>1
  <2>6. /\ Ready(F[i + 1]) /\ F[i + 1].ops = Append(F[i].ops, "(") /\ F[i + 1].out = F[i].out
        /\ Below(F[i + 1].ops, Level(Inside(s)))
    BY <1>2, <1>7, <2>5, ReadsOpening
  <2>7. Read(F[i + 1], Inside(s), F[i + (m - 1)])
    BY <2>2, <2>3, <2>4, <2>6 DEF Means
  <2> QED BY <1>2, <1>7, <2>5, <2>6, <2>7, ReadsClosing, ZenonT(60)
<1>8. CASE ~(m = 1 /\ IsWord(s[1])) /\ c = 0 /\ ~Enclosed(s)
  BY <1>2, <1>4, <1>8 DEF Reading
<1> QED BY <1>5, <1>6, <1>7, <1>8

LEMMA ReadsAll ==
  ASSUME NEW T \in Seq(Token), NEW F,
         \A k \in 0 .. Len(T) - 1 : F[k + 1] = Step(F[k], T[k + 1])
  PROVE  Means(T, F, 0, Len(T))
<1> DEFINE bad == {m \in Nat : \E i \in Nat : i + m <= Len(T) /\ ~Means(T, F, i, i + m)}
<1>1. bad = {}
  <2> SUFFICES ASSUME bad # {} PROVE FALSE
    OBVIOUS
  <2>1. PICK m \in bad : \A n \in bad : m <= n
    <3>1. bad \in SUBSET Nat
      OBVIOUS
    <3> HIDE DEF bad
    <3> QED BY <3>1, LeastNat
  <2>2. PICK i \in Nat : i + m <= Len(T) /\ ~Means(T, F, i, i + m)
    OBVIOUS
  <2>3. \A n \in Nat, j \in Nat : n < m /\ j + n <= Len(T) => Means(T, F, j, j + n)
    <3> SUFFICES ASSUME NEW n \in Nat, NEW j \in Nat, n < m, j + n <= Len(T),
                        ~Means(T, F, j, j + n)
                 PROVE  FALSE
      OBVIOUS
    <3>1. n \in bad /\ m \in Nat
      OBVIOUS
    <3> HIDE DEF bad
    <3> QED BY <2>1, <3>1
  <2>4. m \in Nat
    OBVIOUS
  <2> QED BY <2>2, <2>3, <2>4, ReadsPart
<1>2. Len(T) \in Nat /\ 0 + Len(T) = Len(T)
  OBVIOUS
<1> QED BY <1>1, <1>2

\* The parser (parse_unit_expression: shunting_yard, read_expr, UnitExpr::eval) reads every
\* token sequence that has a meaning as what it means.
THEOREM ParseMeans ==
  ASSUME NEW s \in Seq(Token), Meaning[s] # Error
  PROVE  ParseTokens(s) = Meaning[s]
<1>1. Len(s) \in Nat /\ s # << >>
  <2> SUFFICES ASSUME s = << >> PROVE FALSE
    OBVIOUS
  <2>1. Len(s) = 0
    OBVIOUS
  <2>2. Cut(s) \in 0 .. Len(s)
    BY CutIs
  <2>3. Cut(s) = 0 /\ ~(Len(s) = 1 /\ IsWord(s[1]))
    BY <2>1, <2>2
  <2>4. ~Enclosed(s)
    BY <2>1 DEF Enclosed
  <2>5. Reading(Meaning, s) = Error
    BY <2>3, <2>4 DEF Reading
  <2> QED BY <2>5, MeaningIs
<1>2. PICK F : /\ F[0] = Yard0
               /\ \A k \in 0 .. Len(s) - 1 : F[k + 1] = Step(F[k], s[k + 1])
               /\ FoldLeft(Step, Yard0, s) = F[Len(s)]
  BY YardRuns
<1> DEFINE z == F[Len(s)]
<1>3. Part(s, 0, Len(s)) = s
  BY <1>1 DEF Part
<1>4. Means(s, F, 0, Len(s))
  BY <1>2, ReadsAll
<1>5. Ready(Yard0) /\ Below(Yard0.ops, Level(s)) /\ Yard0.ops = << >> /\ Values(Yard0.out) = << >>
  <2>1. Yard0.out = << >> /\ Yard0.ops = << >> /\ Yard0.ok = TRUE
    BY DEF Yard0
  <2>2. Values(<< >>) \in Seq({})
    <3>1. << >> \in Seq({})
      OBVIOUS
    <3> QED BY <3>1, ValuesOfNone
  <2>3. Yard0 = [out |-> Yard0.out, ops |-> Yard0.ops, ok |-> TRUE]
    BY DEF Yard0
  <2>4. << >> \in Seq(Token)
    OBVIOUS
  <2> QED BY <2>1, <2>2, <2>3, <2>4, ValuesOfNone DEF Ready, Below
<1>6. PICK C : ReadWith(Yard0, s, z, C)
  BY <1>2, <1>3, <1>4, <1>5 DEF Means, Read
<1> HIDE DEF z
<1>7. /\ C \in Seq(Operator) /\ z = [out |-> z.out, ops |-> << >> \o C, ok |-> TRUE]
      /\ z.out \in Seq(Token)
      /\ Values(z.out \o Reverse(C)) = Append(<< >>, Meaning[s])
  BY <1>5, <1>6 DEF ReadWith
<1>8. /\ z.ok = TRUE /\ z.ops = C
      /\ Drain(z, 0) = [out |-> z.out \o Reverse(C), ops |-> << >>, ok |-> TRUE]
  <2>1. << >> \in Seq(Token) /\ Len(<< >>) = 0 /\ << >> \o C = C
    BY <1>7
  <2>2. Drain(z, Len(<< >>)) = [out |-> z.out \o Reverse(C), ops |-> << >>, ok |-> TRUE]
    BY <1>7, <2>1, DrainTo
  <2>3. z.ok = TRUE /\ z.ops = << >> \o C
    BY <1>7
  <2> QED BY <2>1, <2>2, <2>3
<1>9. Opening(z.ops) = 0
  BY <1>7, <1>8, NoOpening
<1>10. ShuntingYard(s) = [ok |-> TRUE, out |-> z.out \o Reverse(C)]
  <2>1. ShuntingYard(s) = Finished(z)
    BY <1>2 DEF ShuntingYard, Yard0, z
  <2>2. Finished(z) = [ok |-> TRUE, out |-> z.out \o Reverse(C)]
    <3>1. (z.ok /\ Opening(z.ops) = 0) = TRUE
      BY <1>8, <1>9
    <3>2. Drain(z, 0).out = z.out \o Reverse(C)
      BY <1>8
    <3> QED BY <3>1, <3>2 DEF Finished
  <2> QED BY <2>1, <2>2
<1>11. Evaluate(ShuntingYard(s)) = TheOne(Append(<< >>, Meaning[s]))
  BY <1>7, <1>10 DEF Evaluate, Values
<1>12. TheOne(Append(<< >>, Meaning[s])) = Meaning[s]
  BY DEF TheOne
<1> QED BY <1>1, <1>11, <1>12 DEF ParseTokens

-----------------------------------------------------------------------------
(* Strings                                                                 *)

LEMMA ScanKeeps ==
  ASSUME NEW toks \in Seq(Token), NEW t \in Token \cup {"blank"}
  PROVE  Scan(toks, t) \in Seq(Token)
<1>1. CASE t = "blank"
  BY <1>1 DEF Scan
<1>2. CASE t # "blank" /\ toks # << >> /\ IsWord(Last(toks)) /\ IsWord(t)
  <2>1. Joined(Last(toks), t) \in Token
    BY DEF Joined, Token
  <2>2. Front(toks) \in Seq(Token)
    <3>1. Len(toks) \in Nat \ {0}
      BY <1>2
    <3>2. SubSeq(toks, 1, Len(toks) - 1) \in Seq(Token)
      BY <3>1
    <3> QED BY <3>2 DEF Front
  <2>3. Scan(toks, t) = Append(Front(toks), Joined(Last(toks), t))
    BY <1>2 DEF Scan
  <2> QED BY <2>1, <2>2, <2>3
<1>3. CASE t # "blank" /\ ~(toks # << >> /\ IsWord(Last(toks)) /\ IsWord(t))
  <2>1. Scan(toks, t) = Append(toks, t) /\ t \in Token
    BY <1>3 DEF Scan
  <2> QED BY <2>1
<1> QED BY <1>1, <1>2, <1>3

LEMMA TokensOfString ==
  ASSUME NEW u \in Seq(Token \cup {"blank"})
  PROVE  Tokenize(u) \in Seq(Token)
<1> DEFINE n == Len(u)
<1>1. PICK F : /\ F[0] = << >>
               /\ \A k \in 0 .. n - 1 : F[k + 1] = Scan(F[k], u[k + 1])
               /\ Tokenize(u) = F[n]
  BY ScanRuns DEF Tokenize
<1> DEFINE bad == {k \in 0 .. n : F[k] \notin Seq(Token)}
<1>2. bad = {}
  <2> SUFFICES ASSUME bad # {} PROVE FALSE
    OBVIOUS
  <2>1. PICK m \in bad : \A j \in bad : m <= j
    <3>1. bad \in SUBSET Nat
      OBVIOUS
    <3> HIDE DEF bad
    <3> QED BY <3>1, LeastNat
  <2>2. m \in 0 .. n /\ m # 0 /\ F[m] \notin Seq(Token)
    <3>1. << >> \in Seq(Token)
      OBVIOUS
    <3> QED BY <1>1, <3>1
  <2>3. m - 1 \in 0 .. n - 1 /\ m - 1 \in 0 .. n /\ m - 1 + 1 = m /\ m \in 1 .. n /\ ~(m <= m - 1)
    BY <2>2
  <2>4. m - 1 \notin bad
    <3> HIDE DEF bad
    <3> QED BY <2>1, <2>3
  <2>5. F[m - 1] \in Seq(Token)
    BY <2>3, <2>4
  <2>6. F[m] = Scan(F[m - 1], u[m])
    BY <1>1, <2>3
  <2>7. u[m] \in Token \cup {"blank"}
    BY <2>3
  <2> QED BY <2>2, <2>5, <2>6, <2>7, ScanKeeps
<1>3. n \in 0 .. n
  OBVIOUS
<1> QED BY <1>1, <1>2, <1>3

Sized(v) == v = [size |-> v.size, dim |-> v.dim] /\ v.size \in [Basis -> Int]

LEMMA PureSized == ASSUME NEW b \in Basis, NEW n \in Int PROVE Sized(Pure(b, n))
BY DEF Pure, Sized

LEMMA DimSized ==
  ASSUME NEW v, Sized(v), NEW l, NEW t, NEW m
  PROVE  Sized(Dim(v, l, t, m))
BY DEF Sized, Dim

LEMMA TimesSized ==
  ASSUME NEW v, Sized(v), NEW w, Sized(w)
  PROVE  Sized(Times(v, w))
BY DEF Sized, Times

LEMMA SizedIs ==
  ASSUME NEW v, Sized(v)
  PROVE  v # Error /\ v.size \in [Basis -> Int]
<1>1. DOMAIN v = {"size", "dim"} /\ DOMAIN Error = {"size"}
  BY DEF Sized, Error
<1> QED BY <1>1 DEF Sized

\* A unit of the table reads as itself.
LEMMA ParseOfUnit ==
  ASSUME NEW w \in DOMAIN Units
  PROVE  Parse(<<w>>) = Units[w] /\ Units[w] # Error /\ Units[w].size \in [Basis -> Int]
<1>1. w \in {"angstrom", "nm", "ev", "kcal", "mol"} /\ w \in Token /\ IsWord(w) /\ w # "blank"
  BY DEF Units, Token, IsWord, Operator
<1>2. Tokenize(<<w>>) = <<w>>
  <2>1. <<w>> \in Seq(Token) /\ Len(<<w>>) = 1 /\ <<w>>[1] = w /\ 0 \in 0 .. 1 - 1
    BY <1>1
  <2>2. PICK F : /\ F[0] = << >>
                 /\ \A k \in 0 .. 1 - 1 : F[k + 1] = Scan(F[k], <<w>>[k + 1])
                 /\ Tokenize(<<w>>) = F[1]
    BY <2>1, ScanRuns DEF Tokenize
  <2>3. F[1] = Scan(<< >>, w)
    BY <2>1, <2>2
  <2>4. Scan(<< >>, w) = <<w>>
    BY <1>1 DEF Scan
  <2> QED BY <2>2, <2>3, <2>4
<1>3. Meaning[<<w>>] = Units[w]
  <2>1. <<w>> \in Seq(Token) /\ Len(<<w>>) = 1 /\ <<w>>[1] = w
    BY <1>1
  <2>2. Reading(Meaning, <<w>>) = WordValue(w)
    BY <1>1, <2>1 DEF Reading
  <2> QED BY <2>1, <2>2, MeaningIs DEF WordValue
<1>4. Units[w] # Error /\ Units[w].size \in [Basis -> Int]
  <2>1. "10" \in Basis /\ "e" \in Basis /\ "Na" \in Basis /\ "cal" \in Basis
        /\ -10 \in Int /\ -9 \in Int
    BY DEF Basis
  <2>2. /\ Sized(Pure("10", -10)) /\ Sized(Pure("10", -9)) /\ Sized(Pure("e", 1))
        /\ Sized(Times(Pure("cal", 1), Pure("10", 3))) /\ Sized(Pure("Na", 1))
    BY <2>1, PureSized, TimesSized
  <2>3. /\ Sized(Units["angstrom"]) /\ Sized(Units["nm"]) /\ Sized(Units["ev"])
        /\ Sized(Units["kcal"]) /\ Sized(Units["mol"])
    BY <2>2, DimSized DEF Units, Length, Energy
  <2>4. Sized(Units[w])
    BY <1>1, <2>3
  <2> QED BY <2>4, SizedIs
<1> QED
  <2>1. <<w>> \in Seq(Token) /\ <<w>> # << >>
    BY <1>1
  <2> QED BY <1>2, <1>3, <1>4, <2>1, ParseMeans DEF Parse
=============================================================================
