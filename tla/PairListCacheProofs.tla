------------------------- MODULE PairListCacheProofs -------------------------
(***************************************************************************)
(* The pair list pool for every number of threads and slots, every host    *)
(* and every geometry: eviction is of the least recently used, and every   *)
(* result is that of a fresh scan.  The latter rests on the geometry of    *)
(* the pool: rounding, the triangle inequality, the bounded search of      *)
(* tilted boxes, stored images and the cell grid.                          *)
(***************************************************************************)
EXTENDS PairListCache, SequenceTheorems, FiniteSetTheorems,
        WellFoundedInduction, TLAPS

Content(s) == {s[k] : k \in DOMAIN s}
NoRepeat(s) == \A j, k \in 1 .. Len(s) : s[j].id = s[k].id => j = k

\* The pool: a slot has been used since the last use of every slot behind it, and
\* the slots that a missing one was behind are at least as many as the pool holds.
PoolInv ==
  /\ slots \in Seq(Content(slots)) /\ Len(slots) <= MaxSlots /\ NoRepeat(slots)
  /\ \A k \in 1 .. Len(slots) : slots[k].id \in DOMAIN since
  /\ \A k \in 1 .. Len(slots) : \A j \in 1 .. k - 1 : slots[j].id \in since[slots[k].id]
  /\ \A x \in DOMAIN since :
       (\E k \in 1 .. Len(slots) : slots[k].id = x) \/ Cardinality(since[x]) >= MaxSlots

\* A slot that is being built is known to its thread only.
Building(t) == pc[t] \in {"capture", "scan", "store"}

FreshInv ==
  /\ made \in Nat
  /\ pc \in [Thread -> {"idle", "read", "capture", "scan", "store"}]
  /\ DOMAIN req = Thread /\ DOMAIN hit = Thread /\ DOMAIN fresh = Thread
  /\ \A x \in DOMAIN since : x \in 1 .. made /\ since[x] \subseteq 1 .. made
  /\ \A t \in Thread : Building(t) =>
       /\ fresh[t].id \in 1 .. made
       /\ fresh[t].id \notin DOMAIN since
       /\ \A x \in DOMAIN since : fresh[t].id \notin since[x]
       /\ \A u \in Thread : Building(u) /\ fresh[u].id = fresh[t].id => u = t

IInv == PoolInv /\ FreshInv

-----------------------------------------------------------------------------
(* Lemmas about the sequence of slots.                                     *)

\* Erasing a slot.
LEMMA Removed ==
  ASSUME NEW S, NEW s \in Seq(S), NEW k \in 1 .. Len(s)
  PROVE  /\ RemoveAt(s, k) \in Seq(S) /\ Len(RemoveAt(s, k)) = Len(s) - 1
         /\ \A i \in 1 .. Len(s) - 1 : RemoveAt(s, k)[i] = s[IF i < k THEN i ELSE i + 1]
<1> DEFINE u == SubSeq(s, 1, k - 1)
           v == SubSeq(s, k + 1, Len(s))
<1>1. Len(s) \in Nat /\ k \in Nat /\ 1 <= k /\ k <= Len(s)
  OBVIOUS
<1>2. u \in Seq(S) /\ Len(u) = k - 1 /\ \A i \in 1 .. k - 1 : u[i] = s[i]
  <2>1. 1 \in 1 .. Len(s) + 1 /\ k - 1 \in 0 .. Len(s)
    BY <1>1
  <2>2. /\ u \in Seq(S) /\ Len(u) = IF 1 <= k - 1 THEN (k - 1) - 1 + 1 ELSE 0
        /\ \A i \in 1 .. (k - 1) - 1 + 1 : u[i] = s[1 + i - 1]
    BY <2>1, SubSeqProperties
  <2> QED BY <1>1, <2>2
<1>3. v \in Seq(S) /\ Len(v) = Len(s) - k /\ \A i \in 1 .. Len(s) - k : v[i] = s[k + i]
  <2>1. k + 1 \in 1 .. Len(s) + 1 /\ Len(s) \in 0 .. Len(s)
    BY <1>1
  <2>2. /\ v \in Seq(S) /\ Len(v) = IF k + 1 <= Len(s) THEN Len(s) - (k + 1) + 1 ELSE 0
        /\ \A i \in 1 .. Len(s) - (k + 1) + 1 : v[i] = s[(k + 1) + i - 1]
    BY <2>1, SubSeqProperties
  <2>3. Len(v) = Len(s) - k
    BY <1>1, <2>2
  <2>4. ASSUME NEW i \in 1 .. Len(s) - k PROVE v[i] = s[k + i]
    <3>1. i \in 1 .. Len(s) - (k + 1) + 1 /\ (k + 1) + i - 1 = k + i
      BY <1>1, <2>4
    <3> QED BY <2>2, <3>1
  <2> QED BY <2>2, <2>3, <2>4
<1> HIDE DEF u, v
<1>4. /\ u \o v \in Seq(S) /\ Len(u \o v) = Len(u) + Len(v)
      /\ \A i \in 1 .. Len(u) + Len(v) : (u \o v)[i] = IF i <= Len(u) THEN u[i] ELSE v[i - Len(u)]
  BY <1>2, <1>3, ConcatProperties
<1>5. ASSUME NEW i \in 1 .. Len(s) - 1
      PROVE  (u \o v)[i] = s[IF i < k THEN i ELSE i + 1]
  <2>1. CASE i < k
    <3>1. i \in 1 .. Len(u) + Len(v) /\ i <= Len(u) /\ i \in 1 .. k - 1
      BY <1>1, <1>2, <1>3, <1>5, <2>1
    <3> QED BY <1>2, <1>4, <2>1, <3>1
  <2>2. CASE ~(i < k)
    <3>1. /\ i \in 1 .. Len(u) + Len(v) /\ ~(i <= Len(u))
          /\ i - Len(u) \in 1 .. Len(s) - k /\ k + (i - Len(u)) = i + 1
      BY <1>1, <1>2, <1>3, <1>5, <2>2
    <3> QED BY <1>3, <1>4, <2>2, <3>1
  <2> QED BY <2>1, <2>2
<1>6. Len(u) + Len(v) = Len(s) - 1
  BY <1>1, <1>2, <1>3
<1> QED BY <1>4, <1>5, <1>6 DEF RemoveAt, u, v

\* Putting a slot at the front.
LEMMA Fronted ==
  ASSUME NEW S, NEW s \in Seq(S), NEW x \in S
  PROVE  /\ <<x>> \o s \in Seq(S) /\ Len(<<x>> \o s) = Len(s) + 1
         /\ (<<x>> \o s)[1] = x
         /\ \A i \in 2 .. Len(s) + 1 : (<<x>> \o s)[i] = s[i - 1]
<1>1. <<x>> \in Seq(S) /\ Len(<<x>>) = 1 /\ <<x>>[1] = x /\ Len(s) \in Nat
  OBVIOUS
<1>2. /\ <<x>> \o s \in Seq(S) /\ Len(<<x>> \o s) = 1 + Len(s)
      /\ \A i \in 1 .. 1 + Len(s) : (<<x>> \o s)[i] = IF i <= 1 THEN <<x>>[i] ELSE s[i - 1]
  BY <1>1, ConcatProperties
<1> QED BY <1>1, <1>2

\* A sequence is one over its content.
LEMMA OverContent ==
  ASSUME NEW S, NEW s \in Seq(S)
  PROVE  s \in Seq(Content(s)) /\ DOMAIN s = 1 .. Len(s) /\ Len(s) \in Nat
<1>1. /\ s = [k \in 1 .. Len(s) |-> s[k]] /\ Len(s) \in Nat /\ DOMAIN s = 1 .. Len(s)
      /\ \A k \in 1 .. Len(s) : s[k] \in Content(s)
  BY DEF Content
<1>2. [k \in 1 .. Len(s) |-> s[k]] \in Seq(Content(s))
  BY <1>1, IsASeq
<1> QED BY <1>1, <1>2

LEMMA Smallest ==
  ASSUME NEW T \in SUBSET Nat, T # {}
  PROVE  \E x \in T : \A y \in T : x <= y
<1> DEFINE R == {p \in Nat \X Nat : p[1] < p[2]}
<1>1. R = OpToRel(<, Nat)
  BY DEF OpToRel
<1>2. IsWellFoundedOn(R, Nat)
  BY <1>1, NatLessThanWellFounded, Zenon
<1>3. PICK x \in T : \A y \in T : ~ (<<y, x>> \in R)
  BY <1>2, WFMin
<1>4. \A y \in T : ~(y < x)
  BY <1>3
<1> QED BY <1>4

\* A lookup that finds a slot moves a valid one.
LEMMA FirstMatches ==
  ASSUME PoolInv, NEW q, Matches(q) # {}
  PROVE  First(q) \in 1 .. Len(slots) /\ Valid(slots[First(q)], q)
<1>1. DOMAIN slots = 1 .. Len(slots) /\ Len(slots) \in Nat
  BY OverContent DEF PoolInv
<1>2. Matches(q) \in SUBSET Nat
  BY <1>1 DEF Matches
<1>3. \E k \in Matches(q) : \A l \in Matches(q) : k <= l
  BY <1>2, Smallest
<1>4. First(q) \in Matches(q)
  BY <1>3 DEF First
<1> QED BY <1>1, <1>4 DEF Matches

-----------------------------------------------------------------------------
(* The invariant, step by step.                                            *)

\* Moving a slot to the front.
LEMMA HitStep ==
  ASSUME IInv, NEW t \in Thread, LookupHit(t)
  PROVE  PoolInv' /\ slots' \in Seq(Content(slots))
<1>1. PICK q \in offer.asks :
        /\ Matches(q) # {}
        /\ slots' = ToFront(First(q))
        /\ since' = Used(slots[First(q)].id)
  BY DEF LookupHit
<1> DEFINE k == First(q)
           s == slots[k]
           S == Content(slots)
<1>2. k \in 1 .. Len(slots)
  BY <1>1, FirstMatches DEF IInv
<1>3. /\ slots \in Seq(S) /\ Len(slots) \in Nat /\ DOMAIN slots = 1 .. Len(slots)
      /\ s \in S /\ Len(slots) <= MaxSlots /\ MaxSlots \in Nat
  BY <1>2, OverContent, PoolAssumption DEF IInv, PoolInv, Content
<1>4. /\ since' = [x \in DOMAIN since |-> IF x = s.id THEN {} ELSE since[x] \cup {s.id}]
      /\ slots' = <<s>> \o RemoveAt(slots, k)
  BY <1>1 DEF Used, ToFront
<1> HIDE DEF k, s, S
<1> DEFINE old(i) == IF i = 1 THEN k ELSE IF i - 1 < k THEN i - 1 ELSE i
<1>5. /\ slots' \in Seq(S) /\ Len(slots') = Len(slots)
      /\ \A i \in 1 .. Len(slots) : old(i) \in 1 .. Len(slots) /\ slots'[i] = slots[old(i)]
  <2>1. /\ RemoveAt(slots, k) \in Seq(S) /\ Len(RemoveAt(slots, k)) = Len(slots) - 1
        /\ \A i \in 1 .. Len(slots) - 1 :
             RemoveAt(slots, k)[i] = slots[IF i < k THEN i ELSE i + 1]
    BY <1>2, <1>3, Removed
  <2>2. /\ slots' \in Seq(S) /\ Len(slots') = (Len(slots) - 1) + 1
        /\ slots'[1] = s
        /\ \A i \in 2 .. (Len(slots) - 1) + 1 : slots'[i] = RemoveAt(slots, k)[i - 1]
    <3> DEFINE rest == RemoveAt(slots, k)
    <3>1. slots' = <<s>> \o rest /\ rest \in Seq(S) /\ Len(rest) = Len(slots) - 1 /\ s \in S
      BY <1>3, <1>4, <2>1
    <3> HIDE DEF rest
    <3>2. /\ slots' \in Seq(S) /\ Len(slots') = Len(rest) + 1 /\ slots'[1] = s
          /\ \A i \in 2 .. Len(rest) + 1 : slots'[i] = rest[i - 1]
      BY <3>1, Fronted
    <3> QED BY <3>1, <3>2 DEF rest
  <2>3. ASSUME NEW i \in 1 .. Len(slots)
        PROVE  old(i) \in 1 .. Len(slots) /\ slots'[i] = slots[old(i)]
    <3>1. CASE i = 1
      BY <1>2, <2>2, <3>1 DEF s
    <3>2. CASE i # 1
      <4>1. i - 1 \in 1 .. Len(slots) - 1 /\ i \in 2 .. (Len(slots) - 1) + 1
        BY <1>3, <2>3, <3>2
      <4>2. slots'[i] = slots[IF i - 1 < k THEN i - 1 ELSE (i - 1) + 1]
        BY <2>1, <2>2, <4>1
      <4> QED BY <1>2, <1>3, <3>2, <4>1, <4>2
    <3> QED BY <3>1, <3>2
  <2>4. slots' \in Seq(S) /\ Len(slots') = Len(slots)
    BY <1>3, <2>2
  <2> HIDE DEF old
  <2> QED BY <2>3, <2>4
<1>6. \A i, j \in 1 .. Len(slots) : old(i) = old(j) => i = j
  BY <1>2, <1>3
<1>7. \A i \in 1 .. Len(slots) : \A j \in 1 .. i - 1 : j = 1 \/ old(j) \in 1 .. old(i) - 1
  BY <1>2, <1>3
<1>8. \A i \in 1 .. Len(slots) : i # 1 => old(i) # k
  BY <1>2, <1>3
<1>9. slots' \in Seq(Content(slots')) /\ DOMAIN slots' = 1 .. Len(slots)
  BY <1>5, OverContent
<1> HIDE DEF old
<1>10. ASSUME NEW i \in 1 .. Len(slots)
       PROVE  slots'[i].id \in DOMAIN since /\ slots'[i] = slots[old(i)]
              /\ (i # 1 => slots'[i].id # s.id)
  <2>1. old(i) \in 1 .. Len(slots) /\ slots'[i] = slots[old(i)] /\ (i # 1 => old(i) # k)
    BY <1>5, <1>8
  <2>2. \A a \in 1 .. Len(slots) : slots[a].id \in DOMAIN since
    BY DEF IInv, PoolInv
  <2>3. \A a, b \in 1 .. Len(slots) : slots[a].id = slots[b].id => a = b
    BY <1>3 DEF IInv, PoolInv, NoRepeat
  <2> QED BY <1>2, <2>1, <2>2, <2>3 DEF s
<1>11. NoRepeat(slots')
  <2>1. \A a, b \in 1 .. Len(slots) : slots[a].id = slots[b].id => a = b
    BY <1>3 DEF IInv, PoolInv, NoRepeat
  <2>2. ASSUME NEW i \in 1 .. Len(slots), NEW j \in 1 .. Len(slots), slots'[i].id = slots'[j].id
        PROVE  i = j
    <3>1. /\ old(i) \in 1 .. Len(slots) /\ old(j) \in 1 .. Len(slots)
          /\ slots[old(i)].id = slots[old(j)].id
      BY <1>5, <2>2
    <3> QED BY <1>6, <2>1, <3>1
  <2> QED BY <1>5, <2>2 DEF NoRepeat
<1>12. ASSUME NEW i \in 1 .. Len(slots), NEW j \in 1 .. i - 1
       PROVE  slots'[j].id \in since'[slots'[i].id]
  <2>1. i # 1 /\ j \in 1 .. Len(slots)
    BY <1>3, <1>12
  <2>2. since'[slots'[i].id] = since[slots[old(i)].id] \cup {s.id}
    BY <1>4, <1>10, <2>1
  <2>3. CASE j = 1
    BY <1>5, <2>1, <2>2, <2>3 DEF old, s
  <2>4. CASE j # 1
    <3>1. old(j) \in 1 .. old(i) - 1 /\ old(i) \in 1 .. Len(slots)
      BY <1>5, <1>7, <2>4
    <3>2. slots[old(j)].id \in since[slots[old(i)].id]
      BY <3>1 DEF IInv, PoolInv
    <3> QED BY <1>10, <2>1, <2>2, <3>2
  <2> QED BY <2>3, <2>4
<1>13. ASSUME NEW x \in DOMAIN since
       PROVE  (\E i \in 1 .. Len(slots) : slots'[i].id = x) \/ Cardinality(since'[x]) >= MaxSlots
  <2>1. CASE \E i \in 1 .. Len(slots) : slots[i].id = x
    <3>1. PICK i \in 1 .. Len(slots) : slots[i].id = x
      BY <2>1
    <3>2. \E j \in 1 .. Len(slots) : old(j) = i
      <4> DEFINE j == IF i = k THEN 1 ELSE IF i < k THEN i + 1 ELSE i
      <4>1. j \in 1 .. Len(slots) /\ old(j) = i
        BY <1>2, <1>3 DEF old
      <4> QED BY <4>1
    <3> QED BY <1>5, <3>1, <3>2
  <2>2. CASE \A i \in 1 .. Len(slots) : slots[i].id # x
    <3>1. Cardinality(since[x]) >= MaxSlots /\ since[x] \subseteq 1 .. made /\ made \in Nat
      BY <2>2 DEF IInv, PoolInv, FreshInv
    <3>2. since'[x] = since[x] \cup {s.id}
      BY <1>2, <1>4, <2>2 DEF s
    <3>3. IsFiniteSet(since[x])
      <4>1. IsFiniteSet(1 .. made)
        BY <3>1, FS_Interval
      <4> QED BY <3>1, <4>1, FS_Subset
    <3>4. Cardinality(since[x]) \in Nat /\ Cardinality(since'[x]) \in {Cardinality(since[x]), Cardinality(since[x]) + 1}
      BY <3>2, <3>3, FS_AddElement, FS_CardinalityType
    <3> QED BY <1>3, <3>1, <3>4
  <2> QED BY <2>1, <2>2
<1>14. DOMAIN since' = DOMAIN since
  BY <1>4
<1>15. PoolInv'
  BY <1>3, <1>5, <1>9, <1>10, <1>11, <1>12, <1>13, <1>14 DEF PoolInv
<1> QED BY <1>5, <1>15 DEF S

\* The slots that stay when a phantom is replaced, in their order.
LEMMA Rest ==
  ASSUME PoolInv, NEW gone
  PROVE  LET rest == Without(gone) IN
         /\ rest \in Seq(Content(slots)) /\ Len(rest) <= Len(slots) /\ NoRepeat(rest)
         /\ \A i \in 1 .. Len(rest) : rest[i].id \in DOMAIN since /\ rest[i].id # gone
         /\ \A i \in 1 .. Len(rest) : \A j \in 1 .. i - 1 : rest[j].id \in since[rest[i].id]
         /\ \A i \in 1 .. Len(slots) :
              slots[i].id # gone => \E j \in 1 .. Len(rest) : rest[j] = slots[i]
<1>1. slots \in Seq(Content(slots)) /\ DOMAIN slots = 1 .. Len(slots) /\ Len(slots) \in Nat
  BY OverContent DEF PoolInv
<1>2. CASE ~\E k \in 1 .. Len(slots) : slots[k].id = gone
  <2>1. Without(gone) = slots
    BY <1>1, <1>2 DEF Without
  <2> QED BY <1>1, <1>2, <2>1 DEF PoolInv
<1>3. ASSUME NEW n \in 1 .. Len(slots), slots[n].id = gone
      PROVE  \E k \in 1 .. Len(slots) : slots[k].id = gone /\ Without(gone) = RemoveAt(slots, k)
  <2> DEFINE k == CHOOSE k \in DOMAIN slots : slots[k].id = gone
  <2>1. k \in DOMAIN slots /\ slots[k].id = gone
    BY <1>1, <1>3
  <2>2. Without(gone) = RemoveAt(slots, k)
    BY <1>1, <1>3 DEF Without
  <2> HIDE DEF k
  <2> QED BY <1>1, <2>1, <2>2
<1>4. ASSUME NEW k \in 1 .. Len(slots), slots[k].id = gone, Without(gone) = RemoveAt(slots, k)
      PROVE  LET rest == Without(gone) IN
         /\ rest \in Seq(Content(slots)) /\ Len(rest) <= Len(slots) /\ NoRepeat(rest)
         /\ \A i \in 1 .. Len(rest) : rest[i].id \in DOMAIN since /\ rest[i].id # gone
         /\ \A i \in 1 .. Len(rest) : \A j \in 1 .. i - 1 : rest[j].id \in since[rest[i].id]
         /\ \A i \in 1 .. Len(slots) :
              slots[i].id # gone => \E j \in 1 .. Len(rest) : rest[j] = slots[i]
  <2> DEFINE rest == Without(gone)
             old(i) == IF i < k THEN i ELSE i + 1
  <2>1. /\ rest \in Seq(Content(slots)) /\ Len(rest) = Len(slots) - 1
        /\ \A i \in 1 .. Len(slots) - 1 : rest[i] = slots[old(i)]
    BY <1>1, <1>4, Removed
  <2>2. /\ \A i \in 1 .. Len(slots) - 1 : old(i) \in 1 .. Len(slots) /\ old(i) # k
        /\ \A i, j \in 1 .. Len(slots) - 1 : old(i) = old(j) => i = j
        /\ \A i \in 1 .. Len(slots) - 1 : \A j \in 1 .. i - 1 :
             j \in 1 .. Len(slots) - 1 /\ old(j) \in 1 .. old(i) - 1
        /\ \A i \in 1 .. Len(slots) : i # k => \E j \in 1 .. Len(slots) - 1 : old(j) = i
    <3>1. ASSUME NEW i \in 1 .. Len(slots), i # k
          PROVE  \E j \in 1 .. Len(slots) - 1 : old(j) = i
      <4> DEFINE j == IF i < k THEN i ELSE i - 1
      <4>1. j \in 1 .. Len(slots) - 1 /\ old(j) = i
        BY <1>1, <3>1
      <4> QED BY <4>1
    <3> QED BY <1>1, <3>1
  <2> HIDE DEF rest, old
  <2>3. /\ \A i \in 1 .. Len(slots) - 1 : rest[i].id \in DOMAIN since /\ rest[i].id # gone
    BY <1>4, <2>1, <2>2, SMTT(30) DEF PoolInv, NoRepeat
  <2>4. NoRepeat(rest)
    <3>1. ASSUME NEW i \in 1 .. Len(slots) - 1, NEW j \in 1 .. Len(slots) - 1,
                 rest[i].id = rest[j].id
          PROVE  i = j
      <4>1. old(i) \in 1 .. Len(slots) /\ old(j) \in 1 .. Len(slots)
            /\ slots[old(i)].id = slots[old(j)].id
        BY <2>1, <2>2, <3>1
      <4>2. old(i) = old(j)
        BY <4>1 DEF PoolInv, NoRepeat
      <4> QED BY <2>2, <4>2
    <3> QED BY <2>1, <3>1 DEF NoRepeat
  <2>5. \A i \in 1 .. Len(slots) - 1 : \A j \in 1 .. i - 1 : rest[j].id \in since[rest[i].id]
    <3>1. SUFFICES ASSUME NEW i \in 1 .. Len(slots) - 1, NEW j \in 1 .. i - 1
                   PROVE  rest[j].id \in since[rest[i].id]
      OBVIOUS
    <3>2. /\ old(i) \in 1 .. Len(slots) /\ old(j) \in 1 .. old(i) - 1
          /\ rest[i] = slots[old(i)] /\ rest[j] = slots[old(j)]
      BY <2>1, <2>2, <3>1
    <3> QED BY <3>2 DEF PoolInv
  <2>6. \A i \in 1 .. Len(slots) :
          slots[i].id # gone => \E j \in 1 .. Len(slots) - 1 : rest[j] = slots[i]
    BY <1>4, <2>1, <2>2
  <2>7. Len(rest) <= Len(slots)
    BY <1>1, <2>1
  <2>8. /\ \A i \in 1 .. Len(rest) : rest[i].id \in DOMAIN since /\ rest[i].id # gone
        /\ \A i \in 1 .. Len(rest) : \A j \in 1 .. i - 1 : rest[j].id \in since[rest[i].id]
        /\ \A i \in 1 .. Len(slots) :
             slots[i].id # gone => \E j \in 1 .. Len(rest) : rest[j] = slots[i]
    <3> DEFINE n == Len(slots) - 1
    <3> HIDE DEF n
    <3>1. Len(rest) = n
      BY <2>1 DEF n
    <3>2. /\ \A i \in 1 .. n : rest[i].id \in DOMAIN since /\ rest[i].id # gone
          /\ \A i \in 1 .. n : \A j \in 1 .. i - 1 : rest[j].id \in since[rest[i].id]
          /\ \A i \in 1 .. Len(slots) :
               slots[i].id # gone => \E j \in 1 .. n : rest[j] = slots[i]
      BY <2>3, <2>5, <2>6, Zenon DEF n
    <3> QED BY <3>1, <3>2, Zenon
  <2> QED BY <2>1, <2>4, <2>7, <2>8, Zenon DEF rest
<1> QED BY <1>2, <1>3, <1>4

\* Storing a slot, and evicting the last one if the pool was full.
LEMMA StoreStep ==
  ASSUME IInv, NEW t \in Thread, Store(t)
  PROVE  PoolInv' /\ slots' \in Seq(Content(slots) \cup {fresh[t]})
<1> DEFINE gone == hit[t].id
           f    == fresh[t]
           id   == f.id
           rest == Without(gone)
           all  == <<f>> \o rest
           S    == Content(slots) \cup {f}
<1>1. /\ id \in 1 .. made /\ id \notin DOMAIN since /\ \A x \in DOMAIN since : id \notin since[x]
      /\ made \in Nat /\ \A x \in DOMAIN since : x \in 1 .. made /\ since[x] \subseteq 1 .. made
  BY DEF IInv, FreshInv, Building, Store
<1>2. /\ slots' = Evict(all)
      /\ since' = [x \in (DOMAIN since \ {gone}) \cup {id} |->
                     IF x = id THEN {} ELSE (since[x] \ {gone}) \cup {id}]
  BY DEF Store
<1>3. MaxSlots \in Nat \ {0} /\ Len(slots) \in Nat /\ Len(slots) <= MaxSlots
      /\ slots \in Seq(Content(slots))
  BY OverContent, PoolAssumption DEF IInv, PoolInv
<1>4. /\ rest \in Seq(Content(slots)) /\ Len(rest) <= Len(slots) /\ NoRepeat(rest)
      /\ \A i \in 1 .. Len(rest) : rest[i].id \in DOMAIN since /\ rest[i].id # gone
      /\ \A i \in 1 .. Len(rest) : \A j \in 1 .. i - 1 : rest[j].id \in since[rest[i].id]
      /\ \A i \in 1 .. Len(slots) :
           slots[i].id # gone => \E j \in 1 .. Len(rest) : rest[j] = slots[i]
  BY Rest DEF IInv
<1> HIDE DEF gone, f, rest
<1>5. rest \in Seq(S) /\ f \in S /\ Len(rest) \in Nat /\ Len(rest) <= MaxSlots
  <2>1. Content(slots) \subseteq S
    OBVIOUS
  <2> HIDE DEF S
  <2>2. rest \in Seq(S)
    BY <1>4, <2>1, SeqMonotonic
  <2> QED BY <1>3, <1>4, <2>2 DEF S
<1> HIDE DEF S
<1>6. /\ all \in Seq(S) /\ Len(all) = Len(rest) + 1 /\ all[1] = f
      /\ \A i \in 2 .. Len(rest) + 1 : all[i] = rest[i - 1]
  BY <1>5, Fronted
<1> HIDE DEF all
<1>7. /\ slots' \in Seq(S) /\ Len(slots') \in Nat /\ Len(slots') <= MaxSlots
      /\ Len(slots') = IF Len(all) > MaxSlots THEN MaxSlots ELSE Len(all)
      /\ \A i \in 1 .. Len(slots') : slots'[i] = all[i]
  <2>1. CASE Len(all) > MaxSlots
    <3>1. slots' = SubSeq(all, 1, MaxSlots)
      BY <1>2, <2>1 DEF Evict
    <3>2. 1 \in 1 .. Len(all) + 1 /\ MaxSlots \in 0 .. Len(all)
      BY <1>3, <1>5, <1>6, <2>1
    <3>3. /\ SubSeq(all, 1, MaxSlots) \in Seq(S)
          /\ Len(SubSeq(all, 1, MaxSlots)) = IF 1 <= MaxSlots THEN MaxSlots - 1 + 1 ELSE 0
          /\ \A i \in 1 .. MaxSlots - 1 + 1 : SubSeq(all, 1, MaxSlots)[i] = all[1 + i - 1]
      BY <1>6, <3>2, SubSeqProperties
    <3> QED BY <1>3, <2>1, <3>1, <3>3
  <2>2. CASE ~(Len(all) > MaxSlots)
    <3>1. slots' = all
      BY <1>2, <2>2 DEF Evict
    <3> QED BY <1>3, <1>5, <1>6, <2>2, <3>1
  <2> QED BY <2>1, <2>2
<1>8. slots' \in Seq(Content(slots')) /\ DOMAIN slots' = 1 .. Len(slots')
  BY <1>7, OverContent
<1>9. \A i \in 1 .. Len(all) : i # 1 => i - 1 \in 1 .. Len(rest) /\ all[i] = rest[i - 1]
  BY <1>5, <1>6
<1>10. NoRepeat(all)
  <2>1. ASSUME NEW i \in 1 .. Len(all), i # 1 PROVE all[i].id # id
    <3>1. i - 1 \in 1 .. Len(rest) /\ all[i] = rest[i - 1]
      BY <1>9, <2>1
    <3>2. rest[i - 1].id \in DOMAIN since
      BY <1>4, <3>1
    <3> QED BY <1>1, <3>1, <3>2
  <2>2. ASSUME NEW i \in 1 .. Len(all), NEW j \in 1 .. Len(all), all[i].id = all[j].id
        PROVE  i = j
    <3>1. CASE i = 1 \/ j = 1
      BY <1>6, <2>1, <2>2, <3>1
    <3>2. CASE i # 1 /\ j # 1
      <4>1. /\ i - 1 \in 1 .. Len(rest) /\ j - 1 \in 1 .. Len(rest)
            /\ rest[i - 1].id = rest[j - 1].id
        BY <1>9, <2>2, <3>2
      <4>2. i - 1 = j - 1
        BY <1>4, <4>1 DEF NoRepeat
      <4> QED BY <1>5, <1>6, <4>2
    <3> QED BY <3>1, <3>2
  <2> QED BY <2>2 DEF NoRepeat
<1>11. ASSUME NEW i \in 1 .. Len(all)
       PROVE  all[i].id \in DOMAIN since' /\ \A j \in 1 .. i - 1 : all[j].id \in since'[all[i].id]
  <2>1. CASE i = 1
    <3>1. all[i].id = id /\ 1 .. i - 1 = {}
      BY <1>6, <2>1
    <3> QED BY <1>2, <3>1
  <2>2. CASE i # 1
    <3>1. /\ i - 1 \in 1 .. Len(rest) /\ all[i] = rest[i - 1]
          /\ all[i].id \in DOMAIN since /\ all[i].id # gone
      BY <1>4, <1>9, <2>2
    <3>2. since'[all[i].id] = (since[all[i].id] \ {gone}) \cup {id}
      BY <1>1, <1>2, <3>1
    <3>3. ASSUME NEW j \in 1 .. i - 1
          PROVE  all[j].id \in since'[all[i].id]
      <4>1. CASE j = 1
        BY <1>6, <3>2, <4>1
      <4>2. CASE j # 1
        <5>1. j \in 1 .. Len(all) /\ j - 1 \in 1 .. (i - 1) - 1
          BY <1>5, <1>6, <3>3, <4>2
        <5>2. all[j] = rest[j - 1] /\ j - 1 \in 1 .. Len(rest)
          BY <1>9, <4>2, <5>1
        <5>3. all[j].id \in since[all[i].id] /\ all[j].id # gone
          BY <1>4, <3>1, <5>1, <5>2
        <5> QED BY <3>2, <5>3
      <4> QED BY <4>1, <4>2
    <3> QED BY <1>2, <3>1, <3>3
  <2> QED BY <2>1, <2>2
<1>12. \A i \in 1 .. Len(slots') : i \in 1 .. Len(all)
  BY <1>3, <1>5, <1>6, <1>7
<1>13. ASSUME NEW x \in DOMAIN since'
       PROVE  (\E i \in 1 .. Len(slots') : slots'[i].id = x) \/ Cardinality(since'[x]) >= MaxSlots
  <2>1. CASE x = id
    <3>1. 1 \in 1 .. Len(slots') /\ 1 \in 1 .. Len(all)
      BY <1>3, <1>5, <1>6, <1>7
    <3> QED BY <1>6, <1>7, <2>1, <3>1
  <2>2. CASE x # id
    <3>1. x \in DOMAIN since /\ x # gone /\ since'[x] = (since[x] \ {gone}) \cup {id}
      BY <1>2, <2>2
    <3>2. IsFiniteSet(since[x])
      <4>1. IsFiniteSet(1 .. made)
        BY <1>1, FS_Interval
      <4> QED BY <1>1, <3>1, <4>1, FS_Subset
    <3>3. IsFiniteSet(since[x] \ {gone}) /\ Cardinality(since[x] \ {gone}) \in Nat
          /\ Cardinality(since[x] \ {gone}) >= Cardinality(since[x]) - 1
      <4>1. Cardinality(since[x]) \in Nat
        BY <3>2, FS_CardinalityType
      <4>2. /\ IsFiniteSet(since[x] \ {gone})
            /\ Cardinality(since[x] \ {gone})
                 = IF gone \in since[x] THEN Cardinality(since[x]) - 1 ELSE Cardinality(since[x])
        BY <3>2, FS_RemoveElement
      <4>3. Cardinality(since[x] \ {gone}) \in Nat
        BY <4>2, FS_CardinalityType
      <4> QED BY <4>1, <4>2, <4>3
    <3>4. IsFiniteSet(since'[x]) /\ Cardinality(since'[x]) = Cardinality(since[x] \ {gone}) + 1
      BY <1>1, <3>1, <3>3, FS_AddElement
    <3>5. CASE \E k \in 1 .. Len(slots) : slots[k].id = x
      <4>1. PICK j \in 1 .. Len(rest) : rest[j].id = x
        BY <1>4, <3>1, <3>5
      <4>2. j + 1 \in 1 .. Len(all) /\ all[j + 1].id = x
        <5>1. j + 1 \in 2 .. Len(rest) + 1 /\ (j + 1) - 1 = j /\ j + 1 \in 1 .. Len(all)
          BY <1>5, <1>6
        <5> QED BY <1>6, <4>1, <5>1
      <4>3. CASE j + 1 \in 1 .. Len(slots')
        BY <1>7, <4>2, <4>3
      <4>4. CASE j + 1 \notin 1 .. Len(slots')
        <5> DEFINE g == [i \in 1 .. MaxSlots |-> all[i].id]
        <5>1. 1 .. MaxSlots \subseteq 1 .. j /\ 1 .. MaxSlots \subseteq 1 .. Len(all)
          BY <1>3, <1>5, <1>6, <1>7, <4>2, <4>4
        <5>2. \A i \in 1 .. j : all[i].id \in since'[x]
          <6>1. (j + 1) - 1 = j
            OBVIOUS
          <6> QED BY <1>11, <4>2, <6>1
        <5>3. g \in Injection(1 .. MaxSlots, since'[x])
          <6>1. \A i \in 1 .. MaxSlots : all[i].id \in since'[x]
            BY <5>1, <5>2
          <6>2. \A a, b \in 1 .. MaxSlots : all[a].id = all[b].id => a = b
            BY <1>10, <5>1 DEF NoRepeat
          <6>3. g \in [1 .. MaxSlots -> since'[x]]
            BY <6>1
          <6>4. \A a, b \in 1 .. MaxSlots : g[a] = g[b] => a = b
            BY <6>2
          <6> HIDE DEF g
          <6> QED BY <6>3, <6>4 DEF Injection, IsInjective
        <5>4. Cardinality(1 .. MaxSlots) = MaxSlots
          BY <1>3, FS_Interval
        <5>5. Cardinality(1 .. MaxSlots) <= Cardinality(since'[x])
          BY <3>4, <5>3, FS_Injection
        <5> QED BY <5>4, <5>5, <1>3, <3>4, <3>3
      <4> QED BY <4>3, <4>4
    <3>6. CASE ~\E k \in 1 .. Len(slots) : slots[k].id = x
      <4>1. Cardinality(since[x]) >= MaxSlots /\ Cardinality(since[x]) \in Nat
        BY <3>1, <3>2, <3>6, FS_CardinalityType DEF IInv, PoolInv
      <4> QED BY <1>3, <3>3, <3>4, <4>1
    <3> QED BY <3>5, <3>6
  <2> QED BY <2>1, <2>2
<1>14. NoRepeat(slots')
  BY <1>7, <1>10, <1>12 DEF NoRepeat
<1>15. /\ \A i \in 1 .. Len(slots') : slots'[i].id \in DOMAIN since'
       /\ \A i \in 1 .. Len(slots') : \A j \in 1 .. i - 1 : slots'[j].id \in since'[slots'[i].id]
  <2>1. ASSUME NEW i \in 1 .. Len(slots') PROVE slots'[i].id \in DOMAIN since'
    BY <1>7, <1>11, <1>12
  <2>2. ASSUME NEW i \in 1 .. Len(slots'), NEW j \in 1 .. i - 1
        PROVE  slots'[j].id \in since'[slots'[i].id]
    <3>1. j \in 1 .. Len(slots')
      BY <1>7, <2>2
    <3> QED BY <1>7, <1>11, <1>12, <2>2, <3>1
  <2> QED BY <2>1, <2>2
<1>16. PoolInv'
  BY <1>7, <1>8, <1>13, <1>14, <1>15 DEF PoolInv
<1> QED BY <1>7, <1>16 DEF S, f

\* What is being built keeps its identity, which nobody else has.
LEMMA FreshStep ==
  ASSUME IInv, NEW t \in Thread, Step(t)
  PROVE  FreshInv'
<1> USE DEF FreshInv, Building
<1>0. FreshInv
  BY DEF IInv
<1>1. CASE LookupHit(t)
  <2>1. PICK q \in offer.asks :
          /\ Matches(q) # {} /\ made' = made + 1 /\ req' = [req EXCEPT ![t] = q]
          /\ since' = Used(slots[First(q)].id)
          /\ hit' = [hit EXCEPT ![t] = slots[First(q)]]
          /\ pc' = [pc EXCEPT ![t] = IF slots[First(q)].phantom THEN "capture" ELSE "read"]
          /\ fresh' = [fresh EXCEPT ![t] = [id |-> made + 1]]
    BY <1>1 DEF LookupHit, Begin
  <2> DEFINE s == slots[First(q)]
  <2>2. s.id \in DOMAIN since
    BY <2>1, FirstMatches DEF IInv, PoolInv
  <2> HIDE DEF s
  <2>3. since' = [x \in DOMAIN since |-> IF x = s.id THEN {} ELSE since[x] \cup {s.id}]
    BY <2>1 DEF Used, s
  <2>4. \A x \in DOMAIN since' : x \in 1 .. made' /\ since'[x] \subseteq 1 .. made'
    BY <1>0, <2>1, <2>2, <2>3
  <2>5. pc' \in [Thread -> {"idle", "read", "capture", "scan", "store"}]
    BY <1>0, <2>1 DEF s
  <2>6. /\ fresh'[t].id = made + 1
        /\ \A u \in Thread \ {t} : fresh'[u] = fresh[u] /\ pc'[u] = pc[u]
    BY <1>0, <2>1
  <2>7. ASSUME NEW u \in Thread, Building(u)'
        PROVE  /\ fresh'[u].id \in 1 .. made'
               /\ fresh'[u].id \notin DOMAIN since'
               /\ \A x \in DOMAIN since' : fresh'[u].id \notin since'[x]
               /\ \A v \in Thread : Building(v)' /\ fresh'[v].id = fresh'[u].id => v = u
    BY <1>0, <2>1, <2>2, <2>3, <2>6, <2>7
  <2> QED BY <1>0, <2>1, <2>4, <2>5, <2>7
<1>2. CASE LookupMiss(t)
  <2>1. PICK q \in offer.asks :
          /\ made' = made + 1 /\ since' = since /\ req' = [req EXCEPT ![t] = q]
          /\ hit' = [hit EXCEPT ![t] = NoSlot]
          /\ pc' = [pc EXCEPT ![t] = "scan"]
          /\ fresh' = [fresh EXCEPT ![t] = [id |-> made + 1]]
    BY <1>2 DEF LookupMiss, Begin
  <2> QED BY <1>0, <2>1
<1>3. CASE Read(t)
  BY <1>0, <1>3 DEF Read
<1>4. CASE Capture(t) \/ Scan(t)
  <2>1. \E s : fresh' = [fresh EXCEPT ![t] = s] /\ s.id = fresh[t].id
    <3>1. CASE Capture(t)
      <4>1. PICK tested \in Scans(req[t], Reach(req[t])) :
              fresh' = [fresh EXCEPT ![t] =
                          Slot(fresh[t].id, req[t], Within(req[t], tested, Reach(req[t])), TRUE)]
        BY <3>1 DEF Capture
      <4>2. Slot(fresh[t].id, req[t], Within(req[t], tested, Reach(req[t])), TRUE).id = fresh[t].id
        BY DEF Slot
      <4> QED BY <4>1, <4>2
    <3>2. CASE Scan(t)
      <4>1. PICK pairs : fresh' = [fresh EXCEPT ![t] = DropPairs(Slot(fresh[t].id, req[t], pairs, FALSE))]
        BY <3>2, Zenon DEF Scan
      <4>2. DropPairs(Slot(fresh[t].id, req[t], pairs, FALSE)).id = fresh[t].id
        BY DEF Slot, DropPairs
      <4> QED BY <4>1, <4>2
    <3> QED BY <1>4, <3>1, <3>2
  <2>2. /\ pc[t] \in {"capture", "scan"} /\ UNCHANGED <<req, hit, made, since>>
        /\ pc' \in [Thread -> {"idle", "read", "capture", "scan", "store"}]
        /\ \A u \in Thread : Building(u)' => Building(u)
    BY <1>0, <1>4 DEF Capture, Scan
  <2>3. DOMAIN fresh' = Thread /\ \A u \in Thread : fresh'[u].id = fresh[u].id
    BY <1>0, <2>1
  <2> QED BY <1>0, <2>2, <2>3
<1>5. CASE Store(t)
  <2> DEFINE gone == hit[t].id
             id   == fresh[t].id
  <2>1. since' = [x \in (DOMAIN since \ {gone}) \cup {id} |->
                    IF x = id THEN {} ELSE (since[x] \ {gone}) \cup {id}]
    BY <1>5 DEF Store
  <2>2. pc[t] = "store" /\ pc' = [pc EXCEPT ![t] = "idle"] /\ UNCHANGED <<req, hit, fresh, made>>
    BY <1>5 DEF Store
  <2>3. id \in 1 .. made
    BY <1>0, <2>2
  <2> HIDE DEF gone
  <2>4. \A x \in DOMAIN since' : x \in 1 .. made /\ since'[x] \subseteq 1 .. made
    BY <1>0, <2>1, <2>3
  <2>5. ASSUME NEW u \in Thread, Building(u)'
        PROVE  /\ fresh[u].id \in 1 .. made
               /\ fresh[u].id \notin DOMAIN since'
               /\ \A x \in DOMAIN since' : fresh[u].id \notin since'[x]
               /\ \A v \in Thread : Building(v)' /\ fresh[v].id = fresh[u].id => v = u
    <3>1. u # t /\ Building(u)
      BY <1>0, <2>2, <2>5
    <3>2. fresh[u].id # id
      BY <1>0, <2>2, <3>1
    <3>3. \A v \in Thread : Building(v)' => Building(v)
      BY <1>0, <2>2
    <3> QED BY <1>0, <2>1, <3>1, <3>2, <3>3
  <2> QED BY <1>0, <2>2, <2>4, <2>5
<1> QED BY <1>1, <1>2, <1>3, <1>4, <1>5 DEF Step

LEMMA PoolStep ==
  ASSUME IInv, NEW t \in Thread, Step(t)
  PROVE  PoolInv'
<1>1. CASE LookupHit(t)
  BY <1>1, HitStep
<1>2. CASE Store(t)
  BY <1>2, StoreStep
<1>3. CASE LookupMiss(t) \/ Read(t) \/ Capture(t) \/ Scan(t)
  <2>1. slots' = slots /\ since' = since
    BY <1>3 DEF LookupMiss, Read, Capture, Scan
  <2> QED BY <2>1 DEF IInv, PoolInv, NoRepeat
<1> QED BY <1>1, <1>2, <1>3 DEF Step

\* The invariant is inductive.
THEOREM Invariance == Spec => []IInv
<1>1. Init => IInv
  BY PoolAssumption DEF Init, IInv, PoolInv, FreshInv, Building, NoRepeat, Content
<1>2. ASSUME IInv, UNCHANGED vars PROVE IInv'
  BY <1>2 DEF vars, IInv, PoolInv, FreshInv, Building, NoRepeat
<1>3. IInv /\ [Next]_vars => IInv'
  BY <1>2, FreshStep, PoolStep DEF Next, IInv
<1> QED BY <1>1, <1>3, PTL DEF Spec

\* The slot evicted is the least recently used: the pool holds at most kMaxSlots
\* slots, and when one is gone as many others were used after its last use, however
\* the threads' lookups and stores are ordered (PairListCache.hpp:633-667).
THEOREM LeastRecentlyUsedEvictedHolds == Spec => []LeastRecentlyUsedEvicted
<1>1. ASSUME IInv PROVE LeastRecentlyUsedEvicted
  <2>1. DOMAIN slots = 1 .. Len(slots)
    BY <1>1, OverContent DEF IInv, PoolInv
  <2> QED BY <1>1, <2>1 DEF IInv, PoolInv, LeastRecentlyUsedEvicted
<1>2. IInv => LeastRecentlyUsedEvicted
  BY <1>1
<1> QED BY Invariance, <1>2, PTL

-----------------------------------------------------------------------------
(* Integers and vectors.                                                   *)

\* What division says.
LEMMA Quotient ==
  ASSUME NEW a \in Int, NEW b \in Nat \ {0}
  PROVE  a \div b \in Int /\ b * (a \div b) <= a /\ a < b * (a \div b) + b
<1>1. a \div b \in Int
  OBVIOUS
<1>2. b * (a \div b) <= a
  OBVIOUS
<1>3. a < b * (a \div b) + b
  OBVIOUS
<1> QED BY <1>1, <1>2, <1>3

\* Longer along an axis is longer in the square.
LEMMA SquareGrows ==
  ASSUME NEW a \in Int, NEW b \in Int, Abs(a) <= Abs(b)
  PROVE  a * a <= b * b
BY DEF Abs

\* A vector of two components is a pair.
LEMMA VectorIsPair ==
  ASSUME NEW A, NEW B, NEW v, v = [k \in Axis |-> v[k]], v[1] \in A, v[2] \in B
  PROVE  v \in A \X B
BY DEF Axis

\* The triangle inequality, in squares.
LEMMA Triangle ==
  ASSUME NEW a \in Int, NEW b \in Int, NEW u \in Int, NEW v \in Int,
         NEW c \in Nat, NEW e \in Nat,
         a * a + b * b <= c * c, u * u + v * v < e * e
  PROVE  (a + u) * (a + u) + (b + v) * (b + v) < (c + e) * (c + e)
<1> DEFINE X == a * u + b * v
           N == a * a + b * b
           M == u * u + v * v
<1>1. X \in Int /\ N \in Nat /\ M \in Nat
  OBVIOUS
<1>2. X * X <= N * M
  <2>1. N * M - X * X = (a * v - b * u) * (a * v - b * u)
    OBVIOUS
  <2>2. (a * v - b * u) * (a * v - b * u) >= 0
    OBVIOUS
  <2> HIDE DEF X, N, M
  <2> QED BY <1>1, <2>1, <2>2
<1>3. (a + u) * (a + u) + (b + v) * (b + v) = N + 2 * X + M
  OBVIOUS
<1>4. (c + e) * (c + e) = c * c + 2 * (c * e) + e * e
  OBVIOUS
<1> HIDE DEF X, N, M
<1>5. X <= c * e
  <2>1. SUFFICES ASSUME X > c * e PROVE FALSE
    BY <1>1
  <2>2. X * X > (c * e) * (c * e)
    BY <1>1, <2>1
  <2>3. N * M <= (c * c) * M
    BY <1>1 DEF N
  <2>4. (c * c) * M <= (c * c) * (e * e)
    BY <1>1 DEF M
  <2>5. (c * c) * (e * e) = (c * e) * (c * e)
    OBVIOUS
  <2> QED BY <1>1, <1>2, <2>2, <2>3, <2>4, <2>5
<1>6. N <= c * c /\ M < e * e
  BY DEF N, M
<1> QED BY <1>1, <1>3, <1>4, <1>5, <1>6

\* Two moves of less than half of e each are together less than e.
LEMMA TwoMoves ==
  ASSUME NEW a \in Int, NEW b \in Int, NEW u \in Int, NEW v \in Int, NEW e \in Int,
         4 * (a * a + b * b) < e * e, 4 * (u * u + v * v) < e * e
  PROVE  (a - u) * (a - u) + (b - v) * (b - v) < e * e
<1>1. (a + u) * (a + u) >= 0 /\ (b + v) * (b + v) >= 0
  OBVIOUS
<1>2. (a - u) * (a - u) + (a + u) * (a + u) = 2 * (a * a) + 2 * (u * u)
  OBVIOUS
<1>3. (b - v) * (b - v) + (b + v) * (b + v) = 2 * (b * b) + 2 * (v * v)
  OBVIOUS
<1> QED BY <1>1, <1>2, <1>3

-----------------------------------------------------------------------------
(* Images along an axis.                                                   *)

\* Rounding leaves at most half a width.
LEMMA Rounded ==
  ASSUME NEW d \in Int, NEW w \in Nat \ {0}
  PROVE  Round(d, w) \in Int /\ 2 * Abs(d - Round(d, w) * w) <= w
<1> DEFINE m == (2 * Abs(d) + w) \div (2 * w)
<1>1. Abs(d) \in Nat /\ 2 * Abs(d) + w \in Int /\ 2 * w \in Nat \ {0}
  BY DEF Abs
<1>2. m \in Int /\ (2 * w) * m <= 2 * Abs(d) + w /\ 2 * Abs(d) + w < (2 * w) * m + 2 * w
  BY <1>1, Quotient
<1>3. Round(d, w) = IF d < 0 THEN -m ELSE m
  BY DEF Round
<1> HIDE DEF m
<1> DEFINE n == w * m
<1>4. n \in Int /\ (2 * w) * m = 2 * n /\ m * w = n /\ (-m) * w = -n
  BY <1>2
<1> HIDE DEF n
<1>5. 2 * n <= 2 * Abs(d) + w /\ 2 * Abs(d) + w < 2 * n + 2 * w
  BY <1>2, <1>4
<1>6. CASE d < 0
  BY <1>2, <1>3, <1>4, <1>5, <1>6 DEF Abs
<1>7. CASE ~(d < 0)
  BY <1>2, <1>3, <1>4, <1>5, <1>7 DEF Abs
<1> QED BY <1>6, <1>7

\* What is at most half a width long is shortest among its translations.
LEMMA Closest ==
  ASSUME NEW w \in Nat, NEW x \in Int, w # 0 => 2 * Abs(x) <= w, NEW m \in Int
  PROVE  Abs(x) <= Abs(x - m * w)
<1>1. CASE w = 0 \/ m = 0
  <2>1. m * w = 0
    BY <1>1
  <2> QED BY <2>1 DEF Abs
<1>2. CASE w # 0 /\ m >= 1
  <2>1. m * w >= w /\ m * w \in Int
    BY <1>2
  <2> QED BY <1>2, <2>1 DEF Abs
<1>3. CASE w # 0 /\ m <= -1
  <2>1. m * w <= -w /\ m * w \in Int
    BY <1>3
  <2> QED BY <1>3, <2>1 DEF Abs
<1> QED BY <1>1, <1>2, <1>3

\* Such an image is among those that the reference looks at.
LEMMA Counted ==
  ASSUME NEW a \in Nat, NEW w \in Nat \ {0}, NEW r \in Int, 2 * Abs(a - r * w) <= w
  PROVE  a - r * w \in Translated(a, w)
<1> DEFINE n == r * w
           q == a \div w
           g == w * q
<1>1. n \in Int /\ q \in Int /\ g \in Int /\ g <= a /\ a < g + w
  BY Quotient
<1>2. r >= 0
  <2>1. SUFFICES ASSUME r <= -1 PROVE FALSE
    OBVIOUS
  <2>2. n <= -w
    BY <2>1
  <2> HIDE DEF n
  <2> QED BY <1>1, <2>2 DEF Abs, n
<1>3. r <= 1 + q
  <2>1. SUFFICES ASSUME r >= q + 2 PROVE FALSE
    BY <1>1
  <2>2. n >= (q + 2) * w
    BY <1>1, <2>1
  <2>3. (q + 2) * w = g + 2 * w
    BY <1>1
  <2>4. 2 * Abs(a - n) <= w
    OBVIOUS
  <2> HIDE DEF n, g
  <2> QED BY <1>1, <2>2, <2>3, <2>4 DEF Abs
<1>4. r \in 0 .. 1 + q
  BY <1>1, <1>2, <1>3
<1> QED BY <1>4 DEF Translated

\* Along yields the shortest translations: at most half a width long.
LEMMA AlongShort ==
  ASSUME NEW d \in Int, NEW w \in Nat, NEW x \in Along(d, w)
  PROVE  x \in Int /\ (w = 0 => x = d)
         /\ (w # 0 => 2 * Abs(x) <= w /\ \E m \in Int : x = d - m * w)
<1>1. CASE w = 0
  BY <1>1 DEF Along, Shortest, Translated, Abs
<1>2. CASE w # 0
  <2> DEFINE a == Abs(d)
             r == Round(a, w)
             y == a - r * w
  <2>1. a \in Nat /\ (d < 0 => d = -a) /\ (~(d < 0) => d = a)
    BY DEF Abs
  <2>2. PICK z \in Translated(a, w) :
          (\A t \in Translated(a, w) : Abs(z) <= Abs(t)) /\ x = IF d < 0 THEN -z ELSE z
    BY DEF Along, Shortest
  <2> HIDE DEF a
  <2>3. r \in Int /\ 2 * Abs(y) <= w
    BY <1>2, <2>1, Rounded
  <2> HIDE DEF r
  <2>4. y \in Translated(a, w) /\ y \in Int
    BY <1>2, <2>1, <2>3, Counted
  <2>5. PICK k \in 0 .. 1 + a \div w : z = a - k * w
    BY <1>2, <2>2 DEF Translated
  <2>6. k \in Int
    BY <1>2, <2>1, Quotient
  <2> DEFINE n == k * w
  <2>7. n \in Int /\ (-k) * w = -n
    BY <2>6
  <2>8. 2 * Abs(z) <= w
    <3> HIDE DEF y, n
    <3> QED BY <2>1, <2>2, <2>3, <2>4, <2>5, <2>7 DEF Abs, n
  <2>9. x = d - (IF d < 0 THEN -k ELSE k) * w
    <3> HIDE DEF n
    <3>1. z = a - n
      BY <2>5 DEF n
    <3>2. CASE d < 0
      <4>1. x = d + n
        BY <2>1, <2>2, <2>7, <3>1, <3>2
      <4>2. d - (-k) * w = d + n
        BY <2>7
      <4> QED BY <3>2, <4>1, <4>2
    <3>3. CASE ~(d < 0)
      BY <2>1, <2>2, <2>5, <3>3
    <3> QED BY <3>2, <3>3
  <2>10. x \in Int /\ Abs(x) = Abs(z)
    <3>1. z \in Int
      BY <2>1, <2>5, <2>7
    <3> QED BY <2>2, <3>1 DEF Abs
  <2>11. (IF d < 0 THEN -k ELSE k) \in Int
    BY <2>6
  <2> QED BY <1>2, <2>8, <2>9, <2>10, <2>11
<1> QED BY <1>1, <1>2

LEMMA AlongImage ==
  ASSUME NEW d \in Int, NEW w \in Nat \ {0}, NEW x \in Along(d, w)
  PROVE  \E k \in Int : x = d - k * w
<1>1. \E m \in Int : x = d - m * w
  BY AlongShort
<1> QED BY <1>1

\* A translation of at most half a width is found.
LEMMA AlongFound ==
  ASSUME NEW d \in Int, NEW w \in Nat, NEW m \in Int,
         w # 0 => 2 * Abs(d - m * w) <= w, w = 0 => m = 0
  PROVE  d - m * w \in Along(d, w)
<1>1. CASE w = 0
  <2>1. d - m * w = d
    BY <1>1
  <2> QED BY <1>1, <2>1 DEF Along, Shortest, Translated, Abs
<1>2. CASE w # 0
  <2> DEFINE a == Abs(d)
             r == IF d < 0 THEN -m ELSE m
             n == m * w
             y == a - r * w
  <2>1. a \in Nat /\ (d < 0 => d = -a) /\ (~(d < 0) => d = a)
    BY DEF Abs
  <2>2. n \in Int /\ (-m) * w = -n /\ r \in Int
    OBVIOUS
  <2>3. y = IF d < 0 THEN -(d - n) ELSE d - n
    BY <2>1, <2>2
  <2>4. 2 * Abs(y) <= w /\ y \in Int
    <3>1. 2 * Abs(d - n) <= w
      BY <1>2
    <3> HIDE DEF n, y
    <3> QED BY <2>2, <2>3, <3>1 DEF Abs
  <2>5. y \in Translated(a, w)
    <3> HIDE DEF a, r
    <3> QED BY <1>2, <2>1, <2>2, <2>4, Counted
  <2>6. ASSUME NEW t \in Translated(a, w) PROVE Abs(y) <= Abs(t)
    <3>1. PICK k \in 0 .. 1 + a \div w : t = a - k * w
      BY <1>2 DEF Translated
    <3>2. k \in Int
      BY <1>2, <2>1, Quotient
    <3>3. k - r \in Int /\ y - (k - r) * w = t
      <4> HIDE DEF a, r
      <4> QED BY <2>1, <2>2, <3>1, <3>2
    <3> HIDE DEF a, r, y
    <3> QED BY <2>4, <3>3, Closest
  <2>7. y \in Shortest(d, w)
    BY <2>5, <2>6 DEF Shortest
  <2>8. d - m * w = IF d < 0 THEN -y ELSE y
    <3> HIDE DEF y
    <3> QED BY <2>2, <2>3, <2>4
  <2> HIDE DEF y
  <2> QED BY <2>7, <2>8 DEF Along
<1> QED BY <1>1, <1>2

\* The shortest translations are equally long.
LEMMA AlongEqual ==
  ASSUME NEW d \in Int, NEW w \in Nat, NEW x \in Along(d, w), NEW y \in Along(d, w)
  PROVE  x * x = y * y
<1>1. x \in Int /\ y \in Int
  BY AlongShort
<1>2. PICK a \in Shortest(d, w) : x = IF d < 0 THEN -a ELSE a
  BY DEF Along
<1>3. PICK b \in Shortest(d, w) : y = IF d < 0 THEN -b ELSE b
  BY DEF Along
<1>4. Abs(a) <= Abs(b) /\ Abs(b) <= Abs(a)
  BY DEF Shortest
<1>5. a \in Int /\ b \in Int
  <2>1. \A t \in Translated(Abs(d), w) : t \in Int
    <3>1. Abs(d) \in Int
      BY DEF Abs
    <3>2. CASE w = 0
      BY <3>1, <3>2 DEF Translated
    <3>3. CASE w # 0
      <4>1. Abs(d) \div w \in Int
        BY <3>1, <3>3, Quotient
      <4>2. \A m \in 0 .. 1 + Abs(d) \div w : Abs(d) - m * w \in Int
        BY <3>1, <4>1
      <4> QED BY <3>3, <4>2 DEF Translated
    <3> QED BY <3>2, <3>3
  <2> QED BY <2>1 DEF Shortest
<1>6. a * a = b * b
  BY <1>4, <1>5, SquareGrows
<1> QED BY <1>2, <1>3, <1>5, <1>6

\* An image shorter than half a width is the rounded one.
LEMMA OnlyRounded ==
  ASSUME NEW d \in Int, NEW w \in Nat \ {0}, NEW m \in Int, 2 * Abs(d - m * w) < w
  PROVE  m = Round(d, w)
<1> DEFINE r == Round(d, w)
           n == m * w
           s == r * w
<1>0. r \in Int /\ 2 * Abs(d - s) <= w
  BY Rounded
<1>1. r \in Int /\ n \in Int /\ s \in Int /\ 2 * Abs(d - s) <= w /\ 2 * Abs(d - n) < w
  <2> HIDE DEF r
  <2> QED BY <1>0
<1>2. n - s < w /\ s - n < w
  <2> HIDE DEF n, s
  <2> QED BY <1>1 DEF Abs
<1>3. CASE m >= r + 1
  <2>1. m * w >= (r + 1) * w
    BY <1>1, <1>3
  <2>2. (r + 1) * w = s + w
    BY <1>1
  <2> QED BY <1>1, <1>2, <2>1, <2>2
<1>4. CASE m <= r - 1
  <2>1. m * w <= (r - 1) * w
    BY <1>1, <1>4
  <2>2. (r - 1) * w = s - w
    BY <1>1
  <2> QED BY <1>1, <1>2, <2>1, <2>2
<1> QED BY <1>1, <1>3, <1>4

-----------------------------------------------------------------------------
(* Vectors and boxes.                                                      *)

Plane == [Axis -> Int]
Box   == Nat \X Nat \X Int

LEMMA NormInt == ASSUME NEW d \in Plane PROVE Norm2(d) \in Nat
BY DEF Plane, Axis, Norm2, Square

\* Folding in an upright box: each axis is rounded to an image.
LEMMA Folded ==
  ASSUME NEW d \in Plane, NEW box \in Box, ~Tilted(box)
  PROVE  /\ Image(d, box) \in Plane
         /\ MIC(d, box) = Shifted(d, Image(d, box), box) /\ MIC(d, box) \in Plane
         /\ \A k \in Axis : /\ box[k] \in Nat
                            /\ box[k] = 0 => Image(d, box)[k] = 0
                            /\ box[k] # 0 => 2 * Abs(MIC(d, box)[k]) <= box[k]
         /\ MIC(d, box) \in Nearest(d, box)
<1> DEFINE m == Image(d, box)
           x == MIC(d, box)
<1>1. x = Shifted(d, m, box)
  BY DEF MIC
<1>2. ASSUME NEW k \in Axis
      PROVE  /\ box[k] \in Nat /\ d[k] \in Int /\ m[k] \in Int /\ x[k] = d[k] - m[k] * box[k]
             /\ x[k] \in Int
             /\ box[k] = 0 => m[k] = 0
             /\ box[k] # 0 => 2 * Abs(d[k] - m[k] * box[k]) <= box[k]
  <2>1. box[k] \in Nat /\ d[k] \in Int
    BY DEF Box, Plane, Axis
  <2>2. m[k] = IF box[k] = 0 THEN 0 ELSE Round(d[k], box[k])
    BY DEF Image
  <2>3. m[k] \in Int /\ (box[k] # 0 => 2 * Abs(d[k] - m[k] * box[k]) <= box[k])
    <3>1. CASE box[k] = 0
      BY <2>2, <3>1
    <3>2. CASE box[k] # 0
      <4>1. m[k] = Round(d[k], box[k]) /\ box[k] \in Nat \ {0}
        BY <2>1, <2>2, <3>2
      <4> HIDE DEF m
      <4> QED BY <2>1, <4>1, Rounded
    <3> QED BY <3>1, <3>2
  <2>4. x[k] = d[k] - m[k] * box[k]
    BY <1>1 DEF Shifted
  <2> HIDE DEF m, x
  <2> QED BY <2>1, <2>2, <2>3, <2>4
<1>3. m = [k \in Axis |-> m[k]] /\ x = [k \in Axis |-> x[k]]
  BY <1>1 DEF Image, Shifted
<1>4. ASSUME NEW k \in Axis PROVE x[k] \in Along(d[k], box[k])
  <2> HIDE DEF m, x
  <2> QED BY <1>2, AlongFound
<1>5. Nearest(d, box) = Along(d[1], box[1]) \X Along(d[2], box[2])
  BY DEF Nearest
<1>6. x \in Nearest(d, box)
  <2> HIDE DEF x
  <2> QED BY <1>3, <1>4, <1>5, VectorIsPair DEF Axis
<1> HIDE DEF m, x
<1>7. m \in Plane /\ x \in Plane
  BY <1>2, <1>3 DEF Plane
<1> QED BY <1>1, <1>2, <1>6, <1>7 DEF m, x

\* Every nearest image is as long as the folded one.
LEMMA NearestNorm ==
  ASSUME NEW d \in Plane, NEW box \in Box, MIC(d, box) \in Nearest(d, box),
         NEW x \in Nearest(d, box)
  PROVE  Norm2(x) = Norm2(MIC(d, box))
<1>1. CASE Tilted(box)
  <2> DEFINE rows == Rows(d, box)
  <2>1. x \in rows /\ MIC(d, box) \in rows
        /\ Norm2(x) <= Norm2(MIC(d, box)) /\ Norm2(MIC(d, box)) <= Norm2(x)
    BY <1>1 DEF Nearest
  <2>2. ASSUME NEW y \in rows PROVE Norm2(y) \in Int
    <3>1. PICK n \in -Farthest(d, box) .. Farthest(d, box) :
            y \in Along(d[1] - n * box[3], box[1]) \X {d[2] - n * box[2]}
      BY DEF Rows
    <3>2. /\ n \in Int /\ box[1] \in Nat /\ box[2] \in Nat /\ box[3] \in Int
          /\ d[1] \in Int /\ d[2] \in Int
      BY DEF Plane, Box, Axis
    <3>3. d[1] - n * box[3] \in Int /\ d[2] - n * box[2] \in Int
      BY <3>2
    <3>4. y[1] \in Along(d[1] - n * box[3], box[1]) /\ y[2] = d[2] - n * box[2]
      BY <3>1
    <3>5. y[1] \in Int /\ y[2] \in Int
      BY <3>2, <3>3, <3>4, AlongShort
    <3> QED BY <3>5 DEF Norm2, Square
  <2> HIDE DEF rows
  <2> QED BY <2>1, <2>2
<1>2. CASE ~Tilted(box)
  <2>1. Nearest(d, box) = Along(d[1], box[1]) \X Along(d[2], box[2])
    BY <1>2 DEF Nearest
  <2>2. \A k \in Axis : d[k] \in Int /\ box[k] \in Nat
    BY DEF Plane, Box, Axis
  <2>3. \A k \in Axis : x[k] \in Along(d[k], box[k]) /\ MIC(d, box)[k] \in Along(d[k], box[k])
    BY <2>1 DEF Axis
  <2>4. \A k \in Axis : x[k] * x[k] = MIC(d, box)[k] * MIC(d, box)[k]
    BY <2>2, <2>3, AlongEqual
  <2> QED BY <2>4 DEF Norm2, Square, Axis
<1> QED BY <1>1, <1>2

\* The folded image is shortest.
LEMMA Shortened ==
  ASSUME NEW d \in Plane, NEW box \in Box, ~Tilted(box), NEW m \in Plane
  PROVE  Norm2(MIC(d, box)) <= Norm2(Shifted(d, m, box))
<1>1. /\ Image(d, box) \in Plane
      /\ MIC(d, box) = Shifted(d, Image(d, box), box) /\ MIC(d, box) \in Plane
      /\ \A k \in Axis : /\ box[k] \in Nat
                         /\ box[k] = 0 => Image(d, box)[k] = 0
                         /\ box[k] # 0 => 2 * Abs(MIC(d, box)[k]) <= box[k]
  BY Folded
<1> DEFINE x == MIC(d, box)
           i == Image(d, box)
           y == Shifted(d, m, box)
<1>0. /\ i \in Plane /\ x \in Plane /\ x = Shifted(d, i, box)
      /\ \A k \in Axis : box[k] \in Nat /\ (box[k] # 0 => 2 * Abs(x[k]) <= box[k])
  BY <1>1
<1>9. \A k \in Axis : x[k] = d[k] - i[k] * box[k]
  <2> HIDE DEF x, i
  <2> QED BY <1>0 DEF Shifted
<1>2. \A k \in Axis : y[k] = d[k] - m[k] * box[k]
  BY DEF Shifted
<1> HIDE DEF x, i, y
<1>3. ASSUME NEW k \in Axis PROVE x[k] * x[k] <= y[k] * y[k] /\ x[k] \in Int /\ y[k] \in Int
  <2>1. x[k] \in Int /\ d[k] \in Int /\ i[k] \in Int /\ m[k] \in Int /\ box[k] \in Nat
    BY <1>0 DEF Plane
  <2>2. m[k] - i[k] \in Int /\ y[k] = x[k] - (m[k] - i[k]) * box[k]
    BY <1>9, <1>2, <2>1
  <2>3. Abs(x[k]) <= Abs(y[k])
    BY <1>0, <2>1, <2>2, Closest
  <2> QED BY <2>1, <2>2, <2>3, SquareGrows
<1>4. x[1] * x[1] + x[2] * x[2] <= y[1] * y[1] + y[2] * y[2]
  <2>1. 1 \in Axis /\ 2 \in Axis
    BY DEF Axis
  <2> QED BY <1>3, <2>1
<1> QED BY <1>4 DEF Norm2, Square, x, y

-----------------------------------------------------------------------------
(* Tilted boxes: the bounded search.                                       *)

Skewed(box) == box \in Box /\ Tilted(box) /\ box[1] # 0 /\ box[2] # 0

\* The square root, rounded up.
LEMMA RootIsUp ==
  ASSUME NEW n \in Nat
  PROVE  RootUp(n) \in Nat /\ n <= RootUp(n) * RootUp(n)
<1> DEFINE T == {r \in Nat : r * r >= n}
<1>1. n \in T
  OBVIOUS
<1>2. PICK r \in T : \A y \in T : r <= y
  <2>1. T \in SUBSET Nat /\ T # {}
    BY <1>1
  <2> HIDE DEF T
  <2> QED BY <2>1, Smallest
<1>3. r \in 0 .. n
  BY <1>1, <1>2
<1>4. r = 0 \/ (r - 1) * (r - 1) < n
  <2>1. SUFFICES ASSUME r # 0, ~((r - 1) * (r - 1) < n) PROVE FALSE
    OBVIOUS
  <2>2. r - 1 \in Nat
    BY <1>3, <2>1
  <2>3. (r - 1) * (r - 1) \in Int /\ (r - 1) * (r - 1) >= n
    BY <2>1, <2>2
  <2>4. r - 1 \in T
    BY <2>2, <2>3
  <2> HIDE DEF T
  <2> QED BY <1>2, <1>3, <2>4
<1>5. \E x \in 0 .. n : x * x >= n /\ (x = 0 \/ (x - 1) * (x - 1) < n)
  BY <1>2, <1>3, <1>4
<1>6. RootUp(n) \in 0 .. n /\ RootUp(n) * RootUp(n) >= n
  BY <1>5 DEF RootUp
<1> QED BY <1>6

\* A number whose square is at most another's lies between it and its negative.
LEMMA Between2 ==
  ASSUME NEW a \in Int, NEW e \in Nat, a * a <= e * e
  PROVE  -e <= a /\ a <= e
<1>1. a > e => a * a > e * e
  OBVIOUS
<1>2. a < -e => a * a > e * e
  <2>1. SUFFICES ASSUME a < -e PROVE (-a) * (-a) > e * e
    OBVIOUS
  <2>2. -a \in Int /\ -a > e
    BY <2>1
  <2> QED BY <2>2
<1> QED BY <1>1, <1>2

\* Cauchy and Schwarz: a component in units of the cell vectors is at most the length
\* times that of the inverse's column.
LEMMA Schwarz ==
  ASSUME NEW a \in Int, NEW b \in Int, NEW u \in Int, NEW v \in Int,
         NEW N \in Nat, a * a + b * b <= N
  PROVE  (a * u - b * v) * (a * u - b * v) <= N * (u * u + v * v)
<1> DEFINE X == a * u - b * v
           Y == a * v + b * u
           L == a * a + b * b
           M == u * u + v * v
<1>1. X \in Int /\ Y \in Int /\ L \in Nat /\ M \in Nat
  OBVIOUS
<1>2. X * X + Y * Y = L * M
  OBVIOUS
<1>3. L <= N
  OBVIOUS
<1> HIDE DEF X, Y, L, M
<1>4. Y * Y >= 0 /\ L * M <= N * M /\ X * X \in Int
  BY <1>1, <1>3
<1>5. X * X <= N * M
  BY <1>1, <1>2, <1>4
<1> QED BY <1>5 DEF X, M

\* The planes of cells that a number of at most e away can be in.
LEMMA PlanesCover ==
  ASSUME NEW f \in Int, NEW e \in Nat, NEW D \in Nat \ {0}, NEW n \in Int,
         -e <= f - n * D, f - n * D <= e
  PROVE  n \in (f - e) \div D - 1 .. -((-f - e) \div D) + 1
<1> DEFINE a == (f - e) \div D
           b == (-f - e) \div D
           A == D * a
           B == D * b
           P == n * D
<1>1. a \in Int /\ A <= f - e /\ f - e < A + D
  <2>1. f - e \in Int
    OBVIOUS
  <2> QED BY <2>1, Quotient
<1>2. b \in Int /\ B <= -f - e /\ -f - e < B + D
  <2>1. -f - e \in Int
    OBVIOUS
  <2> QED BY <2>1, Quotient
<1> HIDE DEF a, b
<1>3. A \in Int /\ B \in Int /\ P \in Int
  BY <1>1, <1>2
<1>4. f - e <= P /\ P <= f + e
  <2>1. -e <= f - P /\ f - P <= e
    OBVIOUS
  <2> HIDE DEF P
  <2> QED BY <1>3, <2>1
<1>5. a <= n
  <2>1. SUFFICES ASSUME n + 1 <= a PROVE FALSE
    BY <1>1
  <2>2. (n + 1) * D <= a * D
    BY <1>1, <2>1
  <2>3. (n + 1) * D = P + D /\ a * D = A
    BY <1>1
  <2> HIDE DEF A, P
  <2> QED BY <1>1, <1>3, <1>4, <2>2, <2>3
<1>6. n <= -b
  <2>1. SUFFICES ASSUME -b + 1 <= n PROVE FALSE
    BY <1>2
  <2>2. (-b + 1) * D <= n * D
    BY <1>2, <2>1
  <2>3. (-b + 1) * D = D - B
    BY <1>2
  <2> HIDE DEF B, P
  <2> QED BY <1>2, <1>3, <1>4, <2>2, <2>3 DEF P
<1> QED BY <1>1, <1>2, <1>5, <1>6 DEF a, b

\* The rows that an image can be in.
LEMMA RowsReach ==
  ASSUME NEW s \in Nat, NEW w \in Nat \ {0}, NEW m \in Int, -s <= m * w, m * w <= s
  PROVE  m \in -(s \div w) .. s \div w
<1> DEFINE N == s \div w
           P == m * w
           Q == w * N
<1>1. N \in Int /\ Q \in Int /\ s < Q + w /\ P \in Int
  BY Quotient
<1> HIDE DEF N
<1>2. m <= N
  <2>1. SUFFICES ASSUME N + 1 <= m PROVE FALSE
    BY <1>1
  <2>2. (N + 1) * w <= P /\ (N + 1) * w = Q + w
    BY <1>1, <2>1
  <2> QED BY <1>1, <2>2
<1>3. -N <= m
  <2>1. SUFFICES ASSUME m <= -(N + 1) PROVE FALSE
    BY <1>1
  <2>2. P <= (-(N + 1)) * w /\ (-(N + 1)) * w = -(Q + w)
    BY <1>1, <2>1
  <2> QED BY <1>1, <2>2
<1> QED BY <1>1, <1>2, <1>3 DEF N

\* An image of a separation, n cell vectors away.
Off(d, n, box) == Between(d, Cell(n, box))

LEMMA OffInPlane ==
  ASSUME NEW d \in Plane, NEW n, n[1] \in Int, n[2] \in Int, NEW box \in Box
  PROVE  /\ Off(d, n, box) \in Plane
         /\ Off(d, n, box)[1] = d[1] - (n[1] * box[1] + n[2] * box[3])
         /\ Off(d, n, box)[2] = d[2] - n[2] * box[2]
<1> DEFINE A == n[1] * box[1]
           B == n[2] * box[3]
           C == n[2] * box[2]
<1>1. box[1] \in Int /\ box[2] \in Int /\ box[3] \in Int /\ d[1] \in Int /\ d[2] \in Int
  BY DEF Box, Plane, Axis
<1>2. A \in Int /\ B \in Int /\ C \in Int
  BY <1>1
<1>3. Off(d, n, box) = [k \in Axis |-> d[k] - <<A + B, C>>[k]]
  BY DEF Off, Between, Cell
<1> HIDE DEF A, B, C
<1>4. Off(d, n, box)[1] = d[1] - (A + B) /\ Off(d, n, box)[2] = d[2] - C
  BY <1>3 DEF Axis
<1>5. Off(d, n, box) \in Plane
  BY <1>1, <1>2, <1>3 DEF Plane, Axis
<1> QED BY <1>4, <1>5 DEF A, B, C

\* No image that is at most as long as the reduced separation escapes the search.
LEMMA ImagesCover ==
  ASSUME NEW d \in Plane, NEW box, Skewed(box), NEW n \in Int \X Int,
         Norm2(Off(d, n, box)) <= Norm2(d)
  PROVE  n \in Images(d, box)[1] \X Images(d, box)[2]
<1> DEFINE D == Det(box)
           N == Norm2(d)
           x == d[1] - (n[1] * box[1] + n[2] * box[3])
           y == d[2] - n[2] * box[2]
           f == d[1] * box[2] - d[2] * box[3]
           g == d[2] * box[1]
           E == Square(box[2]) + Square(box[3])
           F == Square(box[1])
           e == RootUp(N * E)
           h == RootUp(N * F)
<1>1. /\ box[1] \in Nat \ {0} /\ box[2] \in Nat \ {0} /\ box[3] \in Int
      /\ d[1] \in Int /\ d[2] \in Int /\ n[1] \in Int /\ n[2] \in Int /\ N \in Nat
  BY NormInt DEF Skewed, Box, Plane, Axis
<1>2. x \in Int /\ y \in Int /\ f \in Int /\ g \in Int
  <2>1. /\ n[1] * box[1] \in Int /\ n[2] * box[3] \in Int /\ n[2] * box[2] \in Int
        /\ d[1] * box[2] \in Int /\ d[2] * box[3] \in Int /\ d[2] * box[1] \in Int
    BY <1>1
  <2> QED BY <1>1, <2>1
<1>3. D \in Nat \ {0} /\ E \in Nat /\ F \in Nat /\ N * E \in Nat /\ N * F \in Nat
  <2>1. E \in Nat /\ F \in Nat
    BY <1>1 DEF Square
  <2>2. D \in Nat \ {0}
    BY <1>1 DEF Det
  <2> HIDE DEF E, F, N
  <2> QED BY <1>1, <2>1, <2>2
<1>4. x * x + y * y <= N
  <2>1. Off(d, n, box)[1] = x /\ Off(d, n, box)[2] = y
    BY <1>1, OffInPlane DEF Skewed
  <2> HIDE DEF x, y, N
  <2> QED BY <2>1 DEF Norm2, Square, N
<1>5. x * box[2] - y * box[3] = f - n[1] * D
  <2> DEFINE p == n[1]
             q == n[2]
             a == box[1]
             b == box[2]
             c == box[3]
  <2>1. p \in Int /\ q \in Int /\ a \in Int /\ b \in Int /\ c \in Int
    BY <1>1
  <2>2. \A i, j, r, s, u, v, w \in Int :
          (i - (r * u + s * w)) * v - (j - s * v) * w = (i * v - j * w) - r * (u * v)
    OBVIOUS
  <2> QED BY <1>1, <2>1, <2>2 DEF Det
<1>6. y * box[1] = g - n[2] * D
  <2>1. \A j, s, u, v \in Int : (j - s * v) * u = j * u - s * (u * v)
    OBVIOUS
  <2> QED BY <1>1, <2>1 DEF Det
<1>7. /\ (f - n[1] * D) * (f - n[1] * D) <= N * E
      /\ (g - n[2] * D) * (g - n[2] * D) <= N * F
  <2>1. (x * box[2] - y * box[3]) * (x * box[2] - y * box[3]) <= N * E
    <3> HIDE DEF x, y, N
    <3>1. \A u, v \in Int : (x * u - y * v) * (x * u - y * v) <= N * (u * u + v * v)
      BY <1>1, <1>2, <1>4, Schwarz
    <3>2. box[2] \in Int /\ box[3] \in Int /\ E = box[2] * box[2] + box[3] * box[3]
      BY <1>1 DEF Square
    <3> HIDE DEF E
    <3> QED BY <3>1, <3>2
  <2>2. (y * box[1]) * (y * box[1]) <= N * F
    <3> HIDE DEF x, y, N
    <3>1. y * y <= N
      <4>1. x * x >= 0 /\ x * x \in Int /\ y * y \in Int
        BY <1>2
      <4> QED BY <1>1, <1>4, <4>1
    <3>2. \A u \in Nat : (y * u) * (y * u) <= N * (u * u)
      <4>1. ASSUME NEW u \in Nat PROVE (y * u) * (y * u) <= N * (u * u)
        <5>1. u * u \in Nat /\ y * y \in Int
          BY <1>2
        <5>2. (y * y) * (u * u) <= N * (u * u)
          BY <1>1, <3>1, <5>1
        <5>3. (y * u) * (y * u) = (y * y) * (u * u)
          BY <1>2
        <5> QED BY <5>2, <5>3
      <4> QED BY <4>1
    <3> QED BY <1>1, <3>2 DEF Square
  <2> QED BY <1>5, <1>6, <2>1, <2>2
<1> HIDE DEF D, N, x, y, f, g, E, F
<1>8. e \in Nat /\ N * E <= e * e /\ h \in Nat /\ N * F <= h * h
  BY <1>3, RootIsUp
<1> HIDE DEF e, h
<1>9. n[1] \in (f - e) \div D - 1 .. -((-f - e) \div D) + 1
  <2> DEFINE a == f - n[1] * D
  <2>1. a \in Int
    <3>1. n[1] * D \in Int
      BY <1>1, <1>3
    <3> QED BY <1>2, <3>1
  <2>2. a * a <= e * e
    BY <1>3, <1>7, <1>8, <2>1
  <2>3. -e <= a /\ a <= e
    <3> HIDE DEF a
    <3> QED BY <1>8, <2>1, <2>2, Between2
  <2> QED BY <1>1, <1>2, <1>3, <1>8, <2>3, PlanesCover
<1>10. n[2] \in (g - h) \div D - 1 .. -((-g - h) \div D) + 1
  <2> DEFINE a == g - n[2] * D
  <2>1. a \in Int
    <3>1. n[2] * D \in Int
      BY <1>1, <1>3
    <3> QED BY <1>2, <3>1
  <2>2. a * a <= h * h
    BY <1>3, <1>7, <1>8, <2>1
  <2>3. -h <= a /\ a <= h
    <3> HIDE DEF a
    <3> QED BY <1>8, <2>1, <2>2, Between2
  <2> QED BY <1>1, <1>2, <1>3, <1>8, <2>3, PlanesCover
<1>11. /\ Images(d, box)[1] = (f - e) \div D - 1 .. -((-f - e) \div D) + 1
       /\ Images(d, box)[2] = (g - h) \div D - 1 .. -((-g - h) \div D) + 1
  <2>1. Fraction(d, box) = <<f, g>> /\ Dual(box) = <<E, F>>
    BY DEF Fraction, Dual, f, g, E, F
  <2> QED BY <2>1 DEF Images, Axis, e, h, D, N
<1> QED BY <1>9, <1>10, <1>11

\* The bounded search of a tilted box finds an image, and no image in the whole plane
\* is shorter: "the dual-vector bound includes every image shorter than the initial
\* rounded fractional image" (MinimumImage.hpp:12-16, 73-110).
THEOREM BoundedSearch ==
  ASSUME NEW d \in Plane, NEW box, Skewed(box)
  PROVE  /\ \E m \in Int \X Int : MIC(d, box) = Off(d, m, box)
         /\ \A n \in Int \X Int : Norm2(MIC(d, box)) <= Norm2(Off(d, n, box))
<1> DEFINE rounded == [k \in Axis |-> Round(Fraction(d, box)[k], Det(box))]
           reduced == Between(d, Cell(rounded, box))
           images  == Images(reduced, box)
           found   == {Between(reduced, Cell(n, box)) : n \in images[1] \X images[2]}
           x == MIC(d, box)
<1>1. box \in Box /\ Det(box) \in Nat \ {0} /\ Fraction(d, box)[1] \in Int /\ Fraction(d, box)[2] \in Int
  <2>1. /\ box[1] \in Nat \ {0} /\ box[2] \in Nat \ {0} /\ box[3] \in Int
        /\ d[1] \in Int /\ d[2] \in Int
    BY DEF Skewed, Box, Plane, Axis
  <2>2. d[1] * box[2] \in Int /\ d[2] * box[3] \in Int /\ d[2] * box[1] \in Int
        /\ box[1] * box[2] \in Nat \ {0}
    BY <2>1
  <2> QED BY <2>1, <2>2 DEF Skewed, Det, Fraction
<1>2. rounded[1] \in Int /\ rounded[2] \in Int
  <2>1. rounded[1] = Round(Fraction(d, box)[1], Det(box))
        /\ rounded[2] = Round(Fraction(d, box)[2], Det(box))
    BY DEF Axis
  <2> HIDE DEF rounded
  <2> QED BY <1>1, <2>1, Rounded
<1>3. x = CHOOSE y \in found \cup {reduced} : \A z \in found : Norm2(y) <= Norm2(z)
  BY DEF MIC, Fold, Skewed
<1> HIDE DEF rounded, x
<1>4. reduced \in Plane /\ reduced = Off(d, rounded, box)
  BY <1>1, <1>2, OffInPlane DEF Off
<1>5. ASSUME NEW n \in Int \X Int
      PROVE  Off(d, n, box) = Off(reduced, <<n[1] - rounded[1], n[2] - rounded[2]>>, box)
  <2> DEFINE r == <<n[1] - rounded[1], n[2] - rounded[2]>>
             A == Off(d, n, box)
             B == Off(reduced, r, box)
  <2>0. /\ box[1] \in Int /\ box[2] \in Int /\ box[3] \in Int /\ d[1] \in Int /\ d[2] \in Int
        /\ n[1] \in Int /\ n[2] \in Int /\ r[1] \in Int /\ r[2] \in Int
    BY <1>1, <1>2 DEF Box, Plane, Axis
  <2>1. /\ A[1] = d[1] - (n[1] * box[1] + n[2] * box[3])
        /\ A[2] = d[2] - n[2] * box[2]
        /\ A \in Plane
    BY <1>1, <2>0, OffInPlane
  <2>2. /\ reduced[1] = d[1] - (rounded[1] * box[1] + rounded[2] * box[3])
        /\ reduced[2] = d[2] - rounded[2] * box[2]
    BY <1>1, <1>2, <1>4, OffInPlane
  <2>3. /\ B[1] = reduced[1] - (r[1] * box[1] + r[2] * box[3])
        /\ B[2] = reduced[2] - r[2] * box[2]
        /\ B \in Plane
    <3> HIDE DEF r, reduced
    <3> QED BY <1>1, <1>4, <2>0, OffInPlane, ZenonT(60)
  <2> HIDE DEF A, B, reduced
  <2>4. r[1] = n[1] - rounded[1] /\ r[2] = n[2] - rounded[2]
    OBVIOUS
  <2> HIDE DEF r
  <2>5. A[1] = B[1] /\ A[2] = B[2]
    <3> DEFINE u == box[1]
               v == box[2]
               w == box[3]
               i == n[1]
               j == n[2]
               k == rounded[1]
               l == rounded[2]
    <3>1. /\ A[1] = d[1] - (i * u + j * w) /\ A[2] = d[2] - j * v
          /\ B[1] = (d[1] - (k * u + l * w)) - ((i - k) * u + (j - l) * w)
          /\ B[2] = (d[2] - l * v) - (j - l) * v
      BY <2>1, <2>2, <2>3, <2>4
    <3>2. /\ u \in Int /\ v \in Int /\ w \in Int /\ i \in Int /\ j \in Int /\ k \in Int
          /\ l \in Int /\ d[1] \in Int /\ d[2] \in Int
      BY <1>2, <2>0
    <3> HIDE DEF u, v, w, i, j, k, l
    <3> QED BY <3>1, <3>2
  <2>6. A = B
    BY <2>1, <2>3, <2>5 DEF Plane, Axis
  <2> QED BY <2>6 DEF A, B, r
<1>6. \A n \in Int \X Int :
        Norm2(Off(reduced, n, box)) <= Norm2(reduced) => Off(reduced, n, box) \in found
  <2>1. SUFFICES ASSUME NEW n \in Int \X Int, Norm2(Off(reduced, n, box)) <= Norm2(reduced)
                 PROVE  Off(reduced, n, box) \in found
    OBVIOUS
  <2>2. n \in images[1] \X images[2]
    <3> HIDE DEF reduced
    <3> QED BY <1>4, <2>1, ImagesCover
  <2> HIDE DEF reduced, images
  <2> QED BY <2>2 DEF Off
<1>7. \A y \in found : \E n \in Int \X Int : y = Off(reduced, n, box)
  <2>1. \A n \in images[1] \X images[2] : n \in Int \X Int
    <3> DEFINE low(k)  == (Fraction(reduced, box)[k]
                           - RootUp(Norm2(reduced) * Dual(box)[k])) \div Det(box) - 1
               high(k) == -((-Fraction(reduced, box)[k]
                             - RootUp(Norm2(reduced) * Dual(box)[k])) \div Det(box)) + 1
    <3>1. images[1] = low(1) .. high(1) /\ images[2] = low(2) .. high(2)
      BY DEF Images, Axis
    <3>2. \A a, b : \A i \in a .. b : i \in Int
      OBVIOUS
    <3> HIDE DEF low, high, images
    <3> QED BY <3>1, <3>2
  <2> HIDE DEF reduced, images
  <2> QED BY <2>1 DEF Off
<1>8. reduced \in found
  <2> DEFINE O == Off(reduced, <<0, 0>>, box)
  <2>1. /\ O \in Plane /\ O[1] = reduced[1] - (0 * box[1] + 0 * box[3])
        /\ O[2] = reduced[2] - 0 * box[2]
    <3> HIDE DEF reduced
    <3> QED BY <1>1, <1>4, OffInPlane
  <2>2. box[1] \in Int /\ box[2] \in Int /\ box[3] \in Int
    BY <1>1 DEF Box
  <2> HIDE DEF reduced, O, found
  <2>3. O = reduced
    BY <1>4, <2>1, <2>2 DEF Plane, Axis
  <2>4. Norm2(O) <= Norm2(reduced)
    BY <1>4, <2>3, NormInt
  <2> QED BY <1>6, <2>3, <2>4 DEF O
<1>9. \A y \in found : Norm2(y) \in Nat
  <2> HIDE DEF found, reduced
  <2>1. ASSUME NEW y \in found PROVE Norm2(y) \in Nat
    <3>1. PICK n \in Int \X Int : y = Off(reduced, n, box)
      BY <1>7
    <3>2. y \in Plane
      BY <1>1, <1>4, <3>1, OffInPlane
    <3> QED BY <3>2, NormInt
  <2> QED BY <2>1
<1> HIDE DEF found, reduced
<1>10. x \in found /\ \A z \in found : Norm2(x) <= Norm2(z)
  <2> DEFINE T == {Norm2(y) : y \in found}
  <2>1. T \in SUBSET Nat /\ T # {}
    BY <1>8, <1>9
  <2>2. PICK t \in T : \A u \in T : t <= u
    <3> HIDE DEF T
    <3> QED BY <2>1, Smallest
  <2>3. \E y \in found \cup {reduced} : \A z \in found : Norm2(y) <= Norm2(z)
    BY <2>2
  <2>4. x \in found \cup {reduced} /\ \A z \in found : Norm2(x) <= Norm2(z)
    BY <1>3, <2>3
  <2> QED BY <1>8, <2>4
<1>11. \E m \in Int \X Int : x = Off(d, m, box)
  <2>1. PICK n \in Int \X Int : x = Off(reduced, n, box)
    BY <1>7, <1>10
  <2> DEFINE m == <<n[1] + rounded[1], n[2] + rounded[2]>>
  <2>2. m \in Int \X Int /\ <<m[1] - rounded[1], m[2] - rounded[2]>> = n
    BY <1>2
  <2> HIDE DEF m
  <2>3. Off(d, m, box) = Off(reduced, n, box)
    BY <1>5, <2>2
  <2> QED BY <2>1, <2>2, <2>3
<1>12. ASSUME NEW n \in Int \X Int PROVE Norm2(x) <= Norm2(Off(d, n, box))
  <2> DEFINE r == <<n[1] - rounded[1], n[2] - rounded[2]>>
  <2>1. r \in Int \X Int /\ Off(d, n, box) = Off(reduced, r, box)
    BY <1>2, <1>5
  <2> HIDE DEF r
  <2>2. Norm2(Off(reduced, r, box)) \in Nat
    BY <1>1, <1>4, <2>1, OffInPlane, NormInt
  <2>3. CASE Norm2(Off(reduced, r, box)) <= Norm2(reduced)
    BY <1>6, <1>10, <2>1, <2>3
  <2>4. CASE ~(Norm2(Off(reduced, r, box)) <= Norm2(reduced))
    BY <1>8, <1>9, <1>10, <2>1, <2>2, <2>4
  <2> QED BY <2>3, <2>4
<1> QED BY <1>11, <1>12 DEF x

\* What the search finds is a nearest image, row by row.
LEMMA TiltedNearest ==
  ASSUME NEW d \in Plane, NEW box, Skewed(box)
  PROVE  MIC(d, box) \in Nearest(d, box)
<1> DEFINE x == MIC(d, box)
<1>1. PICK m \in Int \X Int : x = Off(d, m, box)
  BY BoundedSearch
<1>2. \A n \in Int \X Int : Norm2(x) <= Norm2(Off(d, n, box))
  BY BoundedSearch
<1> HIDE DEF x
<1>3. /\ box \in Box /\ box[1] \in Nat \ {0} /\ box[2] \in Nat \ {0} /\ box[3] \in Int
      /\ d[1] \in Int /\ d[2] \in Int /\ m[1] \in Int /\ m[2] \in Int
  BY DEF Skewed, Box, Plane, Axis
<1>4. /\ x \in Plane /\ x[1] = d[1] - (m[1] * box[1] + m[2] * box[3])
      /\ x[2] = d[2] - m[2] * box[2]
  BY <1>1, <1>3, OffInPlane
<1>5. x[1] \in Int /\ x[2] \in Int /\ Norm2(x) = x[1] * x[1] + x[2] * x[2]
  BY <1>4 DEF Plane, Axis, Norm2, Square
<1>6. ASSUME NEW n \in Int \X Int
      PROVE  LET a == d[1] - (n[1] * box[1] + n[2] * box[3])
                 b == d[2] - n[2] * box[2]
             IN  a \in Int /\ b \in Int /\ x[1] * x[1] + x[2] * x[2] <= a * a + b * b
  <2> DEFINE a == d[1] - (n[1] * box[1] + n[2] * box[3])
             b == d[2] - n[2] * box[2]
             y == Off(d, n, box)
  <2>1. y[1] = a /\ y[2] = b /\ y \in Plane
    BY <1>3, OffInPlane, SMTT(30)
  <2>2. Norm2(x) <= Norm2(y)
    BY <1>2
  <2> HIDE DEF a, b, y
  <2>3. a \in Int /\ b \in Int /\ Norm2(y) = a * a + b * b
    BY <2>1 DEF Plane, Axis, Norm2, Square
  <2> QED BY <1>5, <2>2, <2>3 DEF a, b
<1>7. 2 * Abs(x[1]) <= box[1]
  <2> DEFINE w == box[1]
             X == x[1]
             Y == x[2]
             A == m[1] * box[1]
             B == m[2] * box[3]
  <2>1. /\ <<m[1] + 1, m[2]>> \in Int \X Int /\ <<m[1] - 1, m[2]>> \in Int \X Int
        /\ A \in Int /\ B \in Int /\ (m[1] + 1) * box[1] = A + w /\ (m[1] - 1) * box[1] = A - w
    BY <1>3
  <2>2. /\ X * X + Y * Y <= (X - w) * (X - w) + Y * Y
        /\ X * X + Y * Y <= (X + w) * (X + w) + Y * Y
    <3> DEFINE p == <<m[1] + 1, m[2]>>
               q == <<m[1] - 1, m[2]>>
    <3>1. X * X + Y * Y
            <= (d[1] - (p[1] * box[1] + p[2] * box[3])) * (d[1] - (p[1] * box[1] + p[2] * box[3]))
               + (d[2] - p[2] * box[2]) * (d[2] - p[2] * box[2])
      <4>1. p \in Int \X Int
        BY <2>1
      <4> HIDE DEF p
      <4> QED BY <1>6, <4>1
    <3>2. X * X + Y * Y
            <= (d[1] - (q[1] * box[1] + q[2] * box[3])) * (d[1] - (q[1] * box[1] + q[2] * box[3]))
               + (d[2] - q[2] * box[2]) * (d[2] - q[2] * box[2])
      <4>1. q \in Int \X Int
        BY <2>1
      <4> HIDE DEF q
      <4> QED BY <1>6, <4>1
    <3>3. /\ d[1] - (p[1] * box[1] + p[2] * box[3]) = X - w
          /\ d[1] - (q[1] * box[1] + q[2] * box[3]) = X + w
      <4>1. X = d[1] - (A + B)
        BY <1>4
      <4>2. p[1] * box[1] = A + w /\ p[2] * box[3] = B /\ q[1] * box[1] = A - w /\ q[2] * box[3] = B
        BY <2>1
      <4>3. w \in Int
        BY <1>3
      <4> HIDE DEF A, B, X, w
      <4> QED BY <1>3, <2>1, <4>1, <4>2, <4>3
    <3>4. d[2] - p[2] * box[2] = Y /\ d[2] - q[2] * box[2] = Y
      BY <1>4
    <3> HIDE DEF X, Y, w, p, q
    <3> QED BY <3>1, <3>2, <3>3, <3>4
  <2>3. w \in Nat \ {0} /\ X \in Int /\ Y * Y \in Int
    BY <1>3, <1>5
  <2> HIDE DEF w, X, Y
  <2>4. X * X <= (X - w) * (X - w) /\ X * X <= (X + w) * (X + w)
    <3>1. X * X \in Int /\ (X - w) * (X - w) \in Int /\ (X + w) * (X + w) \in Int
      BY <2>3
    <3> QED BY <2>2, <2>3, <3>1
  <2>5. 2 * X <= w /\ -(2 * X) <= w
    <3>1. (X - w) * (X - w) = X * X - w * (2 * X) + w * w
          /\ (X + w) * (X + w) = X * X + w * (2 * X) + w * w
      BY <2>3
    <3>2. w * (2 * X) <= w * w /\ w * (-(2 * X)) <= w * w
      <4>1. w * (-(2 * X)) = -(w * (2 * X)) /\ w * (2 * X) \in Int /\ w * w \in Int /\ X * X \in Int
        BY <2>3
      <4> QED BY <2>4, <3>1, <4>1
    <3>3. \A a \in Int : w * a <= w * w => a <= w
      BY <2>3
    <3> QED BY <2>3, <3>2, <3>3
  <2>6. 2 * Abs(X) <= w
    BY <2>3, <2>5 DEF Abs
  <2> QED BY <2>6 DEF X, w
<1>8. x[1] \in Along(d[1] - m[2] * box[3], box[1])
  <2> DEFINE e == d[1] - m[2] * box[3]
  <2>1. e \in Int /\ x[1] = e - m[1] * box[1]
    <3>1. m[2] * box[3] \in Int /\ m[1] * box[1] \in Int
      BY <1>3
    <3> QED BY <1>3, <1>4, <3>1
  <2>2. 2 * Abs(e - m[1] * box[1]) <= box[1]
    BY <1>7, <2>1
  <2> HIDE DEF e
  <2>3. e - m[1] * box[1] \in Along(e, box[1])
    BY <1>3, <2>1, <2>2, AlongFound
  <2> QED BY <2>1, <2>3 DEF e
<1>9. m[2] \in -Farthest(d, box) .. Farthest(d, box)
  <2> DEFINE a == Abs(d[1])
             b == Abs(d[2])
             s == a + 2 * b
             P == m[2] * box[2]
  <2>1. a \in Nat /\ b \in Nat /\ s \in Nat /\ d[1] * d[1] = a * a /\ d[2] * d[2] = b * b
        /\ P \in Int
    BY <1>3 DEF Abs
  <2>3. x[1] * x[1] + x[2] * x[2] <= d[1] * d[1] + d[2] * d[2]
    <3>1. <<0, 0>> \in Int \X Int
      OBVIOUS
    <3>2. /\ d[1] - (<<0, 0>>[1] * box[1] + <<0, 0>>[2] * box[3]) = d[1]
          /\ d[2] - <<0, 0>>[2] * box[2] = d[2]
      BY <1>3
    <3> QED BY <1>6, <3>1, <3>2
  <2>4. x[2] * x[2] <= (a + b) * (a + b)
    <3>1. a * a + b * b <= (a + b) * (a + b)
      <4> HIDE DEF a, b
      <4>1. a * b >= 0 /\ (a + b) * (a + b) = a * a + 2 * (a * b) + b * b /\ a * b \in Int
        BY <2>1
      <4> QED BY <2>1, <4>1
    <3>2. x[1] * x[1] >= 0 /\ x[1] * x[1] \in Int /\ x[2] * x[2] \in Int
      BY <1>5
    <3> HIDE DEF a, b
    <3>3. a * a + b * b \in Int /\ (a + b) * (a + b) \in Int
      BY <2>1
    <3> QED BY <2>1, <2>3, <3>1, <3>2, <3>3
  <2>5. -(a + b) <= x[2] /\ x[2] <= a + b
    <3>1. a + b \in Nat
      BY <2>1
    <3> HIDE DEF a, b
    <3> QED BY <1>5, <2>4, <3>1, Between2
  <2>6. -s <= P /\ P <= s
    <3>1. P = d[2] - x[2] /\ -b <= d[2] /\ d[2] <= b
      <4>1. -b <= d[2] /\ d[2] <= b
        BY <1>3 DEF Abs
      <4> HIDE DEF P, b
      <4> QED BY <1>3, <1>4, <1>5, <2>1, <4>1 DEF P
    <3> HIDE DEF P, a, b
    <3> QED BY <1>3, <1>5, <2>1, <2>5, <3>1
  <2> HIDE DEF s
  <2>7. m[2] \in -(s \div box[2]) .. s \div box[2]
    BY <1>3, <2>1, <2>6, RowsReach
  <2> QED BY <2>7 DEF Farthest, s
<1>10. x \in Rows(d, box)
  <2> DEFINE e == d[1] - m[2] * box[3]
  <2>1. x \in Along(e, box[1]) \X {d[2] - m[2] * box[2]}
    <3>1. x = [k \in Axis |-> x[k]] /\ x[1] \in Along(e, box[1]) /\ x[2] \in {d[2] - m[2] * box[2]}
      BY <1>4, <1>8 DEF Plane
    <3> HIDE DEF e
    <3> QED BY <3>1, VectorIsPair
  <2> QED BY <1>9, <2>1 DEF Rows
<1>11. ASSUME NEW y \in Rows(d, box) PROVE Norm2(x) <= Norm2(y)
  <2>1. PICK n \in -Farthest(d, box) .. Farthest(d, box) :
          y \in Along(d[1] - n * box[3], box[1]) \X {d[2] - n * box[2]}
    BY <1>11 DEF Rows
  <2> DEFINE e == d[1] - n * box[3]
  <2>2. n \in Int /\ e \in Int /\ n * box[3] \in Int
    BY <1>3
  <2>3. y[1] \in Along(e, box[1]) /\ y[2] = d[2] - n * box[2]
    BY <2>1
  <2>4. PICK k \in Int : y[1] = e - k * box[1]
    <3> DEFINE z == y[1]
               w == box[1]
    <3>1. e \in Int /\ w \in Nat \ {0} /\ z \in Along(e, w)
      BY <1>3, <2>2, <2>3
    <3> HIDE DEF e, z, w
    <3>2. \E k \in Int : z = e - k * w
      BY <3>1, AlongImage
    <3> QED BY <3>2 DEF z, w
  <2>5. y[1] = d[1] - (k * box[1] + n * box[3])
    <3>1. k * box[1] \in Int
      BY <1>3
    <3> QED BY <1>3, <2>2, <2>4, <3>1
  <2> DEFINE p == <<k, n>>
  <2>6. p \in Int \X Int /\ p[1] = k /\ p[2] = n
    BY <2>2
  <2> HIDE DEF p
  <2>7. x[1] * x[1] + x[2] * x[2] <= y[1] * y[1] + y[2] * y[2]
    BY <1>6, <2>3, <2>5, <2>6
  <2> QED BY <1>5, <2>7 DEF Norm2, Square
<1> QED BY <1>10, <1>11 DEF Nearest, Skewed, x

-----------------------------------------------------------------------------
(* What a list that was captured nearby serves.                            *)

\* The geometry that requests can have.
Typed(q) ==
  /\ \A a \in DOMAIN q.R : q.R[a] \in Int \X Int
  /\ q.box \in Box /\ q.cutoff \in Nat

Folds(q) == \A p \in AllPairs(q) : MIC(Sep(q, p), q.box) \in Nearest(Sep(q, p), q.box)

\* All pairs within the cutoff, each with its folded separation.
Direct(q) == {<<p, MIC(Sep(q, p), q.box)>> : p \in UpTo(q, AllPairs(q), q.cutoff)}

LEMMA SepInPlane ==
  ASSUME NEW q, Typed(q), NEW p \in AllPairs(q)
  PROVE  Sep(q, p) \in Plane /\ \A k \in Axis : Sep(q, p)[k] = q.R[p[1]][k] - q.R[p[2]][k]
<1>1. p[1] \in DOMAIN q.R /\ p[2] \in DOMAIN q.R
  BY DEF AllPairs
<1>2. q.R[p[1]] \in Int \X Int /\ q.R[p[2]] \in Int \X Int
  BY <1>1 DEF Typed
<1>3. \A k \in Axis : q.R[p[1]][k] \in Int /\ q.R[p[2]][k] \in Int
  BY <1>2 DEF Axis
<1> QED BY <1>3 DEF Sep, Between, Plane

\* They are a fresh scan's.
LEMMA DirectFresh ==
  ASSUME NEW q, Typed(q), Folds(q)
  PROVE  Fresh(q, Direct(q))
<1> DEFINE d(p) == Sep(q, p)
           v(p) == MIC(Sep(q, p), q.box)
           near == UpTo(q, AllPairs(q), q.cutoff)
           found == Direct(q)
<1>1. near = {p \in AllPairs(q) : Norm2(v(p)) <= Square(q.cutoff)}
  BY DEF UpTo
<1>2. ASSUME NEW p \in AllPairs(q)
      PROVE  /\ v(p) \in Nearest(d(p), q.box)
             /\ \A x \in Nearest(d(p), q.box) : Norm2(x) = Norm2(v(p))
  <2>1. d(p) \in Plane /\ q.box \in Box /\ v(p) \in Nearest(d(p), q.box)
    BY SepInPlane DEF Typed, Folds
  <2> QED BY <2>1, NearestNorm
<1>3. found = {<<p, v(p)>> : p \in near}
  BY DEF Direct
<1> HIDE DEF d, v, near, found
<1>4. {f[1] : f \in found} = near
  <2>1. \A f \in found : f[1] \in near
    BY <1>3
  <2>2. ASSUME NEW p \in near PROVE \E f \in found : p = f[1]
    <3>1. <<p, v(p)>> \in found /\ p = <<p, v(p)>>[1]
      BY <1>3
    <3> QED BY <3>1
  <2> QED BY <2>1, <2>2
<1>5. near = {p \in AllPairs(q) : \E x \in Nearest(d(p), q.box) : Norm2(x) <= Square(q.cutoff)}
  BY <1>1, <1>2
<1>6. \A f \in found : f[1] \in AllPairs(q) /\ f[2] = v(f[1])
  BY <1>1, <1>3
<1>7. \A f \in found : f[2] \in Nearest(d(f[1]), q.box)
  BY <1>2, <1>6
<1>8. \A f, g \in found : f[1] = g[1] => f = g
  <2>1. SUFFICES ASSUME NEW f \in found, NEW g \in found, f[1] = g[1] PROVE f = g
    OBVIOUS
  <2>2. PICK a \in near : f = <<a, v(a)>>
    BY <1>3
  <2>3. PICK b \in near : g = <<b, v(b)>>
    BY <1>3
  <2> QED BY <2>1, <2>2, <2>3
<1> QED BY <1>4, <1>5, <1>7, <1>8 DEF Fresh, d, found

\* Without a stored image a listed pair is folded where it is.
LEMMA FoldedVector ==
  ASSUME NEW q, Typed(q), NEW s, s.box = q.box, s.fold \in {"none", "round", "general"},
         s.fold = "none" => Free(q.box) /\ ~Tilted(q.box), NEW p \in AllPairs(q)
  PROVE  Vector(s, q, p) = MIC(Sep(q, p), q.box)
<1>1. CASE s.fold = "none"
  <2> DEFINE d == Sep(q, p)
  <2>1. d \in Plane
    BY SepInPlane
  <2>2. MIC(d, q.box) = Shifted(d, Image(d, q.box), q.box)
    BY <1>1 DEF MIC
  <2>3. \A k \in Axis : q.box[k] = 0
    BY <1>1 DEF Free
  <2> HIDE DEF d
  <2>4. ASSUME NEW k \in Axis PROVE d[k] - Image(d, q.box)[k] * q.box[k] = d[k]
    <3>1. d[k] \in Int /\ Image(d, q.box)[k] = 0
      BY <2>1, <2>3 DEF Plane, Image
    <3> QED BY <2>3, <3>1
  <2>5. d = [k \in Axis |-> d[k]]
    BY <2>1 DEF Plane
  <2>6. Shifted(d, Image(d, q.box), q.box) = d
    BY <2>4, <2>5 DEF Shifted
  <2> QED BY <1>1, <2>2, <2>6 DEF Vector, d
<1>2. CASE s.fold # "none"
  BY <1>2 DEF Vector
<1> QED BY <1>1, <1>2

\* Moving every atom by less than half a skin moves a separation by less than one.
LEMMA Approach ==
  ASSUME NEW d \in Plane, NEW e \in Plane, NEW m \in Plane, NEW box \in Box,
         NEW c \in Nat,
         Norm2(Between(e, d)) < Skin * Skin,
         Norm2(Shifted(d, m, box)) <= c * c
  PROVE  Norm2(Shifted(e, m, box)) < (c + Skin) * (c + Skin)
<1> DEFINE a == d[1] - m[1] * box[1]
           b == d[2] - m[2] * box[2]
           u == e[1] - d[1]
           v == e[2] - d[2]
<1>1. \A k \in Axis : d[k] \in Int /\ e[k] \in Int /\ m[k] \in Int /\ box[k] \in Nat
  BY DEF Plane, Box, Axis
<1>2. a \in Int /\ b \in Int /\ u \in Int /\ v \in Int /\ Skin \in Nat
  <2>1. \A k \in Axis : m[k] * box[k] \in Int
    BY <1>1
  <2>2. Skin \in Nat
    BY PoolAssumption
  <2> QED BY <1>1, <2>1, <2>2 DEF Axis
<1>3. Norm2(Shifted(d, m, box)) = a * a + b * b
  BY DEF Norm2, Square, Shifted, Axis
<1>4. Norm2(Between(e, d)) = u * u + v * v
  BY DEF Norm2, Square, Between, Axis
<1>5. e[1] - m[1] * box[1] = a + u /\ e[2] - m[2] * box[2] = b + v
  BY <1>1 DEF Axis
<1>6. Norm2(Shifted(e, m, box)) = (a + u) * (a + u) + (b + v) * (b + v)
  <2>1. Norm2(Shifted(e, m, box)) =
          (e[1] - m[1] * box[1]) * (e[1] - m[1] * box[1])
          + (e[2] - m[2] * box[2]) * (e[2] - m[2] * box[2])
    BY DEF Norm2, Square, Shifted, Axis
  <2> HIDE DEF a, b, u, v
  <2> QED BY <1>5, <2>1
<1> HIDE DEF a, b, u, v
<1>7. a * a + b * b <= c * c /\ u * u + v * v < Skin * Skin
  BY <1>3, <1>4
<1>8. (a + u) * (a + u) + (b + v) * (b + v) < (c + Skin) * (c + Skin)
  BY <1>2, <1>7, Triangle
<1> QED BY <1>6, <1>8

LEMMA Component ==
  ASSUME NEW x \in Plane, NEW c \in Nat, Norm2(x) <= c * c, NEW k \in Axis
  PROVE  Abs(x[k]) <= c
<1>1. x[1] \in Int /\ x[2] \in Int
  BY DEF Plane, Axis
<1>2. x[1] * x[1] + x[2] * x[2] <= c * c
  BY DEF Norm2, Square
<1>3. x[1] * x[1] >= 0 /\ x[2] * x[2] >= 0
  BY <1>1
<1>4. \A n \in Int : n * n <= c * c => Abs(n) <= c
  <2>1. SUFFICES ASSUME NEW n \in Int, Abs(n) > c PROVE n * n > c * c
    BY DEF Abs
  <2>2. CASE n > c
    BY <2>2
  <2>3. CASE -n > c
    <3>1. (-n) * (-n) > c * c
      BY <2>3
    <3> QED BY <3>1
  <2> QED BY <2>1, <2>2, <2>3 DEF Abs
<1>5. x[k] \in Int /\ x[k] * x[k] <= c * c
  <2>1. x[1] * x[1] <= c * c /\ x[2] * x[2] <= c * c
    <3> DEFINE a == x[1] * x[1]
               b == x[2] * x[2]
    <3>1. a \in Int /\ b \in Int /\ c * c \in Int
      BY <1>1
    <3> HIDE DEF a, b
    <3> QED BY <1>2, <1>3, <3>1 DEF a, b
  <2> QED BY <1>1, <2>1 DEF Axis
<1> QED BY <1>4, <1>5

\* The requests of a captured list and of a call that finds it valid.
Near(q0, q) ==
  /\ Typed(q0) /\ Typed(q) /\ ~Tilted(q0.box)
  /\ q.box = q0.box /\ q.cutoff = q0.cutoff /\ DOMAIN q.R = DOMAIN q0.R
  /\ \A a \in DOMAIN q.R : 4 * Norm2(Between(q.R[a], q0.R[a])) <= Square(Skin)

\* No atom is exactly half the skin away when the skin is odd.
LEMMA NotHalf ==
  ASSUME OddSkin, NEW n \in Int, 4 * n <= Skin * Skin
  PROVE  4 * n < Skin * Skin
<1> DEFINE k == Skin \div 2
<1>1. Skin \in Nat
  BY PoolAssumption
<1>2. k \in Int /\ Skin = 2 * k + 1
  BY <1>1 DEF OddSkin
<1> HIDE DEF k
<1>3. Skin * Skin = 4 * (k * k + k) + 1 /\ k * k + k \in Int
  BY <1>2
<1> QED BY <1>3

\* The separations of such requests differ by less than the skin.
LEMMA NearBy ==
  ASSUME OddSkin, NEW q0, NEW q, Near(q0, q), NEW p \in AllPairs(q)
  PROVE  /\ p \in AllPairs(q0)
         /\ Norm2(Between(Sep(q0, p), Sep(q, p))) < Skin * Skin
<1>1. p \in AllPairs(q0) /\ p[1] \in DOMAIN q.R /\ p[2] \in DOMAIN q.R
  BY DEF AllPairs, Near
<1>2. \A a \in DOMAIN q.R : \A k \in {1, 2} : q.R[a][k] \in Int /\ q0.R[a][k] \in Int
  BY DEF Near, Typed
<1>3. ASSUME NEW a \in DOMAIN q.R
      PROVE  4 * ((q.R[a][1] - q0.R[a][1]) * (q.R[a][1] - q0.R[a][1])
                  + (q.R[a][2] - q0.R[a][2]) * (q.R[a][2] - q0.R[a][2])) < Skin * Skin
  <2> DEFINE n == (q.R[a][1] - q0.R[a][1]) * (q.R[a][1] - q0.R[a][1])
                  + (q.R[a][2] - q0.R[a][2]) * (q.R[a][2] - q0.R[a][2])
  <2>1. n = Norm2(Between(q.R[a], q0.R[a]))
    BY DEF Norm2, Square, Between, Axis
  <2>2. 4 * n <= Skin * Skin
    BY <2>1 DEF Near, Square
  <2>3. n \in Int
    BY <1>2
  <2> HIDE DEF n
  <2>4. 4 * n < Skin * Skin
    BY <2>2, <2>3, NotHalf
  <2> QED BY <2>4 DEF n
<1> DEFINE a == q.R[p[2]][1] - q0.R[p[2]][1]
           b == q.R[p[2]][2] - q0.R[p[2]][2]
           u == q.R[p[1]][1] - q0.R[p[1]][1]
           v == q.R[p[1]][2] - q0.R[p[1]][2]
<1>4. a \in Int /\ b \in Int /\ u \in Int /\ v \in Int /\ Skin \in Int
  <2>1. Skin \in Int
    BY PoolAssumption
  <2>2. /\ q.R[p[2]][1] \in Int /\ q0.R[p[2]][1] \in Int
        /\ q.R[p[2]][2] \in Int /\ q0.R[p[2]][2] \in Int
    BY <1>1, <1>2
  <2>3. /\ q.R[p[1]][1] \in Int /\ q0.R[p[1]][1] \in Int
        /\ q.R[p[1]][2] \in Int /\ q0.R[p[1]][2] \in Int
    BY <1>1, <1>2
  <2>4. a \in Int /\ b \in Int
    BY <2>2
  <2>5. u \in Int /\ v \in Int
    BY <2>3
  <2> QED BY <2>1, <2>4, <2>5
<1>5. 4 * (a * a + b * b) < Skin * Skin /\ 4 * (u * u + v * v) < Skin * Skin
  BY <1>1, <1>3
<1>6. /\ Sep(q0, p)[1] - Sep(q, p)[1] = a - u
      /\ Sep(q0, p)[2] - Sep(q, p)[2] = b - v
  BY <1>1, <1>2 DEF Sep, Between, Axis
<1> HIDE DEF a, b, u, v
<1>7. Norm2(Between(Sep(q0, p), Sep(q, p))) = (a - u) * (a - u) + (b - v) * (b - v)
  BY <1>6 DEF Norm2, Square, Between, Axis
<1> QED BY <1>1, <1>4, <1>5, <1>7, TwoMoves, ZenonT(60)

\* A pair within the cutoff now was strictly within reach at the capture.
LEMMA WasInReach ==
  ASSUME OddSkin, NEW q0, NEW q, Near(q0, q), NEW p \in AllPairs(q),
         Norm2(MIC(Sep(q, p), q.box)) <= Square(q.cutoff)
  PROVE  /\ Norm2(Shifted(Sep(q0, p), Image(Sep(q, p), q.box), q.box)) < Square(Reach(q))
         /\ Norm2(MIC(Sep(q0, p), q0.box)) < Square(Reach(q0))
<1> DEFINE d == Sep(q, p)
           e == Sep(q0, p)
           m == Image(d, q.box)
<1>1. /\ p \in AllPairs(q0) /\ Norm2(Between(e, d)) < Skin * Skin
      /\ q.box \in Box /\ q.cutoff \in Nat /\ ~Tilted(q.box)
  BY NearBy DEF Near, Typed
<1>2. d \in Plane /\ e \in Plane
  BY <1>1, SepInPlane DEF Near
<1>3. m \in Plane /\ MIC(d, q.box) = Shifted(d, m, q.box)
  BY <1>1, <1>2, Folded
<1>4. Norm2(Shifted(d, m, q.box)) <= q.cutoff * q.cutoff
  BY <1>3 DEF Square
<1> HIDE DEF d, e, m
<1>5. Norm2(Shifted(e, m, q.box)) < (q.cutoff + Skin) * (q.cutoff + Skin)
  BY <1>1, <1>2, <1>3, <1>4, Approach
<1>6. Norm2(MIC(e, q.box)) <= Norm2(Shifted(e, m, q.box))
  BY <1>1, <1>2, <1>3, Shortened
<1>7. Norm2(MIC(e, q.box)) \in Int /\ Norm2(Shifted(e, m, q.box)) \in Int
  <2>1. MIC(e, q.box) \in Plane
    BY <1>1, <1>2, Folded
  <2>2. Shifted(e, m, q.box) \in Plane
    <3>1. \A k \in Axis : e[k] - m[k] * q.box[k] \in Int
      BY <1>1, <1>2, <1>3 DEF Plane, Box, Axis
    <3> QED BY <3>1 DEF Shifted, Plane
  <2> QED BY <2>1, <2>2, NormInt
<1>8. Reach(q) = q.cutoff + Skin /\ Reach(q0) = q.cutoff + Skin /\ q0.box = q.box
      /\ Skin \in Nat
  BY PoolAssumption DEF Reach, Near
<1>9. (q.cutoff + Skin) * (q.cutoff + Skin) \in Int
  BY <1>1, <1>8
<1>10. Norm2(MIC(e, q.box)) < (q.cutoff + Skin) * (q.cutoff + Skin)
  BY <1>5, <1>6, <1>7, <1>9
<1> QED BY <1>5, <1>8, <1>10 DEF d, e, m, Square

\* A stored image is the one that folds the pair now, when either vector is within
\* the cutoff and the box is wider than twice the reach.
LEMMA ImageKept ==
  ASSUME OddSkin, NEW q0, NEW q, Near(q0, q), NEW p \in AllPairs(q),
         \A k \in Axis : q.box[k] = 0 \/ 2 * Reach(q) < q.box[k],
         NEW v, v = Shifted(Sep(q, p), Image(Sep(q0, p), q.box), q.box),
         \/ Norm2(v) <= Square(q.cutoff)
         \/ Norm2(MIC(Sep(q, p), q.box)) <= Square(q.cutoff)
  PROVE  v = MIC(Sep(q, p), q.box)
<1> DEFINE d == Sep(q, p)
           e == Sep(q0, p)
           m == Image(d, q.box)
           n == Image(e, q.box)
<1>1. /\ p \in AllPairs(q0) /\ q.box \in Box /\ q.cutoff \in Nat /\ ~Tilted(q.box)
      /\ Reach(q) = q.cutoff + Skin /\ Reach(q) \in Nat /\ q.cutoff <= Reach(q)
  BY NearBy, PoolAssumption DEF Near, Typed, Reach
<1>2. d \in Plane /\ e \in Plane
  BY <1>1, SepInPlane DEF Near
<1>3. m \in Plane /\ n \in Plane /\ MIC(d, q.box) = Shifted(d, m, q.box)
  BY <1>1, <1>2, Folded
<1>4. \A k \in Axis : /\ d[k] \in Int /\ e[k] \in Int /\ m[k] \in Int /\ n[k] \in Int
                      /\ q.box[k] \in Nat
                      /\ m[k] = IF q.box[k] = 0 THEN 0 ELSE Round(d[k], q.box[k])
                      /\ n[k] = IF q.box[k] = 0 THEN 0 ELSE Round(e[k], q.box[k])
  <2>1. \A k \in Axis : /\ m[k] = IF q.box[k] = 0 THEN 0 ELSE Round(d[k], q.box[k])
                        /\ n[k] = IF q.box[k] = 0 THEN 0 ELSE Round(e[k], q.box[k])
    BY DEF Image
  <2> HIDE DEF d, e, m, n
  <2>2. \A k \in Axis : q.box[k] \in Nat
    BY <1>1 DEF Box, Axis
  <2> QED BY <1>2, <1>3, <2>1, <2>2 DEF Plane
<1>5. \A x, y \in Plane : Shifted(x, y, q.box) \in Plane
  <2>1. \A x, y \in Plane : \A k \in Axis : x[k] - y[k] * q.box[k] \in Int
    BY <1>4 DEF Plane
  <2> QED BY <2>1 DEF Shifted, Plane
<1> HIDE DEF d, e, m, n
<1>6. CASE Norm2(v) <= Square(q.cutoff)
  <2>1. v = Shifted(d, n, q.box) /\ v \in Plane
    BY <1>2, <1>3, <1>5 DEF d, e, n
  <2>2. ASSUME NEW k \in Axis PROVE n[k] = m[k]
    <3>1. CASE q.box[k] = 0
      BY <1>4, <3>1
    <3>2. CASE q.box[k] # 0
      <4>1. v[k] = d[k] - n[k] * q.box[k] /\ v[k] \in Int
        BY <2>1 DEF Shifted, Plane
      <4>2. Abs(v[k]) <= q.cutoff
        BY <1>1, <1>6, <2>1, Component DEF Square
      <4>3. 2 * Abs(v[k]) < q.box[k]
        BY <1>1, <1>4, <3>2, <4>1, <4>2 DEF Abs
      <4>4. n[k] = Round(d[k], q.box[k])
        BY <1>4, <3>2, <4>1, <4>3, OnlyRounded
      <4> QED BY <1>4, <3>2, <4>4
    <3> QED BY <3>1, <3>2
  <2>3. n = m
    BY <1>3, <2>2 DEF Plane
  <2> QED BY <1>3, <2>1, <2>3 DEF d
<1>7. CASE Norm2(MIC(d, q.box)) <= Square(q.cutoff)
  <2> DEFINE x == Shifted(e, m, q.box)
  <2>1. x \in Plane /\ Norm2(x) \in Nat
    BY <1>2, <1>3, <1>5, NormInt
  <2>2. Norm2(x) < Square(Reach(q))
    BY <1>7, WasInReach DEF d, e, m
  <2>3. Norm2(x) <= Reach(q) * Reach(q)
    <3> HIDE DEF x
    <3> QED BY <1>1, <2>1, <2>2 DEF Square
  <2>4. ASSUME NEW k \in Axis PROVE m[k] = n[k]
    <3>1. CASE q.box[k] = 0
      BY <1>4, <3>1
    <3>2. CASE q.box[k] # 0
      <4>1. x[k] = e[k] - m[k] * q.box[k] /\ x[k] \in Int
        <5>1. x[k] \in Int
          BY <2>1 DEF Plane
        <5> QED BY <5>1 DEF Shifted
      <4> HIDE DEF x
      <4>2. Abs(x[k]) <= Reach(q)
        BY <1>1, <2>1, <2>3, Component
      <4>3. 2 * Abs(x[k]) < q.box[k]
        BY <1>1, <1>4, <3>2, <4>1, <4>2 DEF Abs
      <4>4. m[k] = Round(e[k], q.box[k])
        BY <1>4, <3>2, <4>1, <4>3, OnlyRounded
      <4> QED BY <1>4, <3>2, <4>4
    <3> QED BY <3>1, <3>2
  <2>5. m = n
    BY <1>3, <2>4 DEF Plane
  <2> QED BY <1>3, <2>5 DEF d, e, n
<1> QED BY <1>6, <1>7 DEF d

\* A list serves what a direct scan does when it holds every pair within the cutoff
\* and agrees with the folded vectors there.
LEMMA SameServed ==
  ASSUME NEW q, NEW s, s.cutoff = q.cutoff, s.pairs \subseteq AllPairs(q),
         \A p \in AllPairs(q) :
           Norm2(MIC(Sep(q, p), q.box)) <= Square(q.cutoff) => p \in s.pairs,
         \A p \in s.pairs :
           \/ Norm2(Vector(s, q, p)) <= Square(q.cutoff)
           \/ Norm2(MIC(Sep(q, p), q.box)) <= Square(q.cutoff)
           => Vector(s, q, p) = MIC(Sep(q, p), q.box)
  PROVE  Served(s, q) = Direct(q)
<1> DEFINE v(p) == MIC(Sep(q, p), q.box)
           A == {x \in s.pairs : Norm2(Vector(s, q, x)) <= Square(s.cutoff)}
           B == UpTo(q, AllPairs(q), q.cutoff)
<1>1. B = {p \in AllPairs(q) : Norm2(v(p)) <= Square(q.cutoff)}
  BY DEF UpTo
<1>2. \A p \in A : Vector(s, q, p) = v(p)
  OBVIOUS
<1>3. A = B
  <2>1. \A p \in A : p \in B
    BY <1>1, <1>2
  <2>2. \A p \in B : p \in A
    BY <1>1
  <2> QED BY <2>1, <2>2
<1>4. Served(s, q) = {<<p, Vector(s, q, p)>> : p \in A}
  BY DEF Served
<1>5. Direct(q) = {<<p, v(p)>> : p \in B}
  BY DEF Direct
<1> HIDE DEF A, B, v
<1> QED BY <1>2, <1>3, <1>4, <1>5

\* A captured list serves what a scan of the caller's positions would.
Listing(id, q) == Slot(id, q, Within(q, AllPairs(q), Reach(q)), TRUE)

LEMMA ServedDirect ==
  ASSUME OddSkin, NEW q0, Typed(q0), Cacheable(q0), NEW q, Typed(q), NEW id,
         Valid(Listing(id, q0), q)
  PROVE  Served(Listing(id, q0), q) = Direct(q)
<1> DEFINE s == Listing(id, q0)
           listed == Within(q0, AllPairs(q0), Reach(q0))
<1>1. /\ s.R = q0.R /\ s.box = q0.box /\ s.cutoff = q0.cutoff /\ s.pairs = listed
      /\ s.complete = Complete(q0, listed) /\ s.fold = FoldMode(q0, listed, TRUE)
      /\ s.image = [p \in listed |-> Image(Sep(q0, p), q0.box)]
  BY DEF Listing, Slot
<1>2. /\ q.box = q0.box /\ q.cutoff = q0.cutoff /\ DOMAIN q.R = DOMAIN q0.R
      /\ s.complete \/ Unmoved(s, q)
  <2> HIDE DEF listed
  <2>1. /\ s.box = q.box /\ s.cutoff = q.cutoff /\ DOMAIN s.R = DOMAIN q.R
        /\ s.complete \/ Unmoved(s, q)
    BY DEF Valid
  <2> HIDE DEF s
  <2> QED BY <1>1, <2>1
<1>3. ~Tilted(q0.box) /\ AllPairs(q) = AllPairs(q0) /\ Reach(q) = Reach(q0)
  BY <1>2 DEF Cacheable, AllPairs, Reach
<1>4. listed = {p \in AllPairs(q0) : Norm2(MIC(Sep(q0, p), q0.box)) < Square(Reach(q0))}
  BY DEF Within
<1>5. CASE Unmoved(s, q) /\ ~s.complete
  <2>1. Near(q0, q)
    <3> HIDE DEF s
    <3> QED BY <1>1, <1>2, <1>3, <1>5 DEF Unmoved, Near
  <2>2. q.box \in Box /\ Skin \in Nat /\ q.cutoff \in Nat
    BY PoolAssumption DEF Typed
  <2>3. ASSUME NEW p \in AllPairs(q), Norm2(MIC(Sep(q, p), q.box)) <= Square(q.cutoff)
        PROVE  p \in listed
    <3> HIDE DEF s, listed
    <3> QED BY <1>3, <1>4, <2>1, <2>3, WasInReach
  <2>4. ASSUME NEW p \in listed,
               \/ Norm2(Vector(s, q, p)) <= Square(q.cutoff)
               \/ Norm2(MIC(Sep(q, p), q.box)) <= Square(q.cutoff)
        PROVE  Vector(s, q, p) = MIC(Sep(q, p), q.box)
    <3>1. p \in AllPairs(q)
      BY <1>3, <1>4
    <3>2. CASE s.fold = "coded"
      <4>1. \A k \in Axis : q.box[k] = 0 \/ 2 * Reach(q) < q.box[k]
        <5>1. \A k \in Axis : q0.box[k] = 0 \/ 2 * Reach(q0) < q0.box[k]
          <6> HIDE DEF s, listed
          <6> QED BY <1>1, <3>2 DEF FoldMode
        <5> QED BY <1>2, <1>3, <5>1
      <4>2. Vector(s, q, p) = Shifted(Sep(q, p), Image(Sep(q0, p), q.box), q.box)
        <5> HIDE DEF s, listed
        <5>1. Vector(s, q, p) = Shifted(Sep(q, p), s.image[p], s.box)
          BY <3>2 DEF Vector
        <5> QED BY <1>1, <1>2, <2>4, <5>1
      <4> HIDE DEF s, listed
      <4> QED BY <2>1, <2>4, <3>1, <4>1, <4>2, ImageKept
    <3>3. CASE s.fold # "coded"
      <4> HIDE DEF s, listed
      <4>1. s.fold \in {"none", "round"} /\ (s.fold = "none" => Free(q.box))
        BY <1>1, <1>2, <1>3, <3>3 DEF FoldMode
      <4> QED BY <1>1, <1>2, <1>3, <3>1, <4>1, FoldedVector, ZenonT(60)
    <3> QED BY <3>2, <3>3
  <2>5. listed \subseteq AllPairs(q) /\ s.pairs = listed /\ s.cutoff = q.cutoff
    BY <1>1, <1>2, <1>3, <1>4
  <2> HIDE DEF s, listed
  <2> QED BY <2>3, <2>4, <2>5, SameServed DEF s
<1>6. CASE s.complete
  <2> HIDE DEF s, listed
  <2>1. listed = AllPairs(q) /\ s.fold \in {"none", "round"}
        /\ (s.fold = "none" => Free(q.box))
    BY <1>1, <1>2, <1>3, <1>6 DEF FoldMode, Complete
  <2>2. \A p \in AllPairs(q) : Vector(s, q, p) = MIC(Sep(q, p), q.box)
    BY <1>1, <1>2, <1>3, <2>1, FoldedVector
  <2> QED BY <1>1, <1>2, <2>1, <2>2, SameServed DEF s
<1> QED BY <1>2, <1>5, <1>6

\* A list for one evaluation serves what a direct scan does.
LEMMA OnceDirect ==
  ASSUME NEW q, Typed(q), NEW id
  PROVE  Served(Slot(id, q, UpTo(q, AllPairs(q), q.cutoff), FALSE), q) = Direct(q)
<1> DEFINE near == UpTo(q, AllPairs(q), q.cutoff)
           s == Slot(id, q, near, FALSE)
<1>1. /\ s.box = q.box /\ s.cutoff = q.cutoff /\ s.pairs = near
      /\ s.fold = FoldMode(q, near, FALSE)
  BY DEF Slot
<1>2. near = {p \in AllPairs(q) : Norm2(MIC(Sep(q, p), q.box)) <= Square(q.cutoff)}
  BY DEF UpTo
<1> HIDE DEF s, near
<1>3. s.fold \in {"none", "round", "general"} /\ (s.fold = "none" => Free(q.box) /\ ~Tilted(q.box))
  BY <1>1 DEF FoldMode
<1>4. \A p \in AllPairs(q) : Vector(s, q, p) = MIC(Sep(q, p), q.box)
  BY <1>1, <1>3, FoldedVector
<1> QED BY <1>1, <1>2, <1>4, SameServed DEF s, near

-----------------------------------------------------------------------------
(* The grid of cells: it brings every pair within reach together, once.    *)

\* A remainder is known by its range and its distance in widths.
LEMMA Remainder ==
  ASSUME NEW y \in Int, NEW n \in Nat \ {0}, NEW z \in Int, 0 <= z, z < n,
         NEW k \in Int, y = z + k * n
  PROVE  y % n = z
<1> DEFINE r == y % n
           q == y \div n
<1>1. r \in Int /\ 0 <= r /\ r < n
  OBVIOUS
<1>2. y = n * q + r /\ q \in Int
  <2>1. q \in Int
    OBVIOUS
  <2>2. n \in Int /\ n > 0
    OBVIOUS
  <2>3. y = n * (y \div n) + (y % n)
    OBVIOUS
  <2> QED BY <2>1, <2>3
<1> HIDE DEF r, q
<1>3. r - z = (k - q) * n
  BY <1>1, <1>2
<1>4. CASE k - q >= 1
  <2>1. (k - q) * n >= n
    BY <1>2, <1>4
  <2> QED BY <1>1, <1>3, <2>1
<1>5. CASE k - q <= -1
  <2>1. (k - q) * n <= -n
    BY <1>2, <1>5
  <2> QED BY <1>1, <1>3, <2>1
<1>6. CASE k - q = 0
  <2>1. (k - q) * n = 0
    BY <1>6
  <2> QED BY <1>1, <1>3, <2>1 DEF r
<1> QED BY <1>2, <1>4, <1>5, <1>6

\* Positions at most a cell's width apart lie in the same or in adjacent cells.
LEMMA Adjacent ==
  ASSUME NEW x \in Int, NEW y \in Int, NEW n \in Nat, NEW w \in Nat \ {0}, NEW r \in Nat,
         n * r <= w, Abs(x - y) <= r
  PROVE  (x * n) \div w - (y * n) \div w \in {-1, 0, 1}
<1> DEFINE a == (x * n) \div w
           b == (y * n) \div w
           A == w * a
           B == w * b
           X == x * n
           Y == y * n
<1>1. X \in Int /\ Y \in Int
  OBVIOUS
<1>2. a \in Int /\ b \in Int /\ A \in Int /\ B \in Int
      /\ A <= X /\ X < A + w /\ B <= Y /\ Y < B + w
  BY <1>1, Quotient
<1>3. X - Y <= w /\ Y - X <= w
  <2>1. x - y <= r /\ y - x <= r
    BY DEF Abs
  <2>2. (x - y) * n <= r * n /\ (y - x) * n <= r * n
    BY <2>1
  <2>3. (x - y) * n = X - Y /\ (y - x) * n = Y - X /\ r * n = n * r
    OBVIOUS
  <2> HIDE DEF X, Y
  <2> QED BY <1>1, <2>2, <2>3
<1>4. A - B < 2 * w /\ B - A < 2 * w
  <2> HIDE DEF A, B, X, Y
  <2> QED BY <1>1, <1>2, <1>3
<1>5. a - b <= 1
  <2>1. SUFFICES ASSUME a - b >= 2 PROVE FALSE
    BY <1>2
  <2>2. w * (a - b) >= w * 2
    BY <1>2, <2>1
  <2>3. w * (a - b) = A - B
    BY <1>2
  <2> HIDE DEF A, B
  <2> QED BY <1>2, <1>4, <2>2, <2>3
<1>6. b - a <= 1
  <2>1. SUFFICES ASSUME b - a >= 2 PROVE FALSE
    BY <1>2
  <2>2. w * (b - a) >= w * 2
    BY <1>2, <2>1
  <2>3. w * (b - a) = B - A
    BY <1>2
  <2> HIDE DEF A, B
  <2> QED BY <1>2, <1>4, <2>2, <2>3
<1> HIDE DEF a, b
<1>7. a - b \in {-1, 0, 1}
  BY <1>2, <1>5, <1>6
<1> QED BY <1>7 DEF a, b

\* Whole widths come out of a quotient.
LEMMA Shift ==
  ASSUME NEW y \in Int, NEW w \in Nat \ {0}, NEW k \in Int
  PROVE  (y + k * w) \div w = y \div w + k
<1> DEFINE a == (y + k * w) \div w
           b == y \div w
           K == k * w
           A == w * a
           B == w * b
<1>1. K \in Int
  OBVIOUS
<1>2. a \in Int /\ A \in Int /\ A <= y + K /\ y + K < A + w
  BY <1>1, Quotient
<1>3. b \in Int /\ B \in Int /\ B <= y /\ y < B + w
  BY Quotient
<1>4. A - B - K < w /\ B + K - A < w
  <2> HIDE DEF A, B, K
  <2> QED BY <1>1, <1>2, <1>3
<1>5. w * (a - b - k) = A - B - K
  <2> HIDE DEF a, b
  <2> QED BY <1>2, <1>3
<1> HIDE DEF a, b, A, B, K
<1>6. a - b - k <= 0
  <2>1. SUFFICES ASSUME a - b - k >= 1 PROVE FALSE
    BY <1>2, <1>3
  <2>2. w * (a - b - k) >= w
    BY <1>2, <1>3, <2>1
  <2> QED BY <1>1, <1>2, <1>3, <1>4, <1>5, <2>2
<1>7. a - b - k >= 0
  <2>1. SUFFICES ASSUME a - b - k <= -1 PROVE FALSE
    BY <1>2, <1>3
  <2>2. w * (a - b - k) <= -w
    BY <1>2, <1>3, <2>1
  <2> QED BY <1>1, <1>2, <1>3, <1>4, <1>5, <2>2
<1>8. a = b + k
  BY <1>2, <1>3, <1>6, <1>7
<1> QED BY <1>8 DEF a, b

\* What a position in a box of w has for a cell of n.
LEMMA InCells ==
  ASSUME NEW y \in Int, NEW w \in Nat \ {0}, NEW n \in Nat \ {0}, 0 <= y, y < w
  PROVE  (y * n) \div w \in Int /\ 0 <= (y * n) \div w /\ (y * n) \div w < n
<1> DEFINE a == (y * n) \div w
           A == w * a
           Y == y * n
           W == w * n
<1>1. Y \in Int /\ 0 <= Y /\ W \in Int /\ Y < W
  BY SMTT(30)
<1>2. a \in Int /\ A \in Int /\ A <= Y /\ Y < A + w
  BY <1>1, Quotient
<1> HIDE DEF A, Y, a
<1>3. a >= 0
  <2>1. SUFFICES ASSUME a <= -1 PROVE FALSE
    BY <1>2
  <2>2. w * a <= -w
    BY <1>2, <2>1
  <2> QED BY <1>1, <1>2, <2>2 DEF A
<1>4. a < n
  <2>1. SUFFICES ASSUME a >= n PROVE FALSE
    BY <1>2
  <2>2. w * a >= w * n
    BY <1>2, <2>1
  <2> HIDE DEF W
  <2>3. A >= W
    BY <2>2 DEF A, W
  <2> QED BY <1>1, <1>2, <2>3
<1> QED BY <1>2, <1>3, <1>4 DEF a, Y

\* Some image of a separation is at most r long.
Close(x, y, w, r) == \E m \in Int : Abs((x - y) - m * w) <= r

\* On a ring of n cells, d is m steps on from c.
Ring(n, c, d, m) ==
  /\ n \in Nat /\ 3 <= n /\ m \in {-1, 0, 1}
  /\ c \in Int /\ 0 <= c /\ c < n /\ d \in Int /\ 0 <= d /\ d < n
  /\ \E k \in Int : c + m = d + k * n

\* Along a periodic axis of three cells or more.
RingBin(w, n, x) == ((x % w) * n) \div w

LEMMA RingNext ==
  ASSUME NEW x \in Int, NEW y \in Int, NEW w \in Nat \ {0}, NEW r \in Nat, NEW n \in Nat,
         3 <= n, n * r <= w, Close(x, y, w, r)
  PROVE  \E o \in {-1, 0, 1} : Ring(n, RingBin(w, n, x), RingBin(w, n, y), o)
<1>0. PICK m \in Int : Abs((x - y) - m * w) <= r
  BY DEF Close
<1> DEFINE c == ((x % w) * n) \div w
           d == ((y % w) * n) \div w
<1> DEFINE X == x % w
           Y == y % w
           i == x \div w
           k == y \div w
           I == w * i
           K == w * k
           M == m * w
<1>1. w \in Int /\ w > 0
  OBVIOUS
<1>2. X \in Int /\ 0 <= X /\ X < w /\ Y \in Int /\ 0 <= Y /\ Y < w
  OBVIOUS
<1>3. x = I + X /\ i \in Int
  <2>1. x = w * (x \div w) + (x % w)
    OBVIOUS
  <2>2. x \div w \in Int
    OBVIOUS
  <2> QED BY <2>1, <2>2
<1>4. y = K + Y /\ k \in Int
  <2>1. y = w * (y \div w) + (y % w)
    OBVIOUS
  <2>2. y \div w \in Int
    OBVIOUS
  <2> QED BY <2>1, <2>2
<1> HIDE DEF X, Y, i, k
<1> DEFINE j == m - i + k
           J == j * w
<1>5. j \in Int /\ J \in Int /\ J = M - I + K /\ I \in Int /\ K \in Int /\ M \in Int
  BY <1>3, <1>4
<1> HIDE DEF j
<1>6. X - (Y + J) <= r /\ (Y + J) - X <= r
  <2>1. (x - y) - M <= r /\ M - (x - y) <= r
    <3>1. Abs((x - y) - M) <= r
      BY <1>0
    <3> HIDE DEF M
    <3> QED BY <1>5, <3>1 DEF Abs
  <2> HIDE DEF I, K, M, J
  <2> QED BY <1>2, <1>3, <1>4, <1>5, <2>1
<1>7. Y + J \in Int /\ Abs(X - (Y + J)) <= r
  <2> HIDE DEF J
  <2> QED BY <1>2, <1>5, <1>6 DEF Abs
<1>8. (X * n) \div w - ((Y + J) * n) \div w \in {-1, 0, 1}
  <2> HIDE DEF J
  <2> QED BY <1>2, <1>7, Adjacent
<1>9. ((Y + J) * n) \div w = (Y * n) \div w + j * n
  <2>1. (Y + J) * n = Y * n + (j * n) * w
    BY <1>2, <1>5
  <2>2. Y * n \in Int /\ j * n \in Int
    BY <1>2, <1>5
  <2> DEFINE a == Y * n
             b == j * n
  <2>3. a \in Int /\ b \in Int /\ (Y + J) * n = a + b * w
    BY <2>1, <2>2
  <2> HIDE DEF J, a, b
  <2>4. (a + b * w) \div w = a \div w + b
    BY <2>3, Shift
  <2> QED BY <2>3, <2>4 DEF a, b
<1>10. /\ c \in Int /\ 0 <= c /\ c < n /\ d \in Int /\ 0 <= d /\ d < n
  BY <1>2, InCells, SMTT(30) DEF X, Y
<1>11. j * n \in Int /\ c - (d + j * n) \in {-1, 0, 1}
  BY <1>5, <1>8, <1>9 DEF X, Y
<1>12. (d + j * n) - c \in {-1, 0, 1} /\ c + ((d + j * n) - c) = d + j * n
  BY <1>10, <1>11
<1> DEFINE o == (d + j * n) - c
<1>13. o \in {-1, 0, 1} /\ c + o = d + j * n
  BY <1>12
<1> HIDE DEF o
<1>14. Ring(n, c, d, o)
  <2> HIDE DEF c, d
  <2> QED BY <1>5, <1>10, <1>13 DEF Ring
<1> QED BY <1>13, <1>14 DEF RingBin

\* Along a free axis, binned over the atoms' extent.
Spans(L, E, x)  == x \in Int /\ L <= x /\ x <= L + E
Bin(L, E, n, x) == IF x = L + E THEN n - 1 ELSE ((x - L) * n) \div E

LEMMA FreeNext ==
  ASSUME NEW L \in Int, NEW E \in Nat, NEW r \in Nat \ {0}, NEW n \in Nat \ {0},
         n = 1 \/ n * r <= E,
         NEW x, Spans(L, E, x), NEW y, Spans(L, E, y), Abs(x - y) <= r
  PROVE  /\ Bin(L, E, n, x) \in Int /\ Bin(L, E, n, y) \in Int
         /\ \E o \in {-1, 0, 1} : Bin(L, E, n, x) + o = Bin(L, E, n, y)
<1> DEFINE c == Bin(L, E, n, x)
           d == Bin(L, E, n, y)
<1>0. /\ c = IF x = L + E THEN n - 1 ELSE ((x - L) * n) \div E
      /\ d = IF y = L + E THEN n - 1 ELSE ((y - L) * n) \div E
  BY DEF Bin
<1>z. /\ x \in Int /\ L <= x /\ x <= L + E
      /\ y \in Int /\ L <= y /\ y <= L + E
  BY DEF Spans
<1> HIDE DEF c, d
<1>1. ASSUME NEW z \in Int, L <= z, z <= L + E, z # L + E
      PROVE  /\ ((z - L) * n) \div E \in Int
             /\ 0 <= ((z - L) * n) \div E /\ ((z - L) * n) \div E < n /\ E \in Nat \ {0}
  <2>1. z - L \in Int /\ 0 <= z - L /\ z - L < E /\ E \in Nat \ {0}
    BY <1>1
  <2> DEFINE a == z - L
  <2> HIDE DEF a
  <2> QED BY <2>1, InCells DEF a
<1>2. c \in Int /\ 0 <= c /\ c < n /\ d \in Int /\ 0 <= d /\ d < n
  BY <1>0, <1>z, <1>1
<1>3. \E o \in {-1, 0, 1} : c + o = d
  <2>1. CASE n = 1
    BY <1>2, <2>1
  <2>2. CASE n * r <= E /\ E # 0
    <3> DEFINE f(z) == ((z - L) * n) \div E
    <3>1. f(x) - f(y) \in {-1, 0, 1}
      <4>1. x - L \in Int /\ y - L \in Int /\ (x - L) - (y - L) = x - y /\ E \in Nat \ {0}
        BY <1>z, <2>2
      <4> DEFINE a == x - L
                 b == y - L
      <4>2. a \in Int /\ b \in Int /\ a - b = x - y
        BY <4>1
      <4>3. Abs(a - b) <= r
        BY <4>2
      <4> HIDE DEF a, b
      <4>4. (a * n) \div E - (b * n) \div E \in {-1, 0, 1}
        BY <2>2, <4>1, <4>2, <4>3, Adjacent
      <4> QED BY <4>4 DEF a, b
    <3>2. f(L + E) = n
      <4>1. \A z \in Int : (z + n * E) \div E = z \div E + n
        <5>1. E \in Nat \ {0} /\ n \in Int
          BY <2>2
        <5> QED BY <5>1, Shift
      <4>2. 0 \div E = 0
        BY <2>2
      <4>3. ((L + E) - L) * n = 0 + n * E
        OBVIOUS
      <4> QED BY <4>1, <4>2, <4>3
    <3>3. /\ x = L + E => f(x) = n /\ c = n - 1
          /\ y = L + E => f(y) = n /\ d = n - 1
          /\ x # L + E => f(x) = c
          /\ y # L + E => f(y) = d
      BY <1>0, <3>2
    <3> HIDE DEF f
    <3>4. d - c \in {-1, 0, 1} /\ c + (d - c) = d
      BY <1>2, <3>1, <3>3
    <3> QED BY <3>4
  <2>3. CASE n * r <= E /\ E = 0
    <3>1. n * r >= 1
      OBVIOUS
    <3> QED BY <2>3, <3>1
  <2> QED BY <2>1, <2>2, <2>3
<1> QED BY <1>2, <1>3 DEF c, d

\* On an axis of three cells or more, neighbours differ.
LEMMA RingOnly ==
  ASSUME NEW n \in Nat, 3 <= n, NEW o \in {-1, 0, 1}, NEW p \in {-1, 0, 1},
         NEW k \in Int, o = p + k * n
  PROVE  o = p
<1>1. CASE k = 0
  <2>1. k * n = 0
    BY <1>1
  <2> QED BY <2>1
<1>2. CASE k >= 1
  <2>1. k * n >= n
    BY <1>2
  <2> QED BY <2>1
<1>3. CASE k <= -1
  <2>1. k * n <= -n
    BY <1>3
  <2> QED BY <2>1
<1> QED BY <1>1, <1>2, <1>3

\* A sequence of numbers has a greatest.
LEMMA Greatest ==
  ASSUME NEW N \in Nat \ {0}, NEW f, \A a \in 1 .. N : f[a] \in Int
  PROVE  \E a \in 1 .. N : \A b \in 1 .. N : f[b] <= f[a]
<1> DEFINE Top(m) == \E a \in 1 .. m : \A b \in 1 .. m : f[b] <= f[a]
           T == {m \in Nat : m \in 1 .. N /\ ~Top(m)}
<1>1. SUFFICES ASSUME T # {} PROVE FALSE
  <2>1. N \in 1 .. N
    OBVIOUS
  <2> QED BY <2>1
<1>2. PICK m \in T : \A n \in T : m <= n
  <2> HIDE DEF T
  <2>1. T \in SUBSET Nat
    BY DEF T
  <2> QED BY <1>1, <2>1, Smallest
<1>3. m \in 1 .. N /\ ~Top(m)
  OBVIOUS
<1>4. CASE m = 1
  <2>1. 1 \in 1 .. 1 /\ \A b \in 1 .. 1 : b = 1
    OBVIOUS
  <2>2. f[1] \in Int
    OBVIOUS
  <2>3. \A b \in 1 .. 1 : f[b] <= f[1]
    BY <2>1, <2>2
  <2> QED BY <1>3, <1>4, <2>1, <2>3
<1>5. CASE m # 1
  <2>1. m - 1 \in 1 .. N /\ m - 1 \in Nat /\ ~(m <= m - 1)
    BY <1>3, <1>5
  <2>2. Top(m - 1)
    <3> HIDE DEF Top
    <3> QED BY <1>2, <2>1
  <2>3. PICK a \in 1 .. m - 1 : \A b \in 1 .. m - 1 : f[b] <= f[a]
    BY <2>2
  <2>4. /\ a \in 1 .. m /\ m \in 1 .. m /\ f[a] \in Int /\ f[m] \in Int
        /\ \A b \in 1 .. m : (b \in 1 .. m - 1 \/ b = m) /\ f[b] \in Int
    BY <1>3, <2>1
  <2>5. CASE f[m] <= f[a]
    <3>1. \A b \in 1 .. m : f[b] <= f[a]
      BY <2>3, <2>4, <2>5
    <3> QED BY <1>3, <2>4, <3>1
  <2>6. CASE ~(f[m] <= f[a])
    <3>1. \A b \in 1 .. m : f[b] <= f[m]
      BY <2>3, <2>4, <2>6
    <3> QED BY <1>3, <2>4, <3>1
  <2> QED BY <2>5, <2>6
<1> QED BY <1>4, <1>5

\* The extent of a free axis holds every atom.
LEMMA Extends ==
  ASSUME NEW q, Typed(q), q.R \in Seq(Int \X Int), NEW k \in Axis, q.box[k] = 0,
         DOMAIN q.R # {}
  PROVE  /\ Low(q, k) \in Int /\ Extent(q, k) \in Nat
         /\ \A a \in DOMAIN q.R : q.R[a][k] \in Int /\ Low(q, k) <= q.R[a][k]
                                  /\ q.R[a][k] <= Low(q, k) + Extent(q, k)
<1> DEFINE N == Len(q.R)
           C == Coordinates(q, k)
           L == Low(q, k)
           f == [a \in 1 .. N |-> q.R[a][k]]
           g == [a \in 1 .. N |-> 0 - q.R[a][k]]
<1>1. N \in Nat \ {0} /\ DOMAIN q.R = 1 .. N
  OBVIOUS
<1>2. \A a \in 1 .. N : q.R[a][k] \in Int
  BY <1>1 DEF Typed, Axis
<1>3. C = {q.R[a][k] : a \in 1 .. N}
  BY <1>1 DEF Coordinates
<1> HIDE DEF N, C
<1>4. PICK lo \in 1 .. N : \A b \in 1 .. N : q.R[lo][k] <= q.R[b][k]
  <2>1. \A a \in 1 .. N : g[a] \in Int
    <3> SUFFICES ASSUME NEW a \in 1 .. N PROVE g[a] \in Int
      OBVIOUS
    <3>1. q.R[a][k] \in Int /\ g[a] = 0 - q.R[a][k]
      BY <1>2
    <3>2. \A x \in Int : 0 - x \in Int
      OBVIOUS
    <3> HIDE DEF g
    <3> QED BY <3>1, <3>2, Zenon
  <2>2. \E a \in 1 .. N : \A b \in 1 .. N : g[b] <= g[a]
    <3> HIDE DEF g
    <3> QED BY <1>1, <2>1, Greatest
  <2>3. PICK a \in 1 .. N : \A b \in 1 .. N : g[b] <= g[a]
    BY <2>2
  <2>4. ASSUME NEW b \in 1 .. N PROVE q.R[a][k] <= q.R[b][k]
    <3>1. q.R[a][k] \in Int /\ q.R[b][k] \in Int /\ 0 - q.R[b][k] <= 0 - q.R[a][k]
      BY <1>2, <2>3
    <3>2. \A x, y \in Int : 0 - y <= 0 - x => x <= y
      OBVIOUS
    <3> QED BY <3>1, <3>2
  <2> QED BY <2>4
<1>5. PICK hi \in 1 .. N : \A b \in 1 .. N : q.R[b][k] <= q.R[hi][k]
  <2>1. \A a \in 1 .. N : f[a] \in Int
    <3> SUFFICES ASSUME NEW a \in 1 .. N PROVE f[a] \in Int
      OBVIOUS
    <3> QED BY <1>2
  <2>2. \E a \in 1 .. N : \A b \in 1 .. N : f[b] <= f[a]
    <3> HIDE DEF f
    <3> QED BY <1>1, <2>1, Greatest
  <2> QED BY <2>2
<1>6. \E x \in C : \A y \in C : x <= y
  <2>1. q.R[lo][k] \in C
    BY <1>3
  <2>2. ASSUME NEW y \in C PROVE q.R[lo][k] <= y
    <3>1. PICK b \in 1 .. N : y = q.R[b][k]
      BY <1>3, <2>2
    <3> QED BY <1>4, <3>1
  <2> QED BY <2>1, <2>2
<1>7. L = CHOOSE x \in C : \A y \in C : x <= y
  BY DEF Low, C
<1> HIDE DEF L
<1>8. L \in C /\ \A y \in C : L <= y
  BY <1>6, <1>7
<1>9. L \in Int /\ \A y \in C : y \in Int
  BY <1>2, <1>3, <1>8
<1> DEFINE D == {x - L : x \in C}
           E == Extent(q, k)
<1>10. E = CHOOSE d \in D : \A y \in C : y - L <= d
  BY DEF Extent, C, L
<1>11. \E d \in D : \A y \in C : y - L <= d
  <2>1. q.R[hi][k] \in C /\ \A y \in C : y <= q.R[hi][k]
    BY <1>3, <1>5
  <2>2. PICK M \in C : \A y \in C : y <= M
    BY <2>1
  <2>3. \A y \in C : y - L <= M - L
    BY <1>9, <2>2
  <2> QED BY <2>3
<1> HIDE DEF E
<1>12. E \in D /\ \A y \in C : y - L <= E
  BY <1>10, <1>11
<1>13. E \in Nat
  BY <1>8, <1>9, <1>12
<1>14. \A a \in 1 .. N : q.R[a][k] \in C
  BY <1>3
<1>15. \A y \in C : y \in Int /\ L <= y /\ y <= L + E
  <2>1. ASSUME NEW y \in C PROVE y \in Int /\ L <= y /\ y <= L + E
    <3>1. y \in Int /\ L <= y /\ y - L <= E
      BY <1>8, <1>9, <1>12
    <3> QED BY <1>9, <1>13, <3>1
  <2> QED BY <2>1
<1> QED BY <1>1, <1>9, <1>13, <1>14, <1>15 DEF L, E

\* From a cell, the steps -1, 0 and 1 lead to different cells.
LEMMA RingExact ==
  ASSUME NEW n, NEW c, NEW d, NEW m \in {-1, 0, 1}, Ring(n, c, d, m)
  PROVE  \A o \in {-1, 0, 1} : (c + o) % n = d <=> o = m
<1>0. SUFFICES ASSUME NEW o \in {-1, 0, 1} PROVE (c + o) % n = d <=> o = m
  OBVIOUS
<1>1. /\ n \in Nat /\ 3 <= n /\ c \in Int /\ d \in Int /\ 0 <= d /\ d < n /\ m \in {-1, 0, 1}
      /\ \E k \in Int : c + m = d + k * n
  BY DEF Ring
<1>2. PICK k \in Int : c + m = d + k * n
  BY <1>1
<1>3. ASSUME o = m PROVE (c + o) % n = d
  <2>1. c + o \in Int /\ c + o = d + k * n /\ n \in Nat \ {0}
    BY <1>1, <1>2, <1>3
  <2> QED BY <1>1, <2>1, Remainder
<1>4. ASSUME (c + o) % n = d PROVE o = m
  <2> DEFINE a == c + o
             j == a \div n
             x == n * j
             y == k * n
  <2>1. a \in Int /\ n \in Int /\ n > 0
    BY <1>1
  <2> HIDE DEF a
  <2>2. a = n * (a \div n) + (a % n)
    BY <2>1
  <2>3. j \in Int /\ x \in Int /\ y \in Int
    BY <1>1, <2>1
  <2>4. a = x + d
    BY <1>4, <2>2 DEF a
  <2> HIDE DEF j
  <2>5. (j - k) * n = x - y /\ j - k \in Int
    BY <1>1, <2>3
  <2> HIDE DEF x, y
  <2>6. o = m + (j - k) * n
    BY <1>1, <1>2, <2>3, <2>4, <2>5 DEF a, y
  <2> QED BY <1>1, <2>5, <2>6, RingOnly
<1> QED BY <1>3, <1>4

\* The way back, and staying.
LEMMA RingBack ==
  ASSUME NEW n, NEW c, NEW d, NEW m \in {-1, 0, 1}, Ring(n, c, d, m)
  PROVE  Ring(n, d, c, -m) /\ (c = d <=> m = 0)
<1>1. /\ n \in Nat /\ 3 <= n /\ m \in {-1, 0, 1} /\ c \in Int /\ 0 <= c /\ c < n
      /\ d \in Int /\ 0 <= d /\ d < n /\ \E k \in Int : c + m = d + k * n
  BY DEF Ring
<1>2. PICK k \in Int : c + m = d + k * n
  BY <1>1
<1> DEFINE K == k * n
<1>3. K \in Int /\ (-k) * n = -K /\ -k \in Int /\ -m \in {-1, 0, 1}
  BY <1>1
<1>4. c + m = d + K
  BY <1>2
<1> HIDE DEF K
<1>5. d + (-m) = c + (-k) * n
  BY <1>1, <1>3, <1>4
<1>6. Ring(n, d, c, -m)
  BY <1>1, <1>3, <1>5 DEF Ring
<1>7. (c + 0) % n = c
  <2>1. /\ n \in Nat \ {0} /\ c + 0 = c + 0 * n /\ c + 0 \in Int
    BY <1>1
  <2> QED BY <1>1, <2>1, Remainder
<1>8. (c + 0) % n = d <=> 0 = m
  BY RingExact
<1> QED BY <1>6, <1>7, <1>8

\* The next cell along one axis.
Beside(q, n, k, c, o) == IF q.box[k] # 0 THEN (c + o) % n ELSE c + o

StepApart(q, n, k, c, d, m) ==
  /\ c = d <=> m = 0
  /\ \A o \in {-1, 0, 1} : (Beside(q, n, k, c, o) = d <=> o = m)
                           /\ (Beside(q, n, k, d, o) = c <=> o = -m)

\* Two atoms within reach lie in cells that one step along each axis separates.
LEMMA AxisNext ==
  ASSUME NEW q, Typed(q), q.R \in Seq(Int \X Int), NEW reach \in Nat \ {0},
         Gridded(q, Cells(q, reach)), NEW p \in AllPairs(q),
         Norm2(MIC(Sep(q, p), q.box)) <= reach * reach, NEW k \in Axis
  PROVE  \E m \in {-1, 0, 1} : StepApart(q, Cells(q, reach)[k], k,
           CellOf(q, Cells(q, reach), p[1])[k], CellOf(q, Cells(q, reach), p[2])[k], m)
<1> DEFINE n == Cells(q, reach)[k]
           c == CellOf(q, Cells(q, reach), p[1])[k]
           d == CellOf(q, Cells(q, reach), p[2])[k]
           x == q.R[p[1]][k]
           y == q.R[p[2]][k]
           w == q.box[k]
           v == MIC(Sep(q, p), q.box)[k]
           i == Image(Sep(q, p), q.box)[k]
<1>1. /\ p[1] \in DOMAIN q.R /\ p[2] \in DOMAIN q.R /\ x \in Int /\ y \in Int /\ w \in Nat
      /\ ~Tilted(q.box)
  BY DEF AllPairs, Typed, Axis, Box, Gridded, Cacheable
<1>2. Sep(q, p) \in Plane /\ Sep(q, p)[k] = x - y
  BY SepInPlane
<1>3. /\ v = (x - y) - i * w /\ i \in Int /\ (w = 0 => i = 0) /\ MIC(Sep(q, p), q.box) \in Plane
  <2>1. /\ MIC(Sep(q, p), q.box) = Shifted(Sep(q, p), Image(Sep(q, p), q.box), q.box)
        /\ Image(Sep(q, p), q.box) \in Plane /\ MIC(Sep(q, p), q.box) \in Plane
        /\ q.box[k] = 0 => Image(Sep(q, p), q.box)[k] = 0
    BY <1>1, <1>2, Folded DEF Typed
  <2>2. i \in Int
    BY <2>1 DEF Plane
  <2>3. Shifted(Sep(q, p), Image(Sep(q, p), q.box), q.box)[k] = Sep(q, p)[k] - i * w
    BY DEF Shifted
  <2> QED BY <1>2, <2>1, <2>2, <2>3
<1>4. Abs(v) <= reach
  BY <1>3, Component
<1>5. n = IF Extent(q, k) < reach THEN 1 ELSE Extent(q, k) \div reach
  BY DEF Cells
<1> HIDE DEF n, c, d, x, y, w, v, i
<1>6. CASE w # 0
  <2>1. 3 <= n /\ Extent(q, k) = w
    BY <1>6 DEF Gridded, Extent, w, n
  <2>2. n \in Nat /\ n * reach <= w
    <3>1. n = w \div reach
      BY <1>5, <2>1
    <3>2. reach * (w \div reach) <= w /\ w \div reach \in Int
      BY <1>1, Quotient
    <3> QED BY <2>1, <3>1, <3>2
  <2>3. c = RingBin(w, n, x) /\ d = RingBin(w, n, y)
    BY <1>6 DEF CellOf, RingBin, x, y, w, n, c, d
  <2>4. Close(x, y, w, reach)
    BY <1>3, <1>4 DEF Close
  <2>5. w \in Nat \ {0} /\ reach \in Nat
    BY <1>1, <1>6
  <2>6. PICK m \in {-1, 0, 1} : Ring(n, c, d, m)
    <3>1. \E o \in {-1, 0, 1} : Ring(n, RingBin(w, n, x), RingBin(w, n, y), o)
      BY <1>1, <2>1, <2>2, <2>4, <2>5, RingNext, SMTT(30)
    <3> QED BY <2>3, <3>1
  <2>7. Ring(n, d, c, -m) /\ (c = d <=> m = 0)
    BY <2>6, RingBack
  <2>8. /\ \A o \in {-1, 0, 1} : (c + o) % n = d <=> o = m
        /\ \A o \in {-1, 0, 1} : (d + o) % n = c <=> o = -m
    <3>1. -m \in {-1, 0, 1}
      OBVIOUS
    <3>2. \A o \in {-1, 0, 1} : (c + o) % n = d <=> o = m
      BY <2>6, RingExact, ZenonT(60)
    <3>3. \A o \in {-1, 0, 1} : (d + o) % n = c <=> o = -m
      <4> DEFINE back == -m
      <4>1. back \in {-1, 0, 1} /\ Ring(n, d, c, back)
        BY <2>7, <3>1
      <4> HIDE DEF back
      <4>2. \A o \in {-1, 0, 1} : (d + o) % n = c <=> o = back
        BY <4>1, RingExact, ZenonT(60)
      <4> QED BY <4>2 DEF back
    <3> QED BY <3>2, <3>3
  <2>9. StepApart(q, n, k, c, d, m)
    BY <1>6, <2>7, <2>8 DEF StepApart, Beside, w
  <2> QED BY <2>9 DEF n, c, d
<1>7. CASE w = 0
  <2> DEFINE L == Low(q, k)
             E == Extent(q, k)
  <2>1. L \in Int /\ E \in Nat /\ Spans(L, E, x) /\ Spans(L, E, y)
    BY <1>1, <1>7, Extends DEF Spans, x, y, w
  <2>2. c = Bin(L, E, n, x) /\ d = Bin(L, E, n, y)
    BY <1>7 DEF CellOf, Bin, x, y, w, n, c, d
  <2> HIDE DEF L, E
  <2>3. n \in Nat \ {0} /\ (n = 1 \/ n * reach <= E)
    <3>1. CASE E < reach
      BY <1>5, <3>1 DEF E
    <3>2. CASE ~(E < reach)
      <4>1. n = E \div reach
        BY <1>5, <3>2 DEF E
      <4>2. n \in Int /\ reach * n <= E /\ E < reach * n + reach
        BY <2>1, <4>1, Quotient
      <4>3. n >= 1
        <5>1. SUFFICES ASSUME n <= 0 PROVE FALSE
          BY <4>2
        <5> DEFINE z == reach * n
        <5>2. z <= 0 /\ z \in Int /\ E < z + reach
          BY <4>2, <5>1
        <5> HIDE DEF z
        <5> QED BY <2>1, <3>2, <5>2
      <4> QED BY <4>2, <4>3
    <3> QED BY <3>1, <3>2
  <2>4. Abs(x - y) <= reach
    <3>1. i * w = 0 /\ x - y \in Int
      BY <1>1, <1>3, <1>7
    <3> QED BY <1>3, <1>4, <3>1
  <2>5. c \in Int /\ d \in Int /\ \E o \in {-1, 0, 1} : c + o = d
    <3>1. /\ Bin(L, E, n, x) \in Int /\ Bin(L, E, n, y) \in Int
          /\ \E o \in {-1, 0, 1} : Bin(L, E, n, x) + o = Bin(L, E, n, y)
      BY <2>1, <2>3, <2>4, FreeNext
    <3> QED BY <2>2, <3>1
  <2>6. PICK m \in {-1, 0, 1} : c + m = d
    BY <2>5
  <2>7. /\ c = d <=> m = 0
        /\ \A o \in {-1, 0, 1} : /\ c + o = d <=> o = m
                                 /\ d + o = c <=> o = -m
    <3>1. c \in Int /\ d \in Int /\ c + m = d
      BY <2>5, <2>6
    <3>2. ASSUME NEW o \in {-1, 0, 1} PROVE (c + o = d <=> o = m) /\ (d + o = c <=> o = -m)
      BY <3>1
    <3> QED BY <3>1, <3>2
  <2>8. StepApart(q, n, k, c, d, m)
    BY <1>7, <2>7 DEF StepApart, Beside, w
  <2> QED BY <2>8 DEF n, c, d
<1> QED BY <1>6, <1>7

\* The cells of a grid, each with half of its neighbours, bring every pair within
\* reach together once, across periodic boundaries and at the far end of a free axis
\* (cell_visit.hpp:42-69, 112-181, 201-278).
THEOREM VisitedOnce ==
  ASSUME NEW q, Typed(q), q.R \in Seq(Int \X Int), NEW reach \in Nat \ {0},
         Gridded(q, Cells(q, reach)), NEW p \in AllPairs(q),
         Norm2(MIC(Sep(q, p), q.box)) <= reach * reach
  PROVE  Visits(q, Cells(q, reach), p) = 1
<1> DEFINE cells == Cells(q, reach)
           c == CellOf(q, cells, p[1])
           d == CellOf(q, cells, p[2])
           Onward == {o \in HalfStencil : Neighbour(q, cells, c, o) = d}
           Back   == {o \in HalfStencil : Neighbour(q, cells, d, o) = c}
<1>1. ASSUME NEW k \in Axis
      PROVE  \E m \in {-1, 0, 1} : StepApart(q, cells[k], k, c[k], d[k], m)
  BY AxisNext
<1>2. c = [k \in Axis |-> c[k]] /\ d = [k \in Axis |-> d[k]]
  BY DEF CellOf
<1> HIDE DEF cells, c, d
<1>3. \A o : /\ Neighbour(q, cells, c, o) =
                  [k \in Axis |-> Beside(q, cells[k], k, c[k], o[k])]
             /\ Neighbour(q, cells, d, o) =
                  [k \in Axis |-> Beside(q, cells[k], k, d[k], o[k])]
  BY DEF Neighbour, Beside
<1>4. PICK m \in {-1, 0, 1} : StepApart(q, cells[1], 1, c[1], d[1], m)
  BY <1>1 DEF Axis
<1>5. PICK n \in {-1, 0, 1} : StepApart(q, cells[2], 2, c[2], d[2], n)
  BY <1>1 DEF Axis
<1>6. c = d <=> m = 0 /\ n = 0
  <2>1. c = d <=> c[1] = d[1] /\ c[2] = d[2]
    BY <1>2 DEF Axis
  <2> QED BY <1>4, <1>5, <2>1 DEF StepApart
<1>7. ASSUME NEW o \in HalfStencil
      PROVE  /\ Neighbour(q, cells, c, o) = d <=> o[1] = m /\ o[2] = n
             /\ Neighbour(q, cells, d, o) = c <=> o[1] = -m /\ o[2] = -n
  <2>1. o[1] \in {-1, 0, 1} /\ o[2] \in {-1, 0, 1}
    BY DEF HalfStencil
  <2>2. /\ Neighbour(q, cells, c, o) = d <=>
             /\ Beside(q, cells[1], 1, c[1], o[1]) = d[1]
             /\ Beside(q, cells[2], 2, c[2], o[2]) = d[2]
        /\ Neighbour(q, cells, d, o) = c <=>
             /\ Beside(q, cells[1], 1, d[1], o[1]) = c[1]
             /\ Beside(q, cells[2], 2, d[2], o[2]) = c[2]
    <3>1. ASSUME NEW N, NEW e, e = [k \in Axis |-> e[k]], NEW f, N = [k \in Axis |-> f[k]]
          PROVE  N = e <=> f[1] = e[1] /\ f[2] = e[2]
      BY <3>1 DEF Axis
    <3> DEFINE f(x) == [k \in Axis |-> Beside(q, cells[k], k, x[k], o[k])]
    <3>2. \A x : /\ f(x) = [k \in Axis |-> f(x)[k]]
                 /\ f(x)[1] = Beside(q, cells[1], 1, x[1], o[1])
                 /\ f(x)[2] = Beside(q, cells[2], 2, x[2], o[2])
      BY DEF Axis
    <3>3. Neighbour(q, cells, c, o) = f(c) /\ Neighbour(q, cells, d, o) = f(d)
      BY <1>3
    <3> HIDE DEF f
    <3>4. f(c) = d <=> f(c)[1] = d[1] /\ f(c)[2] = d[2]
      BY <1>2, <3>1, <3>2, SMTT(30)
    <3>5. f(d) = c <=> f(d)[1] = c[1] /\ f(d)[2] = c[2]
      BY <1>2, <3>1, <3>2, SMTT(30)
    <3> QED BY <3>2, <3>3, <3>4, <3>5
  <2> QED BY <1>4, <1>5, <2>1, <2>2 DEF StepApart
<1>8. /\ Onward = {o \in HalfStencil : o[1] = m /\ o[2] = n}
      /\ Back = {o \in HalfStencil : o[1] = -m /\ o[2] = -n}
  BY <1>7
<1>9. Visits(q, cells, p) = (IF c = d THEN 1 ELSE 0) + Cardinality(Onward) + Cardinality(Back)
  BY DEF Visits, c, d
<1> HIDE DEF Onward, Back
<1>10. Cardinality({}) = 0 /\ \A o : Cardinality({o}) = 1
  BY FS_EmptySet, FS_Singleton
<1>11. CASE m = 0 /\ n = 0
  <2>1. Onward = {} /\ Back = {}
    BY <1>8, <1>11 DEF HalfStencil
  <2> QED BY <1>6, <1>9, <1>10, <1>11, <2>1 DEF cells
<1>12. CASE <<m, n>> \in HalfStencil
  <2>1. Onward = {<<m, n>>} /\ Back = {} /\ ~(m = 0 /\ n = 0)
    BY <1>8, <1>12 DEF HalfStencil
  <2>2. Cardinality(Onward) = 1 /\ Cardinality(Back) = 0 /\ c # d
    BY <1>6, <1>10, <2>1
  <2> QED BY <1>9, <2>2 DEF cells
<1>13. CASE <<-m, -n>> \in HalfStencil
  <2>1. Onward = {} /\ Back = {<<-m, -n>>} /\ ~(m = 0 /\ n = 0)
    BY <1>8, <1>13 DEF HalfStencil
  <2>2. Cardinality(Onward) = 0 /\ Cardinality(Back) = 1 /\ c # d
    BY <1>6, <1>10, <2>1
  <2> QED BY <1>9, <2>2 DEF cells
<1>14. (m = 0 /\ n = 0) \/ <<m, n>> \in HalfStencil \/ <<-m, -n>> \in HalfStencil
  BY DEF HalfStencil
<1> QED BY <1>11, <1>12, <1>13, <1>14

\* So a scan misses no pair, through a grid or without one.
LEMMA ScanFinds ==
  ASSUME NEW q, Typed(q), q.R \in Seq(Int \X Int), NEW reach \in Nat \ {0},
         NEW tested \in Scans(q, reach)
  PROVE  /\ UpTo(q, tested, reach) = UpTo(q, AllPairs(q), reach)
         /\ Within(q, tested, reach) = Within(q, AllPairs(q), reach)
<1> DEFINE far(p) == Norm2(MIC(Sep(q, p), q.box))
<1>1. tested \subseteq AllPairs(q)
  BY DEF Scans
<1>2. ASSUME NEW p \in AllPairs(q), far(p) <= reach * reach \/ far(p) < reach * reach
      PROVE  p \in tested
  <2>1. CASE tested = AllPairs(q)
    BY <2>1
  <2>2. CASE tested # AllPairs(q)
    <3>1. /\ Gridded(q, Cells(q, reach))
          /\ tested = {x \in AllPairs(q) : Visits(q, Cells(q, reach), x) = 1}
      BY <2>2 DEF Scans
    <3>2. far(p) \in Int
      <4>1. ~Tilted(q.box) /\ Sep(q, p) \in Plane
        BY <3>1, SepInPlane DEF Gridded, Cacheable
      <4>2. MIC(Sep(q, p), q.box) \in Plane
        BY <4>1, Folded DEF Typed
      <4> QED BY <4>2, NormInt
    <3>3. far(p) <= reach * reach
      <4> HIDE DEF far
      <4> QED BY <1>2, <3>2
    <3>4. Visits(q, Cells(q, reach), p) = 1
      BY <3>1, <3>3, VisitedOnce
    <3> QED BY <3>1, <3>4
  <2> QED BY <2>1, <2>2
<1> HIDE DEF far
<1>3. /\ UpTo(q, tested, reach) = {p \in tested : far(p) <= reach * reach}
      /\ UpTo(q, AllPairs(q), reach) = {p \in AllPairs(q) : far(p) <= reach * reach}
      /\ Within(q, tested, reach) = {p \in tested : far(p) < reach * reach}
      /\ Within(q, AllPairs(q), reach) = {p \in AllPairs(q) : far(p) < reach * reach}
  BY DEF UpTo, Within, Square, far
<1> QED BY <1>1, <1>2, <1>3

-----------------------------------------------------------------------------
(* Results.                                                                *)

\* What any thread may find: a phantom, or the whole list of a cacheable request.
Kept(asks, s) ==
  \E q \in asks : /\ Cacheable(q) /\ s.box = q.box /\ s.cutoff = q.cutoff
                  /\ ~s.phantom => s = Listing(s.id, q)

\* A result is the one that a direct evaluation of its request finds.
ResultInv ==
  /\ DOMAIN result = Thread
  /\ \A t \in Thread : pc[t] \in {"idle", "store"} => Fresh(req[t], result[t])

ListInv ==
  /\ offer \in Offers
  /\ \A t \in Thread : pc[t] # "idle" => req[t] \in offer.asks
  /\ \A s \in Content(slots) : Kept(offer.asks, s)
  /\ \A t \in Thread : pc[t] = "store" => Kept(offer.asks, fresh[t])
  /\ \A t \in Thread : pc[t] = "capture" => Cacheable(req[t])
  /\ \A t \in Thread : pc[t] = "read" =>
       ~hit[t].phantom /\ Kept(offer.asks, hit[t]) /\ Valid(hit[t], req[t])

LEMMA Asked ==
  ASSUME offer \in Offers, NEW q \in offer.asks
  PROVE  /\ Typed(q) /\ Folds(q) /\ q.R \in Seq(Int \X Int)
         /\ q.cutoff \in Nat \ {0} /\ Reach(q) \in Nat \ {0}
<1>1. /\ q.R \in Seq(Int \X Int) /\ q.box \in Nat \X Nat \X Int /\ q.cutoff \in Nat \ {0}
      /\ Skin \in Nat
  BY PoolAssumption
<1>2. Typed(q)
  BY <1>1 DEF Typed, Box
<1>3. ASSUME NEW p \in AllPairs(q)
      PROVE  MIC(Sep(q, p), q.box) \in Nearest(Sep(q, p), q.box)
  <2>1. Sep(q, p) \in Plane /\ q.box \in Box
    BY <1>2, SepInPlane DEF Typed
  <2>2. CASE Tilted(q.box)
    <3>1. Skewed(q.box)
      BY <2>1, <2>2, PoolAssumption DEF Skewed, Tilted
    <3> QED BY <2>1, <3>1, TiltedNearest
  <2>3. CASE ~Tilted(q.box)
    BY <2>1, <2>3, Folded
  <2> QED BY <2>2, <2>3
<1> QED BY <1>1, <1>2, <1>3, SMTT(30) DEF Folds, Reach

\* A read serves what its request would find itself.
LEMMA ReadFresh ==
  ASSUME OddSkin, ListInv, NEW t \in Thread, pc[t] = "read"
  PROVE  Fresh(req[t], Served(hit[t], req[t]))
<1> DEFINE q == req[t]
           s == hit[t]
<1>1. q \in offer.asks /\ offer \in Offers /\ ~s.phantom /\ Valid(s, q)
  BY DEF ListInv
<1>2. PICK q0 \in offer.asks : Cacheable(q0) /\ s = Listing(s.id, q0)
  BY DEF ListInv, Kept
<1>3. Typed(q) /\ Folds(q) /\ Typed(q0)
  BY <1>1, <1>2, Asked
<1>4. Valid(Listing(s.id, q0), q)
  BY <1>1, <1>2
<1> HIDE DEF q, s
<1>5. Served(Listing(s.id, q0), q) = Direct(q)
  BY <1>2, <1>3, <1>4, ServedDirect
<1>6. Fresh(q, Served(s, q))
  BY <1>2, <1>3, <1>5, DirectFresh
<1> QED BY <1>6 DEF q, s

\* A capture lists all pairs within the reach, and finds in that list what a direct
\* evaluation finds.
LEMMA CaptureFresh ==
  ASSUME OddSkin, offer \in Offers, NEW q \in offer.asks, Cacheable(q), NEW id,
         NEW tested \in Scans(q, Reach(q))
  PROVE  LET s == Slot(id, q, Within(q, tested, Reach(q)), TRUE) IN
         /\ s = Listing(id, q)
         /\ Fresh(q, Served(s, q))
         /\ Fresh(q, {<<p, MIC(Sep(q, p), q.box)>> : p \in UpTo(q, s.pairs, q.cutoff)})
<1> DEFINE listed == Within(q, AllPairs(q), Reach(q))
           s == Slot(id, q, Within(q, tested, Reach(q)), TRUE)
<1>1. /\ Typed(q) /\ Folds(q) /\ q.R \in Seq(Int \X Int)
      /\ q.cutoff \in Nat \ {0} /\ Reach(q) \in Nat \ {0}
  BY Asked
<1>2. Within(q, tested, Reach(q)) = listed
  BY <1>1, ScanFinds
<1>3. s = Listing(id, q)
  BY <1>2 DEF Listing
<1>4. /\ s.pairs = listed /\ s.R = q.R /\ s.box = q.box /\ s.cutoff = q.cutoff
  BY <1>2 DEF Slot
<1>5. Valid(s, q)
  <2>1. ASSUME NEW a \in DOMAIN q.R PROVE 4 * Norm2(Between(q.R[a], q.R[a])) <= Square(Skin)
    <3>1. Between(q.R[a], q.R[a])[1] = 0 /\ Between(q.R[a], q.R[a])[2] = 0
      <4>1. q.R[a][1] \in Int /\ q.R[a][2] \in Int
        BY <1>1 DEF Typed
      <4> QED BY <4>1 DEF Between, Axis
    <3>2. Skin * Skin >= 0
      BY PoolAssumption
    <3> QED BY <3>1, <3>2 DEF Norm2, Square
  <2> HIDE DEF s
  <2> QED BY <1>4, <2>1 DEF Valid, Unmoved
<1>6. Fresh(q, Served(s, q))
  <2>1. Served(Listing(id, q), q) = Direct(q)
    <3>1. Valid(Listing(id, q), q)
      BY <1>3, <1>5
    <3> QED BY <1>1, <3>1, ServedDirect
  <2> QED BY <1>1, <1>3, <2>1, DirectFresh
<1>7. UpTo(q, s.pairs, q.cutoff) = UpTo(q, AllPairs(q), q.cutoff)
  <2> DEFINE far(p) == Norm2(MIC(Sep(q, p), q.box))
  <2>1. ASSUME NEW p \in AllPairs(q), far(p) <= Square(q.cutoff)
        PROVE  far(p) < Square(Reach(q))
    <3>1. far(p) \in Int
      <4>1. ~Tilted(q.box) /\ Sep(q, p) \in Plane /\ q.box \in Box
        BY <1>1, SepInPlane DEF Cacheable, Typed
      <4>2. MIC(Sep(q, p), q.box) \in Plane
        BY <4>1, Folded
      <4> QED BY <4>2, NormInt
    <3>2. Square(q.cutoff) < Square(Reach(q)) /\ Square(q.cutoff) \in Int /\ Square(Reach(q)) \in Int
      <4>1. Skin \in Nat /\ Skin # 0
        BY PoolAssumption DEF OddSkin
      <4> DEFINE c == q.cutoff
      <4>2. /\ c \in Nat /\ c * c \in Int /\ c * Skin \in Int /\ Skin * Skin \in Int
            /\ Skin * Skin > 0 /\ c * Skin >= 0
        BY <1>1, <4>1
      <4>3. (c + Skin) * (c + Skin) = c * c + 2 * (c * Skin) + Skin * Skin
        BY <4>1, <4>2
      <4> QED BY <4>2, <4>3 DEF Square, Reach
    <3> HIDE DEF far
    <3> QED BY <2>1, <3>1, <3>2
  <2>2. /\ s.pairs = {p \in AllPairs(q) : far(p) < Square(Reach(q))}
        /\ UpTo(q, s.pairs, q.cutoff) = {p \in s.pairs : far(p) <= Square(q.cutoff)}
        /\ UpTo(q, AllPairs(q), q.cutoff) = {p \in AllPairs(q) : far(p) <= Square(q.cutoff)}
    BY <1>4 DEF Within, UpTo
  <2> HIDE DEF far, s
  <2> QED BY <2>1, <2>2
<1>8. Fresh(q, {<<p, MIC(Sep(q, p), q.box)>> : p \in UpTo(q, s.pairs, q.cutoff)})
  <2>1. {<<p, MIC(Sep(q, p), q.box)>> : p \in UpTo(q, s.pairs, q.cutoff)} = Direct(q)
    BY <1>7 DEF Direct
  <2> QED BY <1>1, <2>1, DirectFresh
<1> HIDE DEF s
<1>9. /\ s = Listing(id, q)
      /\ Fresh(q, Served(s, q))
      /\ Fresh(q, {<<p, MIC(Sep(q, p), q.box)>> : p \in UpTo(q, s.pairs, q.cutoff)})
  BY <1>3, <1>6, <1>8
<1> QED BY <1>9 DEF s

\* A first sighting is a direct evaluation.
LEMMA ScanFresh ==
  ASSUME offer \in Offers, NEW q \in offer.asks, NEW id,
         NEW tested \in Scans(q, q.cutoff)
  PROVE  LET near == UpTo(q, tested, q.cutoff) IN
         /\ Fresh(q, Served(Slot(id, q, near, FALSE), q))
         /\ Fresh(q, {<<p, MIC(Sep(q, p), q.box)>> : p \in near})
<1>1. /\ Typed(q) /\ Folds(q) /\ q.R \in Seq(Int \X Int) /\ q.cutoff \in Nat \ {0}
  BY Asked
<1>2. UpTo(q, tested, q.cutoff) = UpTo(q, AllPairs(q), q.cutoff)
  BY <1>1, ScanFinds
<1>3. Served(Slot(id, q, UpTo(q, AllPairs(q), q.cutoff), FALSE), q) = Direct(q)
  BY <1>1, OnceDirect
<1>4. {<<p, MIC(Sep(q, p), q.box)>> : p \in UpTo(q, AllPairs(q), q.cutoff)} = Direct(q)
  BY DEF Direct
<1>5. Fresh(q, Direct(q))
  BY <1>1, DirectFresh
<1> QED BY <1>2, <1>3, <1>4, <1>5

\* What an action keeps when it changes the call of one thread only.
LEMMA OneCall ==
  ASSUME IInv, ListInv, ResultInv, NEW t \in Thread, offer' = offer,
         \A s \in Content(slots)' : Kept(offer.asks, s),
         \A u \in Thread \ {t} : /\ pc'[u] = pc[u] /\ req'[u] = req[u] /\ hit'[u] = hit[u]
                                 /\ fresh'[u] = fresh[u] /\ result'[u] = result[u],
         DOMAIN result' = Thread,
         pc'[t] # "idle" => req'[t] \in offer.asks,
         pc'[t] = "store" => Kept(offer.asks, fresh'[t]),
         pc'[t] = "capture" => Cacheable(req'[t]),
         pc'[t] = "read" =>
           ~hit'[t].phantom /\ Kept(offer.asks, hit'[t]) /\ Valid(hit'[t], req'[t]),
         pc'[t] \in {"idle", "store"} => Fresh(req'[t], result'[t])
  PROVE  ListInv' /\ ResultInv'
<1>1. ASSUME NEW u \in Thread
      PROVE  /\ pc'[u] # "idle" => req'[u] \in offer.asks
             /\ pc'[u] = "store" => Kept(offer.asks, fresh'[u])
             /\ pc'[u] = "capture" => Cacheable(req'[u])
             /\ pc'[u] = "read" =>
                  ~hit'[u].phantom /\ Kept(offer.asks, hit'[u]) /\ Valid(hit'[u], req'[u])
             /\ pc'[u] \in {"idle", "store"} => Fresh(req'[u], result'[u])
  <2>1. CASE u = t
    BY <2>1
  <2>2. CASE u # t
    BY <2>2 DEF ListInv, ResultInv
  <2> QED BY <2>1, <2>2
<1>2. ListInv'
  BY <1>1 DEF ListInv
<1>3. ResultInv'
  BY <1>1 DEF ResultInv
<1> QED BY <1>2, <1>3

LEMMA LookupKeeps ==
  ASSUME IInv, ListInv, ResultInv, NEW t \in Thread, LookupHit(t) \/ LookupMiss(t)
  PROVE  ListInv' /\ ResultInv'
<1>0. /\ pc \in [Thread -> {"idle", "read", "capture", "scan", "store"}]
      /\ DOMAIN req = Thread /\ DOMAIN hit = Thread /\ DOMAIN fresh = Thread
      /\ DOMAIN result = Thread
  BY DEF IInv, FreshInv, ResultInv
<1>1. CASE LookupHit(t)
  <2>1. PICK q \in offer.asks :
          /\ Matches(q) # {} /\ req' = [req EXCEPT ![t] = q]
          /\ result' = [result EXCEPT ![t] = {}]
          /\ hit' = [hit EXCEPT ![t] = slots[First(q)]]
          /\ pc' = [pc EXCEPT ![t] = IF slots[First(q)].phantom THEN "capture" ELSE "read"]
          /\ fresh' = [fresh EXCEPT ![t] = [id |-> made + 1]]
          /\ UNCHANGED offer
    BY <1>1 DEF LookupHit, Begin
  <2> DEFINE s == slots[First(q)]
  <2>2. Valid(s, q) /\ s \in Content(slots)
    BY <2>1, FirstMatches, OverContent DEF IInv, PoolInv, Content
  <2> HIDE DEF s
  <2>3. Kept(offer.asks, s)
    BY <2>2 DEF ListInv
  <2>4. Cacheable(q)
    <3>1. PICK q0 \in offer.asks : Cacheable(q0) /\ s.box = q0.box /\ s.cutoff = q0.cutoff
      BY <2>3 DEF Kept
    <3>2. q.box = q0.box /\ q.cutoff = q0.cutoff
      BY <2>2, <3>1 DEF Valid
    <3> QED BY <3>1, <3>2 DEF Cacheable
  <2>5. \A x \in Content(slots)' : Kept(offer.asks, x)
    <3>1. slots' \in Seq(Content(slots))
      BY <1>1, HitStep
    <3>2. \A x \in Content(slots)' : x \in Content(slots)
      BY <3>1 DEF Content
    <3> QED BY <3>2 DEF ListInv
  <2>6. /\ \A u \in Thread \ {t} : /\ pc'[u] = pc[u] /\ req'[u] = req[u] /\ hit'[u] = hit[u]
                                   /\ fresh'[u] = fresh[u] /\ result'[u] = result[u]
        /\ req'[t] = q /\ hit'[t] = s /\ pc'[t] = (IF s.phantom THEN "capture" ELSE "read")
        /\ DOMAIN result' = Thread
    BY <1>0, <2>1 DEF s
  <2>7. pc'[t] \in {"capture", "read"} /\ (pc'[t] = "read" => ~s.phantom)
    BY <2>6
  <2> QED BY <2>1, <2>2, <2>3, <2>4, <2>5, <2>6, <2>7, OneCall
<1>2. CASE LookupMiss(t)
  <2>1. PICK q \in offer.asks :
          /\ req' = [req EXCEPT ![t] = q] /\ hit' = [hit EXCEPT ![t] = NoSlot]
          /\ result' = [result EXCEPT ![t] = {}]
          /\ pc' = [pc EXCEPT ![t] = "scan"]
          /\ fresh' = [fresh EXCEPT ![t] = [id |-> made + 1]]
          /\ UNCHANGED <<offer, slots>>
    BY <1>2 DEF LookupMiss, Begin
  <2>2. /\ \A u \in Thread \ {t} : /\ pc'[u] = pc[u] /\ req'[u] = req[u] /\ hit'[u] = hit[u]
                                   /\ fresh'[u] = fresh[u] /\ result'[u] = result[u]
        /\ req'[t] = q /\ pc'[t] = "scan" /\ DOMAIN result' = Thread
    BY <1>0, <2>1
  <2>3. \A x \in Content(slots)' : Kept(offer.asks, x)
    BY <2>1 DEF ListInv, Content
  <2> QED BY <2>1, <2>2, <2>3, OneCall
<1> QED BY <1>1, <1>2

LEMMA ServeKeeps ==
  ASSUME OddSkin, IInv, ListInv, ResultInv, NEW t \in Thread,
         Read(t) \/ Capture(t) \/ Scan(t)
  PROVE  ListInv' /\ ResultInv'
<1>0. /\ pc \in [Thread -> {"idle", "read", "capture", "scan", "store"}]
      /\ DOMAIN req = Thread /\ DOMAIN hit = Thread /\ DOMAIN fresh = Thread
      /\ DOMAIN result = Thread /\ offer \in Offers
  BY DEF IInv, FreshInv, ListInv, ResultInv
<1> DEFINE q == req[t]
<1>1. CASE Read(t)
  <2>1. /\ pc[t] = "read" /\ result' = [result EXCEPT ![t] = Served(hit[t], req[t])]
        /\ pc' = [pc EXCEPT ![t] = "idle"] /\ UNCHANGED <<offer, slots, req, hit, fresh>>
    BY <1>1 DEF Read
  <2>2. Fresh(req[t], Served(hit[t], req[t]))
    BY <2>1, ReadFresh
  <2>3. /\ pc'[t] = "idle" /\ result'[t] = Served(hit[t], req[t]) /\ DOMAIN result' = Thread
        /\ \A u \in Thread \ {t} : pc'[u] = pc[u] /\ result'[u] = result[u]
    BY <1>0, <2>1
  <2>4. \A x \in Content(slots)' : Kept(offer.asks, x)
    BY <2>1 DEF ListInv, Content
  <2> QED BY <2>1, <2>2, <2>3, <2>4, OneCall
<1>2. CASE Capture(t)
  <2> DEFINE s(tested) == Slot(fresh[t].id, q, Within(q, tested, Reach(q)), TRUE)
             visited(tested) ==
               {<<p, MIC(Sep(q, p), q.box)>> : p \in UpTo(q, s(tested).pairs, q.cutoff)}
  <2>1. PICK tested \in Scans(q, Reach(q)) :
          /\ fresh' = [fresh EXCEPT ![t] = s(tested)]
          /\ result' = [result EXCEPT ![t] =
               IF q.entry = "accumulate" THEN Served(s(tested), q) ELSE visited(tested)]
    BY <1>2 DEF Capture
  <2>2. /\ pc[t] = "capture" /\ pc' = [pc EXCEPT ![t] = "store"]
        /\ UNCHANGED <<offer, slots, req, hit>>
    BY <1>2 DEF Capture
  <2>3. q \in offer.asks /\ Cacheable(q)
    BY <2>2 DEF ListInv
  <2>4. /\ s(tested) = Listing(fresh[t].id, q)
        /\ Fresh(q, Served(s(tested), q)) /\ Fresh(q, visited(tested))
    BY <1>0, <2>1, <2>3, CaptureFresh
  <2>5. /\ s(tested).box = q.box /\ s(tested).cutoff = q.cutoff /\ s(tested).id = fresh[t].id
    BY DEF Slot
  <2> HIDE DEF q, s, visited
  <2>6. Kept(offer.asks, s(tested))
    BY <2>3, <2>4, <2>5 DEF Kept
  <2>7. /\ pc'[t] = "store" /\ fresh'[t] = s(tested) /\ DOMAIN result' = Thread
        /\ result'[t] \in {Served(s(tested), q), visited(tested)}
        /\ \A u \in Thread \ {t} : /\ pc'[u] = pc[u] /\ fresh'[u] = fresh[u]
                                   /\ result'[u] = result[u]
    BY <1>0, <2>1, <2>2
  <2>8. Fresh(req'[t], result'[t]) /\ req'[t] \in offer.asks
    BY <2>2, <2>3, <2>4, <2>7 DEF q
  <2>9. \A x \in Content(slots)' : Kept(offer.asks, x)
    BY <2>2 DEF ListInv, Content
  <2> QED BY <2>2, <2>6, <2>7, <2>8, <2>9, OneCall
<1>3. CASE Scan(t)
  <2> DEFINE near(tested) == UpTo(q, tested, q.cutoff)
             pairs(tested) == IF q.entry = "accumulate" THEN near(tested) ELSE {}
             s(tested)     == Slot(fresh[t].id, q, pairs(tested), FALSE)
             visited(tested) == {<<p, MIC(Sep(q, p), q.box)>> : p \in near(tested)}
  <2>1. PICK tested \in Scans(q, q.cutoff) :
          /\ fresh' = [fresh EXCEPT ![t] = DropPairs(s(tested))]
          /\ result' = [result EXCEPT ![t] =
               IF q.entry = "accumulate" THEN Served(s(tested), q) ELSE visited(tested)]
    BY <1>3 DEF Scan
  <2>2. /\ pc[t] = "scan" /\ pc' = [pc EXCEPT ![t] = IF Cacheable(q) THEN "store" ELSE "idle"]
        /\ UNCHANGED <<offer, slots, req, hit>>
    BY <1>3 DEF Scan
  <2>3. q \in offer.asks
    BY <2>2 DEF ListInv
  <2>4. /\ Fresh(q, Served(Slot(fresh[t].id, q, near(tested), FALSE), q))
        /\ Fresh(q, visited(tested))
    BY <1>0, <2>1, <2>3, ScanFresh
  <2>5. /\ DropPairs(s(tested)).box = q.box /\ DropPairs(s(tested)).cutoff = q.cutoff
        /\ DropPairs(s(tested)).phantom
    BY DEF Slot, DropPairs
  <2>6. result'[t] = IF q.entry = "accumulate" THEN Served(s(tested), q) ELSE visited(tested)
    BY <1>0, <2>1
  <2>7. Fresh(q, result'[t])
    <3>1. CASE q.entry = "accumulate"
      BY <2>4, <2>6, <3>1
    <3>2. CASE q.entry # "accumulate"
      BY <2>4, <2>6, <3>2
    <3> QED BY <3>1, <3>2
  <2> HIDE DEF q, near, pairs, s, visited
  <2>8. /\ pc'[t] \in {"store", "idle"} /\ (pc'[t] = "store" => Cacheable(q))
        /\ fresh'[t] = DropPairs(s(tested)) /\ DOMAIN result' = Thread
        /\ \A u \in Thread \ {t} : /\ pc'[u] = pc[u] /\ fresh'[u] = fresh[u]
                                   /\ result'[u] = result[u]
    BY <1>0, <2>1, <2>2
  <2>9. pc'[t] = "store" => Kept(offer.asks, fresh'[t])
    BY <2>3, <2>5, <2>8 DEF Kept
  <2>10. Fresh(req'[t], result'[t]) /\ req'[t] \in offer.asks
    BY <2>2, <2>3, <2>7 DEF q
  <2>11. \A x \in Content(slots)' : Kept(offer.asks, x)
    BY <2>2 DEF ListInv, Content
  <2> QED BY <2>2, <2>8, <2>9, <2>10, <2>11, OneCall
<1> QED BY <1>1, <1>2, <1>3

LEMMA StoreKeeps ==
  ASSUME IInv, ListInv, ResultInv, NEW t \in Thread, Store(t)
  PROVE  ListInv' /\ ResultInv'
<1>1. /\ pc \in [Thread -> {"idle", "read", "capture", "scan", "store"}]
      /\ DOMAIN result = Thread
  BY DEF IInv, FreshInv, ResultInv
<1>2. pc[t] = "store" /\ pc' = [pc EXCEPT ![t] = "idle"]
      /\ UNCHANGED <<offer, req, hit, fresh, result>>
  BY DEF Store
<1>3. Kept(offer.asks, fresh[t]) /\ Fresh(req[t], result[t])
  BY <1>2 DEF ListInv, ResultInv
<1>4. \A x \in Content(slots)' : Kept(offer.asks, x)
  <2>1. slots' \in Seq(Content(slots) \cup {fresh[t]})
    BY StoreStep
  <2>2. \A x \in Content(slots)' : x \in Content(slots) \/ x = fresh[t]
    BY <2>1 DEF Content
  <2> QED BY <1>3, <2>2 DEF ListInv
<1>5. pc'[t] = "idle" /\ \A u \in Thread \ {t} : pc'[u] = pc[u]
  BY <1>1, <1>2
<1> QED BY <1>1, <1>2, <1>3, <1>4, <1>5, OneCall

\* The pairs and vectors that a call returns are those of a scan of its own positions,
\* whatever slot, scan, grid or fold served it and whatever other threads stored and
\* evicted meanwhile, when no atom moves exactly half the skin
\* (PairListCache.hpp:21-25, 83-103, 594-667).
THEOREM ResultIsFreshHolds ==
  OddSkin => (Spec => []ResultIsFresh)
<1> SUFFICES ASSUME OddSkin PROVE Spec => []ResultIsFresh
  OBVIOUS
<1>1. Init => ListInv /\ ResultInv
  <2>1. Fresh(NoRequest, {})
    <3>1. AllPairs(NoRequest) = {}
      BY DEF AllPairs, NoRequest
    <3> QED BY <3>1 DEF Fresh
  <2> QED BY <2>1 DEF Init, ListInv, ResultInv, Content
<1>2. ListInv /\ ResultInv /\ UNCHANGED vars => ListInv' /\ ResultInv'
  BY DEF vars, ListInv, ResultInv, Content
<1>3. ASSUME IInv, ListInv, ResultInv, NEW t \in Thread, Step(t)
      PROVE  ListInv' /\ ResultInv'
  BY <1>3, LookupKeeps, ServeKeeps, StoreKeeps DEF Step
<1>4. IInv /\ ListInv /\ ResultInv /\ [Next]_vars => ListInv' /\ ResultInv'
  BY <1>2, <1>3 DEF Next
<1>5. ResultInv => ResultIsFresh
  BY DEF ResultInv, ResultIsFresh
<1> QED BY Invariance, <1>1, <1>4, <1>5, PTL DEF Spec

=============================================================================
