---------------------------- MODULE PairListCache ----------------------------
(***************************************************************************)
(* The pool of Verlet-skin pair lists that the classical pair potentials   *)
(* share (CppCore/rgpot/nlist/PairListCache.hpp), in a plane of integer    *)
(* coordinates: a box is a width per axis, 0 for a free axis, and the tilt *)
(* of its second vector (then both axes are periodic); distances are exact.*)
(*                                                                         *)
(* Threads take the pool's mutex twice per call, to look a slot up and to  *)
(* store a fresh one; everything between happens on slots that never       *)
(* change, while other threads reorder, replace and evict them.  A request *)
(* enters through evaluate (a visitor) or accumulate (energy and forces).  *)
(***************************************************************************)
EXTENDS Integers, SequencesExt

CONSTANTS
  Thread,      \* threads that evaluate potentials
  Offers,      \* hosts: [threads, calls, asks], asks a set of requests
               \* [R, box, cutoff, entry], calls a bound on those of all threads
  Skin,        \* Options.skin
  MaxSlots,    \* kMaxSlots
  MinCells     \* kMinCellsForGrid

ASSUME PoolAssumption ==
  /\ Skin \in Nat /\ MaxSlots \in Nat \ {0} /\ MinCells \in Nat
  /\ \A o \in Offers :
       /\ o.threads \subseteq Thread /\ o.calls \in Nat
       /\ \A q \in o.asks :
            /\ q.R \in Seq(Int \X Int) /\ q.box \in Nat \X Nat \X Int
            /\ q.box[3] # 0 => q.box[1] # 0 /\ q.box[2] # 0
            /\ q.cutoff \in Nat \ {0} /\ q.entry \in {"evaluate", "accumulate"}

VARIABLES
  offer,       \* the host, fixed by Init
  slots,       \* slots_, most recently used first
  pc, req, hit, fresh, result,    \* the call each thread is in
  made,        \* calls begun, and the source of slot identities
  since        \* per slot stored, the slots used since its own last use

vars == <<offer, slots, pc, req, hit, fresh, result, made, since>>

-----------------------------------------------------------------------------
(* Geometry: a vector has one component per axis.                          *)

Axis == {1, 2}

Abs(d) == IF d < 0 THEN -d ELSE d

\* visit_round of d / w: to the nearest, halves away from zero.
Round(d, w) ==
  LET m == (2 * Abs(d) + w) \div (2 * w) IN IF d < 0 THEN -m ELSE m

Square(n) == n * n
Norm2(d)  == Square(d[1]) + Square(d[2])
Between(x, y) == [k \in Axis |-> x[k] - y[k]]

\* Which periodic image a separation is folded from; none on a free axis.
Image(d, box) == [k \in Axis |-> IF box[k] = 0 THEN 0 ELSE Round(d[k], box[k])]

Shifted(d, image, box) == [k \in Axis |-> d[k] - image[k] * box[k]]

\* MinimumImage, for a tilted box: n cell vectors, and a separation in units of
\* them, times Det; Dual holds the squared norms of the inverse's columns.
Tilted(box)      == box[3] # 0
Cell(n, box)     == <<n[1] * box[1] + n[2] * box[3], n[2] * box[2]>>
Det(box)         == box[1] * box[2]
Fraction(d, box) == <<d[1] * box[2] - d[2] * box[3], d[2] * box[1]>>
Dual(box)        == <<Square(box[2]) + Square(box[3]), Square(box[1])>>

RootUp(n) == CHOOSE r \in 0 .. n : r * r >= n /\ (r = 0 \/ (r - 1) * (r - 1) < n)

\* Mutant: only the neighbours of the rounded image are searched.
NearImages(reduced, box) == [k \in Axis |-> -1 .. 1]

\* The images that may be shorter than the rounded one, with a plane to spare.
Images(reduced, box) ==
  [k \in Axis |->
     LET f      == Fraction(reduced, box)[k]
         extent == RootUp(Norm2(reduced) * Dual(box)[k])
     IN  (f - extent) \div Det(box) - 1 .. -((-f - extent) \div Det(box)) + 1]

Fold(d, box) ==
  LET rounded == [k \in Axis |-> Round(Fraction(d, box)[k], Det(box))]
      reduced == Between(d, Cell(rounded, box))
      images  == Images(reduced, box)
      found   == {Between(reduced, Cell(n, box)) : n \in images[1] \X images[2]}
  IN  CHOOSE x \in found \cup {reduced} : \A y \in found : Norm2(x) <= Norm2(y)

MIC(d, box) == IF Tilted(box) THEN Fold(d, box) ELSE Shifted(d, Image(d, box), box)

Sep(q, p)     == Between(q.R[p[1]], q.R[p[2]])
AllPairs(q)   == {p \in (DOMAIN q.R) \X (DOMAIN q.R) : p[1] < p[2]}
Reach(q)      == q.cutoff + Skin

\* A tilted box, or one narrower than twice the cutoff, is never cached.
Cacheable(q) == ~Tilted(q.box) /\ \A k \in Axis : q.box[k] = 0 \/ 2 * q.cutoff <= q.box[k]

-----------------------------------------------------------------------------
(* Scans: every pair of atoms is tested, or those that a grid of cells at  *)
(* least one reach wide brings together.                                   *)

\* Mutant: two cells along a periodic axis are enough.
TwoCellsGridded(q, cells) ==
  LET count == cells[1] * cells[2]
  IN  /\ Cacheable(q)
      /\ \A k \in Axis : q.box[k] # 0 => cells[k] >= 2
      /\ count \in MinCells .. 8 * Len(q.R) + 64

\* CellGrid::build refuses a periodic axis of less than three cells, where a forward
\* and a backward neighbour are one cell, and too few or too many cells in all.
Gridded(q, cells) ==
  LET count == cells[1] * cells[2]
  IN  /\ Cacheable(q)
      /\ \A k \in Axis : q.box[k] # 0 => cells[k] >= 3
      /\ count \in MinCells .. 8 * Len(q.R) + 64

Coordinates(q, k) == {q.R[a][k] : a \in DOMAIN q.R}
Low(q, k)    == IF q.box[k] # 0 THEN 0 ELSE CHOOSE x \in Coordinates(q, k) : \A y \in Coordinates(q, k) : x <= y
Extent(q, k) == IF q.box[k] # 0 THEN q.box[k]
                ELSE CHOOSE d \in {x - Low(q, k) : x \in Coordinates(q, k)} :
                       \A y \in Coordinates(q, k) : y - Low(q, k) <= d
Cells(q, reach) == [k \in Axis |-> IF Extent(q, k) < reach THEN 1 ELSE Extent(q, k) \div reach]

\* A free axis is binned over the atoms' extent, its far end in the last cell.
CellOf(q, cells, a) ==
  [k \in Axis |->
     IF q.box[k] # 0 THEN ((q.R[a][k] % q.box[k]) * cells[k]) \div q.box[k]
     ELSE IF q.R[a][k] = Low(q, k) + Extent(q, k) THEN cells[k] - 1
     ELSE ((q.R[a][k] - Low(q, k)) * cells[k]) \div Extent(q, k)]

HalfStencil == {<<1, 0>>, <<-1, 1>>, <<0, 1>>, <<1, 1>>}

Neighbour(q, cells, c, o) ==
  [k \in Axis |-> IF q.box[k] # 0 THEN (c[k] + o[k]) % cells[k] ELSE c[k] + o[k]]

\* How often cell_visit tests a pair.
Visits(q, cells, p) ==
  LET c == CellOf(q, cells, p[1])
      d == CellOf(q, cells, p[2])
  IN  (IF c = d THEN 1 ELSE 0)
      + Cardinality({o \in HalfStencil : Neighbour(q, cells, c, o) = d})
      + Cardinality({o \in HalfStencil : Neighbour(q, cells, d, o) = c})

\* A pair that was tested twice would count twice: it is left out here.
\* Whether a grid pays is a matter of speed, and open.
Scans(q, reach) ==
  LET cells == Cells(q, reach)
  IN  {AllPairs(q)} \cup IF Gridded(q, cells)
                         THEN {{p \in AllPairs(q) : Visits(q, cells, p) = 1}} ELSE {}

\* A scan lists the pairs strictly inside its list cutoff; a list for one
\* evaluation uses the next number above the cutoff.
Within(q, tested, reach) == {p \in tested : Norm2(MIC(Sep(q, p), q.box)) < Square(reach)}
UpTo(q, tested, reach)   == {p \in tested : Norm2(MIC(Sep(q, p), q.box)) <= Square(reach)}

-----------------------------------------------------------------------------
(* A slot: CachedPairList after a build.                                   *)

Complete(q, pairs) == Cacheable(q) /\ pairs = AllPairs(q)

Free(box) == \A k \in Axis : box[k] = 0

Unwrapped(q, p) == \E k \in Axis : Image(Sep(q, p), q.box)[k] \notin -1 .. 1

\* buildImageCodes: a stored image per pair, where motion cannot change it.
FoldMode(q, pairs, codes) ==
  IF Tilted(q.box) THEN "general"
  ELSE IF Free(q.box) THEN "none"
  ELSE IF /\ codes
          /\ ~Complete(q, pairs)
          /\ \A k \in Axis : q.box[k] = 0 \/ 2 * Reach(q) < q.box[k]
          /\ \A p \in pairs : ~Unwrapped(q, p)
       THEN "coded" ELSE "round"

Slot(id, q, pairs, codes) ==
  [id |-> id, R |-> q.R, box |-> q.box, cutoff |-> q.cutoff, pairs |-> pairs,
   complete |-> Complete(q, pairs), phantom |-> FALSE,
   fold |-> FoldMode(q, pairs, codes),
   image |-> [p \in pairs |-> Image(Sep(q, p), q.box)]]

\* dropPairs keeps the stamp, complete_ included: a phantom of a cluster that found
\* all its pairs is valid wherever the atoms go.
DropPairs(s) == [s EXCEPT !.pairs = {}, !.image = << >>, !.phantom = TRUE]

\* Same box and options, and no atom further than skin/2 from the build.
Unmoved(s, q) ==
  \A a \in DOMAIN q.R : 4 * Norm2(Between(q.R[a], s.R[a])) <= Square(Skin)

Valid(s, q) ==
  /\ s.box = q.box /\ s.cutoff = q.cutoff /\ DOMAIN s.R = DOMAIN q.R
  /\ s.complete \/ Unmoved(s, q)

\* Evaluation re-derives the vector of each listed pair ...
Vector(s, q, p) ==
  CASE s.fold = "none"  -> Sep(q, p)
    [] s.fold = "coded" -> Shifted(Sep(q, p), s.image[p], s.box)
    [] s.fold \in {"round", "general"} -> MIC(Sep(q, p), s.box)

\* ... and keeps those within the true cutoff.
Served(s, q) ==
  {<<p, Vector(s, q, p)>> : p \in {x \in s.pairs : Norm2(Vector(s, q, x)) <= Square(s.cutoff)}}

-----------------------------------------------------------------------------
(* The pool.                                                               *)

NoSlot    == [id |-> 0]
NoRequest == [R |-> << >>, box |-> <<0, 0, 0>>, cutoff |-> 0, entry |-> "evaluate"]
Idle(t) == pc[t] = "idle"

Init ==
  /\ offer \in Offers
  /\ slots = << >>
  /\ pc = [t \in Thread |-> "idle"]
  /\ req = [t \in Thread |-> NoRequest]
  /\ hit = [t \in Thread |-> NoSlot]
  /\ fresh = [t \in Thread |-> NoSlot]
  /\ result = [t \in Thread |-> {}]
  /\ made = 0
  /\ since = << >>

Used(id) == [x \in DOMAIN since |-> IF x = id THEN {} ELSE since[x] \cup {id}]

Matches(q) == {k \in DOMAIN slots : Valid(slots[k], q)}
First(q)   == CHOOSE k \in Matches(q) : \A l \in Matches(q) : k <= l

\* Mutant: a hit stays where it was.
InPlace(k) == slots

ToFront(k) == <<slots[k]>> \o RemoveAt(slots, k)

Without(id) ==
  IF \E k \in DOMAIN slots : slots[k].id = id
  THEN RemoveAt(slots, CHOOSE k \in DOMAIN slots : slots[k].id = id) ELSE slots

Begin(t, q) ==
  /\ Idle(t) /\ t \in offer.threads /\ made < offer.calls
  /\ made' = made + 1
  /\ req' = [req EXCEPT ![t] = q]
  /\ result' = [result EXCEPT ![t] = {}]

\* lookup: the most recently used valid slot moves to the front.
LookupHit(t) == \E q \in offer.asks :
  /\ Begin(t, q)
  /\ Matches(q) # {}
  /\ LET s == slots[First(q)] IN
     /\ since' = Used(s.id)
     /\ hit' = [hit EXCEPT ![t] = s]
     /\ pc' = [pc EXCEPT ![t] = IF s.phantom THEN "capture" ELSE "read"]
  /\ slots' = ToFront(First(q))
  /\ fresh' = [fresh EXCEPT ![t] = [id |-> made + 1]]
  /\ UNCHANGED offer

LookupMiss(t) == \E q \in offer.asks :
  /\ Begin(t, q)
  /\ Matches(q) = {}
  /\ hit' = [hit EXCEPT ![t] = NoSlot]
  /\ pc' = [pc EXCEPT ![t] = "scan"]
  /\ fresh' = [fresh EXCEPT ![t] = [id |-> made + 1]]
  /\ UNCHANGED <<offer, slots, since>>

\* A captured list serves the call.
Read(t) ==
  /\ pc[t] = "read"
  /\ result' = [result EXCEPT ![t] = Served(hit[t], req[t])]
  /\ pc' = [pc EXCEPT ![t] = "idle"]
  /\ UNCHANGED <<offer, slots, req, hit, fresh, made, since>>

\* rebuild: the second sighting of a phantom captures the list.
Capture(t) ==
  /\ pc[t] = "capture"
  /\ LET q == req[t] IN
     \E tested \in Scans(q, Reach(q)) :
       LET s == Slot(fresh[t].id, q, Within(q, tested, Reach(q)), TRUE) IN
       /\ fresh' = [fresh EXCEPT ![t] = s]
       /\ result' = [result EXCEPT ![t] =
            IF q.entry = "accumulate" THEN Served(s, q)
            ELSE {<<p, MIC(Sep(q, p), q.box)>> : p \in UpTo(q, s.pairs, q.cutoff)}]
  /\ pc' = [pc EXCEPT ![t] = "store"]
  /\ UNCHANGED <<offer, slots, req, hit, made, since>>

\* The first sighting: buildForEval, accumulate, dropPairs; or visitOnly, which
\* stamps an empty list.
Scan(t) ==
  /\ pc[t] = "scan"
  /\ LET q == req[t] IN
     \E tested \in Scans(q, q.cutoff) :
       LET near == UpTo(q, tested, q.cutoff)
           s    == Slot(fresh[t].id, q, IF q.entry = "accumulate" THEN near ELSE {}, FALSE) IN
       /\ result' = [result EXCEPT ![t] =
            IF q.entry = "accumulate" THEN Served(s, q)
            ELSE {<<p, MIC(Sep(q, p), q.box)>> : p \in near}]
       /\ fresh' = [fresh EXCEPT ![t] = DropPairs(s)]
       /\ pc' = [pc EXCEPT ![t] = IF Cacheable(q) THEN "store" ELSE "idle"]
  /\ UNCHANGED <<offer, slots, req, hit, made, since>>

Evict(s) == IF Len(s) > MaxSlots THEN SubSeq(s, 1, MaxSlots) ELSE s

\* store: the fresh slot replaces the phantom it grew from, if still there.
Store(t) ==
  /\ pc[t] = "store"
  /\ LET gone == hit[t].id
         id   == fresh[t].id IN
     /\ slots' = Evict(<<fresh[t]>> \o Without(gone))
     /\ since' = [x \in (DOMAIN since \ {gone}) \cup {id} |->
                    IF x = id THEN {} ELSE (since[x] \ {gone}) \cup {id}]
  /\ pc' = [pc EXCEPT ![t] = "idle"]
  /\ UNCHANGED <<offer, req, hit, fresh, result, made>>

Step(t) == LookupHit(t) \/ LookupMiss(t) \/ Read(t) \/ Capture(t) \/ Scan(t) \/ Store(t)

Spent == made = offer.calls /\ \A t \in Thread : Idle(t)

Next == (\E t \in Thread : Step(t)) \/ (Spent /\ UNCHANGED vars)

Spec == Init /\ [][Next]_vars

-----------------------------------------------------------------------------
(* Properties.                                                             *)

\* The images of a separation that a fresh scan could report: the shortest of all
\* its translations, axis by axis or, in a tilted box, row by row of its cells.
Translated(d, w) == IF w = 0 THEN {d} ELSE {d - m * w : m \in 0 .. 1 + d \div w}
Shortest(d, w)   == {x \in Translated(Abs(d), w) :
                       \A y \in Translated(Abs(d), w) : Abs(x) <= Abs(y)}
Along(d, w)      == IF d < 0 THEN {-x : x \in Shortest(d, w)} ELSE Shortest(d, w)
Farthest(d, box) == (Abs(d[1]) + 2 * Abs(d[2])) \div box[2]
Rows(d, box)     == UNION {Along(d[1] - n * box[3], box[1]) \X {d[2] - n * box[2]} :
                             n \in -Farthest(d, box) .. Farthest(d, box)}
Nearest(d, box)  == IF Tilted(box)
                    THEN LET rows == Rows(d, box)
                         IN  {x \in rows : \A y \in rows : Norm2(x) <= Norm2(y)}
                    ELSE Along(d[1], box[1]) \X Along(d[2], box[2])

Fresh(q, found) ==
  /\ {f[1] : f \in found} =
       {p \in AllPairs(q) : \E x \in Nearest(Sep(q, p), q.box) : Norm2(x) <= Square(q.cutoff)}
  /\ \A f \in found : f[2] \in Nearest(Sep(q, f[1]), q.box)
  /\ \A f, g \in found : f[1] = g[1] => f = g

\* "The pair content matches a fresh scan while every atom stays within skin/2 of
\* the build positions": whatever slot, scan or fold served a call, and whatever
\* other threads stored and evicted meanwhile, the pairs and their image vectors
\* are those of a scan of the call's own positions (PairListCache.hpp:21-25,
\* 594-599).
ResultIsFresh ==
  \A t \in Thread :
    pc[t] \in {"idle", "store"} => Fresh(req[t], result[t])

\* No atom can move exactly half the skin on this lattice.  Where one can, ResultIsFresh
\* does not hold: the slot is still valid, but its list was captured strictly inside
\* cutoff + skin (PairListCache.hpp:92-100, vesin_visit.hpp:67).
OddSkin == Skin % 2 = 1

\* "A second sighting within skin/2 proves reuse and captures the list. One-shot
\* evaluations never pay list capture": a call that pays for a capture follows a
\* sighting of the same atoms within skin/2 (PairListCache.hpp:28-31).
CaptureFollowsSighting ==
  \A t \in Thread : pc[t] = "capture" => Unmoved(hit[t], req[t])

\* The pool never exceeds its limit, and a slot leaves it only when as many
\* other slots as it holds were used after that slot's last use: the least
\* recently used slot is evicted (PairListCache.hpp:650-667).
LeastRecentlyUsedEvicted ==
  /\ Len(slots) <= MaxSlots
  /\ \A id \in DOMAIN since :
       \/ \E k \in DOMAIN slots : slots[k].id = id
       \/ Cardinality(since[id]) >= MaxSlots

=============================================================================
