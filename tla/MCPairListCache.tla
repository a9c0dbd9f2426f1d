--------------------------- MODULE MCPairListCache ---------------------------
(* PairListCache on two or three atoms, in boxes for every fold mode.       *)
EXTENDS PairListCache

CONSTANTS t1, t2

Geometry(A, B, C) == {<<a, b, c>> : a \in A, b \in B, c \in C}
Row(X)            == {<<x, 0>> : x \in X}

Requests(entries, Rs, boxes, cutoffs) ==
  {[R |-> R, box |-> w, cutoff |-> c, entry |-> e] :
     R \in Rs, w \in boxes, c \in cutoffs, e \in entries}

Energy == {"accumulate"}
Visit  == {"evaluate"}

\* One host at a time: on free axes, in a box too narrow to cache, in one that
\* folds per call and in one that stores images; neighbours across the boundary,
\* and unwrapped coordinates more than a box away; with and without a cell grid;
\* in two tilted boxes.  Some systems find all their pairs, at once or on the way.
Lattice == Geometry(Row({0, 1}), Row({2, 4, 5, 11, 13}), {<<8, 0>>, <<9, 20>>, <<21, 1>>})
OneHost == { Requests(Energy, Lattice, {<<0, 0, 0>>}, {2}), Requests(Energy, Lattice, {<<3, 0, 0>>}, {2}),
             Requests(Energy, Lattice, {<<8, 0, 0>>}, {4}),
             Requests(Energy \cup Visit, Lattice, {<<6, 5, 2>>, <<4, 2, 13>>}, {2}),
             Requests(Energy, Lattice, {<<15, 30, 0>>}, {2}) }

Alone(n, hosts)    == {[threads |-> {t1}, calls |-> n, asks |-> h] : h \in hosts}
Together(n, hosts) == {[threads |-> {t1, t2}, calls |-> n, asks |-> h] : h \in hosts}

\* Several hosts: two boxes and cutoffs, both entry points, more families of
\* geometries than slots, and a small cluster that a visitor asks for.
Families == Requests(Energy, Geometry(Row({0, 1}), Row({3}), Row({12})), {<<12, 0, 0>>}, {2})
Others   == Requests(Visit, Geometry(Row({0}), Row({3}), Row({12})), {<<0, 0, 0>>, <<12, 0, 0>>}, {2})
Wider    == Requests(Visit, Geometry(Row({0}), Row({3}), Row({12})), {<<12, 0, 0>>}, {3})
Cluster  == Requests(Visit, Geometry(Row({0, 4}), Row({2}), Row({3})), {<<0, 0, 0>>}, {4})
Pool     == { Families \cup Others, Others \cup Wider, Cluster }

Hosts == Alone(3, OneHost) \cup Together(5, Pool)

\* A host that evaluates clusters whose pairs are all within the cutoff, each perhaps once.
OneShot == Alone(2, {Requests(Energy, Geometry(Row({0}), Row({1, 6}), {<<2, 0>>, <<7, 0>>}),
                              {<<0, 0, 0>>}, {8})})

ASSUME NoHalfMoves == OddSkin
=============================================================================
