---------------------------- MODULE MCRpcService ----------------------------
(* Instances of RpcService for TLC. *)
EXTENDS RpcService

C(types, pos, box) == [types |-> types, pos |-> pos, box |-> box]

\* Of another species and another number of atoms.
MCSystem == {C(<<6>>, "p", "b"), C(<<7, 7>>, "r", "b")}

\* Also other coordinates, another cell, the same species in another order; three
\* systems are more than a band of two.
MCBatch ==
  {<<C(<<6>>, "p", "b")>>, <<C(<<6, 6>>, "r", "b")>>,
   <<C(<<6>>, "p", "b"), C(<<6>>, "q", "b"), C(<<6>>, "p", "c")>>,
   <<C(<<6>>, "p", "b"), C(<<7>>, "p", "b")>>,
   <<C(<<6, 7>>, "r", "b"), C(<<7, 6>>, "r", "b")>>}

P(batch, types, cube, readable) ==
  [batch |-> batch, types |-> types, param |-> "neutral", cube |-> cube, readable |-> readable]

MCUmaPackage == {P(0, <<6>>, FALSE, TRUE), P(2, <<6>>, TRUE, TRUE),
                 P(2, <<6, 7>>, FALSE, TRUE), P(2, <<6>>, FALSE, FALSE)}

Orientations(n, probe, random) == [rotations |-> n, probe |-> probe, random |-> random]
MCModel == {Orientations(0, FALSE, TRUE), Orientations(3, TRUE, FALSE), Orientations(12, FALSE, FALSE)}

MCLengthUnit == {<<"angstrom">>, <<"nm">>, <<"ev">>}
MCEnergyUnit == {<<"ev">>, <<"kcal", "/", "mol">>}

\* What a program over the core declares.
V(n, class) == [name |-> n, class |-> class]
MCVariable == {V(1, "potential"), V(2, "potential"), V(1, "input"), V(1, "result"),
               V(2, "result"), V(1, "client")}

Tokens == {"nm", "2", "*", "/", "^", "(", ")", "blank"}
MCExpression == UNION {[1 .. n -> Tokens] : n \in 0 .. 5}

\* What the theorems on answers and on replies suppose holds of these instances.
ASSUME Separable == PartsDistinct
ASSUME Readable  == UnitsRead
=============================================================================
