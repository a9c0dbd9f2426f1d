------------------------- MODULE MCCalculatorGroup -------------------------
(* CalculatorGroup on four ranks, and on two for a finding: one hook, two    *)
(* engines, of which the first runs a collective inside its adopter.         *)
EXTENDS CalculatorGroup

CONSTANTS hook, eng1, eng2

MCHooks    == {hook}
MCAdopters == {eng1, eng2}
MCBlocking == {hook, eng1}

Bind(n)     == [op |-> "bind", size |-> n]
Hook        == [op |-> "hook", cb |-> hook]
Adopt(x)    == [op |-> "adopter", cb |-> x]
Load        == [op |-> "load"]

\* Registration before, around and after the bind; sizes that divide the world,
\* that do not, and the "whole world" size; repeated binds; a late load.
MCPrograms ==
  { <<Hook, Adopt(eng1), Bind(2), Adopt(eng1), Adopt(eng2)>>,
    <<Adopt(eng1), Adopt(eng2), Bind(2), Hook, Bind(2), Bind(1)>>,
    <<Bind(2), Adopt(eng2), Adopt(eng1), Adopt(eng2)>>,
    <<Hook, Hook, Adopt(eng2), Bind(3), Adopt(eng1)>>,
    <<Adopt(eng1), Hook, Bind(0), Adopt(eng2)>>,
    <<Bind(1), Load, Adopt(eng1), Bind(1)>> }

Everywhere(x) == [r \in Rank |-> x]
Only(q, x)    == [r \in Rank |-> IF r = q THEN x ELSE "join"]

\* All ranks agree, or one rank's callback answers for itself.
MCVerdicts ==
  { [c \in Callback |-> Everywhere("join")],
    [c \in Callback |-> IF c = hook THEN Only(0, "refuse") ELSE Everywhere("join")],
    [c \in Callback |-> IF c = eng1 THEN Only(1, "refuse") ELSE Everywhere("join")],
    [c \in Callback |-> IF c = eng1 THEN Everywhere("stray") ELSE Everywhere("join")],
    [c \in Callback |-> IF c = eng2 THEN Only(1, "stray") ELSE Everywhere("join")] }
=============================================================================
