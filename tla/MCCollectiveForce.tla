------------------------- MODULE MCCollectiveForce -------------------------
(* CollectiveForce on a calculator of two ranks with several calls, beside a *)
(* calculator of one rank that may have nothing to compute.                  *)
EXTENDS JointForce

CONSTANTS c0, c1, x, y, nobody

One == [r \in Rank |-> c0]
Two == [r \in Rank |-> IF r \in {0, 1} THEN c0 ELSE c1]   \* c1: one rank

All(s)      == [r \in Rank |-> s]
Split(s, t) == [r \in Rank |-> IF r = 0 THEN s ELSE t]
Jobs(seq)   == [c \in Calculator |-> IF c = c0 THEN seq ELSE << >>]

\* CollectiveCacheTest: the same system again, ranks that ask for different
\* systems, and batches that mix hits and misses.
CacheWork ==
  { Jobs(<< <<All(x)>>, <<Split(x, y)>>, <<All(x)>> >>),
    Jobs(<< <<All(x), Split(y, x)>>, <<All(y), All(x)>> >>) }

BatchWork  == { Jobs(<< <<All(x), All(y)>>, <<All(y)>> >>) }
UnevenWork == { Jobs(<< <<All(x)>> >>), [c \in Calculator |-> << <<All(x)>> >>] }
AnyWork    == CacheWork \cup UnevenWork

Caches(records) == [Rank -> [System -> records]]
Sound  == { f \in Caches({"none", "whole"}) : \A s \in System : f[2][s] = "none" }
Any    == { f \in Caches(Record) : f[0][y] = "none" }

NoRefusal   == {{}}
SomeRefusal == {{}, {0}, {0, 1}}
Agreed      == { [r \in Rank |-> c0] }
Disagreed   == { [r \in Rank |-> c0], [r \in Rank |-> IF r = 0 THEN c0 ELSE nobody] }
=============================================================================
