--------------------------- MODULE UnitExpressions ---------------------------
(***************************************************************************)
(* Unit strings and conversion factors (CppCore/rgpot/units.cc): a unit    *)
(* string is tokenized, brought to postfix order by shunting yard, and     *)
(* evaluated with dimensional analysis.                                    *)
(*                                                                         *)
(* A string is the sequence of its words, operators and blanks.  A factor  *)
(* is exact: a product of integer powers of a few bases.                   *)
(***************************************************************************)
EXTENDS Integers, Sequences, FiniteSets, SequencesExt

Basis == {"10", "2", "e", "cal", "Na"}    \* e: elementary charge; Na: Avogadro
Axis  == {"L", "T", "M"}

Error == [size |-> "error"]                \* std::invalid_argument

\* UnitValue: a factor and a dimension.
Pure(b, n)    == [size |-> [k \in Basis |-> IF k = b THEN n ELSE 0],
                  dim  |-> [a \in Axis |-> 0]]
Dim(v, l, t, m) == [v EXCEPT !.dim = [a \in Axis |->
                     IF a = "L" THEN l ELSE IF a = "T" THEN t ELSE m]]
Length(v) == Dim(v, 1, 0, 0)
Energy(v) == Dim(v, 2, -2, 1)
One       == Pure("2", 0)

Scaled(v, n)  == [size |-> [b \in Basis |-> n * v.size[b]],
                  dim  |-> [a \in Axis |-> n * v.dim[a]]]
Times(v, w)   == [size |-> [b \in Basis |-> v.size[b] + w.size[b]],
                  dim  |-> [a \in Axis |-> v.dim[a] + w.dim[a]]]
Over(v, w)    == Times(v, Scaled(w, -1))

\* BASE_UNITS, and one number.
Units ==
  [angstrom |-> Length(Pure("10", -10)), nm |-> Length(Pure("10", -9)),
   ev |-> Energy(Pure("e", 1)),
   kcal |-> Energy(Times(Pure("cal", 1), Pure("10", 3))), mol |-> Pure("Na", 1)]
Number == "2"

Operator == {"*", "/", "^"}
IsWord(t) == t \notin Operator \cup {"(", ")", "blank"}

\* What a string consists of, but for its blanks; "unknown" is any other word.
Token == DOMAIN Units \cup {Number, "unknown"} \cup Operator \cup {"(", ")"}

-----------------------------------------------------------------------------
(* tokenize                                                                *)

\* Blanks do not end a word: "n m" is "nm".  std::stod then reads the longest
\* number a word begins with, so that "2 nm" is 2; "nm 2" is no unit.  Two numbers that
\* meet are another one, for which 2 stands as well.
Joined(w, t) == IF w = Number THEN Number ELSE "unknown"

\* One more word, operator or blank of the string.
Scan(toks, t) ==
  IF t = "blank" THEN toks
  ELSE IF toks # << >> /\ IsWord(Last(toks)) /\ IsWord(t)
       THEN Append(Front(toks), Joined(Last(toks), t))
  ELSE Append(toks, t)

Tokenize(unit) == FoldLeft(Scan, << >>, unit)

-----------------------------------------------------------------------------
(* shunting_yard                                                           *)

Precedence(t) == IF t = "^" THEN 20 ELSE IF t \in Operator THEN 10 ELSE 0

\* Mutant: an operator leaves its equals on the stack, as if all were right-associative.
PopsHigher(ops, t) ==
  LET kept == {n \in 0 .. Len(ops) :
                 \A i \in n + 1 .. Len(ops) : Precedence(t) < Precedence(ops[i])}
  IN  CHOOSE n \in kept : \A m \in kept : n <= m

\* How many operators stay when t arrives: those above that bind as tightly leave.
Pops(ops, t) ==
  LET kept == {n \in 0 .. Len(ops) :
                 \A i \in n + 1 .. Len(ops) : Precedence(t) <= Precedence(ops[i])}
  IN  CHOOSE n \in kept : \A m \in kept : n <= m

\* Moves all but n of the operators to the output.
Drain(s, n) ==
  [out |-> s.out \o Reverse(SubSeq(s.ops, n + 1, Len(s.ops))),
   ops |-> SubSeq(s.ops, 1, n), ok |-> s.ok]

Opening(ops) ==
  LET opens == {i \in 1 .. Len(ops) : ops[i] = "("}
  IN  IF opens = {} THEN 0 ELSE CHOOSE i \in opens : \A j \in opens : j <= i

Step(s, t) ==
  IF ~s.ok THEN s
  ELSE IF IsWord(t) THEN [s EXCEPT !.out = Append(@, t)]
  ELSE IF t \in Operator
       THEN LET d == Drain(s, Pops(s.ops, t)) IN [d EXCEPT !.ops = Append(@, t)]
  ELSE IF t = "(" THEN [s EXCEPT !.ops = Append(@, t)]
  ELSE LET n == Opening(s.ops)
       IN  IF n = 0 THEN [s EXCEPT !.ok = FALSE]
           ELSE LET d == Drain(s, n) IN [d EXCEPT !.ops = Front(@)]

Finished(s) == [ok |-> s.ok /\ Opening(s.ops) = 0, out |-> Drain(s, 0).out]

ShuntingYard(tokens) ==
  Finished(FoldLeft(Step, [out |-> << >>, ops |-> << >>, ok |-> TRUE], tokens))

-----------------------------------------------------------------------------
(* read_expr, UnitExpr::eval and the API                                   *)

WordValue(w) ==
  IF w \in DOMAIN Units THEN Units[w] ELSE IF w = Number THEN Pure("2", 1) ELSE Error

\* An exponent is a number: what is left of a factor without dimension.
IsPure(v) == \A a \in Axis : v.dim[a] = 0
Exponent(v) == 2 ^ v.size["2"]

Apply(op, l, r) ==
  IF Error \in {l, r} THEN Error
  ELSE IF op = "*" THEN Times(l, r)
  ELSE IF op = "/" THEN Over(l, r)
  ELSE IF IsPure(r) THEN Scaled(l, Exponent(r)) ELSE Error

\* Postfix: each operator takes the two values before it.
Reduce(stack, t) ==
  IF IsWord(t) THEN Append(stack, WordValue(t))
  ELSE IF Len(stack) < 2 THEN <<Error, Error>>
  ELSE LET n == Len(stack)
       IN  Append(SubSeq(stack, 1, n - 2), Apply(t, stack[n - 1], stack[n]))
TheOne(stack) == IF Len(stack) = 1 THEN stack[1] ELSE Error

Evaluate(yard) == IF yard.ok THEN TheOne(FoldLeft(Reduce, << >>, yard.out)) ELSE Error

\* parse_unit_expression
ParseTokens(tokens) == IF tokens = << >> THEN One ELSE Evaluate(ShuntingYard(tokens))
Parse(unit) == ParseTokens(Tokenize(unit))

NoFactor == << >>

Ratio(f, t) == IF Error \in {f, t} \/ f.dim # t.dim THEN NoFactor ELSE Over(f, t).size

\* unit_conversion_factor, as the size of the factor; NoFactor if it throws.
Factor(from, to) ==
  IF << >> \in {from, to} THEN One.size ELSE Ratio(Parse(from), Parse(to))

-----------------------------------------------------------------------------
(* What a unit expression means.                                           *)

DepthAt(s, i) == Cardinality({j \in 1 .. i : s[j] = "("})
                 - Cardinality({j \in 1 .. i : s[j] = ")"})

\* The last operator of ops outside of parentheses; 0 if there is none.
LastOutside(s, ops) ==
  LET at == {i \in 1 .. Len(s) : s[i] \in ops /\ DepthAt(s, i) = 0}
  IN  IF at = {} THEN 0 ELSE CHOOSE i \in at : \A j \in at : j <= i

\* The usual reading: powers before products, equals from left to right.
Meaning[s \in Seq(Token)] ==
  LET n      == Len(s)
      prod   == LastOutside(s, {"*", "/"})
      cut    == IF prod # 0 THEN prod ELSE LastOutside(s, {"^"})
  IN  IF n = 1 /\ IsWord(s[1]) THEN WordValue(s[1])
      ELSE IF cut # 0
           THEN Apply(s[cut], Meaning[SubSeq(s, 1, cut - 1)], Meaning[SubSeq(s, cut + 1, n)])
      ELSE IF /\ n > 2 /\ s[1] = "(" /\ s[n] = ")" /\ DepthAt(s, n) = 0
              /\ \A i \in 1 .. n - 1 : DepthAt(s, i) > 0
           THEN Meaning[SubSeq(s, 2, n - 1)]
      ELSE Error
=============================================================================
