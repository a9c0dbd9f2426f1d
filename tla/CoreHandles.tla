------------------------------ MODULE CoreHandles ------------------------------
(***************************************************************************)
(* The C++ objects over the Rust core (src/include/rgpot): InputSpec,      *)
(* CalcResult, PotentialHandle and RpcClient each own one allocation of    *)
(* the core and move it; a potential is also an eindir objective, whose    *)
(* energy and gradient share one evaluation through a cache behind a mutex *)
(* (rgpot-core/src/eindir.rs).  Threads share a potential; the program     *)
(* moves and destroys no object that a thread computes with.               *)
(***************************************************************************)
EXTENDS Integers, FiniteSets

CONSTANTS Variable,      \* of a program: [name, class], name from a set
          Thread,
          Place,         \* coordinates
          Setting,       \* parameters of the implementation behind the potentials
          MaxSteps       \* bound: steps of the program

Class == {"input", "result", "potential", "client"}

ASSUME CoreAssumption == IsFiniteSet(Variable) /\ \A v \in Variable : v.class \in Class

VARIABLES held,          \* what each variable holds
          heap,          \* the allocations of the core
          thread,        \* the evaluation each thread is in
          gradient,      \* the last gradient that was written
          setting,       \* the implementation's parameters
          steps

cvars == <<held, heap, thread, gradient, setting, steps>>

Absent == -1             \* not constructed, or destroyed
Null   == 0              \* moved from, or a result without forces

NoValue == [none |-> TRUE]
Resting == [op |-> "none"]

Exists(v) == held[v] # Absent
Live(v)   == held[v] \notin {Absent, Null}

NewId == CHOOSE n \in 1 .. Cardinality(Variable) + 1 : n \notin DOMAIN heap

With(h, id, a)   == [n \in DOMAIN h \cup {id} |-> IF n = id THEN a ELSE h[n]]
Released(h, id)  == [n \in DOMAIN h \ {id} |-> h[n]]

\* rgpot_force_input_t, rgpot_force_out_t and rgpot_potential_t.
InputAt(x)   == [class |-> "input", at |-> x]
ResultAt(x)  == [class |-> "result", at |-> x]
NewPotential == [class |-> "potential", cache |-> NoValue, latest |-> NoValue]

Busy(v) == \E t \in Thread : thread[t].op # "none" /\ thread[t].pot = held[v]
Spend   == steps < MaxSteps /\ steps' = steps + 1

-----------------------------------------------------------------------------
(* Owning                                                                  *)

\* rgpot_force_input_create: the tensors borrow the caller's arrays.
MakeInput(v, x) ==
  /\ v.class = "input"
  /\ heap' = With(heap, NewId, InputAt(x))
  /\ held' = [held EXCEPT ![v] = NewId]

\* rgpot_force_out_create: no forces yet.
MakeResult(v) ==
  /\ v.class = "result"
  /\ held' = [held EXCEPT ![v] = Null]
  /\ UNCHANGED heap

\* from_impl, rgpot_potential_new_eindir: an empty cache.
MakePotential(v) ==
  /\ v.class = "potential"
  /\ heap' = With(heap, NewId, NewPotential)
  /\ held' = [held EXCEPT ![v] = NewId]

\* RpcClient's constructor throws if the core has no client for it.
MakeClient(v, made) ==
  /\ v.class = "client"
  /\ IF made THEN /\ heap' = With(heap, NewId, [class |-> "client"])
                  /\ held' = [held EXCEPT ![v] = NewId]
     ELSE UNCHANGED <<held, heap>>

Make(v) ==
  /\ Spend
  /\ ~Exists(v)
  /\ \/ \E x \in Place : MakeInput(v, x)
     \/ MakeResult(v)
     \/ MakePotential(v)
     \/ \E made \in BOOLEAN : MakeClient(v, made)
  /\ UNCHANGED <<thread, gradient, setting>>

MoveConstruct(v, w) ==
  /\ Spend
  /\ v.class = w.class
  /\ ~Exists(v) /\ Exists(w) /\ ~Busy(w)
  /\ held' = [held EXCEPT ![v] = held[w], ![w] = Null]
  /\ UNCHANGED <<heap, thread, gradient, setting>>

\* Mutant: what the target held is forgotten.
MoveForgets(v, w) ==
  /\ Spend
  /\ v.class = w.class
  /\ Exists(v) /\ Exists(w) /\ ~Busy(v) /\ ~Busy(w)
  /\ held' = IF v = w THEN held ELSE [held EXCEPT ![v] = held[w], ![w] = Null]
  /\ UNCHANGED <<heap, thread, gradient, setting>>

\* Move assignment: to itself it does nothing; else the target frees its own
\* allocation, takes the other's and leaves the other null.
MoveAssign(v, w) ==
  /\ Spend
  /\ v.class = w.class
  /\ Exists(v) /\ Exists(w) /\ ~Busy(v) /\ ~Busy(w)
  /\ IF v = w THEN UNCHANGED <<held, heap>>
     ELSE /\ heap' = IF Live(v) THEN Released(heap, held[v]) ELSE heap
          /\ held' = [held EXCEPT ![v] = held[w], ![w] = Null]
  /\ UNCHANGED <<thread, gradient, setting>>

\* A destructor frees what is left.
DestroyVariable(v) ==
  /\ Spend
  /\ Exists(v) /\ ~Busy(v)
  /\ heap' = IF Live(v) THEN Released(heap, held[v]) ELSE heap
  /\ held' = [held EXCEPT ![v] = Absent]
  /\ UNCHANGED <<thread, gradient, setting>>

-----------------------------------------------------------------------------
(* result = potential.calculate(input), or client.calculate(input)         *)

\* The callback's way out: what it throws stays behind the C ABI as a status.
Trampoline(v, input, fails) ==
  IF ~Live(input) THEN "invalid parameter"
  ELSE IF ~fails THEN "success"
  ELSE IF v.class = "client" THEN "rpc error" ELSE "internal error"

\* check_status throws on any status but success.
Status(v, input, fails) ==
  IF ~Live(v) THEN "invalid parameter" ELSE Trampoline(v, input, fails)

\* The call fills a result of its own; a failure destroys it, and the variable it
\* was meant for stays as it was.
Calculate(v, input, result, fails) ==
  /\ Spend
  /\ v.class \in {"potential", "client"} /\ input.class = "input" /\ result.class = "result"
  /\ Exists(v) /\ Exists(input) /\ ~Busy(v)
  /\ IF Status(v, input, fails) = "success"
     THEN LET rest == IF Live(result) THEN Released(heap, held[result]) ELSE heap
          IN  /\ heap' = With(rest, NewId, ResultAt(heap[held[input]].at))
              /\ held' = [held EXCEPT ![result] = NewId]
     ELSE UNCHANGED <<held, heap>>
  /\ UNCHANGED <<thread, gradient, setting>>

-----------------------------------------------------------------------------
(* The potential as an eindir objective                                    *)

Begin(t, op, v, x) ==
  thread' = [thread EXCEPT ![t] = [op |-> op, pot |-> held[v], at |-> x, under |-> setting]]

BeginEval(t, v, x) ==
  /\ Spend
  /\ v.class = "potential" /\ Live(v) /\ thread[t].op = "none"
  /\ Begin(t, "eval", v, x)
  /\ UNCHANGED <<held, heap, gradient, setting>>

Answer(pot, asked, at, under) ==
  gradient' = [asked |-> asked, at |-> at, under |-> under, now |-> setting,
               latest |-> heap[pot].latest]

\* Mutant: a cached gradient is served wherever it is from.
ServesAnywhere(cache, x) == cache # NoValue

Serves(cache, x) == cache # NoValue /\ cache.at = x

\* rgpot_grad_cb takes the cache, and computes anew if it is not of this place.
BeginGrad(t, v, x) ==
  LET cache == heap[held[v]].cache
  IN  /\ Spend
      /\ v.class = "potential" /\ Live(v) /\ thread[t].op = "none"
      /\ heap' = [heap EXCEPT ![held[v]].cache = NoValue]
      /\ IF Serves(cache, x)
         THEN Answer(held[v], x, cache.at, cache.under) /\ UNCHANGED thread
         ELSE Begin(t, "grad", v, x) /\ UNCHANGED gradient
      /\ UNCHANGED <<held, setting>>

\* rgpot_eval_cb, after the callback, which gives forces or not: a failed evaluation
\* empties the cache, and so does one that succeeds with an energy only.
EndEval(t, forces) ==
  LET e == thread[t]
      c == IF forces THEN [at |-> e.at, under |-> e.under] ELSE NoValue
  IN  /\ e.op = "eval"
      /\ heap' = [heap EXCEPT ![e.pot].cache = c, ![e.pot].latest = c]
      /\ thread' = [thread EXCEPT ![t] = Resting]
      /\ UNCHANGED <<held, gradient, setting, steps>>

\* Without forces nothing is written, even if the callback reported success (which
\* rgpot_grad_cb passes on; the trampoline of from_impl gives forces if it succeeds).
EndGrad(t, forces) ==
  LET e == thread[t]
  IN  /\ e.op = "grad"
      /\ IF forces THEN Answer(e.pot, e.at, e.at, e.under) ELSE UNCHANGED gradient
      /\ thread' = [thread EXCEPT ![t] = Resting]
      /\ UNCHANGED <<held, heap, setting, steps>>

\* The program gives the implementation other parameters while no thread computes.
ChangeSetting(s) ==
  /\ Spend
  /\ \A t \in Thread : thread[t].op = "none"
  /\ s # setting
  /\ setting' = s
  /\ UNCHANGED <<held, heap, thread, gradient>>

-----------------------------------------------------------------------------

CoreInit ==
  /\ held = [v \in Variable |-> Absent]
  /\ heap = << >>
  /\ thread = [t \in Thread |-> Resting]
  /\ gradient = NoValue
  /\ setting = CHOOSE s \in Setting : TRUE
  /\ steps = 0

CoreNext ==
  \/ \E v \in Variable : Make(v) \/ DestroyVariable(v)
  \/ \E v, w \in Variable : MoveConstruct(v, w) \/ MoveAssign(v, w)
  \/ \E v, i, r \in Variable, fails \in BOOLEAN : Calculate(v, i, r, fails)
  \/ \E t \in Thread, v \in Variable, x \in Place : BeginEval(t, v, x) \/ BeginGrad(t, v, x)
  \/ \E t \in Thread, forces \in BOOLEAN : EndEval(t, forces) \/ EndGrad(t, forces)
  \/ \E s \in Setting : ChangeSetting(s)

CoreSpec == CoreInit /\ [][CoreNext]_cvars

-----------------------------------------------------------------------------
(* Properties                                                              *)

\* "Move semantics transfer ownership of the underlying Rust allocation"
\* (potential.hpp:30-34, types.hpp, rpc_client.hpp): whatever was moved, assigned,
\* computed or destroyed, each allocation has exactly one owner, of its class, and
\* no variable owns one that was freed.
AllocationsOwned ==
  /\ \A id \in DOMAIN heap : Cardinality({v \in Variable : held[v] = id}) = 1
  /\ \A v \in Variable : Live(v) => held[v] \in DOMAIN heap /\ heap[held[v]].class = v.class

\* A gradient that is written is at the place that was asked, whatever other threads evaluate
\* meanwhile, and under the parameters of now, or else with those of the
\* potential's latest evaluation, which gave forces (eindir.rs: eval-then-grad).
GradientMatches ==
  gradient # NoValue =>
    /\ gradient.at = gradient.asked
    /\ gradient.under = gradient.now
         \/ (gradient.latest # NoValue /\ gradient.under = gradient.latest.under)
=============================================================================
