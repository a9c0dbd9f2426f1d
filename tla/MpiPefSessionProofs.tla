------------------------- MODULE MpiPefSessionProofs -------------------------
(***************************************************************************)
(* For every number of ranks, of requests and of failures:                 *)
(*                                                                         *)
(* No rank takes one collective for another.  What a rank enters next is a *)
(* function of its last collective and of what the ranks agreed in it; the *)
(* invariant IInv says so of every place in the logs, and two logs cannot  *)
(* part.                                                                   *)
(*                                                                         *)
(* Success is joint.  Ranks are at most one agreement apart while one of   *)
(* them works, so a rank's last collective says what its engine holds; the *)
(* invariant JointInv says what, and what it has of its neighbours'.       *)
(***************************************************************************)
EXTENDS MpiPefSession, SequenceTheorems, WellFoundedInduction, TLAPS

Piece   == Collective \cup Broadcasts \cup {"maximum"}
Content(s) == {s[k] : k \in DOMAIN s}

Shape ==
  /\ DOMAIN log = Rank /\ \A r \in Rank : log[r] \in Seq(Content(log[r]))
  /\ pc \in [Rank -> {"wait", "run", "agree", "maximum", "stopped"}]
  /\ todo \in [Rank -> Seq(Piece)]

\* What the collective is called whose piece comes first.
Named(left) ==
  IF left = << >> THEN "command"
  ELSE IF Head(left) \in Collective THEN "agree" ELSE Head(left)

\* The least rank that failed in the n-th collectives, or Size.
FailedAt(n) ==
  LET said == {log[q][n].value : q \in Rank}
  IN CHOOSE m \in said : \A k \in said : m <= k

Agreement(r, n) == n > 0 /\ log[r][n].what = "agree"
Failed(r, n)    == Agreement(r, n) /\ FailedAt(n) # Size

\* What is left of the request after a rank's first n collectives.
Left(r, n) ==
  IF n = 0 THEN IF Serving THEN << >> ELSE ForceWork
  ELSE LET e == log[r][n] IN
       IF e.what = "command" THEN IF e.value.op = "stop" THEN << >> ELSE Work(e.value)
       ELSE IF e.what \in {"error", "maximum"} \/ (e.what = "help" /\ e.value = "help") THEN << >>
       ELSE IF Failed(r, n) THEN e.left ELSE Tail(e.left)

Entry(what, value, left) == [what |-> what, value |-> value, left |-> left]

\* Each collective of a rank follows from the one before it.
Link(r, n) ==
  /\ log[r][n] = Entry(log[r][n].what, log[r][n].value, Left(r, n - 1))
  /\ log[r][n].what = IF Failed(r, n - 1) THEN "error" ELSE Named(Left(r, n - 1))
  /\ log[r][n].what = "error" => Failed(r, n - 1) /\ log[r][n].value = FailedAt(n - 1)
  /\ log[r][n].what = "maximum" => log[r][n].value = 0
  /\ Agreement(r, n - 1) => \A q \in Rank : Len(log[q]) >= n - 1

ChainInv(r) == \A n \in 1 .. Len(log[r]) : Link(r, n)

\* What a rank does next follows from its last collective.
PlaceInv(r) ==
  LET n == Len(log[r]) IN
  /\ pc[r] \in {"run", "wait"} =>
       /\ todo[r] = Left(r, n) /\ ~Failed(r, n)
       /\ Agreement(r, n) => \A q \in Rank : Len(log[q]) >= n
  /\ pc[r] = "run" => todo[r] # << >>
  /\ pc[r] = "wait" => todo[r] = << >>
  /\ pc[r] = "agree" => n > 0 /\ log[r][n].what = "agree" /\ log[r][n].left = todo[r] /\ todo[r] # << >>
  /\ pc[r] = "maximum" => n > 0 /\ log[r][n].what = "maximum"

\* A broadcast comes to a rank from the root, with the root's payload.
RootInv(r) ==
  \A n \in 1 .. Len(log[r]) :
    log[r][n].what \in Broadcasts \cup {"command"} =>
      n <= Len(log[0]) /\ log[r][n].value = log[0][n].value

\* The logs of two ranks agree wherever both have got to.
Same(q, r, n) ==
  /\ log[q][n].what = log[r][n].what /\ log[q][n].left = log[r][n].left
  /\ log[q][n].what # "agree" => log[q][n].value = log[r][n].value

MatchInv ==
  \A q, r \in Rank : \A n \in 1 .. Len(log[q]) : n \in 1 .. Len(log[r]) => Same(q, r, n)

LogsInv == MatchInv /\ \A r \in Rank : ChainInv(r) /\ PlaceInv(r) /\ RootInv(r)

IInv == Shape /\ LogsInv

-----------------------------------------------------------------------------
(* Sequences.                                                              *)

LEMMA OverContent ==
  ASSUME NEW S, NEW s \in Seq(S)
  PROVE  s \in Seq(Content(s)) /\ DOMAIN s = 1 .. Len(s) /\ Len(s) \in Nat
<1>1. /\ s = [k \in 1 .. Len(s) |-> s[k]] /\ Len(s) \in Nat /\ DOMAIN s = 1 .. Len(s)
      /\ \A k \in 1 .. Len(s) : s[k] \in Content(s)
  BY DEF Content
<1>2. [k \in 1 .. Len(s) |-> s[k]] \in Seq(Content(s))
  BY <1>1, IsASeq
<1> QED BY <1>1, <1>2

\* A collective is appended to a log.
LEMMA Appended ==
  ASSUME NEW s, s \in Seq(Content(s)), NEW e
  PROVE  LET t == Append(s, e) IN
         /\ t \in Seq(Content(t)) /\ Len(t) = Len(s) + 1 /\ Len(s) \in Nat
         /\ \A n \in 1 .. Len(s) : t[n] = s[n]
         /\ t[Len(s) + 1] = e
<1> DEFINE S == Content(s) \cup {e}
           t == Append(s, e)
<1>1. s \in Seq(S) /\ e \in S
  <2>1. Content(s) \subseteq S /\ e \in S
    OBVIOUS
  <2> HIDE DEF S
  <2> QED BY <2>1, SeqMonotonic
<1> HIDE DEF S
<1>2. /\ t \in Seq(S) /\ Len(t) = Len(s) + 1 /\ \A n \in 1 .. Len(s) : t[n] = s[n]
      /\ t[Len(s) + 1] = e
  BY <1>1, AppendProperties
<1>3. Len(s) \in Nat
  BY <1>1
<1> HIDE DEF t
<1>4. t \in Seq(Content(t))
  BY <1>2, OverContent
<1> QED BY <1>2, <1>3, <1>4 DEF t

\* Every request has pieces, whatever it asks for.
LEMMA WorkPieces ==
  /\ \A q : Work(q) \in Seq(Piece) /\ Work(q) # << >>
  /\ ForceWork \in Seq(Piece) /\ ForceWork # << >>
<1>1. \A b \in BOOLEAN : Broadcast(b) \in Seq(Piece) /\ Broadcast(b) # << >>
  <2>1. /\ <<"length", "allocate">> \in Seq(Piece) /\ <<"length", "allocate">> # << >>
        /\ <<"length", "allocate", "data">> \in Seq(Piece)
        /\ <<"length", "allocate", "data">> # << >>
    BY DEF Piece, Broadcasts, Collective
  <2> QED BY <2>1 DEF Broadcast
<1>2. /\ <<"apply">> \in Seq(Piece) /\ <<"validate", "potential">> \in Seq(Piece)
      /\ <<"arguments", "help">> \in Seq(Piece)
      /\ <<"probe", "construct", "positions", "force", "maximum">> \in Seq(Piece)
  BY DEF Piece, Broadcasts, Collective
<1>3. \A s, t \in Seq(Piece) : s \o t \in Seq(Piece) /\ (s # << >> => s \o t # << >>)
  BY ConcatProperties, EmptySeq
<1>4. ASSUME NEW q
      PROVE  Work(q) \in Seq(Piece) /\ Work(q) # << >>
  <2> DEFINE b == q.arg = "empty"
  <2>1. /\ Broadcast(FALSE) \in Seq(Piece) /\ Broadcast(FALSE) # << >>
        /\ Broadcast(b) \in Seq(Piece) /\ Broadcast(b) # << >>
    BY <1>1
  <2>2. CASE q.op = "configure"
    <3>1. Work(q) = Broadcast(FALSE) \o <<"apply">>
      BY <2>2 DEF Work
    <3> QED BY <1>2, <1>3, <2>1, <3>1
  <2>3. CASE q.op # "configure"
    <3>1. Work(q) = Broadcast(b) \o Broadcast(b) \o Broadcast(FALSE) \o <<"validate", "potential">>
      BY <2>3 DEF Work
    <3> HIDE DEF b
    <3>2. Broadcast(b) \o Broadcast(b) \in Seq(Piece) /\ Broadcast(b) \o Broadcast(b) # << >>
      BY <1>3, <2>1
    <3>3. /\ Broadcast(b) \o Broadcast(b) \o Broadcast(FALSE) \in Seq(Piece)
          /\ Broadcast(b) \o Broadcast(b) \o Broadcast(FALSE) # << >>
      BY <1>3, <2>1, <3>2
    <3> QED BY <1>2, <1>3, <3>1, <3>3
  <2> QED BY <2>2, <2>3
<1>5. ForceWork \in Seq(Piece) /\ ForceWork # << >>
  <2> DEFINE a == <<"arguments", "help">>
             z == <<"probe", "construct", "positions", "force", "maximum">>
             B == Broadcast(FALSE)
  <2>1. a \in Seq(Piece) /\ a # << >> /\ z \in Seq(Piece) /\ B \in Seq(Piece)
    BY <1>1, <1>2
  <2>2. ForceWork = a \o B \o B \o B \o z
    BY DEF ForceWork
  <2> HIDE DEF a, z, B
  <2>3. a \o B \in Seq(Piece) /\ a \o B # << >>
    BY <1>3, <2>1
  <2>4. a \o B \o B \in Seq(Piece) /\ a \o B \o B # << >>
    BY <1>3, <2>1, <2>3
  <2>5. a \o B \o B \o B \in Seq(Piece) /\ a \o B \o B \o B # << >>
    BY <1>3, <2>1, <2>4
  <2> QED BY <1>3, <2>1, <2>2, <2>5
<1> QED BY <1>4, <1>5

\* A request moves on to its next piece, or ends.
LEMMA TailPieces ==
  ASSUME NEW s \in Seq(Piece), s # << >>
  PROVE  /\ Head(s) \in Piece /\ Tail(s) \in Seq(Piece)
         /\ Len(s) = 1 => Tail(s) = << >>
         /\ Len(s) # 1 => Tail(s) # << >>
<1>1. /\ Head(s) \in Piece /\ Tail(s) \in Seq(Piece) /\ Len(Tail(s)) = Len(s) - 1
      /\ Len(s) \in Nat
  BY HeadTailProperties
<1>2. Tail(s) # << >> => Len(Tail(s)) # 0
  BY <1>1, EmptySeq
<1>3. Len(<< >>) = 0
  BY EmptySeq
<1>4. ASSUME Tail(s) = << >> PROVE Len(s) = 1
  <2>1. Len(Tail(s)) = 0
    BY <1>3, <1>4, Zenon
  <2> QED BY <1>1, <2>1
<1> QED BY <1>1, <1>2, <1>4

-----------------------------------------------------------------------------
(* One more collective.                                                    *)

\* What a log holds is not changed by what is entered later.
LEMMA Grown ==
  ASSUME Shape, NEW s \in Rank, NEW what, NEW value, Post(s, what, value)
  PROVE  /\ DOMAIN log' = Rank
         /\ \A r \in Rank : log'[r] \in Seq(Content(log'[r])) /\ Len(log[r]) \in Nat
         /\ \A r \in Rank \ {s} : log'[r] = log[r]
         /\ Len(log'[s]) = Len(log[s]) + 1
         /\ log'[s][Len(log[s]) + 1] = Entry(what, value, todo[s])
         /\ \A r \in Rank : \A n \in 1 .. Len(log[r]) : log'[r][n] = log[r][n]
<1> DEFINE e == [what |-> what, value |-> value, left |-> todo[s]]
<1>1. log' = [log EXCEPT ![s] = Append(@, e)]
  BY DEF Post
<1>2. e = Entry(what, value, todo[s])
  BY DEF Entry
<1> HIDE DEF e
<1>3. log'[s] = Append(log[s], e) /\ DOMAIN log' = Rank /\ \A r \in Rank \ {s} : log'[r] = log[r]
  BY <1>1 DEF Shape
<1>4. \A r \in Rank : log[r] \in Seq(Content(log[r])) /\ Len(log[r]) \in Nat
  BY OverContent DEF Shape
<1>5. /\ log'[s] \in Seq(Content(log'[s])) /\ Len(log'[s]) = Len(log[s]) + 1
      /\ \A n \in 1 .. Len(log[s]) : log'[s][n] = log[s][n]
      /\ log'[s][Len(log[s]) + 1] = e
  BY <1>3, <1>4, Appended
<1> QED BY <1>2, <1>3, <1>4, <1>5

\* What follows from a place in a log stays, once all ranks are there if it is an
\* agreement.
LEMMA Stable ==
  ASSUME Shape, NEW s \in Rank, NEW what, NEW value, Post(s, what, value), kind' = kind,
         NEW r \in Rank, NEW n \in 0 .. Len(log[r]),
         Agreement(r, n) => \A q \in Rank : Len(log[q]) >= n
  PROVE  /\ Agreement(r, n)' = Agreement(r, n)
         /\ Failed(r, n)' = Failed(r, n)
         /\ Left(r, n)' = Left(r, n)
         /\ Agreement(r, n) => FailedAt(n)' = FailedAt(n)
<1>1. \A q \in Rank : \A m \in 1 .. Len(log[q]) : log'[q][m] = log[q][m]
  BY Grown
<1>2. \A q \in Rank : Len(log[q]) \in Nat
  BY Grown
<1>3. n > 0 => log'[r][n] = log[r][n]
  BY <1>1, <1>2
<1>4. Agreement(r, n)' = Agreement(r, n)
  BY <1>3 DEF Agreement
<1>5. ASSUME Agreement(r, n) PROVE FailedAt(n)' = FailedAt(n)
  <2>1. \A q \in Rank : log'[q][n] = log[q][n]
    <3>1. n \in Nat /\ n > 0
      BY <1>2, <1>5 DEF Agreement
    <3>2. \A q \in Rank : n \in 1 .. Len(log[q])
      BY <1>2, <1>5, <3>1
    <3> QED BY <1>1, <3>2
  <2> DEFINE said == {log[q][n].value : q \in Rank}
  <2>2. said' = said
    BY <2>1
  <2>3. /\ FailedAt(n)  = CHOOSE m \in said : \A k \in said : m <= k
        /\ FailedAt(n)' = CHOOSE m \in said' : \A k \in said' : m <= k
    BY DEF FailedAt
  <2> HIDE DEF said
  <2> QED BY <2>2, <2>3, Zenon
<1>6. Failed(r, n)' = Failed(r, n)
  BY <1>4, <1>5 DEF Failed
<1>7. Left(r, n)' = Left(r, n)
  <2>1. n = 0 \/ n > 0
    BY <1>2
  <2>2. CASE n = 0
    BY <2>2 DEF Left, Serving
  <2>3. CASE n > 0
    <3>1. n # 0 /\ log'[r][n] = log[r][n]
      BY <1>3, <2>3
    <3> QED BY <1>6, <3>1 DEF Left
  <2> QED BY <2>1, <2>2, <2>3
<1> QED BY <1>4, <1>5, <1>6, <1>7

\* Two ranks that are as far go on in the same way.
LEMMA SameNext ==
  ASSUME Shape, LogsInv, NEW q \in Rank, NEW r \in Rank, NEW n \in Nat,
         n <= Len(log[q]), n <= Len(log[r])
  PROVE  /\ Agreement(q, n) = Agreement(r, n)
         /\ Failed(q, n) = Failed(r, n)
         /\ Left(q, n) = Left(r, n)
<1>1. CASE n = 0
  BY <1>1 DEF Agreement, Failed, Left
<1>2. CASE n # 0
  <2>1. n \in 1 .. Len(log[q]) /\ n \in 1 .. Len(log[r])
    BY <1>2, OverContent DEF Shape
  <2>2. /\ log[q][n].what = log[r][n].what /\ log[q][n].left = log[r][n].left
        /\ log[q][n].what # "agree" => log[q][n].value = log[r][n].value
    BY <2>1 DEF LogsInv, MatchInv, Same
  <2>3. Agreement(q, n) = Agreement(r, n)
    BY <2>2 DEF Agreement
  <2>4. Failed(q, n) = Failed(r, n)
    BY <2>3 DEF Failed
  <2>5. Left(q, n) = Left(r, n)
    BY <1>2, <2>2, <2>4 DEF Left, Agreement, Failed
  <2> QED BY <2>3, <2>4, <2>5
<1> QED BY <1>1, <1>2

\* A rank enters the collective that follows from its last one.
LEMMA Posted ==
  ASSUME Shape, LogsInv, NEW s \in Rank, NEW N, N = Len(log[s]),
         NEW what, NEW value, Post(s, what, value), kind' = kind,
         todo[s] = Left(s, N),
         what = (IF Failed(s, N) THEN "error" ELSE Named(Left(s, N))),
         Agreement(s, N) => \A q \in Rank : Len(log[q]) >= N,
         what = "error" => Failed(s, N) /\ value = FailedAt(N),
         what = "maximum" => value = 0,
         what \in Broadcasts \cup {"command"} =>
           \/ s = 0
           \/ Len(log[0]) > N /\ value = log[0][N + 1].value,
         what \in Broadcasts \cup {"command", "agree", "error", "maximum"},
         0 \in Rank,
         \A r \in Rank \ {s} : pc'[r] = pc[r] /\ todo'[r] = todo[r],
         PlaceInv(s)'
  PROVE  LogsInv'
<1>1. /\ \A r \in Rank : Len(log[r]) \in Nat
      /\ \A r \in Rank \ {s} : log'[r] = log[r]
      /\ Len(log'[s]) = N + 1 /\ log'[s][N + 1] = Entry(what, value, todo[s])
      /\ \A r \in Rank : \A n \in 1 .. Len(log[r]) : log'[r][n] = log[r][n]
  BY Grown
<1>2. N \in Nat /\ \A r \in Rank : Len(log'[r]) >= Len(log[r]) /\ Len(log'[r]) \in Nat
  BY <1>1
<1>3. ASSUME NEW r \in Rank, NEW n \in 1 .. Len(log[r])
      PROVE  /\ Agreement(r, n - 1)' = Agreement(r, n - 1) /\ Failed(r, n - 1)' = Failed(r, n - 1)
             /\ Left(r, n - 1)' = Left(r, n - 1)
             /\ Failed(r, n - 1) => FailedAt(n - 1)' = FailedAt(n - 1)
  <2>1. n - 1 \in 0 .. Len(log[r])
    BY <1>1, <1>3
  <2>2. Agreement(r, n - 1) => \A q \in Rank : Len(log[q]) >= n - 1
    BY <1>3 DEF LogsInv, ChainInv, Link
  <2>3. Failed(r, n - 1) => Agreement(r, n - 1)
    BY DEF Failed
  <2> QED BY <2>1, <2>2, <2>3, Stable
<1>4. /\ Agreement(s, N)' = Agreement(s, N) /\ Failed(s, N)' = Failed(s, N)
      /\ Left(s, N)' = Left(s, N)
      /\ Failed(s, N) => FailedAt(N)' = FailedAt(N)
  <2>1. N \in 0 .. Len(log[s])
    BY <1>1, <1>2
  <2>2. Failed(s, N) => Agreement(s, N)
    BY DEF Failed
  <2> QED BY <2>1, <2>2, Stable
<1>5. \A r \in Rank \ {s} : log'[r] = log[r]
  BY <1>1
<1>6. ASSUME NEW r \in Rank, NEW n \in 1 .. Len(log[r])
      PROVE  Link(r, n)'
  <2>1. Link(r, n)
    BY <1>6 DEF LogsInv, ChainInv
  <2>2. log'[r][n] = log[r][n]
    BY <1>1
  <2>3. Agreement(r, n - 1) => \A q \in Rank : Len(log'[q]) >= n - 1
    <3> SUFFICES ASSUME Agreement(r, n - 1), NEW q \in Rank
                 PROVE  Len(log'[q]) >= n - 1
      OBVIOUS
    <3>1. Len(log[q]) >= n - 1
      BY <2>1 DEF Link
    <3>2. Len(log'[q]) >= Len(log[q]) /\ Len(log'[q]) \in Nat /\ Len(log[q]) \in Nat /\ n \in Int
      BY <1>1, <1>2
    <3> QED BY <3>1, <3>2
  <2> QED BY <1>3, <2>1, <2>2, <2>3 DEF Link
<1>7. Link(s, N + 1)'
  <2>1. (N + 1) - 1 = N
    BY <1>2
  <2>2. Agreement(s, N) => \A q \in Rank : Len(log'[q]) >= N
    BY <1>1, <1>2
  <2>3. /\ Entry(what, value, todo[s]).what = what /\ Entry(what, value, todo[s]).value = value
    BY DEF Entry
  <2>4. /\ log'[s][N + 1] = Entry(what, value, Left(s, N)')
        /\ log'[s][N + 1].what = what /\ log'[s][N + 1].value = value
    BY <1>1, <1>4, <2>3
  <2> QED BY <1>4, <2>1, <2>2, <2>4 DEF Link
<1>8. \A r \in Rank : ChainInv(r)'
  <2>1. ASSUME NEW r \in Rank, NEW n \in 1 .. Len(log'[r]) PROVE Link(r, n)'
    <3>1. n \in 1 .. Len(log[r]) \/ (r = s /\ n = N + 1)
      BY <1>1, <1>2, <2>1
    <3> QED BY <1>6, <1>7, <3>1
  <2> QED BY <2>1 DEF ChainInv
<1>9. \A r \in Rank : PlaceInv(r)'
  <2>1. SUFFICES ASSUME NEW r \in Rank \ {s} PROVE PlaceInv(r)'
    OBVIOUS
  <2>2. PlaceInv(r) /\ log'[r] = log[r] /\ pc'[r] = pc[r] /\ todo'[r] = todo[r]
    BY <1>1 DEF LogsInv
  <2>3. PICK n \in Nat : n = Len(log[r])
    BY <1>1
  <2>4. ASSUME pc[r] \in {"run", "wait"}
        PROVE  /\ todo'[r] = Left(r, n)' /\ ~Failed(r, n)'
               /\ Agreement(r, n)' => \A q \in Rank : Len(log'[q]) >= n
    <3>1. n \in 0 .. Len(log[r])
      BY <2>3
    <3>2. /\ todo[r] = Left(r, n) /\ ~Failed(r, n)
          /\ Agreement(r, n) => \A q \in Rank : Len(log[q]) >= n
      BY <2>2, <2>3, <2>4 DEF PlaceInv
    <3>3. /\ Left(r, n)' = Left(r, n) /\ Failed(r, n)' = Failed(r, n)
          /\ Agreement(r, n)' = Agreement(r, n)
      BY <3>1, <3>2, Stable
    <3> QED BY <1>1, <1>2, <2>2, <3>2, <3>3
  <2>5. Len(log'[r]) = n
    BY <2>2, <2>3
  <2>6. pc[r] = "agree" => n > 0 /\ log[r][n].what = "agree" /\ log[r][n].left = todo[r]
    BY <2>2, <2>3 DEF PlaceInv
  <2>7. pc[r] = "maximum" => n > 0 /\ log[r][n].what = "maximum"
    BY <2>2, <2>3 DEF PlaceInv
  <2>8. /\ pc[r] \in {"run", "agree"} => todo[r] # << >>
        /\ pc[r] = "wait" => todo[r] = << >>
    BY <2>2 DEF PlaceInv
  <2> QED BY <2>2, <2>4, <2>5, <2>6, <2>7, <2>8 DEF PlaceInv
<1>10. \A r \in Rank : RootInv(r)'
  <2>1. ASSUME NEW r \in Rank, NEW n \in 1 .. Len(log'[r]),
               log'[r][n].what \in Broadcasts \cup {"command"}
        PROVE  n <= Len(log'[0]) /\ log'[r][n].value = log'[0][n].value
    <3>1. CASE r = 0
      BY <1>2, <2>1, <3>1
    <3>2. CASE n \in 1 .. Len(log[r])
      <4>1. log'[r][n] = log[r][n]
        BY <1>1, <3>2
      <4>2. n <= Len(log[0]) /\ log[r][n].value = log[0][n].value
        BY <2>1, <3>2, <4>1 DEF LogsInv, RootInv
      <4>3. n \in 1 .. Len(log[0])
        BY <1>1, <3>2, <4>2
      <4>4. log'[0][n] = log[0][n]
        BY <1>1, <4>3
      <4> QED BY <1>2, <1>1, <4>1, <4>2, <4>3, <4>4
    <3>3. CASE r # 0 /\ r = s /\ n = N + 1
      <4>1. log'[r][n].what = what /\ log'[r][n].value = value
        BY <1>1, <3>3 DEF Entry
      <4>2. Len(log[0]) > N /\ value = log[0][N + 1].value
        BY <2>1, <3>3, <4>1
      <4>3. log'[0] = log[0]
        BY <1>1, <3>3
      <4> QED BY <1>1, <1>2, <3>3, <4>1, <4>2, <4>3
    <3>4. n \in 1 .. Len(log[r]) \/ (r = s /\ n = N + 1)
      BY <1>1, <1>2, <2>1
    <3> QED BY <3>1, <3>2, <3>3, <3>4
  <2> QED BY <2>1 DEF RootInv, Broadcasts
<1>11. ASSUME NEW r \in Rank \ {s}, N + 1 \in 1 .. Len(log[r])
       PROVE  Same(s, r, N + 1)' /\ Same(r, s, N + 1)'
  <2>1. Link(r, N + 1) /\ (N + 1) - 1 = N
    BY <1>2, <1>11 DEF LogsInv, ChainInv
  <2>2. Failed(r, N) = Failed(s, N) /\ Left(r, N) = Left(s, N)
    BY <1>1, <1>2, <1>11, SameNext
  <2>3. log'[r][N + 1] = log[r][N + 1] /\ log'[s][N + 1] = Entry(what, value, todo[s])
    BY <1>1, <1>11
  <2>4. /\ log[r][N + 1] = Entry(log[r][N + 1].what, log[r][N + 1].value, Left(s, N))
        /\ log[r][N + 1].what = what
        /\ log[r][N + 1].what = "error" => log[r][N + 1].value = FailedAt(N)
        /\ log[r][N + 1].what = "maximum" => log[r][N + 1].value = 0
    BY <2>1, <2>2 DEF Link
  <2>5. log[r][N + 1].left = todo[s]
    <3> DEFINE e == log[r][N + 1]
               l == Left(s, N)
    <3>1. e = Entry(e.what, e.value, l) /\ todo[s] = l
      BY <2>4
    <3> HIDE DEF e, l
    <3>2. e.left = l
      BY <3>1 DEF Entry
    <3> QED BY <3>1, <3>2 DEF e
  <2>6. ASSUME what # "agree" PROVE log[r][N + 1].value = value
    <3>1. CASE what = "error" \/ what = "maximum"
      BY <2>4, <3>1
    <3>2. CASE what \in Broadcasts \cup {"command"}
      <4>1. N + 1 <= Len(log[0]) /\ log[r][N + 1].value = log[0][N + 1].value
        BY <1>11, <2>4, <3>2 DEF LogsInv, RootInv
      <4>2. s # 0
        BY <1>2, <4>1
      <4> QED BY <3>2, <4>1, <4>2
    <3> QED BY <2>6, <3>1, <3>2
  <2>7. /\ log'[s][N + 1].what = what /\ log'[s][N + 1].value = value
        /\ log'[s][N + 1].left = todo[s]
    BY <2>3 DEF Entry
  <2> QED BY <2>3, <2>4, <2>5, <2>6, <2>7 DEF Same
<1>12. MatchInv'
  <2>1. ASSUME NEW q \in Rank, NEW r \in Rank, NEW n \in 1 .. Len(log'[q]),
               n \in 1 .. Len(log'[r])
        PROVE  Same(q, r, n)'
    <3>1. CASE n \in 1 .. Len(log[q]) /\ n \in 1 .. Len(log[r])
      <4>1. log'[q][n] = log[q][n] /\ log'[r][n] = log[r][n]
        BY <1>1, <3>1
      <4>2. Same(q, r, n)
        BY <3>1 DEF LogsInv, MatchInv
      <4> QED BY <4>1, <4>2 DEF Same
    <3>2. CASE q = r
      BY <3>2 DEF Same
    <3>3. CASE q = s /\ r # s /\ n = N + 1
      <4>1. N + 1 \in 1 .. Len(log[r])
        BY <1>1, <2>1, <3>3
      <4> QED BY <1>11, <3>3, <4>1
    <3>4. CASE r = s /\ q # s /\ n = N + 1
      <4>1. N + 1 \in 1 .. Len(log[q])
        BY <1>1, <2>1, <3>4
      <4> QED BY <1>11, <3>4, <4>1
    <3>5. /\ n \in 1 .. Len(log[q]) \/ (q = s /\ n = N + 1)
          /\ n \in 1 .. Len(log[r]) \/ (r = s /\ n = N + 1)
      BY <1>1, <1>2, <2>1
    <3> QED BY <3>1, <3>2, <3>3, <3>4, <3>5
  <2> QED BY <2>1 DEF MatchInv
<1> QED BY <1>8, <1>9, <1>10, <1>12 DEF LogsInv

\* Where a rank is after a collective that is not an agreement.
LEMMA AfterPost ==
  ASSUME Shape, NEW s \in Rank, NEW N, N = Len(log[s]),
         NEW what, NEW value, Post(s, what, value), what # "agree"
  PROVE  /\ Len(log'[s]) = N + 1 /\ log'[s][N + 1].what = what /\ N \in Nat
         /\ ~Agreement(s, N + 1)' /\ ~Failed(s, N + 1)'
         /\ what = "command" => Left(s, N + 1)' = IF value.op = "stop" THEN << >> ELSE Work(value)
         /\ (what = "help" /\ value = "help") \/ what \in {"error", "maximum"}
              => Left(s, N + 1)' = << >>
         /\ what \in Broadcasts /\ ~(what = "help" /\ value = "help")
              => Left(s, N + 1)' = Tail(todo[s])
<1>1. Len(log'[s]) = N + 1 /\ log'[s][N + 1] = Entry(what, value, todo[s]) /\ N \in Nat
  BY Grown
<1>2. /\ log'[s][N + 1].what = what /\ log'[s][N + 1].value = value
      /\ log'[s][N + 1].left = todo[s]
  BY <1>1 DEF Entry
<1>3. ~Agreement(s, N + 1)' /\ ~Failed(s, N + 1)'
  BY <1>2 DEF Agreement, Failed
<1>4. N + 1 # 0
  BY <1>1
<1>5. what \in Broadcasts => what \notin {"command", "error", "maximum"}
  BY DEF Broadcasts
<1>6. Left(s, N + 1)' =
        IF what = "command" THEN IF value.op = "stop" THEN << >> ELSE Work(value)
        ELSE IF what \in {"error", "maximum"} \/ (what = "help" /\ value = "help") THEN << >>
        ELSE Tail(todo[s])
  BY <1>2, <1>3, <1>4 DEF Left, Work, Broadcast
<1> QED BY <1>1, <1>2, <1>3, <1>5, <1>6

\* Where a rank is before a collective.
LEMMA BeforePost ==
  ASSUME Shape, LogsInv, NEW s \in Rank, NEW N, N = Len(log[s])
  PROVE  /\ pc[s] = "wait" =>
              /\ todo[s] = << >> /\ todo[s] = Left(s, N) /\ ~Failed(s, N)
              /\ Agreement(s, N) => \A q \in Rank : Len(log[q]) >= N
              /\ Named(Left(s, N)) = "command"
         /\ pc[s] = "run" =>
              /\ todo[s] # << >> /\ todo[s] = Left(s, N) /\ ~Failed(s, N)
              /\ Agreement(s, N) => \A q \in Rank : Len(log[q]) >= N
              /\ Head(todo[s]) \in Collective => Named(Left(s, N)) = "agree"
              /\ Head(todo[s]) \in Broadcasts \cup {"maximum"} =>
                   Named(Left(s, N)) = Head(todo[s])
<1>1. PlaceInv(s)
  BY DEF LogsInv
<1>2. \A x \in Broadcasts \cup {"maximum"} : x \notin Collective
  BY DEF Broadcasts, Collective
<1> QED BY <1>1, <1>2 DEF PlaceInv, Named

\* The step onward from a broadcast, to the next piece or to the end.
LEMMA OnwardPlace ==
  ASSUME Shape, NEW s \in Rank, NEW N, N = Len(log[s]), NEW word,
         Post(s, word.what, word.value), word.what \in Broadcasts, Onward(s, word),
         todo[s] # << >>
  PROVE  PlaceInv(s)' /\ Shape' /\ \A r \in Rank \ {s} : pc'[r] = pc[r] /\ todo'[r] = todo[r]
<1>1. word.what # "agree"
  BY DEF Broadcasts
<1>2. /\ Len(log'[s]) = N + 1 /\ ~Agreement(s, N + 1)' /\ ~Failed(s, N + 1)'
      /\ word.what = "help" /\ word.value = "help" => Left(s, N + 1)' = << >>
      /\ ~(word.what = "help" /\ word.value = "help") => Left(s, N + 1)' = Tail(todo[s])
  BY <1>1, AfterPost
<1>3. /\ DOMAIN log' = Rank
      /\ \A r \in Rank : log'[r] \in Seq(Content(log'[r]))
  BY Grown
<1>4. todo[s] \in Seq(Piece) /\ << >> \in Seq(Piece)
  BY EmptySeq DEF Shape
<1>5. Tail(todo[s]) \in Seq(Piece)
  BY <1>4, TailPieces
<1>6. /\ Len(todo[s]) = 1 => Tail(todo[s]) = << >>
      /\ Len(todo[s]) # 1 => Tail(todo[s]) # << >>
  BY <1>4, TailPieces
<1>7. \/ /\ pc' = [pc EXCEPT ![s] = "wait"] /\ todo' = [todo EXCEPT ![s] = << >>]
         /\ Left(s, N + 1)' = << >>
      \/ /\ pc' = [pc EXCEPT ![s] = "run"] /\ todo' = [todo EXCEPT ![s] = Tail(todo[s])]
         /\ Left(s, N + 1)' = Tail(todo[s]) /\ Tail(todo[s]) # << >>
  BY <1>2, <1>6 DEF Onward, End, Advance, Go
<1>8. Shape'
  BY <1>3, <1>4, <1>5, <1>7, ZenonT(60) DEF Shape
<1>9. \/ pc'[s] = "wait" /\ todo'[s] = << >> /\ todo'[s] = Left(s, N + 1)'
      \/ pc'[s] = "run" /\ todo'[s] # << >> /\ todo'[s] = Left(s, N + 1)'
  BY <1>7 DEF Shape
<1>10. PlaceInv(s)'
  BY <1>2, <1>9 DEF PlaceInv
<1> QED BY <1>7, <1>8, <1>10 DEF Shape

-----------------------------------------------------------------------------
(* Every step.                                                             *)

LEMMA RootSends ==
  ASSUME Shape, LogsInv, 0 \in Rank, SendCommand \/ SendStop \/ Send(0)
  PROVE  Shape' /\ LogsInv'
<1>1. PICK N : N = Len(log[0])
  OBVIOUS
<1>2. ASSUME SendCommand PROVE Shape' /\ LogsInv'
  <2>1. PICK q \in Request :
          /\ pc[0] = "wait" /\ q.op # "stop" /\ Post(0, "command", q) /\ kind' = kind
          /\ todo' = [todo EXCEPT ![0] = Work(q)] /\ pc' = [pc EXCEPT ![0] = "run"]
    BY <1>2 DEF SendCommand, AtWait, Go, Request
  <2>2. /\ todo[0] = Left(0, N) /\ ~Failed(0, N) /\ Named(Left(0, N)) = "command"
        /\ Agreement(0, N) => \A p \in Rank : Len(log[p]) >= N
    BY <1>1, <2>1, BeforePost
  <2>3. /\ Len(log'[0]) = N + 1 /\ ~Agreement(0, N + 1)' /\ ~Failed(0, N + 1)'
        /\ Left(0, N + 1)' = Work(q)
    BY <1>1, <2>1, AfterPost
  <2>4. Work(q) \in Seq(Piece) /\ Work(q) # << >>
    BY WorkPieces
  <2>5. /\ pc'[0] = "run" /\ todo'[0] = Work(q)
        /\ \A r \in Rank \ {0} : pc'[r] = pc[r] /\ todo'[r] = todo[r]
    BY <2>1 DEF Shape
  <2>6. PlaceInv(0)'
    BY <2>3, <2>4, <2>5 DEF PlaceInv
  <2>7. DOMAIN log' = Rank /\ \A r \in Rank : log'[r] \in Seq(Content(log'[r]))
    BY <2>1, Grown
  <2>8. Shape'
    BY <2>1, <2>4, <2>7 DEF Shape
  <2>9. LogsInv'
    BY <1>1, <2>1, <2>2, <2>5, <2>6, Posted
  <2> QED BY <2>8, <2>9
<1>3. ASSUME SendStop PROVE Shape' /\ LogsInv'
  <2>1. /\ pc[0] = "wait" /\ Post(0, "command", [op |-> "stop"]) /\ kind' = kind
        /\ todo' = todo /\ pc' = [pc EXCEPT ![0] = "stopped"]
    BY <1>3 DEF SendStop, AtWait, Go
  <2>2. /\ todo[0] = Left(0, N) /\ ~Failed(0, N) /\ Named(Left(0, N)) = "command"
        /\ Agreement(0, N) => \A p \in Rank : Len(log[p]) >= N
    BY <1>1, <2>1, BeforePost
  <2>3. pc'[0] = "stopped" /\ \A r \in Rank \ {0} : pc'[r] = pc[r] /\ todo'[r] = todo[r]
    BY <2>1 DEF Shape
  <2>4. PlaceInv(0)'
    BY <2>3 DEF PlaceInv
  <2>5. DOMAIN log' = Rank /\ \A r \in Rank : log'[r] \in Seq(Content(log'[r]))
    BY <2>1, Grown
  <2>6. Shape'
    BY <2>1, <2>5 DEF Shape
  <2>7. LogsInv'
    BY <1>1, <2>1, <2>2, <2>3, <2>4, Posted
  <2> QED BY <2>6, <2>7
<1>4. ASSUME Send(0) PROVE Shape' /\ LogsInv'
  <2>1. PICK word : word = [what |-> Head(todo[0]), value |-> arg[0]]
    OBVIOUS
  <2>2. /\ pc[0] = "run" /\ word.what = Head(todo[0]) /\ word.what \in Broadcasts
        /\ Post(0, word.what, word.value) /\ Onward(0, word) /\ kind' = kind
    BY <1>4, <2>1 DEF Send
  <2>3. /\ todo[0] = Left(0, N) /\ todo[0] # << >> /\ ~Failed(0, N)
        /\ Agreement(0, N) => \A p \in Rank : Len(log[p]) >= N
        /\ Named(Left(0, N)) = word.what
    BY <1>1, <2>2, BeforePost
  <2>4. PlaceInv(0)' /\ Shape' /\ \A r \in Rank \ {0} : pc'[r] = pc[r] /\ todo'[r] = todo[r]
    BY <1>1, <2>2, <2>3, OnwardPlace
  <2>5. word.what \notin {"error", "maximum"}
    BY <2>2 DEF Broadcasts
  <2>6. LogsInv'
    BY <1>1, <2>2, <2>3, <2>4, <2>5, Posted
  <2> QED BY <2>4, <2>6
<1> QED BY <1>2, <1>3, <1>4

LEMMA WorkerReceives ==
  ASSUME Shape, LogsInv, 0 \in Rank, NEW s \in Rank, ReceiveCommand(s) \/ Receive(s)
  PROVE  Shape' /\ LogsInv'
<1>1. PICK N : N = Len(log[s])
  OBVIOUS
<1>2. Word(s, 0) = log[0][N + 1] /\ Len(log[0]) > N
  BY <1>1 DEF ReceiveCommand, Receive, Heard, Word
<1>3. ASSUME ReceiveCommand(s) PROVE Shape' /\ LogsInv'
  <2>1. PICK q : q = log[0][N + 1].value
    OBVIOUS
  <2>2. /\ pc[s] = "wait" /\ Post(s, "command", q) /\ kind' = kind
        /\ \/ /\ q.op = "stop" /\ todo' = todo /\ pc' = [pc EXCEPT ![s] = "stopped"]
           \/ /\ q.op # "stop" /\ todo' = [todo EXCEPT ![s] = Work(q)]
              /\ pc' = [pc EXCEPT ![s] = "run"]
    BY <1>2, <1>3, <2>1 DEF ReceiveCommand, AtWait, Go
  <2>3. /\ todo[s] = Left(s, N) /\ ~Failed(s, N) /\ Named(Left(s, N)) = "command"
        /\ Agreement(s, N) => \A p \in Rank : Len(log[p]) >= N
    BY <1>1, <2>2, BeforePost
  <2>4. /\ Len(log'[s]) = N + 1 /\ ~Agreement(s, N + 1)' /\ ~Failed(s, N + 1)'
        /\ Left(s, N + 1)' = IF q.op = "stop" THEN << >> ELSE Work(q)
    BY <1>1, <2>2, AfterPost
  <2>5. Work(q) \in Seq(Piece) /\ Work(q) # << >>
    BY WorkPieces
  <2>6. \A r \in Rank \ {s} : pc'[r] = pc[r] /\ todo'[r] = todo[r]
    BY <2>2 DEF Shape
  <2>7. pc'[s] = "stopped" \/ (pc'[s] = "run" /\ todo'[s] = Work(q) /\ q.op # "stop")
    BY <2>2 DEF Shape
  <2>8. PlaceInv(s)'
    BY <2>4, <2>5, <2>7 DEF PlaceInv
  <2>9. DOMAIN log' = Rank /\ \A r \in Rank : log'[r] \in Seq(Content(log'[r]))
    BY <2>2, Grown
  <2>10. Shape'
    BY <2>2, <2>5, <2>9, ZenonT(60) DEF Shape
  <2>11. LogsInv'
    BY <1>1, <1>2, <2>1, <2>2, <2>3, <2>6, <2>8, Posted
  <2> QED BY <2>10, <2>11
<1>4. ASSUME Receive(s) PROVE Shape' /\ LogsInv'
  <2>1. PICK word : word = [what |-> Head(todo[s]), value |-> log[0][N + 1].value]
    OBVIOUS
  <2>2. /\ pc[s] = "run" /\ word.what = Head(todo[s]) /\ word.what \in Broadcasts
        /\ word.value = log[0][N + 1].value
        /\ Post(s, word.what, word.value) /\ kind' = kind
        /\ Onward(s, log[0][N + 1])
    BY <1>2, <1>4, <2>1 DEF Receive
  <2>3. /\ todo[s] = Left(s, N) /\ todo[s] # << >> /\ ~Failed(s, N)
        /\ Agreement(s, N) => \A p \in Rank : Len(log[p]) >= N
        /\ Named(Left(s, N)) = word.what
    BY <1>1, <2>2, BeforePost
  <2>4. log[0][N + 1].what = word.what
    <3>1. N \in Nat /\ Len(log[0]) \in Nat
      BY <1>1, OverContent DEF Shape
    <3>2. N + 1 \in 1 .. Len(log[0]) /\ (N + 1) - 1 = N
      BY <1>2, <3>1
    <3>3. log[0][N + 1].what = IF Failed(0, N) THEN "error" ELSE Named(Left(0, N))
      BY <3>2 DEF LogsInv, ChainInv, Link
    <3>4. Failed(0, N) = Failed(s, N) /\ Left(0, N) = Left(s, N)
      <4>1. N <= Len(log[0]) /\ N <= Len(log[s])
        BY <1>1, <1>2, <3>1
      <4> QED BY <3>1, <4>1, SameNext
    <3> QED BY <2>3, <3>3, <3>4
  <2>5. Onward(s, word)
    BY <2>2, <2>4 DEF Onward
  <2>6. PlaceInv(s)' /\ Shape' /\ \A r \in Rank \ {s} : pc'[r] = pc[r] /\ todo'[r] = todo[r]
    BY <1>1, <2>2, <2>3, <2>5, OnwardPlace
  <2>7. word.what \notin {"error", "maximum"}
    BY <2>2 DEF Broadcasts
  <2>8. LogsInv'
    BY <1>1, <1>2, <2>2, <2>3, <2>6, <2>7, Posted
  <2> QED BY <2>6, <2>8
<1> QED BY <1>3, <1>4

LEMMA Agrees ==
  ASSUME Shape, LogsInv, 0 \in Rank, NEW s \in Rank, Agree(s) \/ Maximum(s)
  PROVE  Shape' /\ LogsInv'
<1>1. PICK N : N = Len(log[s])
  OBVIOUS
<1>2. PICK what, value :
        /\ pc[s] = "run" /\ Post(s, what, value) /\ kind' = kind /\ todo' = todo
        /\ pc' = [pc EXCEPT ![s] = IF what = "agree" THEN "agree" ELSE "maximum"]
        /\ \/ what = "agree" /\ Head(todo[s]) \in Collective
           \/ what = "maximum" /\ value = 0 /\ Head(todo[s]) = "maximum"
  <2>1. CASE Agree(s)
    <3>1. PICK o \in Outcomes(s) : Post(s, "agree", IF o.ok THEN Size ELSE s)
      BY <2>1 DEF Agree
    <3>2. /\ pc[s] = "run" /\ kind' = kind /\ todo' = todo /\ Head(todo[s]) \in Collective
          /\ pc' = [pc EXCEPT ![s] = "agree"]
      BY <2>1 DEF Agree, Go
    <3> QED BY <3>1, <3>2
  <2>2. CASE Maximum(s)
    BY <2>2 DEF Maximum, Go
  <2> QED BY <2>1, <2>2
<1>3. /\ todo[s] = Left(s, N) /\ todo[s] # << >> /\ ~Failed(s, N)
      /\ Agreement(s, N) => \A p \in Rank : Len(log[p]) >= N
      /\ Named(Left(s, N)) = what
  BY <1>1, <1>2, BeforePost
<1>4. /\ DOMAIN log' = Rank /\ \A r \in Rank : log'[r] \in Seq(Content(log'[r]))
      /\ Len(log'[s]) = N + 1 /\ log'[s][N + 1] = Entry(what, value, todo[s]) /\ N \in Nat
  BY <1>1, <1>2, Grown
<1>5. /\ pc'[s] = (IF what = "agree" THEN "agree" ELSE "maximum") /\ todo'[s] = todo[s]
      /\ \A r \in Rank \ {s} : pc'[r] = pc[r] /\ todo'[r] = todo[r]
  BY <1>2 DEF Shape
<1>6. Shape'
  BY <1>2, <1>4 DEF Shape
<1>7. PlaceInv(s)'
  <2>1. log'[s][N + 1].what = what /\ log'[s][N + 1].left = todo[s]
    BY <1>4 DEF Entry
  <2>2. Len(log'[s]) > 0
    BY <1>4
  <2> QED BY <1>2, <1>3, <1>4, <1>5, <2>1, <2>2 DEF PlaceInv
<1>8. LogsInv'
  <2>1. what \in {"agree", "maximum"} /\ what \notin Broadcasts
    BY <1>2 DEF Broadcasts
  <2> QED BY <1>1, <1>2, <1>3, <1>5, <1>7, <2>1, Posted
<1> QED BY <1>6, <1>8

\* What a rank waits for in an agreement.
LEMMA AtAgreement ==
  ASSUME Shape, LogsInv, NEW s \in Rank, NEW N, N = Len(log[s]), pc[s] = "agree", Met(s)
  PROVE  /\ N \in Nat \ {0} /\ Agreement(s, N) /\ FirstFailed(s) = FailedAt(N)
         /\ \A q \in Rank : Len(log[q]) >= N
         /\ todo[s] # << >>
         /\ Left(s, N) = IF Failed(s, N) THEN todo[s] ELSE Tail(todo[s])
<1>1. N > 0 /\ log[s][N].what = "agree" /\ log[s][N].left = todo[s] /\ todo[s] # << >>
  BY DEF LogsInv, PlaceInv
<1>2. N \in Nat
  BY OverContent DEF Shape
<1>3. FirstFailed(s) = FailedAt(N)
  BY DEF FirstFailed, FailedAt
<1>4. Left(s, N) = IF Failed(s, N) THEN todo[s] ELSE Tail(todo[s])
  BY <1>1, <1>2 DEF Left
<1> QED BY <1>1, <1>2, <1>3, <1>4 DEF Agreement, Met

LEMMA ErrorsThrown ==
  ASSUME Shape, LogsInv, Size \in Nat, 0 \in Rank, NEW s \in Rank,
         TellError(s) \/ HearError(s)
  PROVE  Shape' /\ LogsInv'
<1>1. PICK N : N = Len(log[s])
  OBVIOUS
<1>2. PICK value : value = FirstFailed(s)
  OBVIOUS
<1>3. /\ pc[s] = "agree" /\ Met(s) /\ Post(s, "error", value) /\ kind' = kind
      /\ todo' = [todo EXCEPT ![s] = << >>] /\ pc' = [pc EXCEPT ![s] = "wait"]
      /\ value \in Rank
  BY <1>2 DEF TellError, HearError, End, Go
<1>4. value # Size
  BY <1>3 DEF Rank
<1>5. /\ Agreement(s, N) /\ value = FailedAt(N) /\ Failed(s, N) /\ todo[s] = Left(s, N)
      /\ \A q \in Rank : Len(log[q]) >= N
  BY <1>1, <1>2, <1>3, <1>4, AtAgreement DEF Failed
<1>6. /\ Len(log'[s]) = N + 1 /\ ~Agreement(s, N + 1)' /\ ~Failed(s, N + 1)'
      /\ Left(s, N + 1)' = << >>
  BY <1>1, <1>3, AfterPost
<1>7. /\ pc'[s] = "wait" /\ todo'[s] = << >>
      /\ \A r \in Rank \ {s} : pc'[r] = pc[r] /\ todo'[r] = todo[r]
  BY <1>3 DEF Shape
<1>8. PlaceInv(s)'
  BY <1>6, <1>7 DEF PlaceInv
<1>9. DOMAIN log' = Rank /\ \A r \in Rank : log'[r] \in Seq(Content(log'[r]))
  BY <1>3, Grown
<1>10. Shape'
  <2>1. << >> \in Seq(Piece)
    BY EmptySeq
  <2> QED BY <1>3, <1>9, <2>1 DEF Shape
<1>11. LogsInv'
  <2>1. "error" = (IF Failed(s, N) THEN "error" ELSE Named(Left(s, N)))
    BY <1>5
  <2>2. "error" \notin Broadcasts \cup {"command"}
    BY DEF Broadcasts
  <2> QED BY <1>1, <1>3, <1>5, <1>7, <1>8, <2>1, <2>2, Posted
<1> QED BY <1>10, <1>11

\* A rank moves on and the logs stay.
LEMMA Kept ==
  ASSUME Shape, LogsInv, NEW s \in Rank, log' = log, kind' = kind,
         \A r \in Rank \ {s} : pc'[r] = pc[r] /\ todo'[r] = todo[r],
         PlaceInv(s)'
  PROVE  LogsInv'
<1>1. \A r \in Rank : \A n :
        /\ Agreement(r, n)' = Agreement(r, n) /\ Failed(r, n)' = Failed(r, n)
        /\ Left(r, n)' = Left(r, n) /\ FailedAt(n)' = FailedAt(n)
  BY DEF Agreement, Failed, FailedAt, Left, Serving
<1>2. ASSUME NEW r \in Rank, NEW n, Link(r, n) PROVE Link(r, n)'
  BY <1>1, <1>2 DEF Link
<1>3. \A r \in Rank : ChainInv(r)'
  BY <1>2 DEF LogsInv, ChainInv
<1>4. ASSUME NEW r \in Rank \ {s} PROVE PlaceInv(r)'
  <2>1. PlaceInv(r) /\ pc'[r] = pc[r] /\ todo'[r] = todo[r]
    BY DEF LogsInv
  <2>2. PICK n : n = Len(log[r]) /\ n = Len(log'[r])
    OBVIOUS
  <2> QED BY <1>1, <2>1, <2>2 DEF PlaceInv
<1>5. MatchInv' /\ \A r \in Rank : RootInv(r)'
  BY DEF LogsInv, MatchInv, Same, RootInv
<1> QED BY <1>3, <1>4, <1>5 DEF LogsInv

LEMMA Leaves ==
  ASSUME Shape, LogsInv, NEW s \in Rank, AgreeClean(s) \/ Exit(s)
  PROVE  Shape' /\ LogsInv'
<1>1. PICK N : N = Len(log[s])
  OBVIOUS
<1>2. log' = log /\ kind' = kind
  BY DEF AgreeClean, Exit
<1>3. \A n : /\ Agreement(s, n)' = Agreement(s, n) /\ Failed(s, n)' = Failed(s, n)
             /\ Left(s, n)' = Left(s, n)
  BY <1>2 DEF Agreement, Failed, FailedAt, Left, Serving
<1>4. << >> \in Seq(Piece)
  BY EmptySeq
<1>5. ASSUME AgreeClean(s) PROVE Shape' /\ LogsInv'
  <2>1. pc[s] = "agree" /\ Met(s) /\ FirstFailed(s) = Size /\ Advance(s)
    BY <1>5 DEF AgreeClean
  <2>2. /\ ~Failed(s, N) /\ Left(s, N) = Tail(todo[s]) /\ todo[s] # << >>
        /\ \A q \in Rank : Len(log[q]) >= N
    BY <1>1, <2>1, AtAgreement DEF Failed
  <2>3. todo[s] \in Seq(Piece)
    BY DEF Shape
  <2>4. /\ Tail(todo[s]) \in Seq(Piece)
        /\ Len(todo[s]) = 1 => Tail(todo[s]) = << >>
        /\ Len(todo[s]) # 1 => Tail(todo[s]) # << >>
    BY <2>2, <2>3, TailPieces
  <2>5. \/ /\ pc' = [pc EXCEPT ![s] = "wait"] /\ todo' = [todo EXCEPT ![s] = << >>]
           /\ Tail(todo[s]) = << >>
        \/ /\ pc' = [pc EXCEPT ![s] = "run"] /\ todo' = [todo EXCEPT ![s] = Tail(todo[s])]
           /\ Tail(todo[s]) # << >>
    BY <2>1, <2>4 DEF Advance, End, Go
  <2>6. Shape'
    BY <1>2, <1>4, <2>4, <2>5 DEF Shape
  <2>7. /\ \A r \in Rank \ {s} : pc'[r] = pc[r] /\ todo'[r] = todo[r]
        /\ todo'[s] = Tail(todo[s])
        /\ \/ pc'[s] = "wait" /\ todo'[s] = << >>
           \/ pc'[s] = "run" /\ todo'[s] # << >>
    BY <2>5 DEF Shape
  <2>8. PlaceInv(s)'
    <3>1. Len(log'[s]) = N /\ todo'[s] = Left(s, N)' /\ ~Failed(s, N)'
      BY <1>1, <1>2, <1>3, <2>2, <2>7
    <3>2. \A q \in Rank : Len(log'[q]) >= N
      BY <1>2, <2>2
    <3> QED BY <2>7, <3>1, <3>2 DEF PlaceInv
  <2>9. LogsInv'
    BY <1>2, <2>7, <2>8, Kept
  <2> QED BY <2>6, <2>9
<1>6. ASSUME Exit(s) PROVE Shape' /\ LogsInv'
  <2>1. /\ pc[s] = "maximum" /\ pc' = [pc EXCEPT ![s] = "wait"]
        /\ todo' = [todo EXCEPT ![s] = << >>]
    BY <1>6 DEF Exit, End, Go
  <2>2. N > 0 /\ log[s][N].what = "maximum"
    BY <1>1, <2>1 DEF LogsInv, PlaceInv
  <2>3. ~Agreement(s, N) /\ ~Failed(s, N) /\ Left(s, N) = << >>
    BY <2>2 DEF Agreement, Failed, Left
  <2>4. Shape'
    BY <1>2, <1>4, <2>1 DEF Shape
  <2>5. /\ \A r \in Rank \ {s} : pc'[r] = pc[r] /\ todo'[r] = todo[r]
        /\ pc'[s] = "wait" /\ todo'[s] = << >>
    BY <2>1 DEF Shape
  <2>6. PlaceInv(s)'
    <3>1. Len(log'[s]) = N
      BY <1>1, <1>2
    <3>2. ~Agreement(s, N)' /\ ~Failed(s, N)' /\ Left(s, N)' = << >>
      BY <1>3, <2>3
    <3> QED BY <2>5, <3>1, <3>2 DEF PlaceInv
  <2>7. LogsInv'
    BY <1>2, <2>5, <2>6, Kept
  <2> QED BY <2>4, <2>7
<1> QED BY <1>5, <1>6

LEMMA LogsInvariance == Spec => []IInv
<1>1. Size \in Nat /\ 0 \in Rank
  <2>1. Size \in Nat \ {0}
    BY SessionAssumption, Zenon DEF SessionAssumption
  <2> QED BY <2>1 DEF Rank
<1>2. ASSUME Init PROVE IInv
  <2>1. /\ log = [r \in Rank |-> << >>] /\ << >> \in Seq({}) /\ Len(<< >>) = 0
        /\ DOMAIN << >> = 1 .. 0
    BY <1>2, EmptySeq DEF Init
  <2>2. \A r \in Rank : log[r] \in Seq(Content(log[r]))
    BY <2>1, OverContent
  <2>3. << >> \in Seq(Piece) /\ ForceWork \in Seq(Piece) /\ ForceWork # << >>
    BY EmptySeq, WorkPieces
  <2>4. \/ /\ Serving /\ pc = [r \in Rank |-> "wait"] /\ todo = [r \in Rank |-> << >>]
        \/ /\ ~Serving /\ pc = [r \in Rank |-> "run"] /\ todo = [r \in Rank |-> ForceWork]
    BY <1>2 DEF Init, ServerInit, HostInit
  <2>5. Shape
    BY <2>1, <2>2, <2>3, <2>4 DEF Shape
  <2>6. \A r \in Rank : Len(log[r]) = 0
    BY <2>1
  <2>7. MatchInv /\ \A r \in Rank : ChainInv(r) /\ RootInv(r)
    BY <2>6 DEF MatchInv, ChainInv, RootInv
  <2>8. ASSUME NEW r \in Rank PROVE PlaceInv(r)
    <3>1. Left(r, 0) = IF Serving THEN << >> ELSE ForceWork
      BY DEF Left
    <3>2. ~Agreement(r, 0) /\ ~Failed(r, 0)
      BY DEF Agreement, Failed
    <3> QED BY <2>3, <2>4, <2>6, <3>1, <3>2 DEF PlaceInv
  <2> QED BY <2>5, <2>7, <2>8 DEF IInv, LogsInv
<1>3. ASSUME IInv, [Next]_vars PROVE IInv'
  <2>1. Shape /\ LogsInv
    BY <1>3 DEF IInv
  <2>2. CASE RefuseRequest \/ UNCHANGED vars
    <3>1. log' = log /\ kind' = kind /\ pc' = pc /\ todo' = todo
      BY <2>2 DEF RefuseRequest, vars
    <3>2. Shape'
      BY <2>1, <3>1 DEF Shape
    <3>3. PlaceInv(0)'
      <4>1. PICK n : n = Len(log[0]) /\ n = Len(log'[0])
        BY <3>1
      <4>2. PlaceInv(0)
        BY <1>1, <2>1 DEF LogsInv
      <4>3. /\ Agreement(0, n)' = Agreement(0, n) /\ Failed(0, n)' = Failed(0, n)
            /\ Left(0, n)' = Left(0, n)
        BY <3>1 DEF Agreement, Failed, FailedAt, Left, Serving
      <4> QED BY <3>1, <4>1, <4>2, <4>3 DEF PlaceInv
    <3>4. LogsInv'
      BY <1>1, <2>1, <3>1, <3>3, Kept
    <3> QED BY <3>2, <3>4 DEF IInv
  <2>3. CASE SendCommand \/ SendStop
    BY <1>1, <2>1, <2>3, RootSends DEF IInv
  <2>4. ASSUME NEW r \in Rank, Step(r) PROVE IInv'
    <3>1. CASE Send(r)
      <4>1. Send(0)
        BY <3>1 DEF Send
      <4> QED BY <1>1, <2>1, <4>1, RootSends DEF IInv
    <3>2. CASE ReceiveCommand(r) \/ Receive(r)
      BY <1>1, <2>1, <3>2, WorkerReceives DEF IInv
    <3>3. CASE Agree(r) \/ Maximum(r)
      BY <1>1, <2>1, <3>3, Agrees DEF IInv
    <3>4. CASE TellError(r) \/ HearError(r)
      BY <1>1, <2>1, <3>4, ErrorsThrown DEF IInv
    <3>5. CASE AgreeClean(r) \/ Exit(r)
      BY <2>1, <3>5, Leaves DEF IInv
    <3> QED BY <2>4, <3>1, <3>2, <3>3, <3>4, <3>5 DEF Step
  <2> QED BY <1>3, <2>2, <2>3, <2>4 DEF Next
<1> QED BY <1>2, <1>3, PTL DEF Spec

\* "Each request reaches every engine rank in the same order" (MpiPefSession.hpp:
\* 23-24), for every number of ranks and every failure: the n-th collectives of two
\* ranks are the same step of the same request with the same root's payload.
THEOREM CollectivesMatchHolds == Spec => []CollectivesMatch
<1>1. ASSUME IInv PROVE CollectivesMatch
  <2>1. \A r \in Rank : DOMAIN log[r] = 1 .. Len(log[r])
    BY <1>1, OverContent DEF IInv, Shape
  <2> QED BY <1>1, <2>1 DEF IInv, LogsInv, MatchInv, Same, CollectivesMatch
<1> QED BY <1>1, LogsInvariance, PTL

-----------------------------------------------------------------------------
(* What success means.  The engines move in agreements only, and there is  *)
(* one after every step of an engine: so a rank's engine and its last      *)
(* force are what the last place of its log says, and nobody is more than  *)
(* one agreement ahead of another.                                         *)

\* Steps of an engine come in this order, after the last part of the payload.
Fits(x, y) ==
  /\ y \in {"apply", "validate", "probe"} => x = "data"
  /\ y = "potential" => x = "validate"
  /\ y = "construct" => x = "probe"
  /\ y = "positions" => x = "construct"
  /\ y = "force" => x = "positions"
  /\ y = "maximum" => x = "force"

ServerPiece == {"length", "allocate", "data", "apply", "validate", "potential"}

Mine(x) == IF Serving THEN x \in ServerPiece ELSE x \notin {"apply", "validate", "potential"}

\* A request's pieces come in their order and end with the one that decides.
Chained(s) ==
  /\ s \in Seq(Piece)
  /\ \A k \in 1 .. Len(s) : Mine(s[k])
  /\ \A k \in 1 .. Len(s) - 1 : Fits(s[k], s[k + 1])

Ordered(s) ==
  /\ Chained(s)
  /\ s # << >> => s[Len(s)] \in IF Serving THEN {"apply", "potential"} ELSE {"maximum"}

OrderInv ==
  \A r \in Rank :
    /\ Ordered(todo[r])
    /\ \A n \in 1 .. Len(log[r]) : Ordered(log[r][n].left)

\* What a rank brings to an agreement.
VoteInv ==
  \A r \in Rank : \A n \in 1 .. Len(log[r]) :
    log[r][n].what = "agree" => log[r][n].value \in 0 .. Size

\* A stopped server hears nothing more; a force host hears no command, and it alone
\* takes the maximum.
StopInv ==
  \A r \in Rank :
    /\ pc[r] = "maximum" => ~Serving
    /\ \A n \in 1 .. Len(log[r]) : log[r][n].what = "command" =>
         /\ Serving
         /\ log[r][n].value.op = "stop" => n = Len(log[r]) /\ pc[r] = "stopped"

\* No command stands in a rank's log between two places.
NoCommand(r, k, m) == \A j \in k + 1 .. m : log[r][j].what # "command"

\* The root is at no later request than this rank.
Abreast(r) == NoCommand(0, Len(log[r]), Len(log[0]))

\* A rank holds the payload of its request as soon as it got any of it.
PayloadInv ==
  \A r \in Rank : \A k \in 1 .. Len(log[r]) :
    log[r][k].what = "data" /\ NoCommand(r, k, Len(log[r])) => arg[r] = log[r][k].value

Final == IF request.op = "calculate" THEN "potential" ELSE "apply"

\* What the root answers is about the request it holds.
RequestInv ==
  /\ pc[0] \in {"run", "agree", "maximum"} => reply[0] = "pending"
  /\ Serving /\ served > 0 /\ reply[0] # "error" =>
       /\ arg[0] = request.arg
       /\ pc[0] \in {"run", "agree"} => todo[0][Len(todo[0])] = Final
       /\ pc[0] = "wait" => LET n == Len(log[0]) IN
            n > 0 /\ log[0][n].what = "agree" /\ Head(log[0][n].left) = Final

AnEngine(e) == DOMAIN e = {"loaded", "path", "params", "session"}

\* A session was made with the parameters its engine holds.
EngineInv ==
  /\ DOMAIN engine = Rank /\ DOMAIN arg = Rank /\ DOMAIN ran = Rank /\ DOMAIN reply = Rank
  /\ kind \in {"CPMD", "NWChem", "force host"}
  /\ \A r \in Rank :
       /\ AnEngine(engine[r])
       /\ kind = "CPMD" => engine[r].session \in {NoSession, engine[r].params}
       /\ kind = "NWChem" => engine[r].loaded
       /\ ~Serving => engine[r].params = Default

\* The step a rank took at this place, when nothing failed on it there.
Took(r, n, piece) ==
  n > 0 /\ log[r][n].what = "agree" /\ Head(log[r][n].left) = piece

Did(r, n, piece) == Took(r, n, piece) /\ log[r][n].value = Size

OutcomeInv ==
  \A r \in Rank : LET n == Len(log[r]) IN
    /\ Did(r, n, "validate") => Available(engine[r])
    /\ Did(r, n, "apply") /\ arg[r] \in Params => engine[r].params = arg[r] /\ Available(engine[r])
    /\ Did(r, n, "potential") /\ Abreast(r) /\ reply[0] # "error" =>
         ran[r] = [nth |-> served, at |-> arg[r], with |-> engine[r].params]

\* Parameters to apply.
Real(a) == a \notin {"none", "other"}

\* Engines hold the same parameters, but for those one rank applied before another.
ParamsInv ==
  \A q, r \in Rank : Len(log[q]) >= Len(log[r]) =>
    engine[q].params = IF /\ Len(log[q]) > Len(log[r])
                          /\ Took(q, Len(log[q]), "apply") /\ Real(arg[q])
                       THEN arg[q] ELSE engine[r].params

\* The force host has one request, and an engine that returned did so for its
\* geometry.
HostInv ==
  ~Serving =>
    /\ arg[0] = request.arg
    /\ \A n \in 1 .. Len(log[0]) : log[0][n].what \in Broadcasts => log[0][n].value = request.arg
    /\ \A r \in Rank :
         /\ \A n \in 1 .. Len(log[r]) : Did(r, n, "force") =>
              ran[r] = [nth |-> 1, at |-> request.arg, with |-> Default]
         /\ pc[r] = "wait" => LET n == Len(log[r]) IN
              n > 0 /\ reply[r] = IF log[r][n].what = "error" THEN "error" ELSE "ok"

JointInv ==
  /\ OrderInv /\ VoteInv /\ StopInv /\ PayloadInv /\ RequestInv
  /\ EngineInv /\ OutcomeInv /\ ParamsInv /\ HostInv

-----------------------------------------------------------------------------
(* The pieces of a request.                                                *)

LEMMA OrderedTail ==
  ASSUME NEW s, Ordered(s), s # << >>
  PROVE  Ordered(Tail(s))
<1>1. s \in Seq(Piece) /\ Len(s) \in Nat
  BY DEF Ordered, Chained
<1>2. /\ Tail(s) \in Seq(Piece) /\ Len(Tail(s)) = Len(s) - 1
      /\ \A k \in 1 .. Len(s) - 1 : Tail(s)[k] = s[k + 1]
  <2>1. /\ Tail(s) \in Seq(Piece) /\ Len(Tail(s)) = Len(s) - 1
    BY <1>1, HeadTailProperties
  <2> QED BY <1>1, <2>1, HeadTailProperties
<1> DEFINE t == Tail(s)
<1> HIDE DEF t
<1>3. t \in Seq(Piece) /\ Len(t) = Len(s) - 1 /\ \A k \in 1 .. Len(s) - 1 : t[k] = s[k + 1]
  BY <1>2 DEF t
<1>4. \A k \in 1 .. Len(t) : Mine(t[k])
  <2>1. \A k \in 1 .. Len(s) : Mine(s[k])
    BY DEF Ordered, Chained
  <2> QED BY <1>1, <1>3, <2>1
<1>5. \A k \in 1 .. Len(t) - 1 : Fits(t[k], t[k + 1])
  <2>1. \A k \in 1 .. Len(s) - 1 : Fits(s[k], s[k + 1])
    BY DEF Ordered, Chained
  <2>2. ASSUME NEW k \in 1 .. Len(t) - 1 PROVE Fits(t[k], t[k + 1])
    <3>1. k + 1 \in 1 .. Len(s) - 1 /\ k \in 1 .. Len(s) - 1
      BY <1>1, <1>3
    <3>2. t[k] = s[k + 1] /\ t[k + 1] = s[(k + 1) + 1]
      BY <1>3, <3>1
    <3> QED BY <2>1, <3>1, <3>2
  <2> QED BY <2>2
<1>6. ASSUME t # << >> PROVE t[Len(t)] = s[Len(s)]
  <2>1. Len(t) # 0
    BY <1>3, <1>6, EmptySeq
  <2>2. Len(t) \in 1 .. Len(s) - 1 /\ Len(t) + 1 = Len(s)
    BY <1>1, <1>3, <2>1
  <2> QED BY <1>3, <2>2
<1>7. s[Len(s)] \in IF Serving THEN {"apply", "potential"} ELSE {"maximum"}
  BY DEF Ordered, Chained
<1> QED BY <1>3, <1>4, <1>5, <1>6, <1>7 DEF Ordered, Chained, t

LEMMA OrderedNone == Ordered(<< >>)
BY EmptySeq DEF Ordered, Chained

LEMMA ChainedConcat ==
  ASSUME NEW s, NEW t, Chained(s), Chained(t), s # << >>, t # << >>, Fits(s[Len(s)], t[1])
  PROVE  /\ Chained(s \o t) /\ s \o t # << >>
         /\ (s \o t)[1] = s[1] /\ (s \o t)[Len(s \o t)] = t[Len(t)]
<1>1. s \in Seq(Piece) /\ t \in Seq(Piece) /\ Len(s) \in Nat \ {0} /\ Len(t) \in Nat \ {0}
  BY EmptySeq DEF Chained
<1> DEFINE w == s \o t
<1>2. /\ w \in Seq(Piece) /\ Len(w) = Len(s) + Len(t)
      /\ \A k \in 1 .. Len(s) + Len(t) : w[k] = IF k <= Len(s) THEN s[k] ELSE t[k - Len(s)]
  BY <1>1, ConcatProperties
<1> HIDE DEF w
<1>3. /\ \A k \in 1 .. Len(s) : w[k] = s[k]
      /\ \A k \in 1 .. Len(t) : w[Len(s) + k] = t[k]
  <2>1. ASSUME NEW k \in 1 .. Len(s) PROVE w[k] = s[k]
    <3>1. k \in 1 .. Len(s) + Len(t) /\ k <= Len(s)
      BY <1>1
    <3> QED BY <1>2, <3>1
  <2>2. ASSUME NEW k \in 1 .. Len(t) PROVE w[Len(s) + k] = t[k]
    <3>1. /\ Len(s) + k \in 1 .. Len(s) + Len(t) /\ ~(Len(s) + k <= Len(s))
          /\ (Len(s) + k) - Len(s) = k
      BY <1>1
    <3> QED BY <1>2, <3>1
  <2> QED BY <2>1, <2>2
<1>4. ASSUME NEW k \in 1 .. Len(w) PROVE Mine(w[k])
  <2>1. CASE k <= Len(s)
    <3>1. k \in 1 .. Len(s)
      BY <1>1, <1>2, <2>1
    <3> QED BY <1>3, <3>1 DEF Chained
  <2>2. CASE k > Len(s)
    <3>1. k - Len(s) \in 1 .. Len(t) /\ w[k] = t[k - Len(s)]
      BY <1>1, <1>2, <2>2
    <3> QED BY <3>1 DEF Chained
  <2> QED BY <1>1, <1>2, <2>1, <2>2
<1>5. ASSUME NEW k \in 1 .. Len(w) - 1 PROVE Fits(w[k], w[k + 1])
  <2>1. CASE k < Len(s)
    <3>1. k \in 1 .. Len(s) - 1 /\ k \in 1 .. Len(s) /\ k + 1 \in 1 .. Len(s)
      BY <1>1, <1>2, <2>1
    <3> QED BY <1>3, <3>1 DEF Chained
  <2>2. CASE k = Len(s)
    <3>1. w[k] = s[Len(s)] /\ w[k + 1] = t[1]
      BY <1>1, <1>3, <2>2
    <3> QED BY <3>1
  <2>3. CASE k > Len(s)
    <3> DEFINE j == k - Len(s)
    <3>1. j \in 1 .. Len(t) - 1 /\ j \in 1 .. Len(t) /\ j + 1 \in 1 .. Len(t)
          /\ k = Len(s) + j /\ k + 1 = Len(s) + (j + 1)
      BY <1>1, <1>2, <2>3
    <3> HIDE DEF j
    <3>2. w[k] = t[j] /\ w[k + 1] = t[j + 1]
      BY <1>3, <3>1
    <3> QED BY <3>1, <3>2 DEF Chained
  <2> QED BY <1>1, <1>2, <2>1, <2>2, <2>3
<1>6. Chained(w)
  BY <1>2, <1>4, <1>5 DEF Chained
<1>7. w # << >> /\ w[1] = s[1] /\ w[Len(w)] = t[Len(t)]
  BY <1>1, <1>2, <1>3, EmptySeq
<1> QED BY <1>6, <1>7 DEF w

\* A broadcast with its data ends in them.
LEMMA ChainedBroadcast ==
  ASSUME NEW b \in BOOLEAN
  PROVE  /\ Chained(Broadcast(b)) /\ Broadcast(b) # << >> /\ Broadcast(b)[1] = "length"
         /\ Broadcast(b)[Len(Broadcast(b))] = IF b THEN "allocate" ELSE "data"
<1>1. CASE b
  <2>1. Broadcast(b) = <<"length", "allocate">>
    BY <1>1 DEF Broadcast
  <2>2. /\ <<"length", "allocate">> \in Seq(Piece) /\ Len(<<"length", "allocate">>) = 2
        /\ <<"length", "allocate">>[1] = "length" /\ <<"length", "allocate">>[2] = "allocate"
        /\ <<"length", "allocate">> # << >>
    BY DEF Piece, Broadcasts, Collective
  <2> DEFINE w == <<"length", "allocate">>
  <2> HIDE DEF w
  <2>3. w \in Seq(Piece) /\ Len(w) = 2 /\ w[1] = "length" /\ w[2] = "allocate"
    BY <2>2 DEF w
  <2>4. \A k \in 1 .. Len(w) : Mine(w[k])
    <3>1. \A k \in 1 .. Len(w) : k = 1 \/ k = 2
      BY <2>3
    <3> QED BY <2>3, <3>1 DEF Mine, ServerPiece
  <2>5. \A k \in 1 .. Len(w) - 1 : Fits(w[k], w[k + 1])
    <3>1. \A k \in 1 .. Len(w) - 1 : k = 1
      BY <2>3
    <3> QED BY <2>3, <3>1 DEF Fits
  <2> QED BY <1>1, <2>1, <2>2, <2>3, <2>4, <2>5 DEF Chained, w
<1>2. CASE ~b
  <2>1. Broadcast(b) = <<"length", "allocate", "data">>
    BY <1>2 DEF Broadcast
  <2> DEFINE w == <<"length", "allocate", "data">>
  <2>2. /\ w \in Seq(Piece) /\ Len(w) = 3 /\ w # << >>
        /\ w[1] = "length" /\ w[2] = "allocate" /\ w[3] = "data"
    BY DEF Piece, Broadcasts, Collective
  <2> HIDE DEF w
  <2>4. \A k \in 1 .. Len(w) : Mine(w[k])
    <3>1. \A k \in 1 .. Len(w) : k = 1 \/ k = 2 \/ k = 3
      BY <2>2
    <3> QED BY <2>2, <3>1 DEF Mine, ServerPiece
  <2>5. \A k \in 1 .. Len(w) - 1 : Fits(w[k], w[k + 1])
    <3>1. \A k \in 1 .. Len(w) - 1 : k = 1 \/ k = 2
      BY <2>2
    <3> QED BY <2>2, <3>1 DEF Fits
  <2> QED BY <1>2, <2>1, <2>2, <2>4, <2>5 DEF Chained, w
<1> QED BY <1>1, <1>2

LEMMA OrderedWork ==
  ASSUME Serving, NEW q
  PROVE  /\ Ordered(Work(q)) /\ Work(q) # << >> /\ Work(q)[1] = "length"
         /\ Work(q)[Len(Work(q))] = IF q.op = "configure" THEN "apply" ELSE "potential"
<1> DEFINE b == q.arg = "empty"
           B == Broadcast(FALSE)
           C == Broadcast(b)
           one == <<"apply">>
           two == <<"validate", "potential">>
<1>1. /\ Chained(B) /\ B # << >> /\ B[1] = "length" /\ B[Len(B)] = "data"
      /\ Chained(C) /\ C # << >> /\ C[1] = "length" /\ C[Len(C)] \in {"allocate", "data"}
  BY ChainedBroadcast
<1>2. Chained(one) /\ one # << >> /\ one[1] = "apply" /\ one[Len(one)] = "apply"
  <2>1. one \in Seq(Piece) /\ Len(one) = 1 /\ one # << >> /\ one[1] = "apply"
    BY DEF Piece, Collective
  <2> HIDE DEF one
  <2>2. \A k \in 1 .. Len(one) : k = 1
    BY <2>1
  <2>3. \A k \in 1 .. Len(one) : Mine(one[k])
    BY <2>1, <2>2 DEF Mine, ServerPiece
  <2>4. \A k \in 1 .. Len(one) - 1 : Fits(one[k], one[k + 1])
    BY <2>1
  <2> QED BY <2>1, <2>3, <2>4 DEF Chained
<1>3. Chained(two) /\ two # << >> /\ two[1] = "validate" /\ two[Len(two)] = "potential"
  <2>1. /\ two \in Seq(Piece) /\ Len(two) = 2 /\ two # << >>
        /\ two[1] = "validate" /\ two[2] = "potential"
    BY DEF Piece, Collective
  <2> HIDE DEF two
  <2>2. \A k \in 1 .. Len(two) : k = 1 \/ k = 2
    BY <2>1
  <2>3. \A k \in 1 .. Len(two) : Mine(two[k])
    BY <2>1, <2>2 DEF Mine, ServerPiece
  <2>4. \A k \in 1 .. Len(two) - 1 : Fits(two[k], two[k + 1])
    <3>1. \A k \in 1 .. Len(two) - 1 : k = 1
      BY <2>1
    <3> QED BY <2>1, <3>1 DEF Fits
  <2> QED BY <2>1, <2>3, <2>4 DEF Chained
<1>4. \A x : /\ Fits(x, "length")
             /\ Fits("data", "apply") /\ Fits("data", "validate")
  BY DEF Fits
<1>5. Work(q) = IF q.op = "configure" THEN B \o one ELSE C \o C \o B \o two
  BY DEF Work
<1> HIDE DEF b, B, C, one, two
<1>6. /\ Chained(B \o one) /\ B \o one # << >> /\ (B \o one)[1] = "length"
      /\ (B \o one)[Len(B \o one)] = "apply"
  BY <1>1, <1>2, <1>4, ChainedConcat
<1>7. /\ Chained(C \o C) /\ C \o C # << >> /\ (C \o C)[1] = "length"
  BY <1>1, <1>4, ChainedConcat
<1>8. /\ Chained(C \o C \o B) /\ C \o C \o B # << >> /\ (C \o C \o B)[1] = "length"
      /\ (C \o C \o B)[Len(C \o C \o B)] = "data"
  BY <1>1, <1>4, <1>7, ChainedConcat
<1>9. /\ Chained(C \o C \o B \o two) /\ C \o C \o B \o two # << >>
      /\ (C \o C \o B \o two)[1] = "length"
      /\ (C \o C \o B \o two)[Len(C \o C \o B \o two)] = "potential"
  BY <1>3, <1>4, <1>8, ChainedConcat
<1>10. CASE q.op = "configure"
  <2>1. Work(q) = B \o one
    BY <1>5, <1>10
  <2> QED BY <1>6, <1>10, <2>1 DEF Ordered
<1>11. CASE q.op # "configure"
  <2>1. Work(q) = C \o C \o B \o two
    BY <1>5, <1>11
  <2> QED BY <1>9, <1>11, <2>1 DEF Ordered
<1> QED BY <1>10, <1>11

LEMMA OrderedForce ==
  ASSUME ~Serving
  PROVE  Ordered(ForceWork) /\ ForceWork # << >> /\ ForceWork[1] = "arguments"
<1> DEFINE a == <<"arguments", "help">>
           z == <<"probe", "construct", "positions", "force", "maximum">>
           B == Broadcast(FALSE)
<1>1. Chained(B) /\ B # << >> /\ B[1] = "length" /\ B[Len(B)] = "data"
  BY ChainedBroadcast
<1>2. Chained(a) /\ a # << >> /\ a[1] = "arguments"
  <2>1. a \in Seq(Piece) /\ Len(a) = 2 /\ a # << >> /\ a[1] = "arguments" /\ a[2] = "help"
    BY DEF Piece, Collective, Broadcasts
  <2> HIDE DEF a
  <2>2. \A k \in 1 .. Len(a) : k = 1 \/ k = 2
    BY <2>1
  <2>3. \A k \in 1 .. Len(a) : Mine(a[k])
    BY <2>1, <2>2 DEF Mine
  <2>4. \A k \in 1 .. Len(a) - 1 : Fits(a[k], a[k + 1])
    <3>1. \A k \in 1 .. Len(a) - 1 : k = 1
      BY <2>1
    <3> QED BY <2>1, <3>1 DEF Fits
  <2> QED BY <2>1, <2>3, <2>4 DEF Chained
<1>3. Chained(z) /\ z # << >> /\ z[1] = "probe" /\ z[Len(z)] = "maximum"
  <2>1. /\ z \in Seq(Piece) /\ Len(z) = 5 /\ z # << >>
        /\ z[1] = "probe" /\ z[2] = "construct" /\ z[3] = "positions"
        /\ z[4] = "force" /\ z[5] = "maximum"
    BY DEF Piece, Collective
  <2> HIDE DEF z
  <2>2. \A k \in 1 .. Len(z) : k = 1 \/ k = 2 \/ k = 3 \/ k = 4 \/ k = 5
    BY <2>1
  <2>3. \A k \in 1 .. Len(z) : Mine(z[k])
    BY <2>1, <2>2 DEF Mine
  <2>4. \A k \in 1 .. Len(z) - 1 : Fits(z[k], z[k + 1])
    <3>1. \A k \in 1 .. Len(z) - 1 : k = 1 \/ k = 2 \/ k = 3 \/ k = 4
      BY <2>1
    <3> QED BY <2>1, <3>1 DEF Fits
  <2> QED BY <2>1, <2>3, <2>4 DEF Chained
<1>4. \A x : Fits(x, "length") /\ Fits("data", "probe")
  BY DEF Fits
<1>5. ForceWork = a \o B \o B \o B \o z
  BY DEF ForceWork
<1> HIDE DEF a, z, B
<1>6. Chained(a \o B) /\ a \o B # << >> /\ (a \o B)[1] = "arguments"
  BY <1>1, <1>2, <1>4, ChainedConcat
<1>7. Chained(a \o B \o B) /\ a \o B \o B # << >> /\ (a \o B \o B)[1] = "arguments"
  BY <1>1, <1>4, <1>6, ChainedConcat
<1>8. /\ Chained(a \o B \o B \o B) /\ a \o B \o B \o B # << >>
      /\ (a \o B \o B \o B)[1] = "arguments"
      /\ (a \o B \o B \o B)[Len(a \o B \o B \o B)] = "data"
  BY <1>1, <1>4, <1>7, ChainedConcat
<1>9. /\ Chained(a \o B \o B \o B \o z) /\ a \o B \o B \o B \o z # << >>
      /\ (a \o B \o B \o B \o z)[1] = "arguments"
      /\ (a \o B \o B \o B \o z)[Len(a \o B \o B \o B \o z)] = "maximum"
  BY <1>3, <1>4, <1>8, ChainedConcat
<1> QED BY <1>5, <1>9 DEF Ordered

-----------------------------------------------------------------------------
(* What the logs say of the places before the last.                        *)

\* What comes after a rank's first n collectives comes after no piece but x.
Due(r, n, x) ==
  ~Failed(r, n) /\ Left(r, n) # << >> /\ \A z : Fits(z, Left(r, n)[1]) => z = x

\* The piece x is what a rank took at this place.
Was(r, n, x) ==
  /\ n > 0 /\ log[r][n].left # << >> /\ log[r][n].left = Left(r, n - 1) /\ ~Failed(r, n - 1)
  /\ Head(log[r][n].left) = x /\ log[r][n].left[1] = x
  /\ log[r][n].what = IF x \in Collective THEN "agree" ELSE x

LEMMA DueTo ==
  ASSUME NEW r, NEW n, ~Failed(r, n), Left(r, n) # << >>, NEW y, Left(r, n)[1] = y
  PROVE  /\ y \in {"apply", "validate", "probe"} => Due(r, n, "data")
         /\ y = "potential" => Due(r, n, "validate")
         /\ y = "construct" => Due(r, n, "probe")
         /\ y = "positions" => Due(r, n, "construct")
         /\ y = "force" => Due(r, n, "positions")
         /\ y = "maximum" => Due(r, n, "force")
BY DEF Due, Fits

\* What a step of the engine comes after.
LEMMA Previous ==
  ASSUME Shape, LogsInv, OrderInv, StopInv, NEW r \in Rank, NEW n \in Nat, n <= Len(log[r]),
         NEW x, Due(r, n, x)
  PROVE  Was(r, n, x)
<1>0. PICK y : /\ y = Left(r, n)[1] /\ ~Failed(r, n) /\ Left(r, n) # << >>
               /\ \A z : Fits(z, y) => z = x
  BY DEF Due
<1>1. y \notin {"length", "arguments"}
  <2>1. Fits("a", "length") /\ Fits("b", "length") /\ Fits("a", "arguments") /\ Fits("b", "arguments")
    BY DEF Fits
  <2> QED BY <1>0, <2>1
<1>2. n # 0
  <2>1. ASSUME n = 0 PROVE FALSE
    <3>1. Left(r, 0) = IF Serving THEN << >> ELSE ForceWork
      BY DEF Left
    <3> QED BY <1>0, <1>1, <2>1, <3>1, OrderedForce
  <2> QED BY <2>1
<1>3. n \in 1 .. Len(log[r]) /\ Len(log[r]) \in Nat
  BY <1>2, OverContent DEF Shape
<1>4. Link(r, n) /\ Ordered(log[r][n].left)
  BY <1>3 DEF LogsInv, ChainInv, OrderInv
<1> DEFINE e == log[r][n]
<1>5. e.left = Left(r, n - 1)
  <2> DEFINE l == Left(r, n - 1)
  <2>1. e = Entry(e.what, e.value, l)
    BY <1>4 DEF Link
  <2> HIDE DEF e, l
  <2>2. e.left = l
    BY <2>1 DEF Entry
  <2> QED BY <2>2 DEF e, l
<1>6. e.what # "command"
  <2>1. ASSUME e.what = "command" PROVE FALSE
    <3>1. Left(r, n) = IF e.value.op = "stop" THEN << >> ELSE Work(e.value)
      BY <1>2, <2>1 DEF Left
    <3>2. Serving
      BY <1>3, <2>1 DEF StopInv
    <3>3. Left(r, n)[1] = "length"
      BY <1>0, <3>1, <3>2, OrderedWork
    <3> QED BY <1>0, <1>1, <3>3
  <2> QED BY <2>1
<1>7. e.what \notin {"error", "maximum"} /\ Left(r, n) = Tail(e.left)
  BY <1>0, <1>2, <1>6 DEF Left
<1>8. ~Failed(r, n - 1) /\ e.what = Named(e.left)
  BY <1>4, <1>5, <1>7 DEF Link
<1>9. e.left # << >>
  BY <1>6, <1>8 DEF Named
<1> DEFINE l == e.left
<1>10. l \in Seq(Piece) /\ \A k \in 1 .. Len(l) - 1 : Fits(l[k], l[k + 1])
  BY <1>4 DEF Ordered, Chained
<1> HIDE DEF l
<1>11. /\ Len(l) \in Nat \ {0} /\ Head(l) = l[1] /\ Tail(l) \in Seq(Piece)
       /\ Len(Tail(l)) = Len(l) - 1 /\ \A k \in 1 .. Len(l) - 1 : Tail(l)[k] = l[k + 1]
  BY <1>9, <1>10, HeadTailProperties, EmptySeq DEF l
<1>12. Tail(l) # << >> /\ Tail(l)[1] = y
  BY <1>0, <1>7 DEF l
<1>13. Len(Tail(l)) # 0
  BY <1>11, <1>12, EmptySeq
<1>14. 1 \in 1 .. Len(l) - 1
  BY <1>11, <1>13
<1>15. Fits(l[1], l[1 + 1]) /\ Tail(l)[1] = l[1 + 1]
  BY <1>10, <1>11, <1>14
<1>16. l[1] = x
  BY <1>0, <1>12, <1>15
<1>17. Head(e.left) = x
  BY <1>11, <1>16 DEF l
<1> QED BY <1>2, <1>5, <1>8, <1>9, <1>16, <1>17 DEF Named, l, Was

\* What a piece comes after when it has been taken itself.
LEMMA Earlier ==
  ASSUME Shape, NEW r \in Rank, NEW n \in Nat, n <= Len(log[r]), NEW x, Was(r, n, x)
  PROVE  /\ n - 1 \in Nat /\ n - 1 <= Len(log[r])
         /\ x \in {"apply", "validate", "probe"} => Due(r, n - 1, "data")
         /\ x = "potential" => Due(r, n - 1, "validate")
         /\ x = "construct" => Due(r, n - 1, "probe")
         /\ x = "positions" => Due(r, n - 1, "construct")
         /\ x = "force" => Due(r, n - 1, "positions")
<1>1. n - 1 \in Nat /\ n - 1 <= Len(log[r])
  BY OverContent DEF Shape, Was
<1>2. PICK m : m = n - 1
  OBVIOUS
<1>3. ~Failed(r, m) /\ Left(r, m) # << >> /\ Left(r, m)[1] = x
  BY <1>2 DEF Was
<1> QED BY <1>1, <1>2, <1>3, DueTo

LEMMA Smallest ==
  ASSUME NEW T \in SUBSET Nat, T # {}
  PROVE  \E x \in T : \A y \in T : x <= y
<1> DEFINE R == {p \in Nat \X Nat : p[1] < p[2]}
<1>1. R = OpToRel(<, Nat)
  BY DEF OpToRel
<1>2. IsWellFoundedOn(R, Nat)
  BY <1>1, NatLessThanWellFounded, Zenon
<1>3. PICK x \in T : \A y \in T : ~ (<<y, x>> \in R)
  BY <1>2, WFMin
<1>4. \A y \in T : ~(y < x)
  BY <1>3
<1> QED BY <1>4

\* Ranks that went on from an agreement all succeeded in it.
LEMMA AllSucceeded ==
  ASSUME Shape, LogsInv, VoteInv, Size \in Nat, NEW r \in Rank, NEW n \in Nat,
         Agreement(r, n), ~Failed(r, n), \A q \in Rank : Len(log[q]) >= n
  PROVE  \A q \in Rank : log[q][n].what = "agree" /\ log[q][n].value = Size
<1>1. n \in Nat \ {0} /\ \A q \in Rank : n \in 1 .. Len(log[q])
  BY OverContent DEF Shape, Agreement
<1>2. \A q \in Rank : log[q][n].what = "agree"
  BY <1>1 DEF LogsInv, MatchInv, Same, Agreement
<1> DEFINE said == {log[q][n].value : q \in Rank}
<1>3. said \subseteq 0 .. Size /\ r \in Rank
  BY <1>1, <1>2 DEF VoteInv
<1>4. \E m \in said : \A k \in said : m <= k
  <2>1. said \in SUBSET Nat /\ log[r][n].value \in said
    BY <1>3
  <2> HIDE DEF said
  <2>2. said # {}
    BY <2>1
  <2> QED BY <2>1, <2>2, Smallest
<1>5. FailedAt(n) \in said /\ \A k \in said : FailedAt(n) <= k
  BY <1>4 DEF FailedAt
<1>6. FailedAt(n) = Size
  BY DEF Failed
<1>7. \A q \in Rank : log[q][n].value \in said
  OBVIOUS
<1> HIDE DEF said
<1>8. \A k \in said : k \in 0 .. Size /\ Size <= k
  BY <1>3, <1>5, <1>6
<1>9. \A k \in said : k = Size
  BY <1>8
<1> QED BY <1>2, <1>7, <1>9

\* A place that follows from an end of a request can only be a command.
LEMMA AfterEnd ==
  ASSUME Shape, LogsInv, NEW r \in Rank, NEW n \in Nat, n + 1 <= Len(log[r]),
         Left(r, n) = << >>, ~Failed(r, n)
  PROVE  log[r][n + 1].what = "command" /\ n + 1 <= Len(log[0])
<1>1. n + 1 \in 1 .. Len(log[r]) /\ (n + 1) - 1 = n
  BY OverContent DEF Shape
<1>2. log[r][n + 1].what = Named(Left(r, n))
  BY <1>1 DEF LogsInv, ChainInv, Link
<1>3. log[r][n + 1].what = "command"
  BY <1>2 DEF Named
<1> QED BY <1>1, <1>3 DEF LogsInv, RootInv

\* A command comes after an agreement or after the error that was told in one.
LEMMA BeforeCommand ==
  ASSUME Shape, LogsInv, OrderInv, StopInv, NEW r \in Rank, NEW n \in Nat,
         n + 1 <= Len(log[r]), log[r][n + 1].what = "command", n # 0
  PROVE  /\ Left(r, n) = << >> /\ ~Failed(r, n)
         /\ Agreement(r, n) \/ (n - 1 \in Nat /\ Failed(r, n - 1))
<1>1. n + 1 \in 1 .. Len(log[r]) /\ (n + 1) - 1 = n /\ Len(log[r]) \in Nat /\ n \in 1 .. Len(log[r])
  BY OverContent DEF Shape
<1>2. Link(r, n + 1) /\ Link(r, n) /\ Ordered(log[r][n + 1].left) /\ Ordered(log[r][n].left)
  BY <1>1 DEF LogsInv, ChainInv, OrderInv
<1>3. Serving
  BY <1>1 DEF StopInv
<1>4. ~Failed(r, n) /\ Named(Left(r, n)) = "command"
  BY <1>1, <1>2 DEF Link
<1>5. \A m \in 1 .. Len(log[r]) : log[r][m].left = Left(r, m - 1)
  <2>1. ASSUME NEW m \in 1 .. Len(log[r]) PROVE log[r][m].left = Left(r, m - 1)
    <3> DEFINE e == log[r][m]
               l == Left(r, m - 1)
    <3>1. e = Entry(e.what, e.value, l)
      BY DEF LogsInv, ChainInv, Link
    <3> HIDE DEF e, l
    <3>2. e.left = l
      BY <3>1 DEF Entry
    <3> QED BY <3>2 DEF e, l
  <2> QED BY <2>1
<1>6. Left(r, n) = << >>
  <2> DEFINE l == Left(r, n)
  <2>1. l \in Seq(Piece)
    BY <1>1, <1>2, <1>5 DEF Ordered, Chained
  <2> HIDE DEF l
  <2>2. ASSUME l # << >> PROVE FALSE
    <3>1. Head(l) \in Piece
      BY <2>1, <2>2, TailPieces
    <3>2. Named(l) # "command"
      BY <2>2, <3>1 DEF Named, Piece, Broadcasts, Collective
    <3> QED BY <1>4, <3>2 DEF l
  <2> QED BY <2>2 DEF l
<1> DEFINE e == log[r][n]
<1>7. ASSUME ~Agreement(r, n) PROVE Failed(r, n - 1)
  <2>1. e.what # "command"
    <3>1. ASSUME e.what = "command" PROVE FALSE
      <4>1. e.value.op = "stop"
        BY <1>6, <3>1, WorkPieces DEF Left
      <4> QED BY <1>1, <3>1, <4>1 DEF StopInv
    <3> QED BY <3>1
  <2>2. ASSUME ~Failed(r, n - 1) PROVE FALSE
    <3>1. e.what = Named(e.left)
      BY <1>1, <1>2, <1>5, <2>2 DEF Link
    <3>2. e.left # << >>
      BY <2>1, <3>1 DEF Named
    <3> DEFINE l == e.left
    <3>3. l \in Seq(Piece) /\ \A k \in 1 .. Len(l) : l[k] \in ServerPiece
      BY <1>2, <1>3 DEF Ordered, Chained, Mine
    <3>4. l[Len(l)] \in {"apply", "potential"}
      BY <1>2, <1>3, <3>2 DEF Ordered
    <3> HIDE DEF l
    <3>5. /\ Len(l) \in Nat \ {0} /\ Head(l) = l[1] /\ Tail(l) \in Seq(Piece)
          /\ Len(Tail(l)) = Len(l) - 1
      BY <3>2, <3>3, EmptySeq, HeadTailProperties DEF l
    <3>6. l[1] \in ServerPiece
      BY <3>3, <3>5
    <3>7. e.what = IF l[1] \in Collective THEN "agree" ELSE l[1]
      BY <3>1, <3>2, <3>5 DEF Named, l
    <3>8. e.what # "agree"
      BY <1>1, <1>7 DEF Agreement
    <3>9. l[1] \in {"length", "data"} /\ e.what = l[1]
      BY <3>6, <3>7, <3>8 DEF ServerPiece, Collective
    <3>10. Left(r, n) = Tail(l)
      <4>1. n # 0 /\ e.what \notin {"command", "error", "maximum", "help"}
        BY <3>9
      <4> QED BY <1>4, <4>1 DEF Left, l
    <3>11. Tail(l) = << >> /\ l # << >>
      BY <1>6, <3>2, <3>10 DEF l
    <3>12. Len(l) = 1
      BY <3>3, <3>11, TailPieces
    <3> QED BY <3>4, <3>9, <3>12
  <2> QED BY <2>2
<1>8. n - 1 \in Nat
  BY <1>1
<1> QED BY <1>4, <1>6, <1>7, <1>8

\* While a rank works on a request, the root has not sent another.
LEMMA RootWaits ==
  ASSUME Shape, LogsInv, OrderInv, StopInv, 0 \in Rank, NEW r \in Rank, pc[r] = "run"
  PROVE  Abreast(r)
<1>1. PICK n \in Nat : n = Len(log[r])
  BY OverContent DEF Shape
<1>2. todo[r] # << >> /\ todo[r] = Left(r, n) /\ ~Failed(r, n)
  BY <1>1, BeforePost
<1>3. SUFFICES ASSUME NEW j \in n + 1 .. Len(log[0]), log[0][j].what = "command" PROVE FALSE
  BY <1>1 DEF Abreast, NoCommand
<1>4. PICK m \in Nat : j = m + 1 /\ m >= n /\ m + 1 <= Len(log[0])
  <2>1. Len(log[0]) \in Nat
    BY OverContent DEF Shape
  <2>2. j - 1 \in Nat /\ j = (j - 1) + 1 /\ j - 1 >= n /\ (j - 1) + 1 <= Len(log[0])
    BY <1>3, <2>1
  <2> QED BY <2>2
<1>5. Len(log[0]) \in Nat
  BY OverContent DEF Shape
<1>6. CASE m = 0
  <2>1. n = 0 /\ n <= Len(log[0]) /\ n <= Len(log[r])
    BY <1>1, <1>4, <1>5, <1>6
  <2>2. Left(r, n) = Left(0, n) /\ Failed(r, n) = Failed(0, n)
    BY <2>1, SameNext
  <2>3. 1 \in 1 .. Len(log[0]) /\ 1 - 1 = 0
    BY <1>4, <1>5, <1>6
  <2>4. log[0][1].what = Named(Left(0, 0)) /\ Serving
    BY <1>2, <1>3, <1>4, <1>6, <2>1, <2>2, <2>3 DEF LogsInv, ChainInv, Link, StopInv
  <2> QED BY <1>2, <2>1, <2>2, <2>4 DEF Left
<1>7. CASE m # 0
  <2>1. Left(0, m) = << >> /\ (Agreement(0, m) \/ (m - 1 \in Nat /\ Failed(0, m - 1)))
    BY <1>3, <1>4, <1>7, BeforeCommand
  <2>2. CASE m = n
    <3>1. Left(r, n) = Left(0, n)
      BY <1>1, <1>4, <1>5, <2>2, SameNext
    <3> QED BY <1>2, <2>1, <2>2, <3>1
  <2>3. CASE m # n /\ Agreement(0, m)
    <3>1. m + 1 \in 1 .. Len(log[0]) /\ (m + 1) - 1 = m
      BY <1>4, <1>5
    <3>2. Len(log[r]) >= m
      BY <2>3, <3>1 DEF LogsInv, ChainInv, Link
    <3> QED BY <1>1, <1>4, <2>3, <3>2
  <2>4. CASE m # n /\ m - 1 \in Nat /\ Failed(0, m - 1)
    <3>1. m \in 1 .. Len(log[0])
      BY <1>4, <1>5, <1>7
    <3>2. Len(log[r]) >= m - 1
      BY <2>4, <3>1 DEF LogsInv, ChainInv, Link, Failed
    <3>3. n = m - 1 /\ n <= Len(log[0]) /\ n <= Len(log[r])
      BY <1>1, <1>4, <1>5, <2>4, <3>2
    <3>4. Failed(r, n) = Failed(0, n)
      BY <1>1, <3>3, SameNext
    <3> QED BY <1>2, <2>4, <3>3, <3>4
  <2> QED BY <2>1, <2>2, <2>3, <2>4
<1> QED BY <1>6, <1>7

-----------------------------------------------------------------------------
(* One rank's step.                                                        *)

Moves(s) == Step(s) \/ (s = 0 /\ (RefuseRequest \/ SendCommand \/ SendStop))

\* The other ranks keep all that is theirs.
Alone(s) ==
  \A r \in Rank \ {s} :
    /\ log'[r] = log[r] /\ pc'[r] = pc[r] /\ todo'[r] = todo[r] /\ arg'[r] = arg[r]
    /\ reply'[r] = reply[r] /\ engine'[r] = engine[r] /\ ran'[r] = ran[r]

\* A piece that ends moves its own rank alone.
LEMMA OthersStay ==
  ASSUME Shape, EngineInv, NEW s \in Rank, NEW answer, Advance(s) \/ End(s, answer)
  PROVE  /\ \A r \in Rank \ {s} : pc'[r] = pc[r] /\ todo'[r] = todo[r] /\ reply'[r] = reply[r]
         /\ DOMAIN reply' = Rank
<1>1. DOMAIN pc = Rank /\ DOMAIN todo = Rank /\ DOMAIN reply = Rank
  BY DEF Shape, EngineInv
<1>2. ASSUME NEW a, End(s, a)
      PROVE  /\ \A r \in Rank \ {s} : pc'[r] = pc[r] /\ todo'[r] = todo[r] /\ reply'[r] = reply[r]
             /\ DOMAIN reply' = Rank
  <2>1. /\ pc' = [pc EXCEPT ![s] = "wait"] /\ todo' = [todo EXCEPT ![s] = << >>]
        /\ reply' = [reply EXCEPT ![s] = a]
    BY <1>2 DEF End, Go
  <2> QED BY <1>1, <2>1
<1>3. CASE Advance(s) /\ Len(todo[s]) # 1
  <2>1. /\ pc' = [pc EXCEPT ![s] = "run"] /\ todo' = [todo EXCEPT ![s] = Tail(todo[s])]
        /\ reply' = reply
    BY <1>3 DEF Advance, Go
  <2> QED BY <1>1, <2>1
<1>4. CASE Advance(s) /\ Len(todo[s]) = 1
  <2>1. End(s, "ok")
    BY <1>4 DEF Advance
  <2> QED BY <1>2, <2>1
<1> QED BY <1>2, <1>3, <1>4

LEMMA Frame ==
  ASSUME Shape, EngineInv, NEW s \in Rank, Moves(s)
  PROVE  /\ kind' = kind /\ Alone(s)
         /\ DOMAIN engine' = Rank /\ DOMAIN arg' = Rank
         /\ DOMAIN ran' = Rank /\ DOMAIN reply' = Rank
         /\ Step(s) => request' = request /\ served' = served
<1> USE DEF Shape, EngineInv, Alone
<1>1. CASE RefuseRequest /\ s = 0
  BY <1>1 DEF RefuseRequest, Step, Maximum, Exit, Send, ReceiveCommand, Receive, Agree, AgreeClean, TellError, HearError
<1>2. CASE (SendCommand \/ SendStop) /\ s = 0
  <2>1. ~Step(s)
    <3>1. pc[s] = "wait" /\ s = 0
      BY <1>2 DEF SendCommand, SendStop, AtWait
    <3> QED BY <3>1 DEF Step, Maximum, Exit, Send, ReceiveCommand, Receive, Agree, AgreeClean, TellError, HearError
  <2>2. CASE SendCommand
    <3>1. PICK q \in Request :
            /\ Post(0, "command", q) /\ arg' = [arg EXCEPT ![0] = q.arg]
            /\ todo' = [todo EXCEPT ![0] = Work(q)] /\ pc' = [pc EXCEPT ![0] = "run"]
            /\ reply' = [reply EXCEPT ![0] = "pending"]
            /\ kind' = kind /\ engine' = engine /\ ran' = ran
      BY <2>2 DEF SendCommand, Go
    <3> QED BY <1>2, <2>1, <3>1 DEF Post
  <2>3. CASE SendStop
    BY <1>2, <2>1, <2>3 DEF SendStop, Post, Go
  <2> QED BY <1>2, <2>2, <2>3
<1>3. CASE Maximum(s) \/ Exit(s)
  <2>1. \A r \in Rank \ {s} : log'[r] = log[r]
    BY <1>3 DEF Maximum, Exit, Post
  <2>2. /\ kind' = kind /\ engine' = engine /\ arg' = arg /\ ran' = ran
        /\ request' = request /\ served' = served
    BY <1>3 DEF Maximum, Exit
  <2>3. CASE Maximum(s)
    <3>1. pc' = [pc EXCEPT ![s] = "maximum"] /\ todo' = todo /\ reply' = reply
      BY <2>3 DEF Maximum, Go
    <3> QED BY <2>1, <2>2, <3>1
  <2>4. CASE Exit(s)
    <3>1. End(s, "ok")
      BY <2>4 DEF Exit
    <3> QED BY <2>1, <2>2, <3>1, OthersStay
  <2> QED BY <1>3, <2>3, <2>4
<1>4. CASE Send(s)
  <2>1. \A r \in Rank \ {s} : log'[r] = log[r]
    BY <1>4 DEF Send, Post
  <2>2. Advance(s) \/ End(s, "ok")
    BY <1>4 DEF Send, Onward
  <2>3. /\ \A r \in Rank \ {s} : pc'[r] = pc[r] /\ todo'[r] = todo[r] /\ reply'[r] = reply[r]
        /\ DOMAIN reply' = Rank
    BY <2>2, OthersStay
  <2>4. /\ kind' = kind /\ engine' = engine /\ arg' = arg /\ ran' = ran
        /\ request' = request /\ served' = served
    BY <1>4 DEF Send
  <2> QED BY <2>1, <2>3, <2>4
<1>5. CASE ReceiveCommand(s)
  BY <1>5, ZenonT(60) DEF ReceiveCommand, Post, Go
<1>6. CASE Receive(s)
  BY <1>6 DEF Receive, Post, Onward, Advance, End, Go
<1>7. CASE Agree(s)
  BY <1>7 DEF Agree, Post, Go
<1>8. CASE AgreeClean(s)
  BY <1>8, ZenonT(60) DEF AgreeClean, Advance, End, Go
<1>9. CASE TellError(s) \/ HearError(s)
  <2>1. \A r \in Rank \ {s} : log'[r] = log[r]
    BY <1>9 DEF TellError, HearError, Post
  <2>2. End(s, "error")
    BY <1>9 DEF TellError, HearError
  <2>3. /\ \A r \in Rank \ {s} : pc'[r] = pc[r] /\ todo'[r] = todo[r] /\ reply'[r] = reply[r]
        /\ DOMAIN reply' = Rank
    BY <2>2, OthersStay
  <2>4. /\ kind' = kind /\ engine' = engine /\ arg' = arg /\ ran' = ran
        /\ request' = request /\ served' = served
    BY <1>9 DEF TellError, HearError
  <2> QED BY <2>1, <2>3, <2>4
<1> QED BY <1>1, <1>2, <1>3, <1>4, <1>5, <1>6, <1>7, <1>8, <1>9 DEF Moves, Step

\* What a step enters in the log, and what goes with it.
LEMMA Entered ==
  ASSUME Shape, EngineInv, NEW s \in Rank, Moves(s)
  PROVE  \/ log' = log /\ arg' = arg /\ engine' = engine /\ ran' = ran
         \/ \E what, value :
              /\ Post(s, what, value) /\ log' # log
              /\ \/ what = "agree" /\ Agree(s)
                 \/ what # "agree" /\ engine' = engine /\ ran' = ran
              /\ what \notin {"command", "data"} => arg'[s] = arg[s]
<1>0. ASSUME NEW w, NEW v, Post(s, w, v) PROVE log' # log
  <2>1. Len(log'[s]) = Len(log[s]) + 1 /\ Len(log[s]) \in Nat
    BY <1>0, Grown
  <2> QED BY <2>1
<1>1. CASE RefuseRequest \/ AgreeClean(s) \/ Exit(s)
  BY <1>1 DEF RefuseRequest, AgreeClean, Exit
<1>2. CASE (SendCommand \/ SendStop) /\ s = 0
  <2>1. PICK value : Post(s, "command", value)
    BY <1>2 DEF SendCommand, SendStop
  <2> QED BY <1>0, <1>2, <2>1 DEF SendCommand, SendStop
<1>3. CASE Maximum(s)
  BY <1>0, <1>3 DEF Maximum
<1>4. CASE Send(s)
  <2>1. Post(s, Head(todo[s]), arg[s]) /\ Head(todo[s]) # "agree"
    BY <1>4 DEF Send, Broadcasts
  <2> QED BY <1>0, <1>4, <2>1 DEF Send
<1>5. CASE ReceiveCommand(s)
  <2>1. PICK value : Post(s, "command", value)
    BY <1>5 DEF ReceiveCommand
  <2> QED BY <1>0, <1>5, <2>1 DEF ReceiveCommand
<1>6. CASE Receive(s)
  <2>1. /\ Post(s, Head(todo[s]), Word(s, 0).value) /\ Head(todo[s]) # "agree"
        /\ engine' = engine /\ ran' = ran
        /\ arg' = [arg EXCEPT ![s] = IF Head(todo[s]) = "data" THEN Word(s, 0).value ELSE @]
    BY <1>6 DEF Receive, Broadcasts
  <2> QED BY <1>0, <2>1 DEF EngineInv
<1>7. CASE Agree(s)
  <2>1. PICK value : Post(s, "agree", value)
    BY <1>7 DEF Agree
  <2>2. arg' = arg
    BY <1>7 DEF Agree
  <2> QED BY <1>0, <1>7, <2>1, <2>2
<1>8. CASE TellError(s) \/ HearError(s)
  <2>1. PICK value : Post(s, "error", value)
    BY <1>8 DEF TellError, HearError
  <2> QED BY <1>0, <1>8, <2>1 DEF TellError, HearError
<1> QED BY <1>1, <1>2, <1>3, <1>4, <1>5, <1>6, <1>7, <1>8 DEF Moves, Step

\* A collective is entered by the actions it belongs to.
LEMMA WhoPosts ==
  ASSUME Shape, NEW s \in Rank, Moves(s), NEW what, NEW value, Post(s, what, value)
  PROVE  /\ \A w, v : Post(s, w, v) => w = what /\ v = value
         /\ what = "command" => ReceiveCommand(s) \/ (s = 0 /\ (SendCommand \/ SendStop))
         /\ what \in Broadcasts => (Send(s) \/ Receive(s)) /\ what = Head(todo[s])
         /\ what = "agree" => Agree(s)
         /\ what = "error" => TellError(s) \/ HearError(s)
         /\ what = "maximum" => Maximum(s)
         /\ what \in Broadcasts \cup {"command", "agree", "error", "maximum"}
<1> DEFINE e == log'[s][Len(log[s]) + 1]
<1>1. ASSUME NEW w, NEW v, Post(s, w, v) PROVE w = e.what /\ v = e.value
  <2>1. e = Entry(w, v, todo[s])
    BY <1>1, Grown
  <2> HIDE DEF e
  <2> QED BY <2>1 DEF Entry
<1>2. log' # log
  <2>1. Len(log'[s]) = Len(log[s]) + 1 /\ Len(log[s]) \in Nat
    BY Grown
  <2> QED BY <2>1
<1> HIDE DEF e
<1>3. \A w, v : Post(s, w, v) => w = what /\ v = value
  BY <1>1
<1>4. ~RefuseRequest /\ ~AgreeClean(s) /\ ~Exit(s)
  BY <1>2 DEF RefuseRequest, AgreeClean, Exit
<1>5. /\ Maximum(s) => what = "maximum"
      /\ Agree(s) => what = "agree"
      /\ TellError(s) \/ HearError(s) => what = "error"
      /\ ReceiveCommand(s) => what = "command"
      /\ s = 0 /\ (SendCommand \/ SendStop) => what = "command"
  BY <1>3 DEF Maximum, Agree, TellError, HearError, ReceiveCommand, SendCommand, SendStop
<1>6. Send(s) \/ Receive(s) => what = Head(todo[s]) /\ what \in Broadcasts
  BY <1>3 DEF Send, Receive
<1>7. \A x \in Broadcasts : x \notin {"command", "agree", "error", "maximum"}
  BY DEF Broadcasts
<1>8. \/ Maximum(s) \/ Agree(s) \/ TellError(s) \/ HearError(s) \/ ReceiveCommand(s)
      \/ (s = 0 /\ (SendCommand \/ SendStop)) \/ Send(s) \/ Receive(s)
  BY <1>4 DEF Moves, Step
<1> HIDE DEF Moves
<1> QED BY <1>3, <1>5, <1>6, <1>7, <1>8

\* The pieces a rank is left with.
LEMMA TodoMoves ==
  ASSUME Shape, LogsInv, NEW s \in Rank, Moves(s)
  PROVE  \/ todo'[s] = todo[s] \/ todo'[s] = << >>
         \/ todo[s] # << >> /\ todo'[s] = Tail(todo[s])
         \/ Serving /\ \E q : todo'[s] = Work(q)
<1>1. DOMAIN todo = Rank
  BY DEF Shape
<1>2. pc[s] = "run" \/ (pc[s] = "agree" /\ Met(s)) => todo[s] # << >>
  BY AtAgreement, BeforePost
<1>3. CASE RefuseRequest \/ SendStop \/ Maximum(s) \/ Agree(s)
  BY <1>3 DEF RefuseRequest, SendStop, Maximum, Agree
<1>4. CASE Exit(s) \/ TellError(s) \/ HearError(s)
  BY <1>1, <1>4 DEF Exit, TellError, HearError, End
<1>5. CASE SendCommand /\ s = 0
  BY <1>1, <1>5 DEF SendCommand
<1>6. CASE ReceiveCommand(s)
  BY <1>1, <1>6 DEF ReceiveCommand
<1>7. CASE Send(s) \/ Receive(s)
  BY <1>1, <1>2, <1>7 DEF Send, Receive, Onward, Advance, End
<1>8. CASE AgreeClean(s)
  BY <1>1, <1>2, <1>8 DEF AgreeClean, Advance, End
<1> QED BY <1>3, <1>4, <1>5, <1>6, <1>7, <1>8 DEF Moves, Step

LEMMA OrderStep ==
  ASSUME Shape, LogsInv, OrderInv, EngineInv, NEW s \in Rank, Moves(s)
  PROVE  OrderInv'
<1>1. kind' = kind /\ Alone(s)
  BY Frame
<1>2. \A x : Ordered(x)' = Ordered(x)
  BY <1>1 DEF Ordered, Chained, Mine, Serving
<1>3. Ordered(todo[s]) /\ \A r \in Rank : Ordered(todo[r])
  BY DEF OrderInv
<1>4. Ordered(todo'[s])
  <2>1. CASE todo[s] # << >> /\ todo'[s] = Tail(todo[s])
    BY <1>3, <2>1, OrderedTail
  <2>2. ASSUME NEW q, Serving, todo'[s] = Work(q) PROVE Ordered(todo'[s])
    BY <2>2, OrderedWork
  <2> QED BY <1>3, <2>1, <2>2, TodoMoves, OrderedNone
<1>5. \A r \in Rank : Ordered(todo'[r])
  BY <1>1, <1>3, <1>4 DEF Alone
<1>6. ASSUME NEW r \in Rank, NEW n \in 1 .. Len(log'[r]) PROVE Ordered(log'[r][n].left)
  <2>1. \A m \in 1 .. Len(log[r]) : Ordered(log[r][m].left)
    BY DEF OrderInv
  <2>2. CASE log'[r] = log[r]
    BY <1>6, <2>1, <2>2
  <2>3. CASE r = s /\ \E what, value : Post(s, what, value)
    <3>1. PICK what, value : Post(s, what, value)
      BY <2>3
    <3>2. /\ Len(log'[s]) = Len(log[s]) + 1 /\ Len(log[s]) \in Nat
          /\ log'[s][Len(log[s]) + 1] = Entry(what, value, todo[s])
          /\ \A m \in 1 .. Len(log[s]) : log'[s][m] = log[s][m]
      BY <3>1, Grown
    <3>3. log'[s][Len(log[s]) + 1].left = todo[s]
      BY <3>2 DEF Entry
    <3>4. n \in 1 .. Len(log[s]) \/ n = Len(log[s]) + 1
      BY <1>6, <2>3, <3>2
    <3> QED BY <1>3, <2>1, <2>3, <3>2, <3>3, <3>4
  <2> QED BY <1>1, <2>2, <2>3, Entered DEF Alone
<1> QED BY <1>2, <1>5, <1>6 DEF OrderInv

LEMMA VoteStep ==
  ASSUME Shape, VoteInv, EngineInv, Size \in Nat, NEW s \in Rank, Moves(s)
  PROVE  VoteInv'
<1>1. Alone(s)
  BY Frame
<1>2. ASSUME NEW r \in Rank, NEW n \in 1 .. Len(log'[r]), log'[r][n].what = "agree"
      PROVE  log'[r][n].value \in 0 .. Size
  <2>1. CASE log'[r] = log[r]
    BY <1>2, <2>1 DEF VoteInv
  <2>2. CASE r = s /\ log' # log
    <3>1. PICK what, value : Post(s, what, value) /\ (what = "agree" => Agree(s))
      BY <2>2, Entered
    <3>2. /\ Len(log'[s]) = Len(log[s]) + 1 /\ Len(log[s]) \in Nat
          /\ log'[s][Len(log[s]) + 1] = Entry(what, value, todo[s])
          /\ \A m \in 1 .. Len(log[s]) : log'[s][m] = log[s][m]
      BY <3>1, Grown
    <3>3. /\ log'[s][Len(log[s]) + 1].what = what
          /\ log'[s][Len(log[s]) + 1].value = value
      BY <3>2 DEF Entry
    <3>4. CASE n \in 1 .. Len(log[s])
      BY <1>2, <2>2, <3>2, <3>4 DEF VoteInv
    <3>5. CASE n = Len(log[s]) + 1
      <4>1. Agree(s)
        BY <1>2, <2>2, <3>1, <3>3, <3>5
      <4>2. PICK o \in Outcomes(s) : Post(s, "agree", IF o.ok THEN Size ELSE s)
        BY <4>1 DEF Agree
      <4>3. log'[s][Len(log[s]) + 1] = Entry("agree", IF o.ok THEN Size ELSE s, todo[s])
        BY <4>2, Grown
      <4>4. log'[s][Len(log[s]) + 1].value = IF o.ok THEN Size ELSE s
        BY <4>3 DEF Entry
      <4>5. Size \in 0 .. Size /\ s \in 0 .. Size
        BY DEF Rank
      <4> QED BY <2>2, <3>5, <4>4, <4>5
    <3> QED BY <1>2, <2>2, <3>2, <3>4, <3>5
  <2> QED BY <1>1, <2>1, <2>2 DEF Alone
<1> QED BY <1>2 DEF VoteInv

LEMMA StopStep ==
  ASSUME Shape, LogsInv, OrderInv, StopInv, EngineInv, NEW s \in Rank, Moves(s)
  PROVE  StopInv'
<1>1. kind' = kind /\ Alone(s) /\ Serving' = Serving
  BY Frame DEF Serving
<1>2. pc[s] # "stopped"
  BY DEF Moves, Step, RefuseRequest, SendCommand, SendStop, AtWait, Maximum, Exit, Send,
         ReceiveCommand, Receive, Agree, AgreeClean, TellError, HearError
<1>3. ASSUME pc'[s] = "maximum" PROVE ~Serving
  <2>1. CASE Maximum(s)
    <3>1. pc[s] = "run" /\ Head(todo[s]) = "maximum"
      BY <2>1 DEF Maximum
    <3>2. todo[s] # << >> /\ Ordered(todo[s])
      BY <3>1 DEF LogsInv, PlaceInv, OrderInv
    <3>3. todo[s] \in Seq(Piece) /\ Len(todo[s]) \in Nat \ {0} /\ Head(todo[s]) = todo[s][1]
      BY <3>2, EmptySeq, HeadTailProperties DEF Ordered, Chained
    <3>4. Mine("maximum")
      BY <3>1, <3>2, <3>3 DEF Ordered, Chained
    <3> QED BY <3>4 DEF Mine, ServerPiece
  <2>2. CASE pc'[s] = pc[s]
    BY <1>3, <2>2 DEF StopInv
  <2> QED BY <1>3, <2>1, <2>2 DEF Moves, Step, RefuseRequest, SendCommand, SendStop, Exit,
       Send, ReceiveCommand, Receive, Agree, AgreeClean, TellError, HearError,
       Onward, Advance, End, Go, Shape
<1>4. ASSUME NEW r \in Rank, NEW n \in 1 .. Len(log'[r]), log'[r][n].what = "command"
      PROVE  /\ Serving
             /\ log'[r][n].value.op = "stop" => n = Len(log'[r]) /\ pc'[r] = "stopped"
  <2>1. CASE r # s
    BY <1>1, <1>4, <2>1 DEF StopInv, Alone
  <2>2. CASE r = s /\ n \in 1 .. Len(log[s])
    <3>1. log'[s][n] = log[s][n]
      <4>1. CASE log' = log
        BY <4>1
      <4>2. CASE log' # log
        <5>1. PICK what, value : Post(s, what, value)
          BY <4>2, Entered
        <5> QED BY <2>2, <5>1, Grown
      <4> QED BY <4>1, <4>2
    <3> QED BY <1>2, <1>4, <2>2, <3>1 DEF StopInv
  <2>3. CASE r = s /\ n \notin 1 .. Len(log[s])
    <3>1. log' # log
      BY <1>4, <2>3
    <3>2. PICK what, value : Post(s, what, value)
      BY <3>1, Entered
    <3>3. /\ Len(log'[s]) = Len(log[s]) + 1 /\ Len(log[s]) \in Nat
          /\ log'[s][Len(log[s]) + 1] = Entry(what, value, todo[s])
      BY <3>2, Grown
    <3>4. n = Len(log[s]) + 1
      BY <1>4, <2>3, <3>3
    <3>5. log'[s][n].what = what /\ log'[s][n].value = value /\ what = "command"
      BY <1>4, <2>3, <3>3, <3>4 DEF Entry
    <3>6. /\ \A w, v : Post(s, w, v) => w = "command" /\ v = value
          /\ ReceiveCommand(s) \/ (s = 0 /\ (SendCommand \/ SendStop))
      BY <3>2, <3>5, WhoPosts
    <3>7. ASSUME SendCommand \/ SendStop, s = 0
          PROVE  Serving /\ (value.op = "stop" => pc'[s] = "stopped")
      <4>1. CASE SendCommand
        <5>1. PICK q \in Request : Post(0, "command", q)
          BY <4>1 DEF SendCommand
        <5>2. value.op # "stop"
          BY <3>6, <3>7, <5>1 DEF Request
        <5> QED BY <4>1, <5>2 DEF SendCommand
      <4>2. CASE SendStop
        BY <3>7, <4>2 DEF SendStop, Go, Shape
      <4> QED BY <3>7, <4>1, <4>2
    <3>8. ASSUME ReceiveCommand(s)
          PROVE  Serving /\ (value.op = "stop" => pc'[s] = "stopped")
      <4>1. Post(s, "command", Word(s, 0).value)
        BY <3>8 DEF ReceiveCommand
      <4>2. value = Word(s, 0).value
        BY <3>6, <4>1
      <4> QED BY <3>8, <4>2 DEF ReceiveCommand, Go, Shape
    <3> QED BY <2>3, <3>3, <3>4, <3>5, <3>6, <3>7, <3>8
  <2> QED BY <2>1, <2>2, <2>3
<1> QED BY <1>1, <1>3, <1>4 DEF StopInv, Alone

-----------------------------------------------------------------------------
(* What an engine comes to hold.                                           *)

\* Parameters are stored whatever becomes of them.
LEMMA ParamsStored ==
  ASSUME NEW e, AnEngine(e), NEW p, NEW x \in SetParams(e, p)
  PROVE  /\ AnEngine(x[1]) /\ x[1].params = p
         /\ kind = "CPMD" => x[1].session \in {NoSession, p}
         /\ kind # "CPMD" => x[1].loaded = e.loaded
         /\ x[2] \in BOOLEAN
         /\ x[2] /\ kind = "CPMD" => x[1].loaded /\ x[1].session = p
<1>1. CASE kind = "CPMD"
  <2> DEFINE reload == ~e.loaded \/ PathOf[p] # e.path
             old == IF reload THEN NoSession ELSE e.session
             e1 == [loaded |-> TRUE, path |-> PathOf[p], params |-> p, session |-> old]
  <2>1. \/ reload /\ x = <<[e1 EXCEPT !.loaded = FALSE], FALSE>>
        \/ e1.session = p /\ x = <<e1, TRUE>>
        \/ x = <<[e1 EXCEPT !.session = p], TRUE>>
        \/ x = <<[e1 EXCEPT !.session = NoSession], FALSE>>
    BY <1>1 DEF SetParams, CpmdSetParams
  <2>2. AnEngine(e1) /\ e1.loaded = TRUE /\ e1.params = p /\ e1.session = old
    BY DEF AnEngine
  <2>3. reload => old = NoSession
    OBVIOUS
  <2> HIDE DEF e1, reload, old
  <2>4. CASE reload /\ x = <<[e1 EXCEPT !.loaded = FALSE], FALSE>>
    <3>1. x[1] = [e1 EXCEPT !.loaded = FALSE] /\ x[2] = FALSE
      BY <2>4
    <3> QED BY <1>1, <2>2, <2>3, <2>4, <3>1 DEF AnEngine
  <2>5. CASE e1.session = p /\ x = <<e1, TRUE>>
    BY <1>1, <2>2, <2>5
  <2>6. CASE x = <<[e1 EXCEPT !.session = p], TRUE>>
    <3>1. x[1] = [e1 EXCEPT !.session = p] /\ x[2] = TRUE
      BY <2>6
    <3> QED BY <1>1, <2>2, <3>1 DEF AnEngine
  <2>7. CASE x = <<[e1 EXCEPT !.session = NoSession], FALSE>>
    <3>1. x[1] = [e1 EXCEPT !.session = NoSession] /\ x[2] = FALSE
      BY <2>7
    <3> QED BY <1>1, <2>2, <3>1 DEF AnEngine
  <2> QED BY <2>1, <2>4, <2>5, <2>6, <2>7
<1>2. CASE kind # "CPMD"
  <2> DEFINE e1 == [e EXCEPT !.path = PathOf[p], !.params = p]
  <2>1. x = <<e1, TRUE>> \/ x = <<e1, FALSE>>
    BY <1>2 DEF SetParams, NwchemSetParams
  <2>2. AnEngine(e1) /\ e1.params = p /\ e1.loaded = e.loaded
    BY DEF AnEngine
  <2> HIDE DEF e1
  <2>3. CASE x = <<e1, TRUE>>
    BY <1>2, <2>2, <2>3
  <2>4. CASE x = <<e1, FALSE>>
    BY <1>2, <2>2, <2>4
  <2> QED BY <2>1, <2>3, <2>4
<1> QED BY <1>1, <1>2

\* Applying parameters comes to what the engine makes of them.
LEMMA ApplyOutcome ==
  ASSUME NEW s, NEW o \in Outcomes(s), Head(todo[s]) = "apply", Real(arg[s])
  PROVE  \E x \in SetParams(engine[s], arg[s]) : o.e = x[1] /\ o.ok = x[2] /\ o.f = ran[s]
<1> DEFINE quiet == [e |-> engine[s], f |-> ran[s], ok |-> TRUE, fault |-> FALSE]
<1>1. PICK x \in SetParams(engine[s], arg[s]) :
        o = [quiet EXCEPT !.e = x[1], !.ok = x[2], !.fault = ~x[2]]
  BY DEF Outcomes, Real
<1>2. o.e = x[1] /\ o.ok = x[2] /\ o.f = ran[s]
  BY <1>1
<1> QED BY <1>2

\* What a step of the engine may leave behind.
LEMMA EngineOutcome ==
  ASSUME NEW s, AnEngine(engine[s]), NEW o \in Outcomes(s), Head(todo[s]) \in Collective
  PROVE  LET e == engine[s]
             piece == Head(todo[s])
         IN
         /\ AnEngine(o.e)
         /\ piece \notin {"apply", "probe"} => o.e = e
         /\ piece = "probe" => o.e.params = e.params /\ o.e.session = e.session
                               /\ (e.loaded => o.e.loaded)
         /\ piece = "apply" /\ ~Real(arg[s]) => o.e = e
         /\ piece = "validate" /\ o.ok => Available(e)
         /\ piece = "potential" /\ o.ok =>
              o.f = [nth |-> served, at |-> arg[s], with |-> Uses(e)]
         /\ piece = "force" /\ o.ok => o.f = [nth |-> 1, at |-> arg[s], with |-> Uses(e)]
         /\ piece \notin {"potential", "force"} \/ ~o.ok => o.f = ran[s]
<1> DEFINE e == engine[s]
           piece == Head(todo[s])
           quiet == [e |-> e, f |-> ran[s], ok |-> TRUE, fault |-> FALSE]
           threw == [quiet EXCEPT !.ok = FALSE]
           broke == [threw EXCEPT !.fault = TRUE]
<1>1. /\ quiet.e = e /\ quiet.f = ran[s] /\ quiet.ok = TRUE
      /\ threw.e = e /\ threw.f = ran[s] /\ threw.ok = FALSE
      /\ broke.e = e /\ broke.f = ran[s] /\ broke.ok = FALSE
  OBVIOUS
<1>2. CASE piece \in {"allocate", "arguments", "construct", "positions"}
  <2>1. o \in {quiet, threw, broke}
    BY <1>2 DEF Outcomes
  <2> QED BY <1>1, <1>2, <2>1
<1>3. CASE piece = "validate"
  <2>1. o \in {threw, broke} \/ (o = quiet /\ Available(e))
    BY <1>3 DEF Outcomes
  <2> QED BY <1>1, <1>3, <2>1
<1>4. CASE piece = "potential"
  <2> DEFINE g == [quiet EXCEPT !.f = [nth |-> served, at |-> arg[s], with |-> Uses(e)]]
  <2>1. o = broke \/ o = g
    BY <1>4 DEF Outcomes
  <2>2. /\ g.e = e /\ g.ok = TRUE
        /\ g.f = [nth |-> served, at |-> arg[s], with |-> Uses(e)]
    OBVIOUS
  <2> QED BY <1>1, <1>4, <2>1, <2>2
<1>5. CASE piece = "force"
  <2> DEFINE g == [quiet EXCEPT !.f = [nth |-> 1, at |-> arg[s], with |-> Uses(e)]]
  <2>1. o = broke \/ o = g
    BY <1>5 DEF Outcomes
  <2>2. g.e = e /\ g.ok = TRUE /\ g.f = [nth |-> 1, at |-> arg[s], with |-> Uses(e)]
    OBVIOUS
  <2> QED BY <1>1, <1>5, <2>1, <2>2
<1>6. CASE piece = "probe"
  <2> DEFINE g == [quiet EXCEPT !.e.loaded = TRUE]
  <2>1. o = broke \/ o = g
    BY <1>6 DEF Outcomes
  <2>2. g.e = [e EXCEPT !.loaded = TRUE] /\ g.ok = TRUE /\ g.f = ran[s]
    OBVIOUS
  <2> DEFINE e2 == [e EXCEPT !.loaded = TRUE]
  <2>3. AnEngine(e2) /\ e2.loaded = TRUE /\ e2.params = e.params /\ e2.session = e.session
    BY DEF AnEngine
  <2>4. o = broke \/ (o.e = e2 /\ o.ok = TRUE /\ o.f = ran[s])
    BY <2>1, <2>2
  <2> HIDE DEF e2
  <2> QED BY <1>1, <1>6, <2>3, <2>4
<1>7. CASE piece = "apply"
  <2>1. CASE ~Real(arg[s])
    <3>1. o \in {quiet, threw}
      BY <1>7, <2>1 DEF Outcomes, Real
    <3> QED BY <1>1, <1>7, <2>1, <3>1
  <2>2. CASE Real(arg[s])
    <3>1. PICK x \in SetParams(e, arg[s]) : o.e = x[1] /\ o.f = ran[s]
      BY <1>7, <2>2, ApplyOutcome
    <3>2. AnEngine(x[1])
      BY ParamsStored
    <3> QED BY <1>7, <2>2, <3>1, <3>2
  <2> QED BY <2>1, <2>2
<1> QED BY <1>2, <1>3, <1>4, <1>5, <1>6, <1>7 DEF Collective

\* The step of an engine, and what its rank enters in the log.
LEMMA AgreeStep ==
  ASSUME Shape, LogsInv, EngineInv, NEW s \in Rank, Agree(s)
  PROVE  /\ pc[s] = "run" /\ todo[s] # << >> /\ Head(todo[s]) \in Collective
         /\ todo' = todo /\ arg' = arg /\ request' = request
         /\ served' = served /\ reply' = reply /\ kind' = kind
         /\ \E o \in Outcomes(s) :
              /\ engine'[s] = o.e /\ ran'[s] = o.f
              /\ Post(s, "agree", IF o.ok THEN Size ELSE s)
<1>1. PICK o \in Outcomes(s) :
        /\ engine' = [engine EXCEPT ![s] = o.e] /\ ran' = [ran EXCEPT ![s] = o.f]
        /\ Post(s, "agree", IF o.ok THEN Size ELSE s)
  BY DEF Agree
<1>2. engine'[s] = o.e /\ ran'[s] = o.f
  BY <1>1 DEF EngineInv
<1>3. pc[s] = "run" /\ todo[s] # << >>
  BY DEF Agree, LogsInv, PlaceInv
<1> QED BY <1>1, <1>2, <1>3 DEF Agree

LEMMA EngineStep ==
  ASSUME Shape, LogsInv, OrderInv, EngineInv, NEW s \in Rank, Moves(s)
  PROVE  EngineInv'
<1>1. /\ kind' = kind /\ Alone(s) /\ DOMAIN engine' = Rank /\ DOMAIN arg' = Rank
      /\ DOMAIN ran' = Rank /\ DOMAIN reply' = Rank
  BY Frame
<1> DEFINE Good(e) == /\ AnEngine(e)
                      /\ kind = "CPMD" => e.session \in {NoSession, e.params}
                      /\ kind = "NWChem" => e.loaded
                      /\ ~Serving => e.params = Default
<1>2. \A r \in Rank : Good(engine[r])
  BY DEF EngineInv, AnEngine
<1>3. Good(engine'[s])
  <2>1. CASE engine' = engine
    BY <1>2, <2>1
  <2>2. CASE Agree(s)
    <3>1. Head(todo[s]) \in Collective /\ todo[s] # << >>
      BY <2>2, AgreeStep
    <3>2. PICK o \in Outcomes(s) : engine'[s] = o.e
      BY <2>2, AgreeStep
    <3> DEFINE e == engine[s]
    <3>3. Good(e) /\ AnEngine(e)
      BY <1>2
    <3>4. CASE Head(todo[s]) \notin {"apply", "probe"} \/ (Head(todo[s]) = "apply" /\ ~Real(arg[s]))
      <4>1. o.e = e
        BY <3>1, <3>3, <3>4, EngineOutcome
      <4> QED BY <3>2, <3>3, <4>1
    <3>5. CASE Head(todo[s]) = "probe"
      <4>1. AnEngine(o.e) /\ o.e.params = e.params /\ o.e.session = e.session
            /\ (e.loaded => o.e.loaded)
        BY <3>1, <3>3, <3>5, EngineOutcome
      <4> QED BY <3>2, <3>3, <4>1
    <3>6. CASE Head(todo[s]) = "apply" /\ Real(arg[s])
      <4>1. PICK x \in SetParams(e, arg[s]) : o.e = x[1]
        BY <3>2, <3>6, ApplyOutcome
      <4>2. /\ AnEngine(x[1]) /\ x[1].params = arg[s]
            /\ kind = "CPMD" => x[1].session \in {NoSession, arg[s]}
            /\ kind # "CPMD" => x[1].loaded = e.loaded
        BY <3>3, ParamsStored
      <4>3. Serving
        <5>1. Ordered(todo[s])
          BY DEF OrderInv
        <5>2. todo[s] \in Seq(Piece) /\ Len(todo[s]) \in Nat \ {0} /\ Head(todo[s]) = todo[s][1]
          BY <3>1, <5>1, EmptySeq, HeadTailProperties DEF Ordered, Chained
        <5>3. Mine("apply")
          BY <3>6, <5>1, <5>2 DEF Ordered, Chained
        <5> QED BY <5>3 DEF Mine
      <4>4. kind = "NWChem" => kind # "CPMD"
        OBVIOUS
      <4> QED BY <3>2, <3>3, <4>1, <4>2, <4>3, <4>4
    <3> QED BY <3>4, <3>5, <3>6
  <2> QED BY <2>1, <2>2, Entered
<1>4. \A r \in Rank : Good(engine'[r])
  BY <1>1, <1>2, <1>3 DEF Alone
<1> QED BY <1>1, <1>4 DEF EngineInv, AnEngine, Serving

LEMMA PayloadStep ==
  ASSUME Shape, LogsInv, OrderInv, StopInv, PayloadInv, EngineInv, 0 \in Rank,
         NEW s \in Rank, Moves(s), LogsInv'
  PROVE  PayloadInv'
<1>1. Alone(s)
  BY Frame
<1>2. ASSUME NEW r \in Rank, NEW k \in 1 .. Len(log'[r]), log'[r][k].what = "data",
             NoCommand(r, k, Len(log[r]))'
      PROVE  arg'[r] = log'[r][k].value
  <2>1. CASE r # s \/ log' = log
    <3>1. log'[r] = log[r] /\ arg'[r] = arg[r]
      BY <1>1, <2>1, Entered DEF Alone
    <3> QED BY <1>2, <3>1 DEF PayloadInv, NoCommand
  <2>2. CASE r = s /\ log' # log
    <3>1. PICK what, value : Post(s, what, value) /\ (what \notin {"command", "data"} => arg'[s] = arg[s])
      BY <2>2, Entered
    <3>2. PICK n : n = Len(log[s])
      OBVIOUS
    <3>3. /\ n \in Nat /\ Len(log'[s]) = n + 1 /\ log'[s][n + 1] = Entry(what, value, todo[s])
          /\ \A m \in 1 .. n : log'[s][m] = log[s][m]
      BY <3>1, <3>2, Grown
    <3>4. log'[s][n + 1].what = what /\ log'[s][n + 1].value = value
      BY <3>3 DEF Entry
    <3>5. k \in 1 .. n \/ k = n + 1
      BY <1>2, <2>2, <3>3
    <3>6. \A j \in k + 1 .. n + 1 : log'[s][j].what # "command"
      BY <1>2, <2>2, <3>3 DEF NoCommand
    <3>7. ASSUME k \in 1 .. n PROVE NoCommand(s, k, n)
      <4>1. ASSUME NEW j \in k + 1 .. n PROVE log[s][j].what # "command"
        <5>1. j \in 1 .. n /\ j \in k + 1 .. n + 1
          BY <3>3, <3>7
        <5> QED BY <3>3, <3>6, <5>1
      <4> QED BY <4>1 DEF NoCommand
    <3>8. what # "command"
      BY <1>2, <2>2, <3>3, <3>4, <3>5, <3>6
    <3>9. CASE what # "data"
      <4>1. k \in 1 .. n /\ arg'[s] = arg[s]
        BY <1>2, <2>2, <3>1, <3>4, <3>5, <3>8, <3>9
      <4>2. NoCommand(s, k, n)
        BY <3>7, <4>1
      <4> QED BY <1>2, <2>2, <3>2, <3>3, <4>1, <4>2, SMTT(30) DEF PayloadInv
    <3>10. CASE what = "data"
      <4>1. /\ Send(s) \/ Receive(s)
            /\ \A w, v : Post(s, w, v) => w = "data" /\ v = value
            /\ Head(todo[s]) = "data" /\ pc[s] = "run"
        <5>1. what \in Broadcasts
          BY <3>10 DEF Broadcasts
        <5> QED BY <3>1, <3>10, <5>1, WhoPosts DEF Send, Receive
      <4>2. CASE Send(s)
        <5>1. s = 0 /\ Post(s, "data", arg[s]) /\ arg' = arg
          BY <4>1, <4>2 DEF Send
        <5>2. value = arg[s]
          BY <4>1, <5>1
        <5>3. CASE k = n + 1
          BY <2>2, <3>4, <5>1, <5>2, <5>3
        <5>4. CASE k \in 1 .. n
          <6>1. NoCommand(s, k, n)
            BY <3>7, <5>4
          <6> QED BY <1>2, <2>2, <3>2, <3>3, <5>1, <5>4, <6>1 DEF PayloadInv
        <5> QED BY <3>5, <5>3, <5>4
      <4>3. CASE Receive(s)
        <5>1. /\ s # 0 /\ Post(s, "data", Word(s, 0).value) /\ arg'[s] = Word(s, 0).value
              /\ Len(log[0]) > n /\ Word(s, 0) = log[0][n + 1]
          BY <3>2, <4>1, <4>3 DEF Receive, Heard, Word, EngineInv
        <5>2. value = log[0][n + 1].value /\ arg'[s] = value
          BY <4>1, <5>1
        <5>3. CASE k = n + 1
          BY <2>2, <3>4, <5>2, <5>3
        <5>4. CASE k \in 1 .. n
          <6>1. Len(log[0]) \in Nat /\ n + 1 \in 1 .. Len(log[0]) /\ k \in 1 .. Len(log[0])
            BY <3>3, <5>1, <5>4, OverContent DEF Shape
          <6>2. log'[s][k] = log[s][k] /\ log[s][k].what = "data"
            BY <1>2, <2>2, <3>3, <5>4
          <6>3. log[0][k].what = "data" /\ log[0][k].value = log[s][k].value
            BY <3>2, <5>4, <6>1, <6>2 DEF LogsInv, MatchInv, Same
          <6>4. Abreast(s)
            BY <4>1, RootWaits
          <6>5. \A j \in k + 1 .. n : log[0][j].what # "command"
            <7>1. ASSUME NEW j \in k + 1 .. n PROVE log[0][j].what # "command"
              <8>1. j \in 1 .. n /\ j \in 1 .. Len(log[0]) /\ j \in k + 1 .. n + 1
                BY <3>3, <5>4, <6>1
              <8>2. log'[s][j].what # "command" /\ log'[s][j] = log[s][j]
                BY <3>3, <3>6, <8>1
              <8>3. log[0][j].what = log[s][j].what
                BY <3>2, <8>1 DEF LogsInv, MatchInv, Same
              <8> QED BY <8>2, <8>3
            <7> QED BY <7>1
          <6>6. \A j \in n + 1 .. Len(log[0]) : log[0][j].what # "command"
            BY <3>2, <6>4 DEF Abreast, NoCommand
          <6>7. NoCommand(0, k, Len(log[0]))
            <7>1. ASSUME NEW j \in k + 1 .. Len(log[0]) PROVE log[0][j].what # "command"
              <8>1. j \in k + 1 .. n \/ j \in n + 1 .. Len(log[0])
                BY <3>3, <5>4, <6>1
              <8> QED BY <6>5, <6>6, <8>1
            <7> QED BY <7>1 DEF NoCommand
          <6>8. arg[0] = log[0][k].value
            BY <6>1, <6>3, <6>7 DEF PayloadInv
          <6>9. log[0][n + 1].what = "data"
            <7>1. /\ n + 1 \in 1 .. Len(log'[s]) /\ log'[s][n + 1].what = "data"
                  /\ log'[0] = log[0]
              BY <1>1, <3>3, <3>4, <3>10, <5>1 DEF Alone
            <7>2. MatchInv'
              BY DEF LogsInv
            <7> QED BY <6>1, <7>1, <7>2 DEF MatchInv, Same
          <6>10. NoCommand(0, n + 1, Len(log[0]))
            <7>1. \A j \in (n + 1) + 1 .. Len(log[0]) : j \in n + 1 .. Len(log[0])
              BY <3>3, <6>1
            <7> QED BY <6>6, <7>1 DEF NoCommand
          <6>11. arg[0] = log[0][n + 1].value
            BY <6>1, <6>9, <6>10 DEF PayloadInv
          <6> QED BY <2>2, <5>2, <6>2, <6>3, <6>8, <6>11
        <5> QED BY <3>5, <5>3, <5>4
      <4> QED BY <4>1, <4>2, <4>3
    <3> QED BY <3>9, <3>10
  <2> QED BY <2>1, <2>2
<1> QED BY <1>2 DEF PayloadInv

LEMMA LastOfTail ==
  ASSUME NEW s \in Seq(Piece), s # << >>, Len(s) # 1
  PROVE  Tail(s)[Len(Tail(s))] = s[Len(s)]
<1>1. /\ Tail(s) \in Seq(Piece) /\ Len(Tail(s)) = Len(s) - 1 /\ Len(s) \in Nat \ {0}
      /\ \A k \in 1 .. Len(s) - 1 : Tail(s)[k] = s[k + 1]
  <2>1. Tail(s) \in Seq(Piece) /\ Len(Tail(s)) = Len(s) - 1
    BY HeadTailProperties
  <2> QED BY <2>1, HeadTailProperties, EmptySeq
<1> DEFINE t == Tail(s)
<1> HIDE DEF t
<1>2. Len(t) = Len(s) - 1 /\ \A k \in 1 .. Len(s) - 1 : t[k] = s[k + 1]
  BY <1>1 DEF t
<1>3. Len(s) - 1 \in 1 .. Len(s) - 1 /\ (Len(s) - 1) + 1 = Len(s)
  BY <1>1
<1>4. t[Len(s) - 1] = s[(Len(s) - 1) + 1]
  BY <1>2, <1>3
<1> QED BY <1>2, <1>3, <1>4 DEF t

\* A rank's first piece is one of its program's.
LEMMA FirstPiece ==
  ASSUME OrderInv, NEW r \in Rank, todo[r] # << >>
  PROVE  /\ todo[r] \in Seq(Piece) /\ Len(todo[r]) \in Nat \ {0}
         /\ Head(todo[r]) = todo[r][1] /\ Mine(Head(todo[r]))
<1>1. Ordered(todo[r])
  BY DEF OrderInv
<1>2. todo[r] \in Seq(Piece) /\ Len(todo[r]) \in Nat \ {0} /\ Head(todo[r]) = todo[r][1]
  BY <1>1, EmptySeq, HeadTailProperties DEF Ordered, Chained
<1>3. Mine(todo[r][1])
  BY <1>1, <1>2 DEF Ordered, Chained
<1> QED BY <1>2, <1>3

LEMMA RequestStep ==
  ASSUME Shape, LogsInv, OrderInv, StopInv, RequestInv, EngineInv, 0 \in Rank,
         NEW s \in Rank, Moves(s)
  PROVE  RequestInv'
<1>1. /\ kind' = kind /\ Alone(s) /\ Serving' = Serving
      /\ Step(s) => request' = request /\ served' = served
  BY Frame DEF Serving
<1>2. CASE s # 0
  <2>1. /\ request' = request /\ served' = served /\ pc'[0] = pc[0] /\ reply'[0] = reply[0]
        /\ arg'[0] = arg[0] /\ todo'[0] = todo[0] /\ log'[0] = log[0]
    BY <1>1, <1>2 DEF Moves, Alone
  <2> QED BY <1>1, <2>1 DEF RequestInv, Final
<1>3. CASE s = 0 /\ RefuseRequest
  <2>1. reply'[0] = "error" /\ pc'[0] = "wait"
    BY <1>3 DEF RefuseRequest, EngineInv, AtWait
  <2> QED BY <2>1 DEF RequestInv
<1>4. CASE s = 0 /\ SendCommand
  <2>1. PICK q \in Request :
          /\ request' = q /\ arg'[0] = q.arg /\ todo'[0] = Work(q) /\ pc'[0] = "run"
          /\ reply'[0] = "pending" /\ Serving
    BY <1>4, ZenonT(60) DEF SendCommand, Go, EngineInv, Shape
  <2>2. Work(q)[Len(Work(q))] = IF q.op = "configure" THEN "apply" ELSE "potential"
    BY <2>1, OrderedWork
  <2>3. q.op \in {"configure", "calculate"}
    BY DEF Request
  <2>4. todo'[0][Len(todo'[0])] = Final'
    BY <2>1, <2>2, <2>3 DEF Final
  <2> QED BY <2>1, <2>4 DEF RequestInv
<1>5. CASE s = 0 /\ SendStop
  <2>1. /\ pc'[0] = "stopped" /\ reply' = reply /\ request' = request /\ served' = served
        /\ arg' = arg
    BY <1>5 DEF SendStop, Go, Shape
  <2> QED BY <1>1, <2>1 DEF RequestInv
<1>6. CASE s = 0 /\ Step(0)
  <2>1. pc[0] \in {"run", "agree", "maximum"} /\ reply[0] = "pending"
    <3>1. pc[0] \in {"run", "agree", "maximum"}
      BY <1>6 DEF Step, Maximum, Exit, Send, ReceiveCommand, Receive, Agree, AgreeClean,
           TellError, HearError
    <3> QED BY <3>1 DEF RequestInv
  <2>2. request' = request /\ served' = served /\ Final' = Final
    BY <1>1, <1>6 DEF Final
  <2>3. Serving /\ served > 0 =>
          /\ arg[0] = request.arg
          /\ pc[0] \in {"run", "agree"} => todo[0][Len(todo[0])] = Final
    BY <2>1 DEF RequestInv
  <2>4. CASE TellError(0) \/ HearError(0)
    <3>1. reply'[0] = "error" /\ pc'[0] = "wait"
      BY <2>4, ZenonT(60) DEF TellError, HearError, End, Go, EngineInv, Shape
    <3> QED BY <3>1 DEF RequestInv
  <2>5. CASE Agree(0)
    <3>1. pc[0] = "run" /\ pc'[0] = "agree" /\ todo' = todo /\ arg' = arg /\ reply' = reply
      BY <2>5 DEF Agree, Go, Shape
    <3> QED BY <1>1, <2>1, <2>2, <2>3, <3>1 DEF RequestInv
  <2>6. CASE Maximum(0)
    <3>1. pc'[0] = "maximum" /\ arg' = arg /\ reply' = reply
      BY <2>6 DEF Maximum, Go, Shape
    <3> QED BY <1>1, <2>1, <2>2, <2>3, <3>1 DEF RequestInv
  <2>7. CASE Exit(0)
    <3>1. ~Serving
      BY <2>7 DEF Exit, StopInv
    <3>2. pc'[0] = "wait"
      BY <2>7 DEF Exit, End, Go, Shape
    <3> QED BY <1>1, <3>1, <3>2 DEF RequestInv
  <2>8. ASSUME Advance(0), arg' = arg, pc[0] \in {"run", "agree"}, todo[0] # << >>,
               Serving /\ Len(todo[0]) = 1 /\ todo[0][1] = Final =>
                 LET n == Len(log'[0]) IN
                 n > 0 /\ log'[0][n].what = "agree" /\ Head(log'[0][n].left) = Final
        PROVE  RequestInv'
    <3>1. todo[0] \in Seq(Piece) /\ Len(todo[0]) \in Nat \ {0}
      BY <2>8, FirstPiece
    <3>2. CASE Len(todo[0]) = 1
      <4>1. pc'[0] = "wait" /\ reply'[0] = "ok"
        BY <2>8, <3>2 DEF Advance, End, Go, EngineInv, Shape
      <4>2. Serving /\ served > 0 => todo[0][1] = Final
        BY <2>3, <2>8, <3>2
      <4> QED BY <1>1, <2>2, <2>3, <2>8, <3>2, <4>1, <4>2 DEF RequestInv
    <3>3. CASE Len(todo[0]) # 1
      <4>1. pc'[0] = "run" /\ todo'[0] = Tail(todo[0]) /\ reply' = reply
        BY <2>8, <3>3 DEF Advance, Go, Shape
      <4>2. Tail(todo[0])[Len(Tail(todo[0]))] = todo[0][Len(todo[0])]
        BY <2>8, <3>1, <3>3, LastOfTail
      <4> QED BY <1>1, <2>1, <2>2, <2>3, <2>8, <4>1, <4>2 DEF RequestInv
    <3> QED BY <3>2, <3>3
  <2>9. CASE AgreeClean(0)
    <3>1. pc[0] = "agree" /\ Advance(0) /\ log' = log /\ arg' = arg
      BY <2>9 DEF AgreeClean
    <3>2. LET n == Len(log[0]) IN
          n > 0 /\ log[0][n].what = "agree" /\ log[0][n].left = todo[0] /\ todo[0] # << >>
      BY <3>1 DEF LogsInv, PlaceInv
    <3>3. Head(todo[0]) = todo[0][1]
      BY <3>2, FirstPiece
    <3> QED BY <2>8, <3>1, <3>2, <3>3
  <2>10. CASE Send(0)
    <3>1. /\ pc[0] = "run" /\ Head(todo[0]) \in Broadcasts /\ arg' = arg
          /\ Onward(0, [what |-> Head(todo[0]), value |-> arg[0]])
      BY <2>10 DEF Send
    <3>2. todo[0] # << >>
      BY <3>1, BeforePost
    <3>3. Head(todo[0]) = todo[0][1] /\ Mine(Head(todo[0]))
      BY <3>2, FirstPiece
    <3>4. todo[0][1] # Final
      BY <3>1, <3>3 DEF Broadcasts, Final
    <3>5. CASE Advance(0)
      BY <2>8, <3>1, <3>2, <3>4, <3>5
    <3>6. CASE ~Advance(0)
      <4>1. Head(todo[0]) = "help" /\ End(0, "ok")
        BY <3>1, <3>6 DEF Onward
      <4>2. ~Serving
        BY <3>3, <4>1 DEF Mine, ServerPiece
      <4>3. pc'[0] = "wait"
        BY <4>1 DEF End, Go, Shape
      <4> QED BY <1>1, <4>2, <4>3 DEF RequestInv
    <3> QED BY <3>5, <3>6
  <2> QED BY <1>6, <2>4, <2>5, <2>6, <2>7, <2>9, <2>10 DEF Step, ReceiveCommand, Receive
<1> QED BY <1>2, <1>3, <1>4, <1>5, <1>6 DEF Moves

\* The root goes on to another request only when this rank is done with the last.
LEMMA KeepsUp ==
  ASSUME Shape, LogsInv, RequestInv, EngineInv, 0 \in Rank, NEW s \in Rank, Moves(s),
         NEW r \in Rank, log'[r] = log[r], Abreast(r)', reply'[0] # "error"
  PROVE  Abreast(r) /\ reply[0] # "error" /\ served' = served /\ request' = request
<1>1. Alone(s) /\ (Step(s) => served' = served /\ request' = request)
  BY Frame
<1>2. /\ Len(log[r]) \in Nat /\ Len(log[0]) \in Nat
      /\ \A j \in Len(log[r]) + 1 .. Len(log'[0]) : log'[0][j].what # "command"
  BY OverContent DEF Shape, Abreast, NoCommand
<1>3. Abreast(r)
  <2>1. ASSUME NEW j \in Len(log[r]) + 1 .. Len(log[0]) PROVE log[0][j].what # "command"
    <3>1. j \in 1 .. Len(log[0])
      BY <1>2
    <3>2. Len(log'[0]) \in Nat /\ Len(log'[0]) >= Len(log[0]) /\ log'[0][j] = log[0][j]
      <4>1. CASE log'[0] = log[0]
        BY <1>2, <4>1
      <4>2. CASE log'[0] # log[0]
        <5>1. s = 0 /\ \E what, value : Post(s, what, value)
          BY <1>1, <4>2, Entered DEF Alone
        <5> QED BY <1>2, <3>1, <5>1, Grown
      <4> QED BY <4>1, <4>2
    <3>3. j \in Len(log[r]) + 1 .. Len(log'[0])
      BY <1>2, <3>2
    <3> QED BY <1>2, <3>2, <3>3
  <2> QED BY <2>1 DEF Abreast, NoCommand
<1>4. CASE s # 0
  BY <1>1, <1>3, <1>4 DEF Alone, Moves
<1>5. CASE s = 0 /\ RefuseRequest
  <2>1. reply'[0] = "error"
    BY <1>5 DEF RefuseRequest, EngineInv
  <2> QED BY <2>1
<1>6. CASE s = 0 /\ SendStop
  BY <1>3, <1>6 DEF SendStop
<1>7. CASE s = 0 /\ SendCommand
  <2>1. PICK q : Post(0, "command", q)
    BY <1>7 DEF SendCommand
  <2>2. PICK m \in Nat : m = Len(log[0])
    BY <1>2
  <2>3. Len(log'[0]) = m + 1 /\ log'[0][m + 1] = Entry("command", q, todo[0])
    BY <2>1, <2>2, Grown
  <2>4. log'[0][m + 1].what = "command"
    BY <2>3 DEF Entry
  <2>5. m + 1 \notin Len(log[r]) + 1 .. Len(log'[0])
    BY <1>2, <2>4
  <2>6. Len(log[r]) > m
    BY <1>2, <2>3, <2>5
  <2>7. Left(0, m) = << >> /\ ~Failed(0, m)
    BY <1>7, <2>2, BeforePost DEF SendCommand, AtWait
  <2>8. Left(r, m) = << >> /\ ~Failed(r, m)
    <3>1. m <= Len(log[0]) /\ m <= Len(log[r])
      BY <1>2, <2>2, <2>6
    <3> QED BY <2>7, <3>1, SameNext
  <2>9. m + 1 <= Len(log[0])
    BY <1>2, <2>6, <2>8, AfterEnd
  <2> QED BY <2>2, <2>9
<1>8. CASE s = 0 /\ Step(0)
  <2>1. pc[0] \in {"run", "agree", "maximum"}
    BY <1>8 DEF Step, Maximum, Exit, Send, ReceiveCommand, Receive, Agree, AgreeClean,
         TellError, HearError
  <2>2. reply[0] = "pending"
    BY <2>1 DEF RequestInv
  <2> QED BY <1>1, <1>3, <1>8, <2>2
<1> QED BY <1>4, <1>5, <1>6, <1>7, <1>8 DEF Moves

\* A rank's first piece is what its program has, and follows from its log.
LEMMA AtPiece ==
  ASSUME Shape, LogsInv, NEW s \in Rank, NEW n, n = Len(log[s]), Agree(s)
  PROVE  /\ n \in Nat /\ Left(s, n) = todo[s] /\ ~Failed(s, n)
         /\ todo[s] # << >> /\ Head(todo[s]) \in Collective
         /\ Agreement(s, n) => \A q \in Rank : Len(log[q]) >= n
<1>1. pc[s] = "run" /\ Head(todo[s]) \in Collective
  BY DEF Agree
<1>2. Len(log[s]) \in Nat
  BY OverContent DEF Shape
<1> QED BY <1>1, <1>2, BeforePost

LEMMA OutcomeStep ==
  ASSUME Shape, LogsInv, OrderInv, VoteInv, StopInv, RequestInv, EngineInv, OutcomeInv,
         0 \in Rank, NEW s \in Rank, Moves(s)
  PROVE  OutcomeInv'
<1>0. Size \in Nat /\ \A p \in Params : p \notin {NoSession, "none", "other"}
  <2>1. Size \in Nat \ {0} /\ {NoSession, "none", "other"} \cap Params = {}
    BY SessionAssumption, Zenon DEF SessionAssumption
  <2> QED BY <2>1
<1>1. kind' = kind /\ Alone(s) /\ (Step(s) => served' = served)
  BY Frame
<1>2. ASSUME NEW r \in Rank, log'[r] = log[r], arg'[r] = arg[r], engine'[r] = engine[r],
             ran'[r] = ran[r], NEW n, n = Len(log[r])
      PROVE  /\ Did(r, n, "validate")' => Available(engine[r])'
             /\ Did(r, n, "apply")' /\ arg'[r] \in Params =>
                  engine'[r].params = arg'[r] /\ Available(engine[r])'
             /\ Did(r, n, "potential")' /\ Abreast(r)' /\ reply'[0] # "error" =>
                  ran'[r] = [nth |-> served', at |-> arg'[r], with |-> engine'[r].params]
  <2>1. \A x : Did(r, n, x)' = Did(r, n, x)
    BY <1>2 DEF Did, Took
  <2>2. Available(engine[r])' = Available(engine[r])
    BY <1>1, <1>2 DEF Available
  <2>3. /\ Did(r, n, "validate") => Available(engine[r])
        /\ Did(r, n, "apply") /\ arg[r] \in Params => engine[r].params = arg[r] /\ Available(engine[r])
        /\ Did(r, n, "potential") /\ Abreast(r) /\ reply[0] # "error" =>
             ran[r] = [nth |-> served, at |-> arg[r], with |-> engine[r].params]
    BY <1>2 DEF OutcomeInv
  <2>4. ASSUME Abreast(r)', reply'[0] # "error"
        PROVE  Abreast(r) /\ reply[0] # "error" /\ served' = served
    BY <1>2, <2>4, KeepsUp
  <2> QED BY <1>2, <2>1, <2>2, <2>3, <2>4
<1>3. ASSUME NEW n, n = Len(log[s]), Agree(s)
      PROVE  /\ Len(log'[s]) = n + 1
             /\ Did(s, n + 1, "validate")' => Available(engine[s])'
             /\ Did(s, n + 1, "apply")' /\ arg'[s] \in Params =>
                  engine'[s].params = arg'[s] /\ Available(engine[s])'
             /\ Did(s, n + 1, "potential")' =>
                  ran'[s] = [nth |-> served', at |-> arg'[s], with |-> engine'[s].params]
  <2>1. PICK o \in Outcomes(s) :
          /\ engine'[s] = o.e /\ ran'[s] = o.f
          /\ Post(s, "agree", IF o.ok THEN Size ELSE s)
    BY <1>3, AgreeStep
  <2>2. /\ n \in Nat /\ Left(s, n) = todo[s] /\ ~Failed(s, n)
        /\ todo[s] # << >> /\ Head(todo[s]) \in Collective
        /\ Agreement(s, n) => \A q \in Rank : Len(log[q]) >= n
    BY <1>3, AtPiece
  <2>3. arg' = arg /\ served' = served
    BY <1>3, AgreeStep
  <2>4. /\ Len(log'[s]) = n + 1
        /\ log'[s][n + 1] = Entry("agree", IF o.ok THEN Size ELSE s, todo[s])
    BY <1>3, <2>1, Grown
  <2>5. /\ log'[s][n + 1].what = "agree" /\ log'[s][n + 1].left = todo[s]
        /\ log'[s][n + 1].value = IF o.ok THEN Size ELSE s
    <3>1. PICK v : v = IF o.ok THEN Size ELSE s
      OBVIOUS
    <3>2. log'[s][n + 1] = Entry("agree", v, todo[s])
      BY <2>4, <3>1
    <3>3. /\ log'[s][n + 1].what = "agree" /\ log'[s][n + 1].left = todo[s]
          /\ log'[s][n + 1].value = v
      BY <3>2 DEF Entry
    <3> QED BY <3>1, <3>3
  <2>6. s # Size
    BY <1>0 DEF Rank
  <2>7. ASSUME NEW x, Did(s, n + 1, x)' PROVE Head(todo[s]) = x /\ o.ok
    BY <2>5, <2>6, <2>7 DEF Did, Took
  <2> DEFINE e == engine[s]
  <2>8. AnEngine(e) /\ Mine(Head(todo[s]))
    BY <2>2, FirstPiece DEF EngineInv
  <2>9. \A x : Available(x)' = Available(x)
    BY <1>1 DEF Available
  <2>10. ASSUME Did(s, n + 1, "validate")' PROVE Available(engine'[s])
    <3>1. Head(todo[s]) = "validate" /\ o.ok
      BY <2>7, <2>10
    <3>2. o.e = e /\ Available(e)
      BY <2>2, <2>8, <3>1, EngineOutcome
    <3> QED BY <2>1, <3>2
  <2>11. ASSUME Did(s, n + 1, "apply")', arg[s] \in Params
         PROVE  engine'[s].params = arg[s] /\ Available(engine'[s])
    <3>1. Head(todo[s]) = "apply" /\ o.ok
      BY <2>7, <2>11
    <3>2. Real(arg[s]) /\ arg[s] # NoSession
      BY <1>0, <2>11 DEF Real
    <3>3. PICK x \in SetParams(e, arg[s]) : o.e = x[1] /\ o.ok = x[2]
      BY <2>1, <3>1, <3>2, ApplyOutcome
    <3>4. /\ x[1].params = arg[s]
          /\ kind # "CPMD" => x[1].loaded = e.loaded
          /\ kind = "CPMD" => x[1].loaded /\ x[1].session = arg[s]
      BY <2>8, <3>1, <3>3, ParamsStored
    <3>5. kind # "CPMD" => e.loaded
      <4>1. Serving
        BY <2>8, <3>1 DEF Mine
      <4> QED BY <4>1 DEF EngineInv, Serving
    <3> QED BY <2>1, <3>2, <3>3, <3>4, <3>5 DEF Available
  <2>12. ASSUME Did(s, n + 1, "potential")'
         PROVE  ran'[s] = [nth |-> served, at |-> arg[s], with |-> engine'[s].params]
    <3>1. Head(todo[s]) = "potential" /\ o.ok
      BY <2>7, <2>12
    <3>2. o.e = e /\ o.f = [nth |-> served, at |-> arg[s], with |-> Uses(e)]
      BY <2>2, <2>8, <3>1, EngineOutcome
    <3>3. Left(s, n)[1] = "potential" /\ n <= Len(log[s])
      <4>1. Head(todo[s]) = todo[s][1]
        BY <2>2, FirstPiece
      <4>2. Len(log[s]) \in Nat
        BY OverContent DEF Shape
      <4> QED BY <1>3, <2>2, <3>1, <4>1, <4>2
    <3>4. Due(s, n, "validate")
      <4> DEFINE l == Left(s, n)
      <4>1. ~Failed(s, n) /\ l # << >> /\ l[1] = "potential"
        BY <2>2, <3>3
      <4> QED BY <4>1, DueTo
    <3>5. Was(s, n, "validate")
      BY <2>2, <3>3, <3>4, Previous
    <3>6. log[s][n].what = "agree" /\ Agreement(s, n)
      BY <3>5 DEF Collective, Agreement, Was
    <3>7. log[s][n].value = Size
      BY <1>0, <2>2, <3>6, AllSucceeded
    <3>8. Available(e)
      BY <1>3, <3>5, <3>6, <3>7 DEF Was, Did, Took, OutcomeInv
    <3>9. Uses(e) = e.params
      BY <3>8 DEF Available, Uses, EngineInv
    <3> QED BY <2>1, <3>2, <3>9
  <2> QED BY <2>3, <2>4, <2>9, <2>10, <2>11, <2>12
<1>4. ASSUME NEW r \in Rank, NEW n, n = Len(log'[r])
      PROVE  /\ Did(r, n, "validate")' => Available(engine[r])'
             /\ Did(r, n, "apply")' /\ arg'[r] \in Params =>
                  engine'[r].params = arg'[r] /\ Available(engine[r])'
             /\ Did(r, n, "potential")' /\ Abreast(r)' /\ reply'[0] # "error" =>
                  ran'[r] = [nth |-> served', at |-> arg'[r], with |-> engine'[r].params]
  <2>1. CASE r # s
    BY <1>1, <1>2, <1>4, <2>1 DEF Alone
  <2>2. CASE log' = log /\ arg' = arg /\ engine' = engine /\ ran' = ran
    BY <1>2, <1>4, <2>2
  <2>3. CASE r = s /\ Agree(s)
    <3>1. PICK m : m = Len(log[s])
      OBVIOUS
    <3>2. n = m + 1
      BY <1>3, <1>4, <2>3, <3>1
    <3> QED BY <1>3, <1>4, <2>3, <3>1, <3>2
  <2>4. CASE r = s /\ log' # log /\ ~Agree(s)
    <3>1. PICK what, value : Post(s, what, value) /\ what # "agree"
      BY <2>4, Entered
    <3>2. Len(log'[s]) = Len(log[s]) + 1 /\ log'[s][Len(log[s]) + 1] = Entry(what, value, todo[s])
      BY <3>1, Grown
    <3>3. log'[s][Len(log[s]) + 1].what = what /\ n = Len(log[s]) + 1
      BY <1>4, <2>4, <3>2 DEF Entry
    <3>4. log'[s][n].what # "agree"
      BY <3>1, <3>3
    <3> QED BY <2>4, <3>4 DEF Did, Took
  <2> QED BY <2>1, <2>2, <2>3, <2>4, Entered
<1>5. ASSUME NEW r \in Rank
      PROVE  LET n == Len(log[r]) IN
             (/\ Did(r, n, "validate") => Available(engine[r])
              /\ Did(r, n, "apply") /\ arg[r] \in Params => engine[r].params = arg[r] /\ Available(engine[r])
              /\ Did(r, n, "potential") /\ Abreast(r) /\ reply[0] # "error" =>
                  ran[r] = [nth |-> served, at |-> arg[r], with |-> engine[r].params])'
  BY <1>4 DEF Did, Took
<1> QED BY <1>5 DEF OutcomeInv

\* Ranks that apply parameters in the same place apply the same.
LEMMA SameApplied ==
  ASSUME Shape, LogsInv, OrderInv, StopInv, PayloadInv, NEW s \in Rank, Agree(s),
         NEW n, n = Len(log[s]), Head(todo[s]) = "apply",
         NEW q \in Rank, Len(log[q]) = n + 1, log[q][n + 1].what = "agree"
  PROVE  arg[q] = arg[s]
<1>1. /\ n \in Nat /\ Left(s, n) = todo[s] /\ ~Failed(s, n) /\ todo[s] # << >>
      /\ Head(todo[s]) = todo[s][1] /\ n <= Len(log[s])
  <2>1. n \in Nat /\ Left(s, n) = todo[s] /\ ~Failed(s, n) /\ todo[s] # << >>
    BY AtPiece
  <2> QED BY <2>1, FirstPiece
<1>2. Was(s, n, "data")
  <2> DEFINE l == Left(s, n)
  <2>1. ~Failed(s, n) /\ l # << >> /\ l[1] = "apply"
    BY <1>1
  <2>2. Due(s, n, "data")
    BY <2>1, DueTo
  <2> QED BY <1>1, <2>2, Previous
<1>3. n \in 1 .. Len(log[s]) /\ n \in 1 .. Len(log[q]) /\ log[s][n].what = "data"
  BY <1>1, <1>2 DEF Was, Collective
<1>4. log[q][n].what = "data" /\ log[q][n].value = log[s][n].value
  BY <1>3 DEF LogsInv, MatchInv, Same
<1>5. NoCommand(s, n, n) /\ NoCommand(q, n, n + 1)
  <2>1. \A j \in n + 1 .. n + 1 : j = n + 1
    BY <1>1
  <2>2. \A j \in n + 1 .. n : FALSE
    BY <1>1
  <2> QED BY <2>1, <2>2 DEF NoCommand
<1>6. arg[s] = log[s][n].value
  BY <1>3, <1>5 DEF PayloadInv
<1>7. arg[q] = log[q][n].value
  <2>1. NoCommand(q, n, Len(log[q]))
    BY <1>5
  <2> QED BY <1>3, <1>4, <2>1 DEF PayloadInv
<1> QED BY <1>4, <1>6, <1>7

LEMMA Applies ==
  ASSUME Shape, LogsInv, EngineInv, NEW s \in Rank, Agree(s), Head(todo[s]) = "apply", Real(arg[s])
  PROVE  engine'[s].params = arg[s] /\ arg'[s] = arg[s]
<1>1. PICK o \in Outcomes(s) : engine'[s] = o.e
  BY AgreeStep
<1> DEFINE e == engine[s]
<1>2. AnEngine(e) /\ Head(todo[s]) \in Collective /\ arg' = arg
  BY AgreeStep DEF EngineInv
<1>3. PICK x \in SetParams(e, arg[s]) : o.e = x[1]
  BY <1>1, ApplyOutcome
<1>4. x[1].params = arg[s]
  BY <1>2, <1>3, ParamsStored
<1> QED BY <1>1, <1>2, <1>3, <1>4

LEMMA ParamsStep ==
  ASSUME Shape, LogsInv, OrderInv, StopInv, PayloadInv, EngineInv, ParamsInv,
         NEW s \in Rank, Moves(s), LogsInv'
  PROVE  ParamsInv'
<1> DEFINE Applied(r, n) == Took(r, n, "apply") /\ Real(arg[r])
<1>1. Alone(s)
  BY Frame
<1>2. \A r \in Rank : Len(log[r]) \in Nat
  BY OverContent DEF Shape
<1>3. \A q, r \in Rank : Len(log[q]) >= Len(log[r]) =>
        engine[q].params = IF Len(log[q]) > Len(log[r]) /\ Applied(q, Len(log[q]))
                           THEN arg[q] ELSE engine[r].params
  BY DEF ParamsInv
<1>4. ASSUME NEW q \in Rank, NEW r \in Rank, NEW k, NEW m, k = Len(log'[q]), m = Len(log'[r]),
             k >= m
      PROVE  engine'[q].params = IF k > m /\ Applied(q, k)' THEN arg'[q] ELSE engine'[r].params
  <2>1. CASE \/ q # s /\ r # s
             \/ log' = log /\ arg' = arg /\ engine' = engine
    <3>1. /\ log'[q] = log[q] /\ arg'[q] = arg[q] /\ engine'[q] = engine[q]
          /\ log'[r] = log[r] /\ engine'[r] = engine[r]
      BY <1>1, <2>1 DEF Alone
    <3>2. Applied(q, k)' = Applied(q, k)
      BY <3>1 DEF Took, Real
    <3> QED BY <1>3, <1>4, <3>1, <3>2
  <2>2. CASE q = s /\ r = s
    <3>1. ~(k > m)
      BY <1>4, <2>2, <1>2
    <3> QED BY <2>2, <3>1
  <2>3. CASE log' # log /\ ((q = s /\ r # s) \/ (q # s /\ r = s))
    <3>1. PICK what, value :
            /\ Post(s, what, value)
            /\ \/ what = "agree" /\ Agree(s)
               \/ what # "agree" /\ engine' = engine
      BY <2>3, Entered
    <3>2. PICK n : n = Len(log[s])
      OBVIOUS
    <3>3. /\ n \in Nat /\ Len(log'[s]) = n + 1 /\ log'[s][n + 1] = Entry(what, value, todo[s])
          /\ \A j \in 1 .. n : log'[s][j] = log[s][j]
      BY <3>1, <3>2, Grown
    <3>4. log'[s][n + 1].what = what /\ log'[s][n + 1].left = todo[s]
      BY <3>3 DEF Entry
    <3>5. PICK u \in Rank \ {s} : (q = s /\ r = u) \/ (q = u /\ r = s)
      BY <2>3
    <3>6. PICK l \in Nat : l = Len(log[u])
      BY <1>2
    <3>7. log'[u] = log[u] /\ arg'[u] = arg[u] /\ engine'[u] = engine[u]
      BY <1>1, <3>5 DEF Alone
    <3>8. Agreement(s, n) => l >= n
      <4>1. n + 1 \in 1 .. Len(log'[s]) /\ (n + 1) - 1 = n
        BY <3>3
      <4>2. Agreement(s, n)' => \A p \in Rank : Len(log'[p]) >= n
        BY <4>1 DEF LogsInv, ChainInv, Link
      <4>3. Agreement(s, n) => Agreement(s, n)'
        BY <3>3 DEF Agreement
      <4> QED BY <3>5, <3>6, <3>7, <4>2, <4>3
    <3>9. l > n => /\ log[u][n + 1].what = what /\ log[u][n + 1].left = todo[s]
      <4>1. l > n => n + 1 \in 1 .. Len(log'[s]) /\ n + 1 \in 1 .. Len(log'[u])
        BY <3>3, <3>6, <3>7
      <4> QED BY <3>4, <3>5, <3>7, <4>1, SMTT(30) DEF LogsInv, MatchInv, Same
    <3>10. l > n + 1 /\ what = "agree" => FALSE
      <4>1. ASSUME l > n + 1, what = "agree" PROVE FALSE
        <5>1. n + 2 \in 1 .. Len(log[u]) /\ (n + 2) - 1 = n + 1 /\ n + 1 > 0
          BY <3>3, <3>6, <4>1
        <5>2. Agreement(u, n + 1)
          BY <3>3, <3>9, <4>1, <5>1 DEF Agreement
        <5>3. Len(log[s]) >= n + 1
          BY <3>5, <5>1, <5>2 DEF LogsInv, ChainInv, Link
        <5> QED BY <3>2, <3>3, <5>3
      <4> QED BY <4>1
    <3>11. CASE what = "agree" /\ Head(todo[s]) = "apply" /\ Real(arg[s])
      <4>1. Agree(s)
        BY <3>1, <3>11
      <4>2. engine'[s].params = arg[s] /\ arg'[s] = arg[s]
        BY <3>11, <4>1, Applies
      <4>3. Applied(s, n + 1)'
        BY <3>3, <3>4, <3>11, <4>2 DEF Took, Real
      <4>4. l <= n + 1
        BY <3>3, <3>6, <3>10, <3>11
      <4>5. ASSUME l = n + 1 PROVE engine[u].params = arg[s]
        <5>1. log[u][n + 1].what = "agree" /\ log[u][n + 1].left = todo[s]
          BY <3>3, <3>9, <3>11, <4>5
        <5>2. arg[u] = arg[s]
          <6>1. u \in Rank /\ Len(log[u]) = n + 1 /\ Head(todo[s]) = "apply" /\ n = Len(log[s])
            BY <3>2, <3>5, <3>6, <3>11, <4>5
          <6>2. log[u][n + 1].what = "agree"
            BY <5>1
          <6> QED BY <4>1, <6>1, <6>2, SameApplied
        <5>3. Applied(u, l)
          BY <3>3, <3>11, <4>5, <5>1, <5>2 DEF Took
        <5>4. Len(log[u]) > Len(log[s]) /\ Len(log[u]) >= Len(log[s])
          BY <3>2, <3>3, <3>6, <4>5
        <5> QED BY <1>3, <3>5, <3>6, <5>2, <5>3, <5>4
      <4>6. CASE q = s /\ r = u
        <5>1. k = n + 1 /\ m = l
          BY <1>4, <3>3, <3>6, <3>7, <4>6
        <5>2. m = n + 1 \/ k > m
          BY <3>3, <3>6, <4>4, <5>1
        <5> QED BY <3>7, <4>2, <4>3, <4>5, <4>6, <5>1, <5>2
      <4>7. CASE q = u /\ r = s
        <5>1. k = l /\ m = n + 1 /\ l = n + 1
          BY <1>4, <3>3, <3>6, <3>7, <4>4, <4>7
        <5> QED BY <3>7, <4>2, <4>5, <4>7, <5>1
      <4> QED BY <3>5, <4>6, <4>7
    <3>12. CASE ~(what = "agree" /\ Head(todo[s]) = "apply" /\ Real(arg[s]))
      <4>1. engine'[s].params = engine[s].params
        <5>1. CASE what # "agree"
          BY <3>1, <5>1
        <5>2. CASE what = "agree"
          <6>1. Agree(s)
            BY <3>1, <5>2
          <6>2. PICK o \in Outcomes(s) : engine'[s] = o.e
            BY <6>1, AgreeStep
          <6>3. AnEngine(engine[s]) /\ Head(todo[s]) \in Collective
            BY <6>1, AgreeStep DEF EngineInv
          <6>4. Head(todo[s]) = "apply" => ~Real(arg[s])
            BY <3>12, <5>2
          <6>5. o.e.params = engine[s].params
            BY <6>3, <6>4, EngineOutcome
          <6> QED BY <6>2, <6>5
        <5> QED BY <5>1, <5>2
      <4>2. ~Applied(s, n + 1)'
        <5>1. CASE what # "agree"
          BY <3>4, <5>1 DEF Took
        <5>2. CASE what = "agree"
          <6>1. arg' = arg
            BY <3>1, <5>2, AgreeStep
          <6> QED BY <3>4, <3>12, <5>2, <6>1 DEF Took, Real
        <5> QED BY <5>1, <5>2
      <4>3. l = n + 1 => ~Applied(u, l)
        <5>1. ASSUME l = n + 1, Applied(u, l) PROVE FALSE
          <6>1. log[u][n + 1].what = what /\ log[u][n + 1].left = todo[s]
            BY <3>3, <3>9, <5>1
          <6>2. what = "agree" /\ Head(todo[s]) = "apply" /\ Real(arg[u])
            BY <5>1, <6>1 DEF Took
          <6>3. Agree(s)
            BY <3>1, <6>2
          <6>4. arg[u] = arg[s]
            <7>1. u \in Rank /\ Len(log[u]) = n + 1 /\ Head(todo[s]) = "apply" /\ n = Len(log[s])
              BY <3>2, <3>5, <3>6, <5>1, <6>2
            <7>2. log[u][n + 1].what = "agree"
              BY <6>1, <6>2
            <7> QED BY <6>3, <7>1, <7>2, SameApplied
          <6> QED BY <3>12, <6>2, <6>4
        <5> QED BY <5>1
      <4>4. CASE q = s /\ r = u
        <5>1. k = n + 1 /\ m = l
          BY <1>4, <3>3, <3>6, <3>7, <4>4
        <5>2. engine[s].params = engine[u].params
          <6>1. CASE l = n + 1
            <7>1. Len(log[u]) >= Len(log[s])
              BY <3>2, <3>3, <3>6, <6>1
            <7> QED BY <1>3, <3>5, <3>6, <4>3, <6>1, <7>1
          <6>2. CASE l <= n
            <7>1. ~(n > l /\ Applied(s, n))
              BY <3>3, <3>6, <3>8 DEF Took, Agreement
            <7>2. Len(log[s]) >= Len(log[u])
              BY <3>2, <3>6, <6>2
            <7> QED BY <1>3, <3>2, <3>5, <3>6, <7>1, <7>2
          <6> QED BY <1>4, <3>3, <3>6, <5>1, <6>1, <6>2
        <5> QED BY <3>7, <4>1, <4>2, <4>4, <5>1, <5>2
      <4>5. CASE q = u /\ r = s
        <5>1. k = l /\ m = n + 1 /\ l >= n + 1
          BY <1>4, <3>3, <3>6, <3>7, <4>5
        <5>2. Applied(u, l)' = Applied(u, l)
          BY <3>7 DEF Took, Real
        <5>3. Len(log[u]) > Len(log[s]) /\ Len(log[u]) >= Len(log[s])
          BY <3>2, <3>3, <3>6, <5>1
        <5>4. engine[u].params = IF Applied(u, l) THEN arg[u] ELSE engine[s].params
          BY <1>3, <3>5, <3>6, <5>3
        <5>5. l = n + 1 \/ l > n + 1
          BY <3>3, <3>6, <5>1
        <5> QED BY <3>7, <4>1, <4>3, <4>5, <5>1, <5>2, <5>4, <5>5
      <4> QED BY <3>5, <4>4, <4>5
    <3> QED BY <3>11, <3>12
  <2> QED BY <2>1, <2>2, <2>3, Entered
<1> QED BY <1>4 DEF ParamsInv

\* A force is computed for the geometry of the command line.
LEMMA ForceArg ==
  ASSUME Shape, LogsInv, OrderInv, StopInv, PayloadInv, HostInv, ~Serving, 0 \in Rank,
         NEW s \in Rank, NEW n, n = Len(log[s]), Agree(s), Head(todo[s]) = "force"
  PROVE  arg[s] = request.arg
<1>1. /\ n \in Nat /\ Left(s, n) = todo[s] /\ ~Failed(s, n) /\ todo[s] # << >>
      /\ Head(todo[s]) = todo[s][1] /\ n <= Len(log[s])
  <2>1. n \in Nat /\ Left(s, n) = todo[s] /\ ~Failed(s, n) /\ todo[s] # << >>
    BY AtPiece
  <2> QED BY <2>1, FirstPiece
<1>2. Due(s, n, "positions")
  <2> DEFINE l == Left(s, n)
  <2>1. ~Failed(s, n) /\ l # << >> /\ l[1] = "force"
    BY <1>1
  <2> QED BY <2>1, DueTo
<1>3. Was(s, n, "positions")
  BY <1>1, <1>2, Previous
<1>4. PICK a \in Nat : a = n - 1 /\ a <= Len(log[s]) /\ Due(s, a, "construct")
  BY <1>1, <1>3, Earlier
<1>5. Was(s, a, "construct")
  BY <1>4, Previous
<1>6. PICK b \in Nat : b = a - 1 /\ b <= Len(log[s]) /\ Due(s, b, "probe")
  BY <1>4, <1>5, Earlier
<1>7. Was(s, b, "probe")
  BY <1>6, Previous
<1>8. PICK c \in Nat : c <= Len(log[s]) /\ c > 0 /\ log[s][c].what = "data"
  <2>1. PICK c \in Nat : c = b - 1 /\ c <= Len(log[s]) /\ Due(s, c, "data")
    BY <1>6, <1>7, Earlier
  <2>2. Was(s, c, "data")
    BY <2>1, Previous
  <2> QED BY <2>1, <2>2 DEF Was, Collective
<1>9. c \in 1 .. Len(log[s])
  BY <1>1, <1>8
<1>10. NoCommand(s, c, Len(log[s]))
  <2>1. ASSUME NEW j \in c + 1 .. Len(log[s]) PROVE log[s][j].what # "command"
    <3>1. j \in 1 .. Len(log[s])
      BY <1>1, <1>9
    <3> QED BY <3>1 DEF StopInv
  <2> QED BY <2>1 DEF NoCommand
<1>11. arg[s] = log[s][c].value
  BY <1>8, <1>9, <1>10 DEF PayloadInv
<1>12. c <= Len(log[0]) /\ log[s][c].value = log[0][c].value
  BY <1>8, <1>9 DEF LogsInv, RootInv, Broadcasts
<1>13. c \in 1 .. Len(log[0])
  BY <1>9, <1>12, OverContent DEF Shape
<1>14. log[0][c].what = "data"
  BY <1>8, <1>9, <1>13 DEF LogsInv, MatchInv, Same
<1>15. log[0][c].value = request.arg
  BY <1>13, <1>14 DEF HostInv, Broadcasts
<1> QED BY <1>11, <1>12, <1>15

LEMMA HostStep ==
  ASSUME Shape, LogsInv, OrderInv, StopInv, PayloadInv, EngineInv, HostInv, 0 \in Rank,
         NEW s \in Rank, Moves(s)
  PROVE  HostInv'
<1>1. /\ kind' = kind /\ Alone(s) /\ Serving' = Serving
      /\ Step(s) => request' = request
  BY Frame DEF Serving
<1>2. SUFFICES ASSUME ~Serving PROVE HostInv'
  BY <1>1 DEF HostInv
<1>3. ~ReceiveCommand(s) /\ Step(s) /\ request' = request
  BY <1>1, <1>2 DEF Moves, ReceiveCommand, RefuseRequest, SendCommand, SendStop
<1>4. /\ arg[0] = request.arg
      /\ \A n \in 1 .. Len(log[0]) : log[0][n].what \in Broadcasts => log[0][n].value = request.arg
      /\ \A r \in Rank : \A n \in 1 .. Len(log[r]) : Did(r, n, "force") =>
           ran[r] = [nth |-> 1, at |-> request.arg, with |-> Default]
      /\ \A r \in Rank : pc[r] = "wait" =>
           Len(log[r]) > 0 /\ reply[r] = IF log[r][Len(log[r])].what = "error" THEN "error" ELSE "ok"
  BY <1>2 DEF HostInv
<1>5. \A r \in Rank : Len(log[r]) \in Nat
  BY OverContent DEF Shape
<1>6. arg'[0] = request.arg
  <2>1. CASE s # 0
    BY <1>1, <1>4, <2>1 DEF Alone
  <2>2. CASE s = 0
    BY <1>3, <1>4, <2>2 DEF Step, Maximum, Exit, Send, Receive, Agree, AgreeClean, TellError, HearError
  <2> QED BY <2>1, <2>2
<1>7. ASSUME NEW n \in 1 .. Len(log'[0]), log'[0][n].what \in Broadcasts
      PROVE  log'[0][n].value = request.arg
  <2>1. CASE log'[0] = log[0]
    BY <1>4, <1>7, <2>1
  <2>2. CASE log'[0] # log[0]
    <3>1. s = 0
      BY <1>1, <2>2 DEF Alone
    <3>2. PICK what, value : Post(0, what, value)
      BY <2>2, <3>1, Entered
    <3>3. /\ Len(log'[0]) = Len(log[0]) + 1
          /\ log'[0][Len(log[0]) + 1] = Entry(what, value, todo[0])
          /\ \A m \in 1 .. Len(log[0]) : log'[0][m] = log[0][m]
      BY <3>1, <3>2, Grown
    <3>4. log'[0][Len(log[0]) + 1].what = what /\ log'[0][Len(log[0]) + 1].value = value
      BY <3>3 DEF Entry
    <3>5. what \in Broadcasts => value = arg[0]
      <4>1. ASSUME what \in Broadcasts PROVE value = arg[0]
        <5>1. Send(0) \/ Receive(0)
          BY <3>1, <3>2, <4>1, WhoPosts
        <5>2. Post(0, Head(todo[0]), arg[0])
          BY <5>1 DEF Send, Receive
        <5> QED BY <3>1, <3>2, <5>2, WhoPosts
      <4> QED BY <4>1
    <3>6. n \in 1 .. Len(log[0]) \/ n = Len(log[0]) + 1
      BY <1>5, <1>7, <3>3
    <3> QED BY <1>4, <1>7, <3>3, <3>4, <3>5, <3>6
  <2> QED BY <2>1, <2>2
<1>8. ASSUME NEW r \in Rank, NEW n \in 1 .. Len(log'[r]), Did(r, n, "force")'
      PROVE  ran'[r] = [nth |-> 1, at |-> request.arg, with |-> Default]
  <2>1. CASE log'[r] = log[r] /\ ran'[r] = ran[r]
    BY <1>4, <1>8, <2>1 DEF Did, Took
  <2>2. CASE r = s /\ log' # log
    <3>1. PICK what, value :
            /\ Post(s, what, value)
            /\ \/ what = "agree" /\ Agree(s)
               \/ what # "agree" /\ ran' = ran
      BY <2>2, Entered
    <3>2. PICK m : m = Len(log[s])
      OBVIOUS
    <3>3. /\ m \in Nat /\ Len(log'[s]) = m + 1 /\ log'[s][m + 1] = Entry(what, value, todo[s])
          /\ \A j \in 1 .. m : log'[s][j] = log[s][j]
      BY <3>1, <3>2, Grown
    <3>4. /\ log'[s][m + 1].what = what /\ log'[s][m + 1].left = todo[s]
          /\ log'[s][m + 1].value = value
      BY <3>3 DEF Entry
    <3>5. n \in 1 .. m \/ n = m + 1
      BY <1>8, <2>2, <3>3
    <3>6. n \in 1 .. m => Did(s, n, "force")
      BY <1>8, <2>2, <3>3 DEF Did, Took
    <3>7. n \in 1 .. m => ran[s] = [nth |-> 1, at |-> request.arg, with |-> Default]
      BY <1>4, <3>2, <3>6
    <3>8. CASE what # "agree"
      <4>1. n \in 1 .. m
        BY <1>8, <2>2, <3>4, <3>5, <3>8 DEF Did, Took
      <4> QED BY <2>2, <3>1, <3>7, <3>8, <4>1
    <3>9. CASE what = "agree"
      <4>1. Agree(s)
        BY <3>1, <3>9
      <4>2. PICK o \in Outcomes(s) :
              ran'[s] = o.f /\ Post(s, "agree", IF o.ok THEN Size ELSE s)
        BY <4>1, AgreeStep
      <4>3. /\ todo[s] # << >> /\ Head(todo[s]) \in Collective /\ AnEngine(engine[s])
        BY <4>1, AgreeStep DEF EngineInv
      <4>4. Head(todo[s]) # "potential"
        <5>1. Mine(Head(todo[s]))
          BY <4>3, FirstPiece
        <5> QED BY <1>2, <5>1 DEF Mine
      <4>5. CASE Head(todo[s]) = "force" /\ o.ok
        <5> DEFINE e == engine[s]
        <5>1. AnEngine(e) /\ Head(todo[s]) \in Collective /\ Head(todo[s]) = "force" /\ o.ok
          BY <4>3, <4>5
        <5>2. o.f = [nth |-> 1, at |-> arg[s], with |-> Uses(e)]
          BY <4>2, <5>1, EngineOutcome
        <5>3. Uses(e) = Default
          BY <1>2 DEF Uses, Serving, EngineInv
        <5>4. arg[s] = request.arg
          BY <1>2, <3>2, <4>1, <4>5, ForceArg
        <5> QED BY <2>2, <4>2, <5>2, <5>3, <5>4
      <4>6. CASE ~(Head(todo[s]) = "force" /\ o.ok)
        <5>1. o.f = ran[s]
          <6>1. Head(todo[s]) \notin {"potential", "force"} \/ ~o.ok
            BY <4>4, <4>6
          <6> QED BY <4>2, <4>3, <6>1, EngineOutcome
        <5>2. n # m + 1
          <6>1. ASSUME n = m + 1 PROVE FALSE
            <7>1. Head(todo[s]) = "force" /\ value = Size
              BY <1>8, <2>2, <3>4, <6>1 DEF Did, Took
            <7>2. Head(todo[s]) # "force" \/ ~o.ok
              BY <4>6
            <7>3. Post(s, "agree", s)
              BY <4>2, <7>1, <7>2
            <7>4. value = s
              BY <3>1, <7>3, WhoPosts
            <7>5. s # Size
              <8>1. Size \in Nat
                BY SessionAssumption, Zenon DEF SessionAssumption
              <8> QED BY <8>1 DEF Rank
            <7> QED BY <7>1, <7>4, <7>5
          <6> QED BY <6>1
        <5> QED BY <2>2, <3>5, <3>7, <4>2, <5>1, <5>2
      <4> QED BY <4>5, <4>6
    <3> QED BY <3>8, <3>9
  <2> QED BY <1>1, <2>1, <2>2, Entered DEF Alone
<1>9. ASSUME NEW r \in Rank, pc'[r] = "wait"
      PROVE  Len(log'[r]) > 0 /\ reply'[r] = IF log'[r][Len(log'[r])].what = "error" THEN "error" ELSE "ok"
  <2>1. CASE r # s
    BY <1>1, <1>4, <1>9, <2>1 DEF Alone
  <2>2. CASE r = s
    <3>1. \A what, value : Post(s, what, value) =>
             Len(log'[s]) > 0 /\ log'[s][Len(log'[s])].what = what
      <4>1. ASSUME NEW what, NEW value, Post(s, what, value)
            PROVE  Len(log'[s]) > 0 /\ log'[s][Len(log'[s])].what = what
        <5>1. /\ Len(log'[s]) = Len(log[s]) + 1
              /\ log'[s][Len(log[s]) + 1] = Entry(what, value, todo[s])
          BY <4>1, Grown
        <5>2. log'[s][Len(log[s]) + 1].what = what
          BY <5>1 DEF Entry
        <5> QED BY <1>5, <5>1, <5>2
      <4> QED BY <4>1
    <3>2. ASSUME Advance(s), pc'[s] = "wait" PROVE reply'[s] = "ok"
      BY <3>2 DEF Advance, End, Go, Shape, EngineInv
    <3>3. CASE Send(s) \/ Receive(s)
      <4>1. PICK what, value : Post(s, what, value) /\ what \in Broadcasts
        BY <3>3 DEF Send, Receive
      <4>2. reply'[s] = "ok"
        BY <1>9, <2>2, <3>2, <3>3 DEF Send, Receive, Onward, End, EngineInv
      <4> QED BY <2>2, <3>1, <4>1, <4>2 DEF Broadcasts
    <3>4. CASE TellError(s) \/ HearError(s)
      <4>1. reply'[s] = "error" /\ \E value : Post(s, "error", value)
        BY <3>4 DEF TellError, HearError, End, EngineInv
      <4> QED BY <2>2, <3>1, <4>1
    <3>5. CASE AgreeClean(s)
      <4>1. reply'[s] = "ok" /\ log' = log /\ pc[s] = "agree"
        BY <1>9, <2>2, <3>2, <3>5 DEF AgreeClean
      <4> QED BY <2>2, <4>1 DEF LogsInv, PlaceInv
    <3>6. CASE Exit(s)
      <4>1. reply'[s] = "ok" /\ log' = log /\ pc[s] = "maximum"
        BY <3>6 DEF Exit, End, EngineInv
      <4> QED BY <2>2, <4>1 DEF LogsInv, PlaceInv
    <3>7. ~Agree(s) /\ ~Maximum(s)
      BY <1>9, <2>2 DEF Agree, Maximum, Go, Shape
    <3> QED BY <1>3, <3>3, <3>4, <3>5, <3>6, <3>7 DEF Step
  <2> QED BY <2>1, <2>2
<1> QED BY <1>3, <1>6, <1>7, <1>8, <1>9 DEF HostInv

LEMMA JointInit == Init => JointInv
<1>1. SUFFICES ASSUME Init PROVE JointInv
  OBVIOUS
<1>2. /\ log = [r \in Rank |-> << >>] /\ ran = [r \in Rank |-> [nth |-> 0]] /\ served = 0
      /\ kind \in {"CPMD", "NWChem", "force host"}
  <2>1. Kinds \subseteq {"CPMD", "NWChem", "force host"}
    BY SessionAssumption, Zenon DEF SessionAssumption
  <2> QED BY <1>1, <2>1 DEF Init
<1>3. 0 \in Rank
  <2>1. Size \in Nat \ {0}
    BY SessionAssumption, Zenon DEF SessionAssumption
  <2> QED BY <2>1 DEF Rank
<1>4. \A r \in Rank : Len(log[r]) = 0
  BY <1>2, EmptySeq
<1>5. VoteInv /\ PayloadInv
  BY <1>4 DEF VoteInv, PayloadInv
<1>6. OutcomeInv
  BY <1>4 DEF OutcomeInv, Did, Took
<1>7. \A s : AnEngine(Constructed(s)) /\ Constructed(s).params = Default
             /\ Constructed(s).session = s /\ Constructed(s).loaded = TRUE
  BY DEF AnEngine, Constructed
<1>8. CASE Serving
  <2>1. /\ engine \in [Rank -> {Constructed(s) : s \in IF kind = "CPMD" THEN {Default, NoSession}
                                                                     ELSE {NoSession}}]
        /\ pc = [r \in Rank |-> "wait"] /\ todo = [r \in Rank |-> << >>]
        /\ arg = [r \in Rank |-> "none"] /\ reply = [r \in Rank |-> "ok"]
    BY <1>1, <1>8 DEF Init, ServerInit
  <2>2. \A r \in Rank :
          /\ AnEngine(engine[r]) /\ engine[r].params = Default /\ engine[r].loaded = TRUE
          /\ kind = "CPMD" => engine[r].session \in {NoSession, Default}
    <3>1. ASSUME NEW r \in Rank
          PROVE  /\ AnEngine(engine[r]) /\ engine[r].params = Default /\ engine[r].loaded = TRUE
                 /\ kind = "CPMD" => engine[r].session \in {NoSession, Default}
      <4>1. PICK s \in {Default, NoSession} : engine[r] = Constructed(s)
        BY <2>1
      <4> QED BY <1>7, <4>1
    <3> QED BY <3>1
  <2>3. EngineInv
    BY <1>2, <1>8, <2>1, <2>2 DEF EngineInv
  <2>4. OrderInv
    BY <1>4, <2>1, OrderedNone DEF OrderInv
  <2>5. StopInv /\ RequestInv /\ HostInv
    <3>1. StopInv
      BY <1>4, <2>1 DEF StopInv
    <3>2. RequestInv
      <4>1. pc = [r \in Rank |-> "wait"] /\ served = 0
        BY <1>2, <2>1, Zenon
      <4>2. pc[0] = "wait" /\ ~(served > 0)
        BY <1>3, <4>1
      <4> QED BY <4>2 DEF RequestInv
    <3> QED BY <1>8, <3>1, <3>2 DEF HostInv
  <2>6. ParamsInv
    BY <1>4, <2>2 DEF ParamsInv
  <2> QED BY <1>5, <1>6, <2>3, <2>4, <2>5, <2>6 DEF JointInv
<1>9. CASE ~Serving
  <2>1. /\ engine = [r \in Rank |-> [Constructed(NoSession) EXCEPT !.loaded = FALSE]]
        /\ pc = [r \in Rank |-> "run"] /\ todo = [r \in Rank |-> ForceWork]
        /\ arg = [r \in Rank |-> IF r = 0 THEN request.arg ELSE "none"]
        /\ reply = [r \in Rank |-> "pending"]
    BY <1>1, <1>9 DEF Init, HostInit
  <2> DEFINE c == Constructed(NoSession)
             e == [c EXCEPT !.loaded = FALSE]
  <2>2. AnEngine(c) /\ c.params = Default
    BY <1>7
  <2> HIDE DEF c
  <2>3. AnEngine(e) /\ e.params = Default
    BY <2>2 DEF AnEngine
  <2>4. engine = [r \in Rank |-> e]
    BY <2>1 DEF c
  <2> HIDE DEF e
  <2>5. \A r \in Rank : AnEngine(engine[r]) /\ engine[r].params = Default
    BY <2>3, <2>4
  <2>6. EngineInv
    BY <1>2, <1>9, <2>1, <2>4, <2>5 DEF EngineInv, Serving
  <2>7. OrderInv
    BY <1>4, <1>9, <2>1, OrderedForce DEF OrderInv
  <2>8. StopInv /\ RequestInv /\ HostInv
    <3>1. StopInv
      BY <1>4, <2>1 DEF StopInv
    <3>2. RequestInv
      BY <1>3, <1>9, <2>1 DEF RequestInv
    <3>3. arg[0] = request.arg /\ \A r \in Rank : pc[r] # "wait"
      BY <1>3, <2>1
    <3>4. \A r \in Rank : \A n \in 1 .. Len(log[r]) : FALSE
      BY <1>4
    <3> QED BY <1>3, <3>1, <3>2, <3>3, <3>4 DEF HostInv
  <2>9. ParamsInv
    BY <1>4, <2>5 DEF ParamsInv
  <2> QED BY <1>5, <1>6, <2>6, <2>7, <2>8, <2>9 DEF JointInv
<1> QED BY <1>8, <1>9

LEMMA JointKept ==
  ASSUME JointInv, UNCHANGED vars
  PROVE  JointInv'
<1>1. /\ kind' = kind /\ engine' = engine /\ pc' = pc /\ todo' = todo /\ request' = request
      /\ arg' = arg /\ log' = log /\ ran' = ran /\ reply' = reply /\ served' = served
  BY DEF vars
<1>2. OrderInv' /\ VoteInv' /\ StopInv' /\ EngineInv'
  <2>1. OrderInv'
    <3>1. \A s : Ordered(s)' <=> Ordered(s)
      BY <1>1 DEF Ordered, Chained, Mine, Serving
    <3>2. OrderInv
      BY DEF JointInv
    <3> QED BY <1>1, <3>1, <3>2 DEF OrderInv
  <2>2. VoteInv'
    BY <1>1 DEF JointInv, VoteInv
  <2>3. StopInv'
    BY <1>1 DEF JointInv, StopInv, Serving
  <2>4. EngineInv'
    BY <1>1 DEF JointInv, EngineInv, AnEngine, Serving
  <2> QED BY <2>1, <2>2, <2>3, <2>4
<1>3. PayloadInv' /\ RequestInv'
  BY <1>1 DEF JointInv, PayloadInv, NoCommand, RequestInv, Final, Serving
<1>4. OutcomeInv'
  BY <1>1 DEF JointInv, OutcomeInv, Did, Took, Available, Abreast, NoCommand
<1>5. ParamsInv' /\ HostInv'
  <2>1. ParamsInv'
    BY <1>1 DEF JointInv, ParamsInv, Did, Took, Real, Serving
  <2>2. HostInv'
    BY <1>1 DEF JointInv, HostInv, Did, Took, Real, Serving
  <2> QED BY <2>1, <2>2
<1> QED BY <1>2, <1>3, <1>4, <1>5 DEF JointInv

LEMMA JointInvariance == Spec => [](IInv /\ JointInv)
<1>1. Size \in Nat /\ 0 \in Rank
  <2>1. Size \in Nat \ {0}
    BY SessionAssumption, Zenon DEF SessionAssumption
  <2> QED BY <2>1 DEF Rank
<1>2. ASSUME IInv, IInv', JointInv, [Next]_vars PROVE JointInv'
  <2>1. Shape /\ LogsInv /\ LogsInv'
    BY <1>2 DEF IInv
  <2>2. ASSUME NEW s \in Rank, Moves(s) PROVE JointInv'
    <3>1. /\ OrderInv /\ VoteInv /\ StopInv /\ PayloadInv /\ RequestInv
          /\ EngineInv /\ OutcomeInv /\ ParamsInv /\ HostInv
      BY <1>2 DEF JointInv
    <3>2. OrderInv' /\ VoteInv' /\ StopInv' /\ EngineInv'
      BY <1>1, <2>1, <2>2, <3>1, OrderStep, VoteStep, StopStep, EngineStep
    <3>3. PayloadInv' /\ RequestInv'
      BY <1>1, <2>1, <2>2, <3>1, PayloadStep, RequestStep
    <3>4. OutcomeInv'
      BY <1>1, <2>1, <2>2, <3>1, OutcomeStep
    <3>5. ParamsInv' /\ HostInv'
      BY <1>1, <2>1, <2>2, <3>1, ParamsStep, HostStep
    <3> QED BY <3>2, <3>3, <3>4, <3>5 DEF JointInv
  <2>3. CASE RefuseRequest \/ SendCommand \/ SendStop
    <3>1. Moves(0)
      BY <2>3 DEF Moves
    <3> QED BY <1>1, <2>2, <3>1
  <2>4. CASE \E r \in Rank : Step(r)
    BY <2>2, <2>4 DEF Moves
  <2>5. CASE UNCHANGED vars
    BY <1>2, <2>5, JointKept
  <2> QED BY <1>2, <2>3, <2>4, <2>5 DEF Next
<1> QED BY <1>2, LogsInvariance, JointInit, PTL DEF Spec

\* The last piece of a request comes after the last of its payload.
LEMMA FinalPayload ==
  ASSUME Shape, LogsInv, OrderInv, StopInv, NEW r \in Rank, NEW n, n = Len(log[r]),
         NEW y \in {"apply", "potential"}, Took(r, n, y)
  PROVE  LET k == IF y = "apply" THEN n - 1 ELSE n - 2 IN
         k \in 1 .. n /\ log[r][k].what = "data" /\ NoCommand(r, k, n)
<1>1. n \in Nat /\ n \in 1 .. Len(log[r]) /\ log[r][n].what = "agree" /\ Head(log[r][n].left) = y
  BY OverContent DEF Shape, Took
<1> DEFINE e == log[r][n]
           l == Left(r, n - 1)
<1>2. /\ e = Entry(e.what, e.value, l)
      /\ e.what = IF Failed(r, n - 1) THEN "error" ELSE Named(l)
  BY <1>1 DEF LogsInv, ChainInv, Link
<1>3. e.left = l
  <2> HIDE DEF e, l
  <2>1. e.left = l
    BY <1>2 DEF Entry
  <2> QED BY <2>1
<1>4. ~Failed(r, n - 1) /\ l # << >>
  BY <1>1, <1>2 DEF Named
<1>5. Ordered(l)
  <2>1. Ordered(e.left)
    BY <1>1 DEF OrderInv
  <2> QED BY <1>3, <2>1
<1>6. l[1] = y
  <2>1. Head(l) = y
    BY <1>1, <1>3
  <2> HIDE DEF l
  <2>2. Head(l) = l[1]
    BY <1>4, <1>5, HeadTailProperties DEF Ordered, Chained
  <2> QED BY <2>1, <2>2
<1>7. n - 1 \in Nat /\ n - 1 <= Len(log[r])
  BY <1>1
<1>8. PICK m \in Nat : m = n - 1 /\ m <= Len(log[r])
  BY <1>7
<1> DEFINE u == Left(r, m)
<1>9. ~Failed(r, m) /\ u # << >> /\ u[1] = y
  BY <1>4, <1>6, <1>8
<1>10. CASE y = "apply"
  <2>1. Due(r, m, "data")
    BY <1>9, <1>10, DueTo
  <2>2. Was(r, m, "data")
    BY <1>8, <2>1, Previous
  <2>3. m > 0 /\ log[r][m].what = "data"
    BY <2>2 DEF Was, Collective
  <2>4. \A j \in m + 1 .. n : j = n
    BY <1>1, <1>8
  <2>5. NoCommand(r, m, n)
    BY <1>1, <2>4 DEF NoCommand
  <2> QED BY <1>1, <1>8, <1>10, <2>3, <2>5
<1>11. CASE y = "potential"
  <2>1. Due(r, m, "validate")
    BY <1>9, <1>11, DueTo
  <2>2. Was(r, m, "validate")
    BY <1>8, <2>1, Previous
  <2>3. PICK k \in Nat : k = m - 1 /\ k <= Len(log[r]) /\ Due(r, k, "data")
    BY <1>8, <2>2, Earlier
  <2>4. Was(r, k, "data")
    BY <2>3, Previous
  <2>5. k > 0 /\ log[r][k].what = "data" /\ log[r][m].what = "agree"
    BY <2>2, <2>4 DEF Was, Collective
  <2>6. \A j \in k + 1 .. n : j = m \/ j = n
    BY <1>1, <1>8, <2>3
  <2>7. NoCommand(r, k, n)
    BY <1>1, <2>5, <2>6 DEF NoCommand
  <2>8. (IF y = "apply" THEN n - 1 ELSE n - 2) = k /\ k \in 1 .. n
    BY <1>1, <1>8, <1>11, <2>3, <2>5
  <2> QED BY <2>5, <2>7, <2>8
<1> QED BY <1>10, <1>11

\* Ranks that are done with the same request are in the same place, and nothing
\* failed in the last agreement.
LEMMA Together ==
  ASSUME Shape, LogsInv, NEW q \in Rank, NEW n, n = Len(log[q]), pc[q] = "wait",
         NEW r \in Rank, Len(log[r]) > n
  PROVE  log[r][n + 1].what = "command" /\ n + 1 <= Len(log[0])
<1>1. n \in Nat /\ Len(log[r]) \in Nat
  BY OverContent DEF Shape
<1>2. Left(q, n) = << >> /\ ~Failed(q, n)
  BY BeforePost
<1>3. Left(r, n) = << >> /\ ~Failed(r, n)
  <2>1. n <= Len(log[q]) /\ n <= Len(log[r])
    BY <1>1
  <2> QED BY <1>1, <1>2, <2>1, SameNext
<1>4. n + 1 <= Len(log[r])
  BY <1>1
<1> QED BY <1>1, <1>3, <1>4, AfterEnd

\* What the client of a server is told.
LEMMA ServerSucceeds ==
  ASSUME IInv, JointInv, Size \in Nat, 0 \in Rank, Serving,
         pc[0] = "wait", reply[0] = "ok", served > 0, NEW r \in Rank
  PROVE  IF request.op = "calculate"
         THEN /\ ran[r] = [nth |-> served, at |-> request.arg, with |-> engine[0].params]
              /\ engine[r].params = engine[0].params
         ELSE request.arg \in Params =>
                engine[r].params = request.arg /\ Available(engine[r])
<1> USE DEF IInv, JointInv
<1>1. PICK n \in Nat : n = Len(log[0])
  BY OverContent DEF Shape
<1>2. arg[0] = request.arg /\ Took(0, n, Final)
  BY <1>1 DEF RequestInv, Took
<1>3. n > 0 /\ Agreement(0, n) /\ ~Failed(0, n) /\ \A q \in Rank : Len(log[q]) >= n
  <2>1. n > 0 /\ Agreement(0, n)
    BY <1>2 DEF Took, Agreement
  <2> QED BY <1>1, <2>1, BeforePost
<1>4. Len(log[r]) = n
  <2>1. Len(log[r]) > n => n + 1 <= n
    BY <1>1, Together
  <2>2. Len(log[r]) \in Nat /\ Len(log[r]) >= n
    BY <1>3, OverContent DEF Shape
  <2> QED BY <2>1, <2>2
<1>5. log[r][n].what = "agree" /\ log[r][n].value = Size
  BY <1>1, <1>3, AllSucceeded
<1>6. Did(r, n, Final)
  <2>1. n \in 1 .. Len(log[r]) /\ n \in 1 .. Len(log[0])
    BY <1>1, <1>3, <1>4
  <2>2. log[r][n].left = log[0][n].left
    BY <2>1 DEF LogsInv, MatchInv, Same
  <2> QED BY <1>2, <1>5, <2>2 DEF Did, Took
<1>7. Abreast(r)
  <2>1. \A j \in n + 1 .. n : FALSE
    BY <1>1
  <2> QED BY <1>1, <1>4, <2>1 DEF Abreast, NoCommand
<1>8. engine[r].params = engine[0].params
  <2>1. Len(log[r]) >= Len(log[0]) /\ ~(Len(log[r]) > Len(log[0]))
    BY <1>1, <1>4
  <2> QED BY <2>1 DEF ParamsInv
<1>9. arg[r] = request.arg
  <2>1. Final \in {"apply", "potential"} /\ Took(r, n, Final)
    BY <1>6 DEF Final, Did
  <2> DEFINE k == IF Final = "apply" THEN n - 1 ELSE n - 2
  <2>2. k \in 1 .. n /\ log[r][k].what = "data" /\ NoCommand(r, k, n)
    BY <1>4, <2>1, FinalPayload
  <2>3. log[0][k].what = "data" /\ NoCommand(0, k, n)
    BY <1>1, <1>2, <2>1, FinalPayload
  <2> HIDE DEF k
  <2>4. arg[r] = log[r][k].value
    BY <1>4, <2>2 DEF PayloadInv
  <2>5. arg[0] = log[0][k].value
    BY <1>1, <2>2, <2>3 DEF PayloadInv
  <2>6. log[r][k].value = log[0][k].value
    BY <1>4, <2>2 DEF LogsInv, RootInv, Broadcasts
  <2> QED BY <1>2, <2>4, <2>5, <2>6
<1>10. CASE request.op = "calculate"
  <2>1. Did(r, n, "potential") /\ reply[0] # "error"
    BY <1>6, <1>10 DEF Final
  <2>2. ran[r] = [nth |-> served, at |-> arg[r], with |-> engine[r].params]
    BY <1>4, <1>7, <2>1 DEF OutcomeInv
  <2> QED BY <1>8, <1>9, <1>10, <2>2
<1>11. CASE request.op # "calculate"
  <2>1. Did(r, n, "apply")
    BY <1>6, <1>11 DEF Final
  <2>2. arg[r] \in Params => engine[r].params = arg[r] /\ Available(engine[r])
    BY <1>4, <2>1 DEF OutcomeInv
  <2> QED BY <1>9, <1>11, <2>2
<1> QED BY <1>10, <1>11

\* A force host ends with its last reduction, or with help.
LEMMA HostEnds ==
  ASSUME IInv, JointInv, ~Serving, 0 \in Rank, NEW q \in Rank, NEW n, n = Len(log[q]),
         pc[q] = "wait", reply[q] = "ok", request.arg # "help"
  PROVE  n \in Nat /\ n - 1 \in Nat /\ Took(q, n - 1, "force") /\ ~Failed(q, n - 1)
<1> USE DEF IInv, JointInv
<1>1. n \in Nat /\ n > 0 /\ log[q][n].what # "error"
  <2>1. n \in Nat
    BY OverContent DEF Shape
  <2> QED BY <2>1 DEF HostInv
<1>2. Left(q, n) = << >> /\ ~Failed(q, n)
  BY BeforePost
<1>3. n \in 1 .. Len(log[q]) /\ n # 0
  BY <1>1
<1>4. PICK m \in Nat : m = n - 1 /\ m <= Len(log[q])
  <2>1. n - 1 \in Nat /\ n - 1 <= Len(log[q])
    BY <1>1
  <2> QED BY <2>1
<1> DEFINE e == log[q][n]
           l == Left(q, m)
<1>5. /\ e = Entry(e.what, e.value, l)
      /\ e.what = IF Failed(q, m) THEN "error" ELSE Named(l)
  BY <1>3, <1>4 DEF LogsInv, ChainInv, Link
<1>6. e.left = l
  <2> HIDE DEF e, l
  <2>1. e.left = l
    BY <1>5 DEF Entry
  <2> QED BY <2>1
<1>7. Ordered(l)
  <2>1. Ordered(e.left)
    BY <1>3 DEF OrderInv
  <2> QED BY <1>6, <2>1
<1>8. ~Failed(q, m) /\ e.what = Named(l) /\ e.what # "command"
  BY <1>1, <1>3, <1>5 DEF StopInv
<1>9. l # << >>
  BY <1>8 DEF Named
<1>10. ~(e.what = "help" /\ e.value = "help")
  <2>1. ASSUME e.what = "help" PROVE e.value = request.arg
    <3>1. n <= Len(log[0]) /\ e.value = log[0][n].value
      BY <1>3, <2>1 DEF LogsInv, RootInv, Broadcasts
    <3>2. n \in 1 .. Len(log[0])
      BY <1>1, <3>1, OverContent DEF Shape
    <3>3. log[0][n].what = "help"
      BY <1>3, <2>1, <3>2 DEF LogsInv, MatchInv, Same
    <3> QED BY <3>1, <3>2, <3>3 DEF HostInv, Broadcasts
  <2> QED BY <2>1
<1>11. l \in Seq(Piece) /\ l[Len(l)] = "maximum" /\ Head(l) = l[1]
  <2> HIDE DEF l
  <2>1. l \in Seq(Piece) /\ l[Len(l)] = "maximum"
    BY <1>7, <1>9 DEF Ordered, Chained
  <2> QED BY <1>9, <2>1, HeadTailProperties
<1>12. l[1] = "maximum"
  <2>1. CASE e.what = "maximum"
    <3> HIDE DEF l
    <3>1. Head(l) = "maximum"
      BY <1>8, <1>9, <2>1 DEF Named
    <3> QED BY <1>11, <3>1
  <2>2. CASE e.what # "maximum"
    <3>1. Left(q, n) = Tail(e.left)
      BY <1>1, <1>2, <1>3, <1>8, <1>10, <2>2 DEF Left
    <3>2. Tail(l) = << >>
      BY <1>2, <1>6, <3>1
    <3> HIDE DEF l
    <3>3. Len(l) = 1
      BY <1>9, <1>11, <3>2, TailPieces
    <3> QED BY <1>11, <3>3
  <2> QED BY <2>1, <2>2
<1>13. Was(q, m, "force")
  <2>1. ~Failed(q, m) /\ l # << >> /\ l[1] = "maximum"
    BY <1>8, <1>9, <1>12
  <2>2. Due(q, m, "force")
    BY <2>1, DueTo
  <2> QED BY <1>4, <2>2, Previous
<1>14. Took(q, m, "force")
  BY <1>13 DEF Was, Took, Collective
<1> QED BY <1>1, <1>4, <1>8, <1>14

\* What the force host's exit codes say.
LEMMA HostSucceeds ==
  ASSUME IInv, JointInv, Size \in Nat, 0 \in Rank, ~Serving, NEW q \in Rank, NEW r \in Rank,
         pc[q] = "wait", reply[q] = "ok"
  PROVE  /\ pc[r] = "wait" => reply[r] = "ok"
         /\ request.arg # "help" => ran[r] = [nth |-> 1, at |-> request.arg, with |-> Default]
<1> USE DEF IInv, JointInv
<1>1. PICK n \in Nat : n = Len(log[q])
  BY OverContent DEF Shape
<1>2. PICK m \in Nat : m = Len(log[r])
  BY OverContent DEF Shape
<1>3. n > 0 /\ log[q][n].what # "error"
  BY <1>1 DEF HostInv
<1>4. ASSUME pc[r] = "wait" PROVE reply[r] = "ok"
  <2>1. \A p \in Rank : \A k \in 1 .. Len(log[p]) : log[p][k].what # "command"
    BY DEF StopInv
  <2>2. ~(m > n)
    <3>1. ASSUME m > n PROVE FALSE
      <4>1. n + 1 \in 1 .. Len(log[r])
        BY <1>1, <1>2, <3>1
      <4>2. log[r][n + 1].what = "command"
        BY <1>1, <1>2, <3>1, Together
      <4> QED BY <2>1, <4>1, <4>2
    <3> QED BY <3>1
  <2>3. ~(n > m)
    <3>1. ASSUME n > m PROVE FALSE
      <4>1. m + 1 \in 1 .. Len(log[q])
        BY <1>1, <1>2, <3>1
      <4>2. log[q][m + 1].what = "command"
        BY <1>1, <1>2, <1>4, <3>1, Together
      <4> QED BY <2>1, <4>1, <4>2
    <3> QED BY <3>1
  <2>4. n = m /\ n \in 1 .. Len(log[q]) /\ n \in 1 .. Len(log[r])
    BY <1>1, <1>2, <1>3, <2>2, <2>3
  <2>5. log[r][n].what # "error"
    BY <1>3, <2>4 DEF LogsInv, MatchInv, Same
  <2> QED BY <1>2, <1>4, <2>4, <2>5 DEF HostInv
<1>5. ASSUME request.arg # "help"
      PROVE  ran[r] = [nth |-> 1, at |-> request.arg, with |-> Default]
  <2>1. PICK k \in Nat : k = n - 1 /\ Took(q, k, "force") /\ ~Failed(q, k)
    BY <1>1, <1>5, HostEnds
  <2>2. k > 0 /\ Agreement(q, k)
    BY <2>1 DEF Took, Agreement
  <2>3. \A p \in Rank : Len(log[p]) >= k
    <3>1. n \in 1 .. Len(log[q])
      BY <1>1, <1>3
    <3> QED BY <2>1, <2>2, <3>1 DEF LogsInv, ChainInv, Link
  <2>4. log[r][k].what = "agree" /\ log[r][k].value = Size
    BY <2>1, <2>2, <2>3, AllSucceeded
  <2>5. k \in 1 .. Len(log[r]) /\ k \in 1 .. Len(log[q])
    BY <1>1, <1>2, <2>1, <2>2, <2>3
  <2>6. log[r][k].left = log[q][k].left
    BY <2>5 DEF LogsInv, MatchInv, Same
  <2>7. Did(r, k, "force")
    BY <2>1, <2>2, <2>4, <2>6 DEF Did, Took
  <2> QED BY <2>5, <2>7 DEF HostInv
<1> QED BY <1>4, <1>5

\* The client is told of success only if every rank did the same, whoever failed
\* before and however far the ranks are apart: engines that reload, keep a session
\* or refuse parameters hold the same ones on every rank when the root answers
\* "ok", and every rank's last force was for this request (MpiHost.hpp:54-80,
\* CPMDPot.cc:405-420, server.cpp:154-188, nwchem_mpi_force_host.cc:5-9).
THEOREM SuccessIsJointHolds == Spec => []SuccessIsJoint
<1>1. Size \in Nat /\ 0 \in Rank
  <2>1. Size \in Nat \ {0}
    BY SessionAssumption, Zenon DEF SessionAssumption
  <2> QED BY <2>1 DEF Rank
<1>2. ASSUME IInv, JointInv PROVE SuccessIsJoint
  <2>1. CASE Serving
    <3>1. ASSUME AtWait(0), reply[0] = "ok", served > 0, NEW r \in Rank
          PROVE  IF request.op = "calculate"
                 THEN /\ ran[r] = [nth |-> served, at |-> request.arg, with |-> engine[0].params]
                      /\ engine[r].params = engine[0].params
                 ELSE request.arg \in Params =>
                        engine[r].params = request.arg /\ Available(engine[r])
      <4>1. pc[0] = "wait"
        BY <3>1 DEF AtWait
      <4> QED BY <1>1, <1>2, <2>1, <3>1, <4>1, ServerSucceeds
    <3> QED BY <2>1, <3>1 DEF SuccessIsJoint
  <2>2. CASE ~Serving
    <3>1. ASSUME NEW q \in Rank, NEW r \in Rank, AtWait(q), reply[q] = "ok"
          PROVE  /\ AtWait(r) => reply[r] = "ok"
                 /\ request.arg # "help" =>
                      ran[r] = [nth |-> 1, at |-> request.arg, with |-> Default]
      <4>1. pc[q] = "wait"
        BY <3>1 DEF AtWait
      <4> QED BY <1>1, <1>2, <2>2, <3>1, <4>1, HostSucceeds DEF AtWait
    <3> QED BY <2>2, <3>1 DEF SuccessIsJoint
  <2> QED BY <2>1, <2>2
<1> QED BY <1>2, JointInvariance, PTL


-----------------------------------------------------------------------------
(* No rank waits for ever.  Nobody is behind the rank with the shortest    *)
(* log, so only a root or a rank that failed first can keep it waiting;    *)
(* that one is then at the same place, and can go on itself.               *)

\* A stopped rank has heard that the server ends, and nothing since.
StoppedInv ==
  \A r \in Rank : pc[r] = "stopped" =>
    LET n == Len(log[r]) IN n > 0 /\ log[r][n].what = "command" /\ log[r][n].value.op = "stop"

LEMMA StoppedStep ==
  ASSUME Shape, EngineInv, StoppedInv, NEW s \in Rank, Moves(s)
  PROVE  StoppedInv'
<1>1. Alone(s)
  BY Frame
<1>2. ASSUME NEW value, Post(s, "command", value), value.op = "stop"
      PROVE  Len(log'[s]) > 0 /\ LET e == log'[s][Len(log'[s])] IN
                                 e.what = "command" /\ e.value.op = "stop"
  <2>1. /\ Len(log'[s]) = Len(log[s]) + 1 /\ Len(log[s]) \in Nat
        /\ log'[s][Len(log[s]) + 1] = Entry("command", value, todo[s])
    BY <1>2, Grown
  <2> QED BY <1>2, <2>1 DEF Entry
<1>3. ASSUME pc'[s] = "stopped"
      PROVE  \E value : Post(s, "command", value) /\ value.op = "stop"
  <2>1. CASE SendStop
    <3>1. Post(0, "command", [op |-> "stop"]) /\ pc' = [pc EXCEPT ![0] = "stopped"]
      BY <2>1 DEF SendStop, Go
    <3>2. 0 = s
      BY <1>3, <2>1, <3>1 DEF Moves, Step, Shape, SendStop, AtWait, Maximum, Exit, Send,
         ReceiveCommand, Receive, Agree, AgreeClean, TellError, HearError
    <3> QED BY <3>1, <3>2
  <2>2. CASE ReceiveCommand(s)
    BY <1>3, <2>2 DEF ReceiveCommand, Go, Shape
  <2>3. CASE (s = 0 /\ (RefuseRequest \/ SendCommand)) \/ Maximum(s) \/ Exit(s) \/ Send(s)
             \/ Receive(s) \/ Agree(s) \/ AgreeClean(s) \/ TellError(s) \/ HearError(s)
    BY <1>3, <2>3 DEF RefuseRequest, SendCommand, AtWait, Maximum, Exit, Send, Receive, Agree,
       AgreeClean, TellError, HearError, Onward, Advance, End, Go, Shape
  <2> QED BY <2>1, <2>2, <2>3 DEF Moves, Step
<1> QED BY <1>1, <1>2, <1>3 DEF StoppedInv, Alone

LEMMA StoppedInvariance == Spec => [](IInv /\ JointInv /\ StoppedInv)
<1>1. Init => StoppedInv
  BY DEF Init, ServerInit, HostInit, StoppedInv
<1>2. 0 \in Rank
  <2>1. Size \in Nat \ {0}
    BY SessionAssumption, Zenon DEF SessionAssumption
  <2> QED BY <2>1 DEF Rank
<1>3. ASSUME IInv, JointInv, StoppedInv, [Next]_vars PROVE StoppedInv'
  <2>1. ASSUME NEW s \in Rank, Moves(s) PROVE StoppedInv'
    BY <1>3, <2>1, StoppedStep DEF IInv, JointInv
  <2>2. CASE RefuseRequest \/ SendCommand \/ SendStop
    <3>1. Moves(0)
      BY <2>2 DEF Moves
    <3> QED BY <1>2, <2>1, <3>1
  <2>3. CASE \E r \in Rank : Step(r)
    BY <2>1, <2>3 DEF Moves
  <2>4. CASE UNCHANGED vars
    BY <1>3, <2>4 DEF StoppedInv, vars
  <2> QED BY <1>3, <2>2, <2>3, <2>4 DEF Next
<1> QED BY <1>1, <1>3, JointInvariance, PTL DEF Spec

\* Parameters can be taken, whatever an engine holds.
LEMMA MayApply == \A e, p : \E x \in SetParams(e, p) : x[2] = TRUE
<1> SUFFICES ASSUME NEW e, NEW p PROVE \E x \in SetParams(e, p) : x[2] = TRUE
  OBVIOUS
<1>1. CASE kind = "CPMD"
  <2> DEFINE reload == ~e.loaded \/ PathOf[p] # e.path
             e1 == [loaded |-> TRUE, path |-> PathOf[p], params |-> p,
                    session |-> IF reload THEN NoSession ELSE e.session]
             x == IF e1.session = p THEN <<e1, TRUE>> ELSE <<[e1 EXCEPT !.session = p], TRUE>>
  <2>1. x \in CpmdSetParams(e, p)
    BY Zenon DEF CpmdSetParams
  <2>2. x[2] = TRUE
    OBVIOUS
  <2> HIDE DEF x
  <2> QED BY <1>1, <2>1, <2>2 DEF SetParams
<1>2. CASE kind # "CPMD"
  <2> DEFINE x == <<[e EXCEPT !.path = PathOf[p], !.params = p], TRUE>>
  <2>1. x \in NwchemSetParams(e, p) /\ x[2] = TRUE
    BY DEF NwchemSetParams
  <2> HIDE DEF x
  <2> QED BY <1>2, <2>1 DEF SetParams
<1> QED BY <1>1, <1>2

\* A function under collective can always return or throw, whatever has failed before.
LEMMA ReturnsOrThrows ==
  ASSUME NEW r, Head(todo[r]) \in Collective
  PROVE  \E o \in Outcomes(r) : o.fault = FALSE
<1> DEFINE e == engine[r]
           piece == Head(todo[r])
           quiet == [e |-> e, f |-> ran[r], ok |-> TRUE, fault |-> FALSE]
           threw == [quiet EXCEPT !.ok = FALSE]
<1>1. quiet.fault = FALSE /\ threw.fault = FALSE
  OBVIOUS
<1>2. CASE piece \in {"allocate", "arguments", "construct", "positions", "validate"}
  <2>1. quiet \in Outcomes(r) \/ threw \in Outcomes(r)
    BY <1>2, Zenon DEF Outcomes
  <2> QED BY <1>1, <2>1
<1>3. CASE piece = "potential"
  <2> DEFINE g == [quiet EXCEPT !.f = [nth |-> served, at |-> arg[r], with |-> Uses(e)]]
  <2>1. g \in Outcomes(r) /\ g.fault = FALSE
    BY <1>3, Zenon DEF Outcomes
  <2> QED BY <2>1
<1>4. CASE piece = "force"
  <2> DEFINE g == [quiet EXCEPT !.f = [nth |-> 1, at |-> arg[r], with |-> Uses(e)]]
  <2>1. g \in Outcomes(r) /\ g.fault = FALSE
    BY <1>4, Zenon DEF Outcomes
  <2> QED BY <2>1
<1>5. CASE piece = "probe"
  <2> DEFINE g == [quiet EXCEPT !.e.loaded = TRUE]
  <2>1. g \in Outcomes(r) /\ g.fault = FALSE
    BY <1>5, Zenon DEF Outcomes
  <2> QED BY <2>1
<1>6. CASE piece = "apply"
  <2>1. CASE arg[r] \in {"none", "other"}
    <3>1. quiet \in Outcomes(r) \/ threw \in Outcomes(r)
      BY <1>6, <2>1, Zenon DEF Outcomes
    <3> QED BY <1>1, <3>1
  <2>2. CASE arg[r] \notin {"none", "other"}
    <3>1. PICK x \in SetParams(e, arg[r]) : x[2] = TRUE
      BY MayApply
    <3> DEFINE g == [quiet EXCEPT !.e = x[1], !.ok = x[2], !.fault = ~x[2]]
    <3>2. g \in Outcomes(r)
      BY <1>6, <2>2, Zenon DEF Outcomes
    <3>3. g.fault = FALSE
      BY <3>1
    <3> QED BY <3>2, <3>3
  <2> QED BY <2>1, <2>2
<1> QED BY <1>2, <1>3, <1>4, <1>5, <1>6 DEF Collective

\* Whoever failed first in an agreement is a rank.
LEMMA FirstIsRank ==
  ASSUME Shape, LogsInv, VoteInv, Size \in Nat, NEW r \in Rank, NEW n \in Nat,
         Agreement(r, n), \A q \in Rank : Len(log[q]) >= n
  PROVE  FailedAt(n) = Size \/ FailedAt(n) \in Rank
<1>1. n \in Nat \ {0} /\ \A q \in Rank : n \in 1 .. Len(log[q])
  BY OverContent DEF Shape, Agreement
<1>2. \A q \in Rank : log[q][n].what = "agree"
  BY <1>1 DEF LogsInv, MatchInv, Same, Agreement
<1> DEFINE said == {log[q][n].value : q \in Rank}
<1>3. said \in SUBSET (0 .. Size) /\ log[r][n].value \in said
  BY <1>1, <1>2 DEF VoteInv
<1>4. FailedAt(n) = CHOOSE m \in said : \A k \in said : m <= k
  BY DEF FailedAt
<1> HIDE DEF said
<1>5. \E m \in said : \A k \in said : m <= k
  <2>1. said \in SUBSET Nat /\ said # {}
    BY <1>3
  <2> QED BY <2>1, Smallest
<1>6. FailedAt(n) \in said
  BY <1>4, <1>5
<1>7. FailedAt(n) \in 0 .. Size
  BY <1>3, <1>6
<1> QED BY <1>7 DEF Rank

\* A rank that nobody is behind leaves an agreement without failures, or tells its own.
LEMMA LeavesAgreement ==
  ASSUME IInv, JointInv, Size \in Nat, NEW r \in Rank, pc[r] = "agree",
         NEW n, n = Len(log[r]), \A q \in Rank : Len(log[q]) >= n,
         FailedAt(n) \in {Size, r}
  PROVE  CanStep(r)
<1>1. Met(r)
  BY DEF Met
<1>2. FirstFailed(r) = FailedAt(n)
  BY <1>1, AtAgreement DEF IInv
<1> QED BY <1>1, <1>2 DEF CanStep

\* Ranks that entered the same collectives, of which one is not in an agreement that failed.
LEMMA AtSamePlace ==
  ASSUME IInv, JointInv, StoppedInv, Size \in Nat, 0 \in Rank,
         NEW n \in Nat, \A q \in Rank : Len(log[q]) >= n,
         NEW r \in Rank, Len(log[r]) = n, ~Failed(r, n), ~CanStep(r),
         pc[r] # "stopped"
  PROVE  pc[r] \in {"run", "wait"} /\ todo[r] = Left(r, n)
<1>1. pc[r] # "agree"
  <2>1. SUFFICES ASSUME pc[r] = "agree" PROVE FALSE
    OBVIOUS
  <2>2. Met(r)
    BY DEF Met
  <2>3. Agreement(r, n)
    BY <2>1, <2>2, AtAgreement DEF IInv
  <2>4. FailedAt(n) = Size
    BY <2>3 DEF Failed
  <2> QED BY <2>1, <2>4, LeavesAgreement
<1>2. pc[r] # "maximum"
  BY DEF CanStep, Met
<1>3. pc[r] \in {"run", "wait"}
  BY <1>1, <1>2 DEF IInv, Shape
<1> QED BY <1>3 DEF IInv, LogsInv, PlaceInv


\* A rank at a broadcast hears the root, or the root can go on.
LEMMA AtBroadcast ==
  ASSUME IInv, JointInv, StoppedInv, Size \in Nat, 0 \in Rank,
         NEW n \in Nat, \A q \in Rank : Len(log[q]) >= n,
         NEW p \in Rank, Len(log[p]) = n, pc[p] = "run", Head(todo[p]) \in Broadcasts,
         \A r \in Rank : ~CanStep(r)
  PROVE  FALSE
<1>1. p # 0 /\ ~Heard(p, 0) /\ ~CanStep(0)
  BY DEF CanStep
<1>2. Len(log[0]) = n
  <2>1. Len(log[0]) \in Nat /\ Len(log[0]) >= n /\ ~(Len(log[0]) > n)
    BY <1>1, OverContent DEF IInv, Shape, Heard
  <2> QED BY <2>1
<1>3. todo[p] # << >> /\ todo[p] = Left(p, n) /\ ~Failed(p, n)
  BY BeforePost DEF IInv
<1>4. Left(0, n) = Left(p, n) /\ ~Failed(0, n)
  <2>1. n <= Len(log[0]) /\ n <= Len(log[p])
    BY <1>2
  <2> QED BY <1>3, <2>1, SameNext DEF IInv
<1>5. pc[0] # "stopped"
  <2>1. SUFFICES ASSUME pc[0] = "stopped" PROVE FALSE
    OBVIOUS
  <2>2. n > 0 /\ log[0][n].what = "command" /\ log[0][n].value.op = "stop"
    BY <1>2, <2>1 DEF StoppedInv
  <2>3. Left(0, n) = << >>
    BY <2>2 DEF Left
  <2> QED BY <1>3, <1>4, <2>3
<1>6. pc[0] \in {"run", "wait"} /\ todo[0] = Left(0, n)
  BY <1>1, <1>2, <1>4, <1>5, AtSamePlace
<1>7. CASE pc[0] = "run"
  BY <1>1, <1>3, <1>4, <1>6, <1>7 DEF CanStep
<1>8. CASE pc[0] = "wait"
  BY <1>3, <1>4, <1>6, <1>8 DEF IInv, LogsInv, PlaceInv
<1> QED BY <1>6, <1>7, <1>8

\* A rank in an agreement leaves it, or hears of the error, or the first that failed
\* can tell it.
LEMMA AtAgree ==
  ASSUME IInv, JointInv, StoppedInv, Size \in Nat, 0 \in Rank,
         NEW n \in Nat, \A q \in Rank : Len(log[q]) >= n,
         NEW p \in Rank, Len(log[p]) = n, pc[p] = "agree",
         \A r \in Rank : ~CanStep(r)
  PROVE  FALSE
<1>1. Met(p)
  BY DEF Met
<1>2. Agreement(p, n) /\ FirstFailed(p) = FailedAt(n)
  BY <1>1, AtAgreement DEF IInv
<1>3. FailedAt(n) \notin {Size, p}
  BY LeavesAgreement
<1>4. PICK f \in Rank : f = FailedAt(n)
  BY <1>2, <1>3, FirstIsRank DEF IInv, JointInv
<1>5. ~Heard(p, f)
  BY <1>1, <1>2, <1>4 DEF CanStep
<1>6. Len(log[f]) = n
  <2>1. Len(log[f]) \in Nat /\ Len(log[f]) >= n /\ ~(Len(log[f]) > n)
    BY <1>5, OverContent DEF IInv, Shape, Heard
  <2> QED BY <2>1
<1>7. Agreement(f, n) /\ Failed(f, n)
  <2>1. n <= Len(log[f]) /\ n <= Len(log[p])
    BY <1>6
  <2>2. Agreement(f, n)
    BY <1>2, <2>1, SameNext DEF IInv
  <2> QED BY <1>3, <2>2 DEF Failed
<1>8. pc[f] = "agree"
  <2>1. pc[f] \notin {"run", "wait"}
    BY <1>6, <1>7 DEF IInv, LogsInv, PlaceInv
  <2>2. pc[f] # "stopped"
    BY <1>6, <1>7 DEF StoppedInv, Agreement
  <2>3. pc[f] # "maximum"
    BY <1>6, <1>7 DEF IInv, LogsInv, PlaceInv, Agreement
  <2> QED BY <2>1, <2>2, <2>3 DEF IInv, Shape
<1> QED BY <1>4, <1>6, <1>8, LeavesAgreement

\* When a rank waits that nobody is behind, all wait.
LEMMA AtWaiting ==
  ASSUME IInv, JointInv, StoppedInv, Size \in Nat, 0 \in Rank,
         NEW n \in Nat, \A q \in Rank : Len(log[q]) >= n,
         NEW p \in Rank, Len(log[p]) = n, pc[p] = "wait",
         \A r \in Rank : ~CanStep(r), NEW r \in Rank
  PROVE  pc[r] = "wait" /\ Len(log[r]) = n
<1>1. Left(p, n) = << >> /\ ~Failed(p, n)
  BY BeforePost DEF IInv
<1>2. Len(log[r]) = n
  <2>1. Len(log[r]) \in Nat /\ Len(log[r]) >= n
    BY OverContent DEF IInv, Shape
  <2>2. ASSUME Len(log[r]) > n PROVE FALSE
    <3>1. log[r][n + 1].what = "command" /\ n + 1 <= Len(log[0])
      BY <2>2, Together DEF IInv
    <3>2. n + 1 \in 1 .. Len(log[r]) /\ Len(log[0]) \in Nat
      BY <2>1, <2>2, OverContent DEF IInv, Shape
    <3>3. Serving
      BY <3>1, <3>2 DEF JointInv, StopInv
    <3>4. Len(log[0]) > n /\ p # 0
      BY <3>1, <3>2
    <3> QED BY <3>3, <3>4 DEF CanStep, AtWait, Heard
  <2> QED BY <2>1, <2>2
<1>3. Left(r, n) = << >> /\ ~Failed(r, n)
  <2>1. n <= Len(log[r]) /\ n <= Len(log[p])
    BY <1>2
  <2> QED BY <1>1, <2>1, SameNext DEF IInv
<1>4. pc[r] # "stopped"
  <2>1. SUFFICES ASSUME pc[r] = "stopped" PROVE FALSE
    OBVIOUS
  <2>2. n > 0 /\ log[r][n].what = "command" /\ log[r][n].value.op = "stop"
    BY <1>2, <2>1 DEF StoppedInv
  <2>3. n \in 1 .. Len(log[r]) /\ n \in 1 .. Len(log[p])
    BY <1>2, <2>2
  <2>4. log[p][n].what = "command" /\ log[p][n].value.op = "stop"
    BY <2>2, <2>3 DEF IInv, LogsInv, MatchInv, Same
  <2> QED BY <2>3, <2>4 DEF JointInv, StopInv
<1>5. pc[r] \in {"run", "wait"} /\ todo[r] = Left(r, n)
  BY <1>2, <1>3, <1>4, AtSamePlace
<1>6. pc[r] # "run"
  BY <1>3, <1>5 DEF IInv, LogsInv, PlaceInv
<1> QED BY <1>2, <1>5, <1>6

\* When a rank has stopped that nobody is behind, all have stopped.
LEMMA AtStop ==
  ASSUME IInv, JointInv, StoppedInv,
         NEW n \in Nat, \A q \in Rank : Len(log[q]) >= n,
         NEW p \in Rank, Len(log[p]) = n, pc[p] = "stopped", NEW r \in Rank
  PROVE  pc[r] = "stopped" /\ Len(log[r]) = n
<1>1. n > 0 /\ log[p][n].what = "command" /\ log[p][n].value.op = "stop"
  BY DEF StoppedInv
<1>2. n \in 1 .. Len(log[r]) /\ n \in 1 .. Len(log[p])
  BY <1>1, OverContent DEF IInv, Shape
<1>3. log[r][n].what = "command" /\ log[r][n].value.op = "stop"
  BY <1>1, <1>2 DEF IInv, LogsInv, MatchInv, Same
<1> QED BY <1>2, <1>3 DEF JointInv, StopInv

\* Whenever no rank can go on, all wait for a request in the same place or all have
\* stopped, for every number of ranks, of requests and of failures.
THEOREM NobodyStuckHolds == Spec => []NobodyStuck
<1>1. Size \in Nat /\ 0 \in Rank
  <2>1. Size \in Nat \ {0}
    BY SessionAssumption, Zenon DEF SessionAssumption
  <2> QED BY <2>1 DEF Rank
<1>2. ASSUME IInv, JointInv, StoppedInv PROVE NobodyStuck
  <2>1. SUFFICES ASSUME \A r \in Rank : ~CanStep(r)
                 PROVE  \E at \in {"wait", "stopped"} :
                          \A q, r \in Rank : pc[r] = at /\ Len(log[q]) = Len(log[r])
    BY DEF NobodyStuck
  <2>2. PICK p \in Rank : \A q \in Rank : Len(log[q]) >= Len(log[p])
    <3> DEFINE T == {Len(log[q]) : q \in Rank}
    <3>1. \A q \in Rank : Len(log[q]) \in Nat
      BY <1>2, OverContent DEF IInv, Shape
    <3>2. T \in SUBSET Nat /\ Len(log[0]) \in T
      BY <1>1, <3>1
    <3>3. \E x \in T : \A y \in T : x <= y
      <4> HIDE DEF T
      <4> QED BY <3>2, Smallest
    <3>4. PICK p \in Rank : \A y \in T : Len(log[p]) <= y
      BY <3>3
    <3> QED BY <3>1, <3>4
  <2>3. PICK n \in Nat : n = Len(log[p])
    BY <1>2, OverContent DEF IInv, Shape
  <2>4. pc[p] # "agree"
    BY <1>1, <1>2, <2>1, <2>2, <2>3, AtAgree
  <2>5. pc[p] # "maximum"
    BY <2>1, <2>2 DEF CanStep, Met
  <2>6. pc[p] # "run"
    <3>1. SUFFICES ASSUME pc[p] = "run" PROVE FALSE
      OBVIOUS
    <3>2. Head(todo[p]) \notin Broadcasts
      BY <1>1, <1>2, <2>1, <2>2, <2>3, <3>1, AtBroadcast
    <3>3. Head(todo[p]) \in Piece
      <4>1. todo[p] \in Seq(Piece) /\ todo[p] # << >>
        BY <1>2, <3>1 DEF IInv, Shape, LogsInv, PlaceInv
      <4> QED BY <4>1, TailPieces
    <3>4. Head(todo[p]) # "maximum"
      BY <2>1, <3>1 DEF CanStep
    <3>5. Head(todo[p]) \in Collective
      BY <3>2, <3>3, <3>4 DEF Piece
    <3>6. PICK o \in Outcomes(p) : o.fault = FALSE
      BY <3>5, ReturnsOrThrows
    <3>7. CanStep(p)
      BY <3>1, <3>5, <3>6 DEF CanStep
    <3> QED BY <2>1, <3>7
  <2>7. CASE pc[p] = "wait"
    <3>1. \A r \in Rank : pc[r] = "wait" /\ Len(log[r]) = n
      BY <1>1, <1>2, <2>1, <2>2, <2>3, <2>7, AtWaiting
    <3> QED BY <3>1
  <2>8. CASE pc[p] = "stopped"
    <3>1. \A r \in Rank : pc[r] = "stopped" /\ Len(log[r]) = n
      BY <1>2, <2>2, <2>3, <2>8, AtStop
    <3> QED BY <3>1
  <2> QED BY <1>2, <2>4, <2>5, <2>6, <2>7, <2>8 DEF IInv, Shape
<1> QED BY <1>2, StoppedInvariance, PTL

=============================================================================
