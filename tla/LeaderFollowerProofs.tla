------------------------- MODULE LeaderFollowerProofs -------------------------
(***************************************************************************)
(* Proofs about TAO_Leader_Follower for every set of threads, every depth  *)
(* of nested calls and, unless a theorem says otherwise, every choice of   *)
(* the features: nested upcalls with and without set_upcall_thread, time   *)
(* limits, spurious wakeups, failing waits, completions from outside.      *)
(***************************************************************************)
EXTENDS LeaderFollower, FiniteSetTheorems, TLAPS

-----------------------------------------------------------------------------
(* What the invariants are stated with *)

Ats == Waiting \cup Looping \cup {"upcall"}

\* The calls that hold, or have lent to an upcall, a leadership.
Leading == {"leading", "leaving"}
Running == {"running", "ended"}

\* The lists of calls, reduced to where each call is.
Shape(s) == [i \in 1..Len(s) |-> s[i].at]

TopOf(s) == IF s = <<>> THEN "application" ELSE Head(s)

\* The TAO_Leader_Follower with counters that might be negative.
LFs == [leaders : Int, clients : Int, client_thread_is_leader : Int,
        event_loop_threads_waiting : SUBSET Threads, follower_set : Seq(Threads),
        event_loop_thread : [Threads -> Nat], client_leader_thread : [Threads -> Nat],
        deferred : 0..MaxDeferred, woken : SUBSET Threads, has_shutdown : BOOLEAN,
        reactor_shutdown : BOOLEAN, event_loop_done : BOOLEAN]

Typed == lf \in LFs /\ stack \in [Threads -> Seq(Calls)]

\* The reactor calls back from handle_events only, and only application code
\* makes calls.
Nest(s) ==
  \A i \in 1..Len(s) :
    IF s[i] = "upcall" THEN i < Len(s) /\ s[i + 1] \in {"leading", "running"}
                       ELSE i < Len(s) => s[i + 1] = "upcall"

-----------------------------------------------------------------------------
(* Stacks *)

\* A list that is not empty is its head in front of its tail.
LEMMA ConsHeadTail ==
  ASSUME NEW S, NEW s \in Seq(S), s # <<>>
  PROVE  /\ s = <<Head(s)>> \o Tail(s)
         /\ Head(s) \in S /\ Tail(s) \in Seq(S) /\ Len(Tail(s)) = Len(s) - 1
         /\ Len(s) \in Nat \ {0} /\ Head(s) = s[1]
         /\ \A i \in 1..Len(Tail(s)) : Tail(s)[i] = s[i + 1]
<1>1. Len(s) \in Nat \ {0}
  OBVIOUS
<1>2. Head(s) \in S /\ Tail(s) \in Seq(S) /\ Len(Tail(s)) = Len(s) - 1
  BY <1>1
<1>3. Len(<<Head(s)>> \o Tail(s)) = Len(s)
  BY <1>1, <1>2
<1>4. \A i \in 1..Len(s) : (<<Head(s)>> \o Tail(s))[i] = s[i]
  BY <1>1, <1>2
<1>5. <<Head(s)>> \o Tail(s) \in Seq(S)
  BY <1>2
<1>6. <<Head(s)>> \o Tail(s) = s
  BY <1>3, <1>4, <1>5
<1>7. QED
  BY <1>1, <1>2, <1>6

\* A list with a new head.
LEMMA Cons ==
  ASSUME NEW S, NEW c \in S, NEW r \in Seq(S)
  PROVE  /\ <<c>> \o r \in Seq(S) /\ <<c>> \o r # <<>>
         /\ Head(<<c>> \o r) = c /\ Tail(<<c>> \o r) = r
         /\ Len(<<c>> \o r) = Len(r) + 1 /\ (<<c>> \o r)[1] = c
         /\ \A i \in 1..Len(r) : (<<c>> \o r)[i + 1] = r[i]
<1> DEFINE s == <<c>> \o r
<1>1. s \in Seq(S) /\ Len(s) = Len(r) + 1 /\ s[1] = c
  OBVIOUS
<1>2. \A i \in 1..Len(r) : s[i + 1] = r[i]
  OBVIOUS
<1>3. s # <<>> /\ Head(s) = c
  BY <1>1
<1>4. Tail(s) \in Seq(S) /\ Len(Tail(s)) = Len(r)
  BY <1>1, <1>3
<1>5. \A i \in 1..Len(r) : Tail(s)[i] = r[i]
  BY <1>1, <1>2, <1>3, <1>4
<1>6. Tail(s) = r
  BY <1>4, <1>5
<1>7. QED
  BY <1>1, <1>2, <1>3, <1>6

\* The shape of a list of calls, and of one with a new head.
LEMMA ShapeType ==
  ASSUME NEW s \in Seq(Calls)
  PROVE  /\ Shape(s) \in Seq(Ats) /\ Len(Shape(s)) = Len(s) /\ Len(s) \in Nat
         /\ \A i \in 1..Len(s) : Shape(s)[i] = s[i].at
         /\ Shape(s) = <<>> <=> s = <<>>
<1>1. Len(s) \in Nat /\ \A i \in 1..Len(s) : s[i] \in Calls
  OBVIOUS
<1>2. \A i \in 1..Len(s) : s[i].at \in Ats
  BY <1>1 DEF Calls, Ats
<1>3. Shape(s) \in Seq(Ats) /\ Len(Shape(s)) = Len(s)
  BY <1>1, <1>2 DEF Shape
<1>4. QED
  BY <1>1, <1>3 DEF Shape

LEMMA ShapeFacts ==
  ASSUME NEW s \in Seq(Calls), s # <<>>
  PROVE  /\ Head(Shape(s)) = Head(s).at /\ Tail(Shape(s)) = Shape(Tail(s))
         /\ Shape(s) # <<>>
<1>1. /\ Len(s) \in Nat \ {0} /\ Tail(s) \in Seq(Calls) /\ Len(Tail(s)) = Len(s) - 1
      /\ Head(s) = s[1] /\ \A i \in 1..Len(Tail(s)) : Tail(s)[i] = s[i + 1]
  BY ConsHeadTail
<1>2. /\ Shape(s) \in Seq(Ats) /\ Len(Shape(s)) = Len(s) /\ Shape(s) # <<>>
      /\ \A i \in 1..Len(s) : Shape(s)[i] = s[i].at
  BY ShapeType
<1>3. /\ Shape(Tail(s)) \in Seq(Ats) /\ Len(Shape(Tail(s))) = Len(s) - 1
      /\ \A i \in 1..(Len(s) - 1) : Shape(Tail(s))[i] = Tail(s)[i].at
  BY <1>1, ShapeType
<1>4. /\ Head(Shape(s)) = Shape(s)[1]
      /\ Tail(Shape(s)) \in Seq(Ats) /\ Len(Tail(Shape(s))) = Len(s) - 1
      /\ \A i \in 1..(Len(s) - 1) : Tail(Shape(s))[i] = Shape(s)[i + 1]
  BY <1>2, ConsHeadTail
<1>5. \A i \in 1..(Len(s) - 1) : Tail(Shape(s))[i] = Shape(Tail(s))[i]
  BY <1>1, <1>2, <1>3, <1>4
<1>6. Tail(Shape(s)) = Shape(Tail(s))
  BY <1>3, <1>4, <1>5
<1>7. QED
  BY <1>1, <1>2, <1>4, <1>6

LEMMA ShapeCons ==
  ASSUME NEW c \in Calls, NEW r \in Seq(Calls)
  PROVE  /\ Shape(<<c>> \o r) = <<c.at>> \o Shape(r)
         /\ Shape(r) \in Seq(Ats) /\ c.at \in Ats
         /\ <<c>> \o r \in Seq(Calls) /\ <<c>> \o r # <<>>
<1> DEFINE s == <<c>> \o r
<1>1. /\ s \in Seq(Calls) /\ s # <<>> /\ Head(s) = c /\ Tail(s) = r
  BY Cons
<1> HIDE DEF s
<1>2. /\ Shape(s) \in Seq(Ats) /\ Shape(s) # <<>>
      /\ Head(Shape(s)) = c.at /\ Tail(Shape(s)) = Shape(r)
  BY <1>1, ShapeFacts, ShapeType
<1>3. Shape(s) = <<c.at>> \o Shape(r)
  BY <1>2, ConsHeadTail
<1>4. Shape(r) \in Seq(Ats) /\ c.at \in Ats
  BY ShapeType DEF Calls, Ats
<1>5. QED
  BY <1>1, <1>3, <1>4 DEF s

LEMMA NestCons ==
  ASSUME NEW a \in Ats, NEW r \in Seq(Ats)
  PROVE  Nest(<<a>> \o r) <=>
           /\ Nest(r)
           /\ IF a = "upcall" THEN r # <<>> /\ Head(r) \in {"leading", "running"}
                              ELSE r # <<>> => Head(r) = "upcall"
<1> DEFINE s == <<a>> \o r
<1>1. /\ s \in Seq(Ats) /\ Len(s) = Len(r) + 1 /\ s[1] = a /\ Len(r) \in Nat
      /\ \A i \in 1..Len(r) : s[i + 1] = r[i]
  BY Cons
<1> HIDE DEF s
<1>2. r # <<>> <=> Len(r) > 0
  BY <1>1
<1>3. r # <<>> => Head(r) = r[1]
  BY <1>1
<1>4. ASSUME Nest(s) PROVE Nest(r)
  <2>1. SUFFICES ASSUME NEW i \in 1..Len(r)
                 PROVE  IF r[i] = "upcall"
                        THEN i < Len(r) /\ r[i + 1] \in {"leading", "running"}
                        ELSE i < Len(r) => r[i + 1] = "upcall"
    BY DEF Nest
  <2>2. i + 1 \in 1..Len(s) /\ s[i + 1] = r[i] /\ (i < Len(r) => s[i + 2] = r[i + 1])
    BY <1>1
  <2>3. IF s[i + 1] = "upcall"
        THEN i + 1 < Len(s) /\ s[i + 1 + 1] \in {"leading", "running"}
        ELSE i + 1 < Len(s) => s[i + 1 + 1] = "upcall"
    BY <1>4, <2>2 DEF Nest
  <2>4. QED BY <1>1, <2>2, <2>3
<1>5. ASSUME Nest(s)
      PROVE  IF a = "upcall" THEN r # <<>> /\ Head(r) \in {"leading", "running"}
                             ELSE r # <<>> => Head(r) = "upcall"
  <2>1. 1 \in 1..Len(s)
    BY <1>1
  <2>2. IF s[1] = "upcall"
        THEN 1 < Len(s) /\ s[1 + 1] \in {"leading", "running"}
        ELSE 1 < Len(s) => s[1 + 1] = "upcall"
    BY <1>5, <2>1 DEF Nest
  <2>3. QED BY <1>1, <1>2, <1>3, <2>2
<1>6. ASSUME Nest(r),
             IF a = "upcall" THEN r # <<>> /\ Head(r) \in {"leading", "running"}
                             ELSE r # <<>> => Head(r) = "upcall"
      PROVE  Nest(s)
  <2>1. SUFFICES ASSUME NEW i \in 1..Len(s)
                 PROVE  IF s[i] = "upcall"
                        THEN i < Len(s) /\ s[i + 1] \in {"leading", "running"}
                        ELSE i < Len(s) => s[i + 1] = "upcall"
    BY DEF Nest
  <2>2. CASE i = 1
    BY <1>1, <1>2, <1>3, <1>6, <2>2
  <2>3. CASE i > 1
    <3>1. /\ i - 1 \in 1..Len(r) /\ s[i] = r[i - 1]
          /\ i - 1 < Len(r) => s[i + 1] = r[i]
      BY <1>1, <2>3
    <3>2. IF r[i - 1] = "upcall"
          THEN i - 1 < Len(r) /\ r[i - 1 + 1] \in {"leading", "running"}
          ELSE i - 1 < Len(r) => r[i - 1 + 1] = "upcall"
      BY <1>6, <3>1 DEF Nest
    <3>3. QED BY <1>1, <3>1, <3>2
  <2>4. QED BY <1>1, <2>2, <2>3
<1>7. QED
  BY <1>4, <1>5, <1>6 DEF s

-----------------------------------------------------------------------------
(* Leaderships that calls have lent to upcalls *)

\* The k-th call, counted from the outermost.
CallAt(s, k) == s[Len(s) + 1 - k]

\* The calls from the k-th inwards that are in one of the places P.
Inside(s, k, P) == {j \in k..Len(s) : CallAt(s, j) \in P}

(***************************************************************************)
(* s is the shape of the calls of one thread, c its client_leader_thread_  *)
(* and e its event_loop_thread_.  set_upcall_thread gives up the           *)
(* leadership of an event loop before that of a client.  So if, from a     *)
(* client leader inwards, one leadership of a client has been given up,    *)
(* then all those of event loops further out have been given up, too.      *)
(***************************************************************************)
Lent(s, c, e) ==
  \A k \in 1..Len(s) :
    CallAt(s, k) \in Leading /\ c < Cardinality(Inside(s, k, Leading))
      => e <= Cardinality(Inside(s, k, Running))

\* What a new innermost call adds to them.
LEMMA InsideCons ==
  ASSUME NEW a \in Ats, NEW r \in Seq(Ats), NEW k \in 1..(Len(r) + 1), NEW P
  PROVE  /\ IsFiniteSet(Inside(r, k, P)) /\ Cardinality(Inside(r, k, P)) \in Nat
         /\ Cardinality(Inside(<<a>> \o r, k, P)) =
              Cardinality(Inside(r, k, P)) + IF a \in P THEN 1 ELSE 0
<1> DEFINE s == <<a>> \o r
           n == Len(r)
<1>1. /\ s \in Seq(Ats) /\ Len(s) = n + 1 /\ s[1] = a /\ n \in Nat
      /\ \A i \in 1..n : s[i + 1] = r[i]
  BY Cons
<1> HIDE DEF s, n
<1>2. \A j \in 1..n : CallAt(s, j) = CallAt(r, j)
  BY <1>1 DEF CallAt, n
<1>3. CallAt(s, n + 1) = a
  BY <1>1 DEF CallAt
<1>4. IsFiniteSet(Inside(r, k, P)) /\ Cardinality(Inside(r, k, P)) \in Nat
  <2>1. Inside(r, k, P) \subseteq k..n /\ IsFiniteSet(k..n)
    BY <1>1, FS_Interval DEF Inside, n
  <2>2. IsFiniteSet(Inside(r, k, P))
    BY <2>1, FS_Subset
  <2>3. QED BY <2>2, FS_CardinalityType
<1>5. k \in 1..(n + 1)
  BY DEF n
<1>6. CASE a \in P
  <2>1. Inside(s, k, P) = Inside(r, k, P) \cup {n + 1}
    BY <1>1, <1>2, <1>3, <1>5, <1>6 DEF Inside, n
  <2>2. n + 1 \notin Inside(r, k, P)
    BY <1>1 DEF Inside, n
  <2>3. Cardinality(Inside(s, k, P)) = Cardinality(Inside(r, k, P)) + 1
    BY <1>4, <2>1, <2>2, FS_AddElement
  <2>4. QED BY <1>4, <1>6, <2>3 DEF s
<1>7. CASE a \notin P
  <2>1. Inside(s, k, P) = Inside(r, k, P)
    BY <1>1, <1>2, <1>3, <1>5, <1>7 DEF Inside, n
  <2>2. QED BY <1>4, <1>7, <2>1 DEF s
<1>8. QED
  BY <1>6, <1>7

\* Lent, from the innermost call outwards.
LEMMA LentCons ==
  ASSUME NEW a \in Ats, NEW r \in Seq(Ats), NEW c \in Int, NEW e \in Int
  PROVE  /\ a \notin Leading \cup Running => (Lent(<<a>> \o r, c, e) <=> Lent(r, c, e))
         /\ a \in Running => (Lent(<<a>> \o r, c, e) <=> Lent(r, c, e - 1))
         /\ a \in Leading => (Lent(<<a>> \o r, c, e) <=>
                                Lent(r, c - 1, e) /\ (c < 1 => e <= 0))
<1> DEFINE s == <<a>> \o r
           n == Len(r)
           x == IF a \in Leading THEN 1 ELSE 0
           y == IF a \in Running THEN 1 ELSE 0
           L(k) == Cardinality(Inside(r, k, Leading))
           R(k) == Cardinality(Inside(r, k, Running))
<1>1. /\ s \in Seq(Ats) /\ Len(s) = n + 1 /\ s[1] = a /\ n \in Nat
      /\ \A i \in 1..n : s[i + 1] = r[i]
  BY Cons
<1>2. \A k \in 1..(n + 1) :
        /\ L(k) \in Nat /\ R(k) \in Nat
        /\ Cardinality(Inside(s, k, Leading)) = L(k) + x
        /\ Cardinality(Inside(s, k, Running)) = R(k) + y
  BY InsideCons
<1>3. L(n + 1) = 0 /\ R(n + 1) = 0
  <2>1. Inside(r, n + 1, Leading) = {} /\ Inside(r, n + 1, Running) = {}
    BY <1>1 DEF Inside
  <2>2. QED BY <2>1, FS_EmptySet
<1> HIDE DEF s, n, L, R
<1>4. (\A j \in 1..n : CallAt(s, j) = CallAt(r, j)) /\ CallAt(s, n + 1) = a
  BY <1>1, SMTT(30) DEF CallAt, n
<1>5. x \in {0, 1} /\ y \in {0, 1}
  OBVIOUS
<1>6. ASSUME Lent(s, c, e)
      PROVE  /\ \A k \in 1..n : CallAt(r, k) \in Leading /\ c < L(k) + x => e <= R(k) + y
             /\ a \in Leading /\ c < x => e <= y
  <2> HIDE DEF x, y
  <2>1. \A k \in 1..(n + 1) : CallAt(s, k) \in Leading /\ c < L(k) + x => e <= R(k) + y
    BY <1>1, <1>2, <1>6 DEF Lent
  <2>2. n + 1 \in 1..(n + 1) /\ 1..n \subseteq 1..(n + 1)
    BY <1>1
  <2>3. \A k \in 1..n : CallAt(r, k) \in Leading /\ c < L(k) + x => e <= R(k) + y
    BY <1>4, <2>1, <2>2
  <2>4. CallAt(s, n + 1) \in Leading /\ c < L(n + 1) + x => e <= R(n + 1) + y
    BY <2>1, <2>2
  <2>5. QED BY <1>3, <1>4, <1>5, <2>3, <2>4
<1>7. ASSUME \A k \in 1..n : CallAt(r, k) \in Leading /\ c < L(k) + x => e <= R(k) + y,
             a \in Leading /\ c < x => e <= y
      PROVE  Lent(s, c, e)
  <2> HIDE DEF x, y
  <2>1. SUFFICES ASSUME NEW k \in 1..(n + 1), CallAt(s, k) \in Leading, c < L(k) + x
                 PROVE  e <= R(k) + y
    BY <1>1, <1>2 DEF Lent
  <2>2. CASE k = n + 1
    BY <1>3, <1>4, <1>5, <1>7, <2>1, <2>2
  <2>3. CASE k \in 1..n
    BY <1>4, <1>7, <2>1, <2>3
  <2>4. QED BY <1>1, <2>2, <2>3
<1>8. \A d, f \in Int : Lent(r, d, f) <=>
        \A k \in 1..n : CallAt(r, k) \in Leading /\ d < L(k) => f <= R(k)
  BY DEF Lent, n, L, R
<1>9. \A k \in 1..n : L(k) \in Nat /\ R(k) \in Nat
  BY <1>1, <1>2
<1>10. Leading \cap Running = {}
  BY DEF Leading, Running
<1>11. ASSUME a \notin Leading \cup Running PROVE Lent(s, c, e) <=> Lent(r, c, e)
  <2>1. x = 0 /\ y = 0
    BY <1>11
  <2> HIDE DEF x, y
  <2>2. \A k \in 1..n : L(k) + x = L(k) /\ R(k) + y = R(k)
    BY <1>9, <2>1
  <2>3. Lent(r, c, e) <=>
          \A k \in 1..n : CallAt(r, k) \in Leading /\ c < L(k) => e <= R(k)
    BY <1>8
  <2>4. QED BY <1>6, <1>7, <1>11, <2>2, <2>3
<1>12. ASSUME a \in Running PROVE Lent(s, c, e) <=> Lent(r, c, e - 1)
  <2>1. x = 0 /\ y = 1 /\ e - 1 \in Int /\ a \notin Leading
    BY <1>10, <1>12
  <2> HIDE DEF x, y
  <2>2. \A k \in 1..n : L(k) + x = L(k) /\ (e <= R(k) + y <=> e - 1 <= R(k))
    BY <1>9, <2>1
  <2>3. Lent(r, c, e - 1) <=>
          \A k \in 1..n : CallAt(r, k) \in Leading /\ c < L(k) => e - 1 <= R(k)
    BY <1>8, <2>1
  <2>4. QED BY <1>6, <1>7, <2>1, <2>2, <2>3
<1>13. ASSUME a \in Leading
       PROVE  Lent(s, c, e) <=> Lent(r, c - 1, e) /\ (c < 1 => e <= 0)
  <2>1. x = 1 /\ y = 0 /\ c - 1 \in Int
    BY <1>10, <1>13
  <2> HIDE DEF x, y
  <2>2. \A k \in 1..n : (c < L(k) + x <=> c - 1 < L(k)) /\ R(k) + y = R(k)
    BY <1>9, <2>1
  <2>3. Lent(r, c - 1, e) <=>
          \A k \in 1..n : CallAt(r, k) \in Leading /\ c - 1 < L(k) => e <= R(k)
    BY <1>8, <2>1
  <2>4. (c < x => e <= y) <=> (c < 1 => e <= 0)
    BY <2>1
  <2>5. QED BY <1>6, <1>7, <1>13, <2>2, <2>3, <2>4
<1>14. QED
  BY <1>11, <1>12, <1>13 DEF s

\* It is easier to satisfy for a thread with fewer event loops.
LEMMA LentLess ==
  ASSUME NEW r \in Seq(Ats), NEW c \in Int, NEW e \in Int, NEW d \in Int, NEW f \in Int,
         Lent(r, c, e), f <= 0 \/ (c <= d /\ f <= e)
  PROVE  Lent(r, d, f)
<1>1. SUFFICES ASSUME NEW k \in 1..Len(r), CallAt(r, k) \in Leading,
                      d < Cardinality(Inside(r, k, Leading))
               PROVE  f <= Cardinality(Inside(r, k, Running))
  BY DEF Lent
<1>2. "upcall" \in Ats
  BY DEF Ats
<1>3. /\ Cardinality(Inside(r, k, Leading)) \in Nat
      /\ Cardinality(Inside(r, k, Running)) \in Nat
  <2>1. k \in 1..(Len(r) + 1)
    OBVIOUS
  <2>2. QED BY <1>2, <2>1, InsideCons
<1>4. c < Cardinality(Inside(r, k, Leading)) => e <= Cardinality(Inside(r, k, Running))
  BY <1>1 DEF Lent
<1>5. QED
  BY <1>1, <1>3, <1>4

-----------------------------------------------------------------------------
(* The operators of Leader_Follower.inl *)

Linked(q)   == {q[i] : i \in 1..Len(q)}
Distinct(q) == \A i, j \in 1..Len(q) : q[i] = q[j] => i = j

\* remove_follower unlinks what it is given, and nothing else.
LEMMA UnlinkFacts ==
  ASSUME NEW S, NEW q \in Seq(S), NEW t
  PROVE  /\ Unlink(q, t) \in Seq(S)
         /\ Distinct(q) => /\ Linked(Unlink(q, t)) = Linked(q) \ {t}
                           /\ Distinct(Unlink(q, t))
<1>1. CASE ~ \E i \in 1..Len(q) : q[i] = t
  BY <1>1 DEF Unlink, Linked
<1>2. CASE \E i \in 1..Len(q) : q[i] = t
  <2> DEFINE k == CHOOSE i \in 1..Len(q) : q[i] = t
             r == Unlink(q, t)
             n == Len(q)
  <2>1. k \in 1..n /\ q[k] = t /\ n \in Nat \ {0}
    BY <1>2
  <2>2. r = [i \in 1..(n - 1) |-> IF i < k THEN q[i] ELSE q[i + 1]]
    BY <1>2 DEF Unlink
  <2> HIDE DEF k, r
  <2>3. r \in Seq(S) /\ Len(r) = n - 1
    BY <2>1, <2>2
  <2>4. ASSUME Distinct(q) PROVE Linked(r) = Linked(q) \ {t}
    <3>1. \A i \in 1..n : q[i] = t => i = k
      BY <2>1, <2>4 DEF Distinct
    <3>2. ASSUME NEW x \in Linked(r) PROVE x \in Linked(q) \ {t}
      <4>1. PICK i \in 1..(n - 1) : x = r[i]
        BY <2>3 DEF Linked
      <4>2. PICK j \in 1..n : x = q[j] /\ j # k
        <5>1. CASE i < k
          BY <2>1, <2>2, <4>1, <5>1
        <5>2. CASE ~(i < k)
          <6>1. i + 1 \in 1..n /\ x = q[i + 1] /\ i + 1 # k
            BY <2>1, <2>2, <4>1, <5>2
          <6>2. QED BY <6>1
        <5>3. QED BY <5>1, <5>2
      <4>3. QED BY <3>1, <4>2 DEF Linked
    <3>3. ASSUME NEW x \in Linked(q), x # t PROVE x \in Linked(r)
      <4>1. PICK j \in 1..n : x = q[j]
        BY DEF Linked
      <4>2. PICK i \in 1..(n - 1) : x = r[i]
        <5>1. CASE j < k
          <6>1. j \in 1..(n - 1) /\ r[j] = x
            BY <2>1, <2>2, <4>1, <5>1
          <6>2. QED BY <6>1
        <5>2. CASE ~(j < k)
          <6>1. j - 1 \in 1..(n - 1) /\ r[j - 1] = x
            BY <2>1, <2>2, <3>3, <4>1, <5>2
          <6>2. QED BY <6>1
        <5>3. QED BY <5>1, <5>2
      <4>3. QED BY <2>3, <4>2 DEF Linked
    <3>4. QED BY <3>2, <3>3
  <2>5. ASSUME Distinct(q) PROVE Distinct(r)
    <3>1. SUFFICES ASSUME NEW i \in 1..Len(r), NEW j \in 1..Len(r), r[i] = r[j], i < j
                   PROVE  FALSE
      BY <2>3 DEF Distinct
    <3>2. QED BY <2>1, <2>2, <2>3, <2>5, <3>1 DEF Distinct
  <2>6. QED BY <2>3, <2>4, <2>5 DEF r
<1>3. QED
  BY <1>1, <1>2

\* The fields of l and m agree but for the followers and the wakeups.
SameBooks(l, m) ==
  /\ m.leaders = l.leaders /\ m.clients = l.clients
  /\ m.client_thread_is_leader = l.client_thread_is_leader
  /\ m.event_loop_threads_waiting = l.event_loop_threads_waiting
  /\ m.event_loop_thread = l.event_loop_thread
  /\ m.client_leader_thread = l.client_leader_thread
  /\ m.deferred = l.deferred
  /\ m.has_shutdown = l.has_shutdown
  /\ m.reactor_shutdown = l.reactor_shutdown
  /\ m.event_loop_done = l.event_loop_done

LEMMA SignalFacts ==
  ASSUME NEW l \in LFs, NEW t \in Threads
  PROVE  /\ remove_follower(l, t) \in LFs /\ SameBooks(l, remove_follower(l, t))
         /\ remove_follower(l, t).follower_set = Unlink(l.follower_set, t)
         /\ remove_follower(l, t).woken = l.woken
         /\ signal(l, t) \in LFs /\ SameBooks(l, signal(l, t))
         /\ signal(l, t).follower_set = Unlink(l.follower_set, t)
         /\ signal(l, t).woken = l.woken \cup {t}
         /\ add_follower(l, t) \in LFs /\ SameBooks(l, add_follower(l, t))
         /\ add_follower(l, t).follower_set = Append(l.follower_set, t)
         /\ add_follower(l, t).woken = l.woken
<1>1. l.follower_set \in Seq(Threads)
  BY DEF LFs
<1>2. Unlink(l.follower_set, t) \in Seq(Threads)
  BY <1>1, UnlinkFacts
<1>3. Append(l.follower_set, t) \in Seq(Threads)
  BY <1>1
<1>4. /\ remove_follower(l, t) \in LFs /\ SameBooks(l, remove_follower(l, t))
      /\ remove_follower(l, t).follower_set = Unlink(l.follower_set, t)
      /\ remove_follower(l, t).woken = l.woken
  BY <1>2 DEF remove_follower, LFs, SameBooks
<1>5. /\ signal(l, t) \in LFs /\ SameBooks(l, signal(l, t))
      /\ signal(l, t).follower_set = Unlink(l.follower_set, t)
      /\ signal(l, t).woken = l.woken \cup {t}
  <2> DEFINE r == remove_follower(l, t)
  <2> HIDE DEF r
  <2>1. signal(l, t) = [r EXCEPT !.woken = @ \cup {t}]
    BY DEF signal, r
  <2>2. r \in LFs /\ SameBooks(l, r) /\ r.woken = l.woken
        /\ r.follower_set = Unlink(l.follower_set, t)
    BY <1>4 DEF r
  <2>3. r.woken \in SUBSET Threads
    BY <2>2 DEF LFs
  <2>4. r.woken \cup {t} \in SUBSET Threads
    BY <2>3
  <2>5. signal(l, t) \in LFs
    BY <2>1, <2>2, <2>4 DEF LFs
  <2>6. QED BY <2>1, <2>2, <2>5 DEF LFs, SameBooks
<1>6. /\ add_follower(l, t) \in LFs /\ SameBooks(l, add_follower(l, t))
      /\ add_follower(l, t).follower_set = Append(l.follower_set, t)
      /\ add_follower(l, t).woken = l.woken
  BY <1>3 DEF add_follower, LFs, SameBooks
<1>7. QED
  BY <1>4, <1>5, <1>6

\* elect_new_leader changes nothing but the followers and the wakeups.
LEMMA ElectFacts ==
  ASSUME NEW l \in LFs
  PROVE  LET m == elect_new_leader(l)
         IN  /\ m \in LFs /\ SameBooks(l, m)
             /\ \/ /\ m = l
                   /\ l.leaders = 0 => /\ l.event_loop_threads_waiting = {}
                                       /\ l.follower_set = <<>>
                \/ /\ l.leaders = 0 /\ l.event_loop_threads_waiting # {}
                   /\ m.woken = l.woken \cup l.event_loop_threads_waiting
                   /\ m.follower_set = l.follower_set
                \/ /\ l.leaders = 0 /\ l.event_loop_threads_waiting = {}
                   /\ l.follower_set # <<>> /\ Head(l.follower_set) \in Threads
                   /\ m.woken = l.woken \cup {Head(l.follower_set)}
                   /\ m.follower_set = Unlink(l.follower_set, Head(l.follower_set))
<1>1. CASE l.leaders # 0
  BY <1>1 DEF elect_new_leader, leader_available, SameBooks
<1>2. CASE l.leaders = 0 /\ l.event_loop_threads_waiting # {}
  <2>1. elect_new_leader(l) = [l EXCEPT !.woken = @ \cup l.event_loop_threads_waiting]
    BY <1>2 DEF elect_new_leader, leader_available
  <2>2. QED BY <1>2, <2>1 DEF LFs, SameBooks
<1>3. CASE /\ l.leaders = 0 /\ l.event_loop_threads_waiting = {}
           /\ l.follower_set # <<>>
  <2>1. elect_new_leader(l) = signal(l, Head(l.follower_set))
    BY <1>3 DEF elect_new_leader, leader_available
  <2>2. Head(l.follower_set) \in Threads
    BY <1>3, ConsHeadTail DEF LFs
  <2>3. QED BY <1>3, <2>1, <2>2, SignalFacts, SMTT(30)
<1>4. CASE /\ l.leaders = 0 /\ l.event_loop_threads_waiting = {}
           /\ l.follower_set = <<>>
  BY <1>4 DEF elect_new_leader, leader_available, SameBooks
<1>5. QED
  BY <1>1, <1>2, <1>3, <1>4

\* The fields that no step of the leader accounting touches.
SameRest(l, m) ==
  /\ m.event_loop_threads_waiting = l.event_loop_threads_waiting
  /\ m.follower_set = l.follower_set /\ m.woken = l.woken
  /\ m.deferred = l.deferred
  /\ m.has_shutdown = l.has_shutdown /\ m.reactor_shutdown = l.reactor_shutdown

\* An update of three fields.
Leadership(l, a, b, c) ==
  [l EXCEPT !.leaders = a, !.client_thread_is_leader = b, !.client_leader_thread = c]

LEMMA UpdateLeadership ==
  ASSUME NEW l \in LFs, NEW a \in Int, NEW b \in Int, NEW c \in [Threads -> Nat]
  PROVE  LET m == Leadership(l, a, b, c)
         IN  /\ m \in LFs /\ SameRest(l, m) /\ m.clients = l.clients
             /\ m.event_loop_done = l.event_loop_done
             /\ m.event_loop_thread = l.event_loop_thread
             /\ m.leaders = a /\ m.client_thread_is_leader = b
             /\ m.client_leader_thread = c
<1> DEFINE m == [l EXCEPT !.leaders = a, !.client_thread_is_leader = b,
                          !.client_leader_thread = c]
<1>1. m \in LFs
  BY DEF LFs
<1>2. /\ m.leaders = a /\ m.client_thread_is_leader = b /\ m.client_leader_thread = c
  BY DEF LFs
<1>3. SameRest(l, m)
  BY DEF LFs, SameRest
<1>4. /\ m.clients = l.clients /\ m.event_loop_done = l.event_loop_done
      /\ m.event_loop_thread = l.event_loop_thread
  BY DEF LFs
<1>5. QED
  BY <1>1, <1>2, <1>3, <1>4 DEF Leadership

LEMMA DeferredFacts ==
  ASSUME NEW l \in LFs, NEW d \in 0..MaxDeferred
  PROVE  LET m == [l EXCEPT !.deferred = d]
         IN  /\ m \in LFs /\ m.deferred = d
             /\ m.leaders = l.leaders /\ m.clients = l.clients
             /\ m.client_thread_is_leader = l.client_thread_is_leader
             /\ m.event_loop_thread = l.event_loop_thread
             /\ m.client_leader_thread = l.client_leader_thread
             /\ m.event_loop_threads_waiting = l.event_loop_threads_waiting
             /\ m.follower_set = l.follower_set /\ m.woken = l.woken
             /\ m.has_shutdown = l.has_shutdown
             /\ m.reactor_shutdown = l.reactor_shutdown
             /\ m.event_loop_done = l.event_loop_done
<1> DEFINE m == [l EXCEPT !.deferred = d]
<1>1. m \in LFs
  BY DEF LFs
<1>2. /\ m.deferred = d /\ m.leaders = l.leaders /\ m.clients = l.clients
      /\ m.client_thread_is_leader = l.client_thread_is_leader
      /\ m.event_loop_thread = l.event_loop_thread
      /\ m.client_leader_thread = l.client_leader_thread
  BY DEF LFs
<1>3. /\ m.event_loop_threads_waiting = l.event_loop_threads_waiting
      /\ m.follower_set = l.follower_set /\ m.woken = l.woken
      /\ m.has_shutdown = l.has_shutdown
      /\ m.reactor_shutdown = l.reactor_shutdown
      /\ m.event_loop_done = l.event_loop_done
  BY DEF LFs
<1>4. QED
  BY <1>1, <1>2, <1>3

LEMMA ClientLeaderFacts ==
  ASSUME NEW l \in LFs, NEW t \in Threads
  PROVE  /\ LET m == set_client_leader_thread(l, t)
            IN  /\ m \in LFs /\ SameRest(l, m) /\ m.clients = l.clients
                /\ m.event_loop_done = l.event_loop_done
                /\ m.leaders = l.leaders + 1
                /\ m.client_thread_is_leader = l.client_thread_is_leader + 1
                /\ m.event_loop_thread = l.event_loop_thread
                /\ m.client_leader_thread =
                     [l.client_leader_thread EXCEPT ![t] = l.client_leader_thread[t] + 1]
         /\ LET m == reset_client_leader_thread(l, t)
                d == IF l.client_leader_thread[t] > 0 THEN 1 ELSE 0
            IN  /\ m \in LFs /\ SameRest(l, m) /\ m.clients = l.clients
                /\ m.event_loop_done = l.event_loop_done
                /\ m.leaders = l.leaders - d
                /\ m.client_thread_is_leader = l.client_thread_is_leader - d
                /\ m.event_loop_thread = l.event_loop_thread
                /\ m.client_leader_thread =
                     [l.client_leader_thread EXCEPT ![t] = l.client_leader_thread[t] - d]
<1> DEFINE c == l.client_leader_thread
<1>1. c \in [Threads -> Nat] /\ c[t] \in Nat
  BY DEF LFs
<1>2. [c EXCEPT ![t] = c[t] + 1] \in [Threads -> Nat]
  BY <1>1
<1>3. c[t] > 0 => [c EXCEPT ![t] = c[t] - 1] \in [Threads -> Nat]
  BY <1>1
<1>4. c = [c EXCEPT ![t] = c[t] - 0]
  BY <1>1
<1>5. set_client_leader_thread(l, t) =
        Leadership(l, l.leaders + 1, l.client_thread_is_leader + 1,
                   [c EXCEPT ![t] = c[t] + 1])
  BY <1>1 DEF set_client_leader_thread, Leadership
<1>6. c[t] > 0 => reset_client_leader_thread(l, t) =
        Leadership(l, l.leaders - 1, l.client_thread_is_leader - 1,
                   [c EXCEPT ![t] = c[t] - 1])
  BY <1>1 DEF reset_client_leader_thread, Leadership
<1>7. ~(c[t] > 0) => reset_client_leader_thread(l, t) = l
  BY DEF reset_client_leader_thread
<1>8. l.leaders \in Int /\ l.client_thread_is_leader \in Int
  BY DEF LFs
<1>9. LET m == set_client_leader_thread(l, t)
      IN  /\ m \in LFs /\ SameRest(l, m) /\ m.clients = l.clients
          /\ m.event_loop_done = l.event_loop_done
          /\ m.leaders = l.leaders + 1
          /\ m.client_thread_is_leader = l.client_thread_is_leader + 1
          /\ m.event_loop_thread = l.event_loop_thread
          /\ m.client_leader_thread = [c EXCEPT ![t] = c[t] + 1]
  <2>1. l.leaders + 1 \in Int /\ l.client_thread_is_leader + 1 \in Int
    BY <1>8
  <2>2. QED BY <1>2, <1>5, <2>1, UpdateLeadership
<1>10. CASE c[t] > 0
  <2>1. LET m == reset_client_leader_thread(l, t)
        IN  /\ m \in LFs /\ SameRest(l, m) /\ m.clients = l.clients
            /\ m.event_loop_done = l.event_loop_done
            /\ m.leaders = l.leaders - 1
            /\ m.client_thread_is_leader = l.client_thread_is_leader - 1
            /\ m.event_loop_thread = l.event_loop_thread
            /\ m.client_leader_thread = [c EXCEPT ![t] = c[t] - 1]
    <3>1. l.leaders - 1 \in Int /\ l.client_thread_is_leader - 1 \in Int
      BY <1>8
    <3>2. QED BY <1>3, <1>6, <1>10, <3>1, UpdateLeadership
  <2>2. QED BY <1>9, <1>10, <2>1
<1>11. CASE ~(c[t] > 0)
  <2>1. l.leaders = l.leaders - 0 /\ l.client_thread_is_leader = l.client_thread_is_leader - 0
    BY <1>8
  <2>2. QED BY <1>4, <1>7, <1>9, <1>11, <2>1 DEF SameRest
<1>12. QED
  BY <1>10, <1>11

LEMMA EventLoopFacts ==
  ASSUME NEW l \in LFs, NEW t \in Threads
  PROVE  /\ LET m == set_event_loop_thread(l, t)
            IN  /\ m \in LFs /\ SameRest(l, m) /\ m.clients = l.clients
                /\ m.event_loop_done = l.event_loop_done
                /\ m.leaders = l.leaders + IF Leads(l, t) THEN 0 ELSE 1
                /\ m.client_thread_is_leader = l.client_thread_is_leader
                /\ m.client_leader_thread = l.client_leader_thread
                /\ m.event_loop_thread =
                     [l.event_loop_thread EXCEPT ![t] = l.event_loop_thread[t] + 1]
         /\ LET m == reset_event_loop_thread(l, t)
                d == IF l.event_loop_thread[t] > 0 THEN 1 ELSE 0
            IN  /\ m \in LFs /\ SameRest(l, m) /\ m.clients = l.clients
                /\ m.event_loop_done = l.event_loop_done
                /\ m.leaders = l.leaders - IF d = 1 /\ ~Leads(m, t) THEN 1 ELSE 0
                /\ m.client_thread_is_leader = l.client_thread_is_leader
                /\ m.client_leader_thread = l.client_leader_thread
                /\ m.event_loop_thread =
                     [l.event_loop_thread EXCEPT ![t] = l.event_loop_thread[t] - d]
<1> DEFINE e == l.event_loop_thread
           r == [l EXCEPT !.event_loop_thread = [e EXCEPT ![t] = e[t] - 1]]
           lead == IF Leads(r, t) THEN l.leaders ELSE l.leaders - 1
<1>1. e \in [Threads -> Nat] /\ e[t] \in Nat /\ l.leaders \in Int
  BY DEF LFs
<1>2. [e EXCEPT ![t] = e[t] + 1] \in [Threads -> Nat]
  BY <1>1
<1>3. e[t] > 0 => [e EXCEPT ![t] = e[t] - 1] \in [Threads -> Nat]
  BY <1>1
<1>4. e = [e EXCEPT ![t] = e[t] - 0]
  BY <1>1
<1>5. set_event_loop_thread(l, t) =
        [l EXCEPT !.leaders = IF Leads(l, t) THEN l.leaders ELSE l.leaders + 1,
                  !.event_loop_thread = [e EXCEPT ![t] = e[t] + 1]]
  BY <1>1 DEF set_event_loop_thread
<1>6. ASSUME e[t] > 0
      PROVE  /\ reset_event_loop_thread(l, t) = [r EXCEPT !.leaders = lead]
             /\ lead \in Int
             /\ Leads([r EXCEPT !.leaders = lead], t) <=> Leads(r, t)
  <2>1. reset_event_loop_thread(l, t) = [r EXCEPT !.leaders = lead]
    BY <1>1, <1>6 DEF reset_event_loop_thread, LFs
  <2>2. QED BY <1>1, <2>1 DEF Leads, LFs
<1>7. ~(e[t] > 0) => reset_event_loop_thread(l, t) = l
  BY DEF reset_event_loop_thread
<1>8. LET m == set_event_loop_thread(l, t)
      IN  /\ m \in LFs /\ SameRest(l, m) /\ m.clients = l.clients
          /\ m.event_loop_done = l.event_loop_done
          /\ m.leaders = l.leaders + IF Leads(l, t) THEN 0 ELSE 1
          /\ m.client_thread_is_leader = l.client_thread_is_leader
          /\ m.client_leader_thread = l.client_leader_thread
          /\ m.event_loop_thread = [e EXCEPT ![t] = e[t] + 1]
  <2> DEFINE n == IF Leads(l, t) THEN l.leaders ELSE l.leaders + 1
  <2>1. n \in Int /\ n = l.leaders + IF Leads(l, t) THEN 0 ELSE 1
    BY <1>1
  <2>2. set_event_loop_thread(l, t) =
          [l EXCEPT !.leaders = n, !.event_loop_thread = [e EXCEPT ![t] = e[t] + 1]]
    BY <1>5
  <2> HIDE DEF n
  <2>3. QED BY <1>1, <1>2, <2>1, <2>2 DEF LFs, SameRest
<1>9. CASE e[t] > 0
  <2> DEFINE m == [r EXCEPT !.leaders = lead]
  <2>1. m.leaders = lead /\ (Leads(m, t) <=> Leads(r, t))
    BY <1>6, <1>9 DEF LFs
  <2>2. lead \in Int /\ lead = l.leaders - IF ~Leads(r, t) THEN 1 ELSE 0
    BY <1>1, <1>6, <1>9
  <2> HIDE DEF lead
  <2>3. /\ m \in LFs /\ SameRest(l, m) /\ m.clients = l.clients
        /\ m.event_loop_done = l.event_loop_done
        /\ m.client_thread_is_leader = l.client_thread_is_leader
        /\ m.client_leader_thread = l.client_leader_thread
        /\ m.event_loop_thread = [e EXCEPT ![t] = e[t] - 1]
    BY <1>1, <1>3, <1>9, <2>2 DEF LFs, SameRest
  <2>4. QED BY <1>6, <1>8, <1>9, <2>1, <2>2, <2>3
<1>10. CASE ~(e[t] > 0)
  BY <1>1, <1>4, <1>7, <1>8, <1>10 DEF SameRest
<1>11. QED
  BY <1>9, <1>10

LEMMA ClientThreadFacts ==
  ASSUME NEW l \in LFs, NEW t \in Threads
  PROVE  /\ LET m == set_client_thread(l, t)
            IN  /\ m \in LFs /\ SameRest(l, m)
                /\ m.leaders = l.leaders - IF Leads(l, t) THEN 1 ELSE 0
                /\ m.client_thread_is_leader = l.client_thread_is_leader
                /\ m.client_leader_thread = l.client_leader_thread
                /\ m.event_loop_thread = l.event_loop_thread
                /\ m.clients = l.clients + 1
                /\ m.event_loop_done =
                     (l.event_loop_done /\ ~(l.clients = 0 /\ l.has_shutdown /\ ~DropReplies))
         /\ LET m == reset_client_thread(l, t)
            IN  /\ m \in LFs /\ SameRest(l, m)
                /\ m.leaders = l.leaders + IF Leads(l, t) THEN 1 ELSE 0
                /\ m.client_thread_is_leader = l.client_thread_is_leader
                /\ m.client_leader_thread = l.client_leader_thread
                /\ m.event_loop_thread = l.event_loop_thread
                /\ m.clients = l.clients - 1
                /\ m.event_loop_done = (l.event_loop_done \/ (l.clients = 1 /\ l.has_shutdown))
<1>1. l.leaders \in Int /\ l.clients \in Int
  BY DEF LFs
<1> DEFINE down == IF Leads(l, t) THEN l.leaders - 1 ELSE l.leaders
           up   == IF Leads(l, t) THEN l.leaders + 1 ELSE l.leaders
           open == l.event_loop_done /\ ~(l.clients = 0 /\ l.has_shutdown /\ ~DropReplies)
           shut == l.event_loop_done \/ (l.clients = 1 /\ l.has_shutdown)
<1>2. /\ down \in Int /\ down = l.leaders - IF Leads(l, t) THEN 1 ELSE 0
      /\ up \in Int /\ up = l.leaders + IF Leads(l, t) THEN 1 ELSE 0
  BY <1>1
<1>3. open \in BOOLEAN /\ shut \in BOOLEAN
  OBVIOUS
<1> HIDE DEF down, up, open, shut
<1>4. LET m == set_client_thread(l, t)
      IN  /\ m \in LFs /\ SameRest(l, m) /\ m.leaders = down
          /\ m.client_thread_is_leader = l.client_thread_is_leader
          /\ m.client_leader_thread = l.client_leader_thread
          /\ m.event_loop_thread = l.event_loop_thread
          /\ m.clients = l.clients + 1 /\ m.event_loop_done = open
  <2> DEFINE m == set_client_thread(l, t)
  <2>1. m = [l EXCEPT !.leaders = down, !.event_loop_done = open, !.clients = l.clients + 1]
    BY DEF set_client_thread, down, open
  <2> HIDE DEF m
  <2>2. m \in LFs
    <3>1. l.clients + 1 \in Int /\ down \in Int
      BY <1>1, <1>2
    <3>2. QED BY <1>3, <2>1, <3>1 DEF LFs
  <2>3. m.leaders = down /\ m.event_loop_done = open /\ m.clients = l.clients + 1
    BY <1>1, <1>2, <1>3, <2>1 DEF LFs
  <2>4. SameRest(l, m)
    BY <2>1 DEF LFs, SameRest
  <2>5. /\ m.client_thread_is_leader = l.client_thread_is_leader
        /\ m.client_leader_thread = l.client_leader_thread
        /\ m.event_loop_thread = l.event_loop_thread
    BY <2>1 DEF LFs
  <2>6. QED BY <2>2, <2>3, <2>4, <2>5 DEF m
<1>5. LET m == reset_client_thread(l, t)
      IN  /\ m \in LFs /\ SameRest(l, m) /\ m.leaders = up
          /\ m.client_thread_is_leader = l.client_thread_is_leader
          /\ m.client_leader_thread = l.client_leader_thread
          /\ m.event_loop_thread = l.event_loop_thread
          /\ m.clients = l.clients - 1 /\ m.event_loop_done = shut
  <2> DEFINE m == reset_client_thread(l, t)
  <2>1. m = [l EXCEPT !.leaders = up, !.event_loop_done = shut, !.clients = l.clients - 1]
    BY DEF reset_client_thread, up, shut
  <2> HIDE DEF m
  <2>2. m \in LFs
    <3>1. l.clients - 1 \in Int /\ up \in Int
      BY <1>1, <1>2
    <3>2. QED BY <1>3, <2>1, <3>1 DEF LFs
  <2>3. m.leaders = up /\ m.event_loop_done = shut /\ m.clients = l.clients - 1
    BY <1>1, <1>2, <1>3, <2>1 DEF LFs
  <2>4. SameRest(l, m)
    BY <2>1 DEF LFs, SameRest
  <2>5. /\ m.client_thread_is_leader = l.client_thread_is_leader
        /\ m.client_leader_thread = l.client_leader_thread
        /\ m.event_loop_thread = l.event_loop_thread
    BY <2>1 DEF LFs
  <2>6. QED BY <2>2, <2>3, <2>4, <2>5 DEF m
<1>6. QED
  BY <1>2, <1>4, <1>5 DEF open, shut

-----------------------------------------------------------------------------
(* Steps, as they move the innermost call of a thread *)

LEMMA TopCons ==
  ASSUME NEW a \in Ats, NEW r \in Seq(Ats)
  PROVE  TopOf(<<a>> \o r) = a /\ Tail(<<a>> \o r) = r /\ <<a>> \o r \in Seq(Ats)
<1>1. /\ <<a>> \o r # <<>> /\ Head(<<a>> \o r) = a /\ Tail(<<a>> \o r) = r
      /\ <<a>> \o r \in Seq(Ats)
  BY Cons
<1>2. QED
  BY <1>1 DEF TopOf

At0(s) == IF s = <<>> THEN "application" ELSE Head(s).at

LEMMA AtShape ==
  ASSUME NEW s \in Seq(Calls)
  PROVE  At0(s) = TopOf(Shape(s)) /\ At0(s) \in Ats \cup {"application"}
         /\ (At0(s) = "application" <=> s = <<>>)
<1>1. CASE s = <<>>
  BY <1>1, ShapeType DEF At0, TopOf
<1>2. CASE s # <<>>
  <2>1. Head(s) \in Calls
    BY <1>2, ConsHeadTail
  <2>2. Head(s).at \in Ats /\ "application" \notin Ats
    BY <2>1 DEF Calls, Ats, Waiting, Looping
  <2>3. QED BY <1>2, <2>2, ShapeFacts DEF At0, TopOf
<1>3. QED
  BY <1>1, <1>2

\* Thread t changes its own list of calls to one of shape s.
Changes(t, s) ==
  /\ stack' \in [Threads -> Seq(Calls)]
  /\ Shape(stack'[t]) = s
  /\ \A u \in Threads \ {t} : Shape(stack'[u]) = Shape(stack[u])

LEMMA PushChanges ==
  ASSUME stack \in [Threads -> Seq(Calls)], NEW t \in Threads, NEW c \in Calls,
         stack' = Push(t, c)
  PROVE  /\ Changes(t, <<c.at>> \o Shape(stack[t]))
         /\ Len(stack'[t]) = Len(stack[t]) + 1
         /\ \A u \in Threads \ {t} : stack'[u] = stack[u]
<1>1. stack[t] \in Seq(Calls)
  OBVIOUS
<1>2. /\ <<c>> \o stack[t] \in Seq(Calls)
      /\ Shape(<<c>> \o stack[t]) = <<c.at>> \o Shape(stack[t])
      /\ Len(<<c>> \o stack[t]) = Len(stack[t]) + 1
  <2>1. /\ <<c>> \o stack[t] \in Seq(Calls)
        /\ Shape(<<c>> \o stack[t]) = <<c.at>> \o Shape(stack[t])
    BY <1>1, ShapeCons
  <2>2. Len(<<c>> \o stack[t]) = Len(stack[t]) + 1
    BY <1>1
  <2>3. QED BY <2>1, <2>2
<1>3. stack' = [stack EXCEPT ![t] = <<c>> \o stack[t]]
  BY DEF Push
<1>4. stack'[t] = <<c>> \o stack[t] /\ \A u \in Threads \ {t} : stack'[u] = stack[u]
  BY <1>3
<1>5. stack' \in [Threads -> Seq(Calls)]
  BY <1>2, <1>3
<1>6. QED
  BY <1>2, <1>4, <1>5 DEF Changes

LEMMA TopChanges ==
  ASSUME stack \in [Threads -> Seq(Calls)], NEW t \in Threads, NEW c \in Calls,
         stack[t] # <<>>, stack' = SetTop(t, c)
  PROVE  /\ Changes(t, <<c.at>> \o Tail(Shape(stack[t])))
         /\ Len(stack'[t]) = Len(stack[t])
         /\ Head(stack'[t]) = c
         /\ \A u \in Threads \ {t} : stack'[u] = stack[u]
<1> DEFINE r == Tail(stack[t])
<1>1. stack[t] \in Seq(Calls)
  OBVIOUS
<1>2. r \in Seq(Calls) /\ Len(r) = Len(stack[t]) - 1 /\ Len(stack[t]) \in Nat
  BY <1>1, ConsHeadTail
<1>3. Tail(Shape(stack[t])) = Shape(r)
  BY <1>1, ShapeFacts
<1>4. stack' = [stack EXCEPT ![t] = <<c>> \o r]
  BY DEF SetTop
<1> HIDE DEF r
<1>5. /\ <<c>> \o r \in Seq(Calls)
      /\ Shape(<<c>> \o r) = <<c.at>> \o Shape(r)
      /\ Len(<<c>> \o r) = Len(r) + 1 /\ Head(<<c>> \o r) = c
  <2>1. <<c>> \o r \in Seq(Calls) /\ Shape(<<c>> \o r) = <<c.at>> \o Shape(r)
    BY <1>2, ShapeCons
  <2>2. Len(<<c>> \o r) = Len(r) + 1 /\ Head(<<c>> \o r) = c
    BY <1>2
  <2>3. QED BY <2>1, <2>2
<1>6. stack'[t] = <<c>> \o r /\ \A u \in Threads \ {t} : stack'[u] = stack[u]
  BY <1>4
<1>7. stack' \in [Threads -> Seq(Calls)]
  BY <1>4, <1>5
<1>8. Shape(stack'[t]) = <<c.at>> \o Tail(Shape(stack[t]))
  BY <1>3, <1>5, <1>6
<1>9. Len(stack'[t]) = Len(stack[t]) /\ Head(stack'[t]) = c
  BY <1>2, <1>5, <1>6
<1>10. QED
  BY <1>6, <1>7, <1>8, <1>9 DEF Changes

LEMMA PopChanges ==
  ASSUME stack \in [Threads -> Seq(Calls)], NEW t \in Threads,
         stack[t] # <<>>, stack' = Pop(t)
  PROVE  /\ Changes(t, Tail(Shape(stack[t])))
         /\ Len(stack'[t]) = Len(stack[t]) - 1
         /\ \A u \in Threads \ {t} : stack'[u] = stack[u]
<1>1. stack[t] \in Seq(Calls)
  OBVIOUS
<1>2. Tail(stack[t]) \in Seq(Calls) /\ Len(Tail(stack[t])) = Len(stack[t]) - 1
  BY <1>1, ConsHeadTail
<1>3. Tail(Shape(stack[t])) = Shape(Tail(stack[t]))
  BY <1>1, ShapeFacts
<1>4. stack' = [stack EXCEPT ![t] = Tail(stack[t])]
  BY DEF Pop
<1>5. stack'[t] = Tail(stack[t]) /\ \A u \in Threads \ {t} : stack'[u] = stack[u]
  BY <1>4
<1>6. stack' \in [Threads -> Seq(Calls)]
  BY <1>2, <1>4
<1>7. QED
  BY <1>2, <1>3, <1>5, <1>6 DEF Changes

\* handle_events returns: an event loop has ended its iteration, and a client
\* that stays in the reactor is still a leader.
LEMMA ReturnedFacts ==
  ASSUME NEW st \in [Threads -> Seq(Calls)], NEW t \in Threads, st[t] # <<>>,
         NEW l, NEW result \in Results
  PROVE  LET r == Returned(st, l, t, result)
             n == TopOf(Shape(r[t]))
         IN  /\ r \in [Threads -> Seq(Calls)]
             /\ \A u \in Threads \ {t} : r[u] = st[u]
             /\ Shape(r[t]) = <<n>> \o Tail(Shape(st[t])) /\ Len(r[t]) = Len(st[t])
             /\ Head(st[t]).at = "running" => n = "ended"
             /\ Head(st[t]).at # "running" =>
                  n = "leaving" \/ (n = "leading" /\ l.client_leader_thread[t] > 0)
<1> DEFINE call  == [Head(st[t]) EXCEPT !.result = result]
           stays == /\ StillWaiting(call)
                    /\ l.event_loop_threads_waiting = {}
                    /\ l.client_leader_thread[t] > 0
           next  == IF call.at = "running" THEN "ended"
                    ELSE IF stays THEN "leading" ELSE "leaving"
           c == [call EXCEPT !.at = next]
           q == Tail(st[t])
           r == Returned(st, l, t, result)
<1>1. st[t] \in Seq(Calls)
  OBVIOUS
<1>2. Head(st[t]) \in Calls /\ q \in Seq(Calls) /\ Len(q) = Len(st[t]) - 1 /\ Len(st[t]) \in Nat
  BY <1>1, ConsHeadTail
<1>3. call \in Calls /\ call.at = Head(st[t]).at
  BY <1>2 DEF Calls
<1>4. /\ next \in {"ended", "leading", "leaving"}
      /\ Head(st[t]).at = "running" => next = "ended"
      /\ Head(st[t]).at # "running" =>
           next = "leaving" \/ (next = "leading" /\ l.client_leader_thread[t] > 0)
  BY <1>3
<1>5. r = [st EXCEPT ![t] = <<c>> \o q]
  BY DEF Returned
<1> HIDE DEF call, next, q, r
<1>6. c \in Calls /\ c.at = next
  BY <1>3, <1>4 DEF Calls, Waiting, Looping
<1> HIDE DEF c
<1>7. /\ <<c>> \o q \in Seq(Calls) /\ Len(<<c>> \o q) = Len(st[t])
  BY <1>2, <1>6
<1>8. Shape(<<c>> \o q) = <<next>> \o Shape(q) /\ Shape(q) \in Seq(Ats) /\ next \in Ats
  BY <1>2, <1>6, ShapeCons
<1>9. Shape(q) = Tail(Shape(st[t]))
  BY <1>1, ShapeFacts DEF q
<1>10. r \in [Threads -> Seq(Calls)] /\ r[t] = <<c>> \o q
       /\ \A u \in Threads \ {t} : r[u] = st[u]
  BY <1>5, <1>7
<1>11. TopOf(Shape(r[t])) = next
  <2>1. TopOf(<<next>> \o Shape(q)) = next
    BY <1>8, TopCons
  <2>2. QED BY <1>8, <1>10, <2>1
<1>12. QED
  BY <1>4, <1>7, <1>8, <1>9, <1>10, <1>11 DEF r

\* An event changes, and nothing else.
LEMMA ChangedFacts ==
  ASSUME stack \in [Threads -> Seq(Calls)], NEW u \in Threads, NEW i \in 1..Len(stack[u]),
         NEW new \in Completions
  PROVE  LET st == Changed(u, i, new)
         IN  /\ st \in [Threads -> Seq(Calls)]
             /\ \A v \in Threads : Shape(st[v]) = Shape(stack[v]) /\ Len(st[v]) = Len(stack[v])
             /\ \A v \in Threads \ {u} : st[v] = stack[v]
             /\ i # 1 => Head(st[u]) = Head(stack[u])
             /\ stack[u] # <<>> /\ st[u] # <<>>
<1> DEFINE d == state_changed(stack[u][i], new)
           q == [stack[u] EXCEPT ![i] = d]
           st == Changed(u, i, new)
<1>1. stack[u] \in Seq(Calls) /\ stack[u][i] \in Calls /\ Len(stack[u]) \in Nat
  OBVIOUS
<1>2. d \in Calls /\ d.at = stack[u][i].at
  BY <1>1 DEF state_changed, state_changed_i, is_state_final, Completions, Calls, States
<1>3. st = [stack EXCEPT ![u] = q]
  BY DEF Changed
<1> HIDE DEF d
<1>4. q \in Seq(Calls) /\ Len(q) = Len(stack[u])
      /\ \A j \in 1..Len(q) : q[j].at = stack[u][j].at /\ (j # i => q[j] = stack[u][j])
  BY <1>1, <1>2
<1>5. Shape(q) = Shape(stack[u])
  BY <1>1, <1>4 DEF Shape
<1> HIDE DEF q, st
<1>6. stack[u] # <<>> /\ q # <<>>
  BY <1>1, <1>4
<1>7. st \in [Threads -> Seq(Calls)] /\ st[u] = q
      /\ \A v \in Threads \ {u} : st[v] = stack[v]
  BY <1>3, <1>4
<1>8. i # 1 => Head(q) = Head(stack[u])
  BY <1>1, <1>4, <1>6
<1>9. QED
  BY <1>4, <1>5, <1>6, <1>7, <1>8 DEF st

-----------------------------------------------------------------------------
(* The books: what a step of thread t may do to the counters *)

\* Calls that clients_ counts.
Clienting == {"follower", "leading", "leaving", "yielding"}

Serving(s) == Cardinality(Inside(s, 1, Clienting))

\* What thread t, whose calls have shape s, contributes to leaders_.
Counts(l, s, t) ==
  IF Leads(l, t) /\ TopOf(s) \notin {"follower", "yielding"} THEN 1 ELSE 0

\* The thread's own accounts are in order.
Orderly(l, s, t) ==
  /\ Nest(s)
  /\ Lent(s, l.client_leader_thread[t], l.event_loop_thread[t])
  /\ TopOf(s) = "running" => l.event_loop_thread[t] > 0
  /\ TopOf(s) = "leading" => l.client_leader_thread[t] > 0

\* From l, with calls of shape s, to m, with calls of shape r, each counter
\* changes by what the contribution of t changes by.
Books(l, s, m, r, t) ==
  /\ \A u \in Threads \ {t} :
       /\ m.event_loop_thread[u] = l.event_loop_thread[u]
       /\ m.client_leader_thread[u] = l.client_leader_thread[u]
  /\ m.leaders - Counts(m, r, t) = l.leaders - Counts(l, s, t)
  /\ m.client_thread_is_leader - m.client_leader_thread[t]
       = l.client_thread_is_leader - l.client_leader_thread[t]
  /\ m.clients - Serving(r) = l.clients - Serving(s)

LEMMA BooksTransitive ==
  ASSUME NEW l, NEW m, NEW n, NEW s, NEW r, NEW q, NEW t,
         Books(l, s, m, r, t), Books(m, r, n, q, t)
  PROVE  Books(l, s, n, q, t)
BY DEF Books

\* l and m agree on the counters.
SameCounters(l, m) ==
  /\ m.leaders = l.leaders /\ m.clients = l.clients
  /\ m.client_thread_is_leader = l.client_thread_is_leader
  /\ m.event_loop_thread = l.event_loop_thread
  /\ m.client_leader_thread = l.client_leader_thread

LEMMA BooksSame ==
  ASSUME NEW l, NEW m, NEW n, NEW s, NEW r, NEW t, SameCounters(m, n)
  PROVE  /\ Books(m, s, n, s, t)
         /\ Books(l, s, m, r, t) => Books(l, s, n, r, t)
         /\ Orderly(m, r, t) => Orderly(n, r, t)
<1>1. Leads(m, t) <=> Leads(n, t)
  BY DEF SameCounters, Leads
<1>2. Counts(m, s, t) = Counts(n, s, t) /\ Counts(m, r, t) = Counts(n, r, t)
  BY <1>1 DEF Counts
<1>3. Books(m, s, n, s, t)
  BY <1>2 DEF Books, SameCounters
<1>4. Books(l, s, m, r, t) => Books(l, s, n, r, t)
  BY <1>2 DEF Books, SameCounters
<1>5. Orderly(m, r, t) => Orderly(n, r, t)
  BY DEF Orderly, SameCounters
<1>6. QED
  BY <1>3, <1>4, <1>5

LEMMA BooksElect ==
  ASSUME NEW l, NEW m, NEW n, NEW s, NEW r, NEW t,
         Books(l, s, m, r, t), SameBooks(m, n)
  PROVE  Books(l, s, n, r, t)
BY DEF Books, SameBooks, Counts, Leads

LEMMA OrderlyElect ==
  ASSUME NEW m, NEW n, NEW r, NEW t, Orderly(m, r, t), SameBooks(m, n)
  PROVE  Orderly(n, r, t)
BY DEF Orderly, SameBooks

LEMMA LFTypes ==
  ASSUME NEW l \in LFs, NEW t \in Threads
  PROVE  /\ l.leaders \in Int /\ l.clients \in Int /\ l.client_thread_is_leader \in Int
         /\ l.event_loop_thread[t] \in Nat /\ l.client_leader_thread[t] \in Nat
BY DEF LFs

LEMMA ServingCons ==
  ASSUME NEW a \in Ats, NEW r \in Seq(Ats)
  PROVE  /\ Serving(r) \in Nat
         /\ a \in Clienting => Serving(<<a>> \o r) = Serving(r) + 1
         /\ a \notin Clienting => Serving(<<a>> \o r) = Serving(r)
<1>1. 1 \in 1..(Len(r) + 1)
  OBVIOUS
<1>2. /\ Cardinality(Inside(r, 1, Clienting)) \in Nat
      /\ Cardinality(Inside(<<a>> \o r, 1, Clienting)) =
           Cardinality(Inside(r, 1, Clienting)) + IF a \in Clienting THEN 1 ELSE 0
  BY <1>1, InsideCons
<1>3. QED
  BY <1>2 DEF Serving

\* Where a call returns to, if it is not an upcall.
LEMMA BaseFacts ==
  ASSUME NEW a \in Ats, NEW r \in Seq(Ats), Nest(<<a>> \o r), a # "upcall"
  PROVE  /\ Nest(r) /\ TopOf(r) \in {"application", "upcall"}
         /\ \A b \in Ats \ {"upcall"} : Nest(<<b>> \o r)
<1>1. Nest(r) /\ (r # <<>> => Head(r) = "upcall")
  BY NestCons
<1>2. \A b \in Ats \ {"upcall"} : Nest(<<b>> \o r)
  BY <1>1, NestCons
<1>3. QED
  BY <1>1, <1>2 DEF TopOf

\* The classes of the places.
LEMMA PlaceFacts ==
  /\ {"sent", "follower", "leading", "leaving", "yielding", "loop", "starting",
      "entering", "running", "ended", "failed", "upcall"} \subseteq Ats
  /\ Leading \subseteq Clienting /\ Leading \cap Running = {}
  /\ {"follower", "yielding", "leading", "leaving"} \subseteq Clienting
  /\ {"leading", "leaving"} = Leading /\ {"running", "ended"} = Running
  /\ {"sent", "follower", "yielding", "loop", "starting", "entering", "failed", "upcall",
      "application"} \cap (Leading \cup Running) = {}
  /\ {"sent", "loop", "starting", "entering", "running", "ended", "failed", "upcall",
      "application"} \cap Clienting = {}
BY DEF Ats, Waiting, Looping, Leading, Running, Clienting

\* LentCons, by the places.
LEMMA LentPlaces ==
  ASSUME NEW r \in Seq(Ats), NEW c \in Int, NEW e \in Int
  PROVE  /\ \A a \in {"sent", "follower", "yielding", "loop", "starting", "entering",
                      "failed", "upcall"} : Lent(<<a>> \o r, c, e) <=> Lent(r, c, e)
         /\ \A a \in {"running", "ended"} : Lent(<<a>> \o r, c, e) <=> Lent(r, c, e - 1)
         /\ \A a \in {"leading", "leaving"} :
              Lent(<<a>> \o r, c, e) <=> Lent(r, c - 1, e) /\ (c < 1 => e <= 0)
<1>1. ASSUME NEW a \in {"sent", "follower", "yielding", "loop", "starting", "entering",
                        "failed", "upcall"}
      PROVE  Lent(<<a>> \o r, c, e) <=> Lent(r, c, e)
  <2>1. a \in Ats /\ a \notin Leading \cup Running
    BY DEF Ats, Waiting, Looping, Leading, Running
  <2>2. QED BY <2>1, LentCons
<1>2. ASSUME NEW a \in {"running", "ended"}
      PROVE  Lent(<<a>> \o r, c, e) <=> Lent(r, c, e - 1)
  <2>1. a \in Ats /\ a \in Running
    BY DEF Ats, Waiting, Looping, Running
  <2>2. QED BY <2>1, LentCons
<1>3. ASSUME NEW a \in {"leading", "leaving"}
      PROVE  Lent(<<a>> \o r, c, e) <=> Lent(r, c - 1, e) /\ (c < 1 => e <= 0)
  <2>1. a \in Ats /\ a \in Leading
    BY DEF Ats, Waiting, Looping, Leading
  <2>2. QED BY <2>1, LentCons
<1>4. QED
  BY <1>1, <1>2, <1>3

\* A client that has stepped down waits as a follower,
LEMMA FollowBooks ==
  ASSUME NEW l \in LFs, NEW t \in Threads, NEW B \in Seq(Ats),
         Orderly(l, <<"yielding">> \o B, t)
  PROVE  LET m == add_follower(l, t)
         IN  /\ m \in LFs
             /\ Books(l, <<"yielding">> \o B, m, <<"follower">> \o B, t)
             /\ Orderly(m, <<"follower">> \o B, t)
<1> DEFINE m == add_follower(l, t)
<1>1. m \in LFs /\ SameBooks(l, m)
  BY SignalFacts
<1>2. /\ TopOf(<<"yielding">> \o B) = "yielding" /\ TopOf(<<"follower">> \o B) = "follower"
      /\ Serving(<<"follower">> \o B) = Serving(<<"yielding">> \o B)
  BY PlaceFacts, TopCons, ServingCons
<1>3. Nest(<<"follower">> \o B)
  BY PlaceFacts, BaseFacts DEF Orderly
<1> HIDE DEF m
<1>4. Lent(<<"follower">> \o B, m.client_leader_thread[t], m.event_loop_thread[t])
  <2>1. l.client_leader_thread[t] \in Int /\ l.event_loop_thread[t] \in Int
    BY LFTypes
  <2>2. Lent(<<"follower">> \o B, l.client_leader_thread[t], l.event_loop_thread[t])
    BY <2>1, LentPlaces DEF Orderly
  <2>3. QED BY <1>1, <2>2 DEF SameBooks
<1>5. QED
  BY <1>1, <1>2, <1>3, <1>4 DEF m, Books, SameBooks, Counts, Orderly

\* becomes the client leader,
LEMMA LeadBooks ==
  ASSUME NEW l \in LFs, NEW t \in Threads, NEW B \in Seq(Ats),
         Orderly(l, <<"yielding">> \o B, t)
  PROVE  LET m == set_client_leader_thread(l, t)
         IN  /\ m \in LFs
             /\ Books(l, <<"yielding">> \o B, m, <<"leading">> \o B, t)
             /\ Orderly(m, <<"leading">> \o B, t)
<1> DEFINE m == set_client_leader_thread(l, t)
           c == l.client_leader_thread
<1>1. /\ m \in LFs /\ m.clients = l.clients
      /\ m.leaders = l.leaders + 1
      /\ m.client_thread_is_leader = l.client_thread_is_leader + 1
      /\ m.event_loop_thread = l.event_loop_thread
      /\ m.client_leader_thread = [c EXCEPT ![t] = c[t] + 1]
  BY ClientLeaderFacts
<1>2. c \in [Threads -> Nat]
  BY DEF LFs
<1>3. m.client_leader_thread[t] = c[t] + 1
      /\ \A u \in Threads \ {t} : m.client_leader_thread[u] = c[u]
  BY <1>1, <1>2
<1>4. /\ TopOf(<<"yielding">> \o B) = "yielding" /\ TopOf(<<"leading">> \o B) = "leading"
      /\ Serving(<<"leading">> \o B) = Serving(<<"yielding">> \o B)
  BY PlaceFacts, TopCons, ServingCons
<1>5. Nest(<<"leading">> \o B)
  BY PlaceFacts, BaseFacts DEF Orderly
<1>6. /\ l.leaders \in Int /\ l.clients \in Int /\ l.client_thread_is_leader \in Int
      /\ l.event_loop_thread[t] \in Nat /\ c[t] \in Nat
  BY LFTypes
<1>7. Lent(B, c[t], l.event_loop_thread[t])
  BY <1>6, LentPlaces DEF Orderly
<1> HIDE DEF m, c
<1>8. Lent(<<"leading">> \o B, c[t] + 1, l.event_loop_thread[t])
  <2> DEFINE d == c[t] + 1
             e == l.event_loop_thread[t]
  <2>1. d \in Int /\ d - 1 = c[t] /\ ~(d < 1) /\ e \in Int
    BY <1>6
  <2>2. Lent(B, d - 1, e)
    BY <1>7, <2>1
  <2> HIDE DEF d, e
  <2>3. Lent(<<"leading">> \o B, d, e)
    BY <2>1, <2>2, LentPlaces
  <2>4. QED BY <2>3 DEF d, e
<1>9. Counts(m, <<"leading">> \o B, t) = 1 /\ Counts(l, <<"yielding">> \o B, t) = 0
  BY <1>3, <1>4, <1>6 DEF Counts, Leads
<1>10. Books(l, <<"yielding">> \o B, m, <<"leading">> \o B, t)
  <2>1. m.leaders - 1 = l.leaders - 0
    BY <1>1, <1>6
  <2>2. m.client_thread_is_leader - m.client_leader_thread[t]
          = l.client_thread_is_leader - c[t]
    BY <1>1, <1>3, <1>6, SMTT(30)
  <2>3. QED BY <1>1, <1>3, <1>4, <1>9, <2>1, <2>2 DEF Books, c
<1>11. Orderly(m, <<"leading">> \o B, t)
  BY <1>1, <1>3, <1>4, <1>5, <1>6, <1>8 DEF Orderly
<1>12. QED
  BY <1>1, <1>10, <1>11 DEF m

\* or is done and returns.
LEMMA ReturnBooks ==
  ASSUME NEW l \in LFs, NEW t \in Threads, NEW B \in Seq(Ats),
         Orderly(l, <<"yielding">> \o B, t)
  PROVE  LET m == reset_client_thread(l, t)
         IN  /\ m \in LFs
             /\ Books(l, <<"yielding">> \o B, m, B, t)
             /\ Orderly(m, B, t)
<1> DEFINE m == reset_client_thread(l, t)
<1>1. /\ m \in LFs
      /\ m.leaders = l.leaders + IF Leads(l, t) THEN 1 ELSE 0
      /\ m.client_thread_is_leader = l.client_thread_is_leader
      /\ m.client_leader_thread = l.client_leader_thread
      /\ m.event_loop_thread = l.event_loop_thread
      /\ m.clients = l.clients - 1
  BY ClientThreadFacts
<1> HIDE DEF m
<1>2. /\ TopOf(<<"yielding">> \o B) = "yielding"
      /\ Serving(<<"yielding">> \o B) = Serving(B) + 1 /\ Serving(B) \in Nat
  BY PlaceFacts, TopCons, ServingCons
<1>3. Nest(B) /\ TopOf(B) \in {"application", "upcall"}
  BY PlaceFacts, BaseFacts DEF Orderly
<1>4. /\ l.leaders \in Int /\ l.clients \in Int /\ l.client_thread_is_leader \in Int
      /\ l.event_loop_thread[t] \in Nat /\ l.client_leader_thread[t] \in Nat
  BY LFTypes
<1>5. Lent(B, l.client_leader_thread[t], l.event_loop_thread[t])
  BY <1>4, LentPlaces DEF Orderly
<1>6. /\ Counts(m, B, t) = IF Leads(l, t) THEN 1 ELSE 0
      /\ Counts(l, <<"yielding">> \o B, t) = 0
  BY <1>1, <1>2, <1>3 DEF Counts, Leads
<1>7. Books(l, <<"yielding">> \o B, m, B, t)
  BY <1>1, <1>2, <1>4, <1>6, SMTT(30) DEF Books
<1>8. Orderly(m, B, t)
  BY <1>1, <1>3, <1>5 DEF Orderly
<1>9. QED
  BY <1>1, <1>7, <1>8 DEF m

\* A client steps down when it begins to wait,
LEMMA StepDownBooks ==
  ASSUME NEW l \in LFs, NEW t \in Threads, NEW B \in Seq(Ats),
         Orderly(l, <<"sent">> \o B, t)
  PROVE  LET m == set_client_thread(l, t)
         IN  /\ m \in LFs
             /\ Books(l, <<"sent">> \o B, m, <<"yielding">> \o B, t)
             /\ Orderly(m, <<"yielding">> \o B, t)
<1> DEFINE m == set_client_thread(l, t)
<1>1. /\ m \in LFs
      /\ m.leaders = l.leaders - IF Leads(l, t) THEN 1 ELSE 0
      /\ m.client_thread_is_leader = l.client_thread_is_leader
      /\ m.client_leader_thread = l.client_leader_thread
      /\ m.event_loop_thread = l.event_loop_thread
      /\ m.clients = l.clients + 1
  BY ClientThreadFacts
<1> HIDE DEF m
<1>2. /\ TopOf(<<"yielding">> \o B) = "yielding" /\ TopOf(<<"sent">> \o B) = "sent"
      /\ Serving(<<"yielding">> \o B) = Serving(B) + 1 /\ Serving(B) \in Nat
      /\ Serving(<<"sent">> \o B) = Serving(B)
  BY PlaceFacts, TopCons, ServingCons
<1>3. Nest(<<"yielding">> \o B)
  BY PlaceFacts, BaseFacts DEF Orderly
<1>4. /\ l.leaders \in Int /\ l.clients \in Int /\ l.client_thread_is_leader \in Int
      /\ l.event_loop_thread[t] \in Nat /\ l.client_leader_thread[t] \in Nat
  BY LFTypes
<1>5. Lent(<<"yielding">> \o B, l.client_leader_thread[t], l.event_loop_thread[t])
  <2>1. l.client_leader_thread[t] \in Int /\ l.event_loop_thread[t] \in Int
    BY <1>4
  <2>2. Lent(B, l.client_leader_thread[t], l.event_loop_thread[t])
    BY <2>1, LentPlaces DEF Orderly
  <2>3. QED BY <2>1, <2>2, LentPlaces
<1>6. /\ Counts(l, <<"sent">> \o B, t) = IF Leads(l, t) THEN 1 ELSE 0
      /\ Counts(m, <<"yielding">> \o B, t) = 0
  BY <1>1, <1>2 DEF Counts, Leads
<1>7. Books(l, <<"sent">> \o B, m, <<"yielding">> \o B, t)
  <2>1. m.leaders - Counts(m, <<"yielding">> \o B, t) = l.leaders - Counts(l, <<"sent">> \o B, t)
    BY <1>1, <1>4, <1>6
  <2>2. m.clients - Serving(<<"yielding">> \o B) = l.clients - Serving(<<"sent">> \o B)
    BY <1>1, <1>2, <1>4, SMTT(30)
  <2>3. QED BY <1>1, <2>1, <2>2 DEF Books
<1>8. Orderly(m, <<"yielding">> \o B, t)
  BY <1>1, <1>2, <1>3, <1>5 DEF Orderly
<1>9. QED
  BY <1>1, <1>7, <1>8 DEF m

\* and when it leaves the reactor: had it lent its leadership, the thread has
\* none as an event loop either.
LEMMA LeaveBooks ==
  ASSUME NEW l \in LFs, NEW t \in Threads, NEW B \in Seq(Ats),
         Orderly(l, <<"leaving">> \o B, t)
  PROVE  LET m == reset_client_leader_thread(l, t)
         IN  /\ m \in LFs
             /\ Books(l, <<"leaving">> \o B, m, <<"yielding">> \o B, t)
             /\ Orderly(m, <<"yielding">> \o B, t)
<1> DEFINE m == reset_client_leader_thread(l, t)
           c == l.client_leader_thread
           e == l.event_loop_thread[t]
           d == IF c[t] > 0 THEN 1 ELSE 0
<1>1. /\ m \in LFs /\ m.clients = l.clients
      /\ m.leaders = l.leaders - d
      /\ m.client_thread_is_leader = l.client_thread_is_leader - d
      /\ m.event_loop_thread = l.event_loop_thread
      /\ m.client_leader_thread = [c EXCEPT ![t] = c[t] - d]
  BY ClientLeaderFacts
<1>2. c \in [Threads -> Nat]
  BY DEF LFs
<1>3. m.client_leader_thread[t] = c[t] - d
      /\ \A u \in Threads \ {t} : m.client_leader_thread[u] = c[u]
  BY <1>1, <1>2
<1>4. /\ TopOf(<<"yielding">> \o B) = "yielding" /\ TopOf(<<"leaving">> \o B) = "leaving"
      /\ Serving(<<"leaving">> \o B) = Serving(<<"yielding">> \o B)
  BY PlaceFacts, TopCons, ServingCons
<1>5. Nest(<<"yielding">> \o B)
  BY PlaceFacts, BaseFacts DEF Orderly
<1>6. /\ l.leaders \in Int /\ l.clients \in Int /\ l.client_thread_is_leader \in Int
      /\ e \in Nat /\ c[t] \in Nat
  BY LFTypes
<1>7. Lent(B, c[t] - 1, e) /\ (c[t] < 1 => e <= 0)
  <2>1. c[t] \in Int /\ e \in Int
    BY <1>6
  <2>2. Lent(<<"leaving">> \o B, c[t], e)
    BY DEF Orderly
  <2> HIDE DEF c, e
  <2>3. QED BY <2>1, <2>2, LentPlaces
<1>8. d = Counts(l, <<"leaving">> \o B, t) /\ Counts(m, <<"yielding">> \o B, t) = 0
      /\ d \in Int
  BY <1>4, <1>6, <1>7 DEF Counts, Leads
<1>9. Lent(B, c[t] - d, e)
  <2>1. c[t] - 1 \in Int /\ c[t] - d \in Int /\ (e <= 0 \/ (c[t] - 1 <= c[t] - d /\ e <= e))
    BY <1>6, <1>7
  <2>2. QED BY <1>6, <1>7, <2>1, LentLess
<1> HIDE DEF m, c, d, e
<1>10. Lent(<<"yielding">> \o B, c[t] - d, e)
  <2>1. c[t] - d \in Int
    BY <1>6, <1>8
  <2>2. QED BY <1>6, <1>9, <2>1, LentPlaces
<1>11. Books(l, <<"leaving">> \o B, m, <<"yielding">> \o B, t)
  BY <1>1, <1>3, <1>4, <1>6, <1>8, SMTT(30) DEF Books, c
<1>12. Orderly(m, <<"yielding">> \o B, t)
  BY <1>1, <1>3, <1>4, <1>5, <1>10 DEF Orderly, e
<1>13. QED
  BY <1>1, <1>11, <1>12 DEF m

\* A thread begins an iteration of the event loop,
LEMMA EnterBooks ==
  ASSUME NEW l \in LFs, NEW t \in Threads, NEW B \in Seq(Ats),
         NEW a \in {"starting", "entering"}, Orderly(l, <<a>> \o B, t)
  PROVE  LET m == set_event_loop_thread(l, t)
         IN  /\ m \in LFs
             /\ Books(l, <<a>> \o B, m, <<"running">> \o B, t)
             /\ Orderly(m, <<"running">> \o B, t)
<1> DEFINE m == set_event_loop_thread(l, t)
           f == l.event_loop_thread
           c == l.client_leader_thread[t]
           e == f[t] + 1
<1>1. /\ m \in LFs /\ m.clients = l.clients
      /\ m.leaders = l.leaders + IF Leads(l, t) THEN 0 ELSE 1
      /\ m.client_thread_is_leader = l.client_thread_is_leader
      /\ m.client_leader_thread = l.client_leader_thread
      /\ m.event_loop_thread = [f EXCEPT ![t] = e]
  BY EventLoopFacts
<1>2. f \in [Threads -> Nat]
  BY DEF LFs
<1>3. m.event_loop_thread[t] = e /\ \A u \in Threads \ {t} : m.event_loop_thread[u] = f[u]
  BY <1>1, <1>2
<1>4. a \in Ats \ {"upcall"} /\ "running" \in Ats
      /\ a \notin Clienting /\ "running" \notin Clienting
  BY DEF Ats, Waiting, Looping, Clienting
<1>5. /\ TopOf(<<a>> \o B) = a /\ TopOf(<<"running">> \o B) = "running"
      /\ Serving(<<a>> \o B) = Serving(<<"running">> \o B)
  BY <1>4, TopCons, ServingCons
<1>6. Nest(<<"running">> \o B)
  BY <1>4, BaseFacts DEF Orderly
<1>7. l.leaders \in Int /\ f[t] \in Nat /\ c \in Nat /\ e \in Int /\ e - 1 = f[t] /\ e > 0
  BY LFTypes
<1>8. c \in Int /\ f[t] \in Int /\ Lent(<<a>> \o B, c, f[t])
  BY <1>7 DEF Orderly
<1> HIDE DEF m, f, c, e
<1>9. Lent(<<"running">> \o B, c, e)
  <2>1. Lent(B, c, f[t])
    <3> DEFINE g == f[t]
    <3>1. g \in Int /\ Lent(<<a>> \o B, c, g)
      BY <1>8
    <3> HIDE DEF g
    <3>2. Lent(B, c, g)
      BY <1>8, <3>1, LentPlaces
    <3>3. QED BY <3>2 DEF g
  <2>2. Lent(B, c, e - 1)
    BY <1>7, <2>1
  <2>3. QED BY <1>7, <1>8, <2>2, LentPlaces
<1>10. /\ Counts(l, <<a>> \o B, t) = IF Leads(l, t) THEN 1 ELSE 0
       /\ Counts(m, <<"running">> \o B, t) = 1
  BY <1>3, <1>5, <1>7 DEF Counts, Leads
<1>11. Books(l, <<a>> \o B, m, <<"running">> \o B, t)
  <2>1. m.leaders - 1 = l.leaders - Counts(l, <<a>> \o B, t)
    BY <1>1, <1>7, <1>10
  <2>2. QED BY <1>1, <1>3, <1>5, <1>10, <2>1 DEF Books, f
<1>12. Orderly(m, <<"running">> \o B, t)
  BY <1>1, <1>3, <1>5, <1>6, <1>7, <1>9 DEF Orderly, c
<1>13. QED
  BY <1>1, <1>11, <1>12 DEF m

\* and ends it, to begin another one or to return.
LEMMA EndBooks ==
  ASSUME NEW l \in LFs, NEW t \in Threads, NEW B \in Seq(Ats),
         Orderly(l, <<"ended">> \o B, t), NEW r \in {<<"loop">> \o B, B}
  PROVE  LET m == reset_event_loop_thread(l, t)
         IN  m \in LFs /\ Books(l, <<"ended">> \o B, m, r, t) /\ Orderly(m, r, t)
<1> DEFINE m == reset_event_loop_thread(l, t)
           f == l.event_loop_thread
           c == l.client_leader_thread[t]
           d == IF f[t] > 0 THEN 1 ELSE 0
           e == f[t] - d
<1>1. /\ m \in LFs /\ m.clients = l.clients
      /\ m.leaders = l.leaders - IF d = 1 /\ ~Leads(m, t) THEN 1 ELSE 0
      /\ m.client_thread_is_leader = l.client_thread_is_leader
      /\ m.client_leader_thread = l.client_leader_thread
      /\ m.event_loop_thread = [f EXCEPT ![t] = e]
  BY EventLoopFacts
<1>2. f \in [Threads -> Nat]
  BY DEF LFs
<1>3. m.event_loop_thread[t] = e /\ \A u \in Threads \ {t} : m.event_loop_thread[u] = f[u]
  BY <1>1, <1>2
<1>4. {"ended", "loop"} \subseteq Ats \ {"upcall"} /\ {"ended", "loop"} \cap Clienting = {}
  BY DEF Ats, Waiting, Looping, Clienting
<1>5. /\ TopOf(<<"ended">> \o B) = "ended" /\ TopOf(<<"loop">> \o B) = "loop"
      /\ Serving(<<"ended">> \o B) = Serving(B) /\ Serving(<<"loop">> \o B) = Serving(B)
  BY <1>4, TopCons, ServingCons
<1>6. Nest(B) /\ Nest(<<"loop">> \o B) /\ TopOf(B) \in {"application", "upcall"}
  BY <1>4, BaseFacts DEF Orderly
<1>7. l.leaders \in Int /\ f[t] \in Nat /\ c \in Nat /\ e \in Int /\ d \in {0, 1}
  BY LFTypes
<1>8. Lent(B, c, f[t] - 1)
  <2> DEFINE g == f[t]
  <2>1. c \in Int /\ g \in Int /\ Lent(<<"ended">> \o B, c, g)
    BY <1>7 DEF Orderly
  <2> HIDE DEF c, g
  <2>2. Lent(B, c, g - 1)
    BY <2>1, LentPlaces
  <2>3. QED BY <2>2 DEF g
<1>9. Lent(B, c, e)
  <2>1. f[t] - 1 \in Int /\ (e <= 0 \/ (c <= c /\ e <= f[t] - 1))
    BY <1>7
  <2>2. QED BY <1>7, <1>8, <2>1, LentLess
<1>10. TopOf(r) \in {"application", "upcall", "loop"} /\ Nest(r)
       /\ Serving(r) = Serving(<<"ended">> \o B)
  BY <1>5, <1>6
<1>11. Lent(r, c, e)
  <2>1. Lent(<<"loop">> \o B, c, e)
    BY <1>7, <1>9, LentPlaces
  <2>2. QED BY <1>9, <2>1
<1>12. /\ Counts(l, <<"ended">> \o B, t) = IF Leads(l, t) THEN 1 ELSE 0
       /\ Counts(m, r, t) = IF Leads(m, t) THEN 1 ELSE 0
  BY <1>5, <1>10 DEF Counts
<1>13. m.leaders - Counts(m, r, t) = l.leaders - Counts(l, <<"ended">> \o B, t)
  <2>1. CASE d = 0
    <3>1. Leads(m, t) <=> Leads(l, t)
      BY <1>1, <1>3, <1>7, <2>1 DEF Leads
    <3>2. QED BY <1>1, <1>7, <1>12, <2>1, <3>1
  <2>2. CASE d = 1
    <3>1. Leads(l, t)
      BY <1>7, <2>2 DEF Leads
    <3>2. QED BY <1>1, <1>7, <1>12, <2>2, <3>1
  <2>3. QED BY <1>7, <2>1, <2>2
<1> HIDE DEF m, f, c, d, e
<1>14. Books(l, <<"ended">> \o B, m, r, t)
  BY <1>1, <1>3, <1>10, <1>13 DEF Books, f
<1>15. Orderly(m, r, t)
  BY <1>1, <1>3, <1>10, <1>11 DEF Orderly, c
<1>16. QED
  BY <1>1, <1>14, <1>15 DEF m

\* The innermost call goes on where it counts for the same.
LEMMA QuietBooks ==
  ASSUME NEW l \in LFs, NEW t \in Threads, NEW B \in Seq(Ats), NEW a \in Ats, NEW b \in Ats,
         Orderly(l, <<a>> \o B, t),
         \/ a \in {"loop", "starting", "entering", "failed"}
              /\ b \in {"loop", "starting", "entering", "failed"}
         \/ a \in {"leading", "leaving"} /\ b = "leaving"
         \/ a \in {"leading", "leaving"} /\ b = "leading" /\ l.client_leader_thread[t] > 0
         \/ a \in {"running", "ended"} /\ b = "ended"
         \/ a \in {"follower", "yielding"} /\ b \in {"follower", "yielding"}
  PROVE  Books(l, <<a>> \o B, l, <<b>> \o B, t) /\ Orderly(l, <<b>> \o B, t)
<1>1. /\ a # "upcall" /\ b # "upcall" /\ b # "running" /\ (a \in Clienting <=> b \in Clienting)
      /\ a \in {"follower", "yielding"} <=> b \in {"follower", "yielding"}
      /\ b = "leading" => l.client_leader_thread[t] > 0
  BY DEF Clienting
<1>2. /\ TopOf(<<a>> \o B) = a /\ TopOf(<<b>> \o B) = b
      /\ Serving(<<a>> \o B) = Serving(<<b>> \o B)
  BY <1>1, TopCons, ServingCons
<1>3. Nest(<<b>> \o B)
  BY <1>1, BaseFacts DEF Orderly
<1>4. Lent(<<b>> \o B, l.client_leader_thread[t], l.event_loop_thread[t])
  <2> DEFINE c == l.client_leader_thread[t]
             e == l.event_loop_thread[t]
  <2>1. c \in Int /\ e \in Int
    BY LFTypes
  <2>2. Lent(<<a>> \o B, c, e)
    BY DEF Orderly
  <2> HIDE DEF c, e
  <2>3. (a \in Leading <=> b \in Leading) /\ (a \in Running <=> b \in Running)
    BY DEF Leading, Running
  <2>4. Lent(<<b>> \o B, c, e) <=> Lent(<<a>> \o B, c, e)
    <3>1. CASE a \in Leading
      BY <2>1, <2>3, <3>1, LentCons
    <3>2. CASE a \in Running
      BY <2>1, <2>3, <3>2, LentCons
    <3>3. CASE a \notin Leading \cup Running
      BY <2>1, <2>3, <3>3, LentCons
    <3>4. QED BY <3>1, <3>2, <3>3
  <2>5. QED BY <2>2, <2>4 DEF c, e
<1>5. QED
  BY <1>1, <1>2, <1>3, <1>4 DEF Books, Orderly, Counts

\* Application code makes a call, or a call without a leadership returns.
LEMMA CallBooks ==
  ASSUME NEW l \in LFs, NEW t \in Threads, NEW B \in Seq(Ats),
         NEW a \in {"sent", "loop", "failed"}
  PROVE  /\ Orderly(l, B, t) /\ TopOf(B) \in {"application", "upcall"} =>
              Books(l, B, l, <<a>> \o B, t) /\ Orderly(l, <<a>> \o B, t)
         /\ Orderly(l, <<a>> \o B, t) =>
              Books(l, <<a>> \o B, l, B, t) /\ Orderly(l, B, t)
<1>1. a \in Ats \ {"upcall"} /\ a \notin Clienting
  BY DEF Ats, Waiting, Looping, Clienting
<1>2. TopOf(<<a>> \o B) = a /\ Serving(<<a>> \o B) = Serving(B)
  BY <1>1, TopCons, ServingCons
<1>3. l.client_leader_thread[t] \in Int /\ l.event_loop_thread[t] \in Int
  BY LFTypes
<1>4. Lent(<<a>> \o B, l.client_leader_thread[t], l.event_loop_thread[t]) <=>
        Lent(B, l.client_leader_thread[t], l.event_loop_thread[t])
  BY <1>3, LentPlaces
<1>5. ASSUME TopOf(B) \in {"application", "upcall"}, Nest(B) PROVE Nest(<<a>> \o B)
  <2>1. B # <<>> => Head(B) = "upcall"
    <3>1. B # <<>> => Head(B) \in Ats
      BY ConsHeadTail
    <3>2. "application" \notin Ats
      BY DEF Ats, Waiting, Looping
    <3>3. QED BY <1>5, <3>1, <3>2 DEF TopOf
  <2>2. QED BY <1>1, <1>5, <2>1, NestCons
<1>6. Nest(<<a>> \o B) => Nest(B) /\ TopOf(B) \in {"application", "upcall"}
  BY <1>1, BaseFacts
<1>7. QED
  BY <1>2, <1>4, <1>5, <1>6 DEF Books, Orderly, Counts

\* What a thread gives up before the upcall of a request.
Abdicates(l, t) ==
  IF l.event_loop_thread[t] > 0 THEN reset_event_loop_thread(l, t)
  ELSE IF l.client_leader_thread[t] = 1 THEN reset_client_leader_thread(l, t)
  ELSE l

\* A thread in the reactor makes an upcall and keeps its leadership,
LEMMA KeepBooks ==
  ASSUME NEW l \in LFs, NEW t \in Threads, NEW S \in Seq(Ats), Orderly(l, S, t),
         S # <<>>, Head(S) \in {"leading", "running"}
  PROVE  /\ Books(l, S, l, <<"upcall">> \o S, t) /\ Orderly(l, <<"upcall">> \o S, t)
<1>1. "upcall" \in Ats /\ "upcall" \notin Clienting
  BY DEF Ats, Clienting
<1>2. /\ TopOf(S) = Head(S) /\ TopOf(<<"upcall">> \o S) = "upcall"
      /\ Serving(<<"upcall">> \o S) = Serving(S)
  BY <1>1, TopCons, ServingCons DEF TopOf
<1>3. Nest(<<"upcall">> \o S)
  BY <1>1, NestCons DEF Orderly
<1>4. Lent(<<"upcall">> \o S, l.client_leader_thread[t], l.event_loop_thread[t])
  <2> DEFINE c == l.client_leader_thread[t]
             e == l.event_loop_thread[t]
  <2>1. c \in Int /\ e \in Int
    BY LFTypes
  <2>2. Lent(S, c, e)
    BY DEF Orderly
  <2> HIDE DEF c, e
  <2>3. Lent(<<"upcall">> \o S, c, e)
    BY <2>1, <2>2, LentPlaces
  <2>4. QED BY <2>3 DEF c, e
<1>5. QED
  BY <1>2, <1>3, <1>4 DEF Books, Orderly, Counts

\* or gives it up.
LEMMA AbdicateBooks ==
  ASSUME NEW l \in LFs, NEW t \in Threads, NEW S \in Seq(Ats), Orderly(l, S, t),
         S # <<>>, Head(S) \in {"leading", "running"}
  PROVE  LET m == Abdicates(l, t)
         IN  /\ m \in LFs /\ SameRest(l, m) /\ m.clients = l.clients
             /\ m.event_loop_done = l.event_loop_done
             /\ Books(l, S, m, <<"upcall">> \o S, t)
             /\ Orderly(m, <<"upcall">> \o S, t)
<1> DEFINE f == l.event_loop_thread
           g == l.client_leader_thread
           U == <<"upcall">> \o S
<1>1. f \in [Threads -> Nat] /\ g \in [Threads -> Nat] /\ l.leaders \in Int
      /\ l.client_thread_is_leader \in Int
  BY DEF LFs
<1>2. /\ TopOf(U) = "upcall" /\ TopOf(S) = Head(S) /\ Serving(U) = Serving(S) /\ Nest(U)
  <2>1. "upcall" \in Ats /\ "upcall" \notin Clienting
    BY DEF Ats, Clienting
  <2>2. Nest(U)
    BY <2>1, NestCons DEF Orderly
  <2>3. QED BY <2>1, <2>2, TopCons, ServingCons DEF TopOf
<1>3. f[t] \in Nat /\ g[t] \in Nat
  BY <1>1
<1>4. Lent(S, g[t], f[t])
  BY DEF Orderly
<1>5. \A c, e \in Int : Lent(U, c, e) <=> Lent(S, c, e)
  BY LentPlaces
<1> HIDE DEF U
<1>6. CASE f[t] > 0
  <2> DEFINE m == reset_event_loop_thread(l, t)
  <2>1. Abdicates(l, t) = m
    BY <1>6 DEF Abdicates
  <2>2. /\ m \in LFs /\ SameRest(l, m) /\ m.clients = l.clients
        /\ m.event_loop_done = l.event_loop_done
        /\ m.leaders = l.leaders - IF ~Leads(m, t) THEN 1 ELSE 0
        /\ m.client_thread_is_leader = l.client_thread_is_leader
        /\ m.client_leader_thread = g
        /\ m.event_loop_thread = [f EXCEPT ![t] = f[t] - 1]
    BY <1>6, EventLoopFacts
  <2> HIDE DEF m
  <2>3. m.event_loop_thread[t] = f[t] - 1
        /\ \A u \in Threads \ {t} : m.event_loop_thread[u] = f[u]
    BY <1>1, <2>2
  <2>4. Lent(U, g[t], f[t] - 1)
    <3>1. g[t] \in Int /\ f[t] \in Int /\ f[t] - 1 \in Int /\ g[t] <= g[t] /\ f[t] - 1 <= f[t]
      BY <1>3
    <3>2. Lent(S, g[t], f[t] - 1)
      BY <1>4, <3>1, LentLess
    <3>3. QED BY <1>5, <3>1, <3>2
  <2>5. Counts(l, S, t) = 1 /\ Counts(m, U, t) = IF Leads(m, t) THEN 1 ELSE 0
    BY <1>2, <1>6 DEF Counts, Leads
  <2>6. m.leaders - Counts(m, U, t) = l.leaders - Counts(l, S, t)
    BY <1>1, <2>2, <2>5
  <2>7. Books(l, S, m, U, t)
    BY <1>2, <2>2, <2>3, <2>6 DEF Books
  <2>8. Orderly(m, U, t)
    BY <1>2, <2>2, <2>3, <2>4 DEF Orderly
  <2>9. QED BY <2>1, <2>2, <2>7, <2>8 DEF U
<1>7. CASE f[t] = 0 /\ g[t] = 1
  <2> DEFINE m == reset_client_leader_thread(l, t)
  <2>1. Abdicates(l, t) = m
    BY <1>7 DEF Abdicates
  <2>2. /\ m \in LFs /\ SameRest(l, m) /\ m.clients = l.clients
        /\ m.event_loop_done = l.event_loop_done
        /\ m.leaders = l.leaders - 1
        /\ m.client_thread_is_leader = l.client_thread_is_leader - 1
        /\ m.event_loop_thread = f
        /\ m.client_leader_thread = [g EXCEPT ![t] = g[t] - 1]
    <3>1. l.client_leader_thread[t] > 0
      BY <1>7
    <3>2. QED BY <3>1, ClientLeaderFacts
  <2> HIDE DEF m
  <2>3. m.client_leader_thread[t] = 0
        /\ \A u \in Threads \ {t} : m.client_leader_thread[u] = g[u]
    BY <1>1, <1>7, <2>2
  <2>4. Lent(U, 0, 0)
    <3>1. g[t] \in Int /\ f[t] \in Int /\ 0 \in Int /\ 0 <= 0
      BY <1>3
    <3>2. Lent(S, 0, 0)
      BY <1>4, <3>1, LentLess
    <3>3. QED BY <1>5, <3>1, <3>2
  <2>5. Counts(l, S, t) = 1 /\ Counts(m, U, t) = 0
    BY <1>2, <1>7, <2>2, <2>3 DEF Counts, Leads
  <2>6. /\ m.leaders - Counts(m, U, t) = l.leaders - Counts(l, S, t)
        /\ m.client_thread_is_leader - m.client_leader_thread[t]
             = l.client_thread_is_leader - g[t]
    BY <1>1, <1>7, <2>2, <2>3, <2>5
  <2>7. Books(l, S, m, U, t)
    BY <1>2, <2>2, <2>3, <2>6 DEF Books
  <2>8. Orderly(m, U, t)
    BY <1>2, <1>7, <2>2, <2>3, <2>4 DEF Orderly
  <2>9. QED BY <2>1, <2>2, <2>7, <2>8 DEF U
<1>8. CASE f[t] = 0 /\ g[t] # 1
  <2>1. Abdicates(l, t) = l
    BY <1>8 DEF Abdicates
  <2>2. Books(l, S, l, U, t) /\ Orderly(l, U, t)
    BY KeepBooks DEF U
  <2>3. QED BY <2>1, <2>2 DEF U, SameRest
<1>9. QED
  BY <1>3, <1>6, <1>7, <1>8

\* set_upcall_thread is that, and an election if there was something to give.
LEMMA UpcallThread ==
  ASSUME NEW l, NEW t
  PROVE  set_upcall_thread(l, t) =
           IF l.event_loop_thread[t] > 0 \/ l.client_leader_thread[t] = 1
           THEN elect_new_leader(Abdicates(l, t)) ELSE l
BY DEF set_upcall_thread, Abdicates

-----------------------------------------------------------------------------
(* Each step of a thread keeps its accounts *)

\* Thread t has changed its own calls, and accounted for it.
Accounted(t) ==
  /\ lf' \in LFs
  /\ stack' \in [Threads -> Seq(Calls)]
  /\ \A u \in Threads \ {t} : Shape(stack'[u]) = Shape(stack[u])
  /\ Len(stack'[t]) <= MaxDepth
  /\ Books(lf, Shape(stack[t]), lf', Shape(stack'[t]), t)
  /\ Orderly(lf', Shape(stack'[t]), t)

\* Before a step of thread t.
InOrder(t) ==
  /\ Typed
  /\ Len(stack[t]) <= MaxDepth
  /\ Orderly(lf, Shape(stack[t]), t)

\* The calls of a thread that is not in its application code.
LEMMA Innermost ==
  ASSUME stack \in [Threads -> Seq(Calls)], NEW t \in Threads, At(t) # "application"
  PROVE  LET B == Tail(Shape(stack[t]))
         IN  /\ stack[t] \in Seq(Calls) /\ stack[t] # <<>>
             /\ Top(t) \in Calls /\ Top(t).at = At(t) /\ At(t) \in Ats
             /\ B \in Seq(Ats) /\ Shape(stack[t]) = <<At(t)>> \o B
             /\ Len(stack[t]) \in Nat
<1>1. stack[t] \in Seq(Calls) /\ stack[t] # <<>>
  BY DEF At
<1>2. Top(t) \in Calls /\ Top(t).at = At(t) /\ Len(stack[t]) \in Nat
  BY <1>1, ConsHeadTail DEF Top, At
<1>3. Shape(stack[t]) \in Seq(Ats) /\ Shape(stack[t]) # <<>>
      /\ Head(Shape(stack[t])) = At(t)
  BY <1>1, <1>2, ShapeType, ShapeFacts DEF Top
<1>4. /\ Shape(stack[t]) = <<At(t)>> \o Tail(Shape(stack[t]))
      /\ Tail(Shape(stack[t])) \in Seq(Ats) /\ At(t) \in Ats
  BY <1>3, ConsHeadTail
<1>5. QED
  BY <1>1, <1>2, <1>4

\* wait_for_event goes on from where the thread holds lock_ and has stepped down.
LEMMA WaitLoopAccounts ==
  ASSUME NEW t \in Threads, InOrder(t), At(t) # "application",
         NEW l \in LFs, NEW call \in Calls,
         Books(lf, Shape(stack[t]), l, <<"yielding">> \o Tail(Shape(stack[t])), t),
         Orderly(l, <<"yielding">> \o Tail(Shape(stack[t])), t),
         Follow(t, call, l) \/ Lead(t, call, l) \/ Finish(t, l)
  PROVE  Accounted(t)
<1> DEFINE S == Shape(stack[t])
           B == Tail(S)
           Y == <<"yielding">> \o B
<1>1. stack \in [Threads -> Seq(Calls)] /\ MaxDepth \in Nat
  BY LFAssumption DEF InOrder, Typed
<1>2. stack[t] \in Seq(Calls) /\ stack[t] # <<>> /\ B \in Seq(Ats) /\ Len(stack[t]) \in Nat
      /\ Len(stack[t]) <= MaxDepth
  BY <1>1, Innermost DEF InOrder
<1>3. CASE Follow(t, call, l)
  <2> DEFINE c == [call EXCEPT !.at = "follower"]
  <2>1. c \in Calls /\ c.at = "follower"
    BY DEF Calls, Waiting
  <2>2. stack' = SetTop(t, c) /\ lf' = add_follower(l, t)
    BY <1>3 DEF Follow
  <2> HIDE DEF c
  <2>3. Changes(t, <<"follower">> \o B) /\ Len(stack'[t]) = Len(stack[t])
    BY <1>1, <1>2, <2>1, <2>2, TopChanges
  <2>4. /\ lf' \in LFs /\ Books(l, Y, lf', <<"follower">> \o B, t)
        /\ Orderly(lf', <<"follower">> \o B, t)
    BY <1>2, <2>2, FollowBooks
  <2>5. Books(lf, S, lf', <<"follower">> \o B, t)
    BY <2>4, BooksTransitive
  <2>6. QED BY <1>2, <2>3, <2>4, <2>5 DEF Accounted, Changes
<1>4. CASE Lead(t, call, l)
  <2> DEFINE c == [call EXCEPT !.at = "leading"]
  <2>1. c \in Calls /\ c.at = "leading"
    BY DEF Calls, Waiting
  <2>2. stack' = SetTop(t, c) /\ lf' = set_client_leader_thread(l, t)
    BY <1>4 DEF Lead
  <2> HIDE DEF c
  <2>3. Changes(t, <<"leading">> \o B) /\ Len(stack'[t]) = Len(stack[t])
    BY <1>1, <1>2, <2>1, <2>2, TopChanges
  <2>4. /\ lf' \in LFs /\ Books(l, Y, lf', <<"leading">> \o B, t)
        /\ Orderly(lf', <<"leading">> \o B, t)
    BY <1>2, <2>2, LeadBooks
  <2>5. Books(lf, S, lf', <<"leading">> \o B, t)
    BY <2>4, BooksTransitive
  <2>6. QED BY <1>2, <2>3, <2>4, <2>5 DEF Accounted, Changes
<1>5. CASE Finish(t, l)
  <2> DEFINE m == reset_client_thread(l, t)
  <2>1. stack' = Pop(t) /\ lf' = elect_new_leader(m)
    BY <1>5 DEF Finish
  <2>2. Changes(t, B) /\ Len(stack'[t]) = Len(stack[t]) - 1
    BY <1>1, <1>2, <2>1, PopChanges
  <2>3. m \in LFs /\ Books(l, Y, m, B, t) /\ Orderly(m, B, t)
    BY <1>2, ReturnBooks
  <2> HIDE DEF m
  <2>4. lf' \in LFs /\ SameBooks(m, lf')
    BY <2>1, <2>3, ElectFacts
  <2>5. Books(lf, S, m, B, t)
    BY <2>3, BooksTransitive
  <2>6. Books(lf, S, lf', B, t) /\ Orderly(lf', B, t)
    BY <2>3, <2>4, <2>5, BooksElect, OrderlyElect
  <2>7. Len(stack'[t]) <= MaxDepth
    BY <1>1, <1>2, <2>2
  <2>8. QED BY <2>2, <2>4, <2>6, <2>7 DEF Accounted, Changes
<1>6. QED
  BY <1>3, <1>4, <1>5

LEMMA WaitForEventAccounts ==
  ASSUME NEW t \in Threads, InOrder(t), WaitForEvent(t)
  PROVE  Accounted(t)
<1> DEFINE l == set_client_thread(lf, t)
           B == Tail(Shape(stack[t]))
<1>1. stack \in [Threads -> Seq(Calls)] /\ lf \in LFs
  BY DEF InOrder, Typed
<1>2. At(t) = "sent" /\ At(t) # "application" /\ WaitLoop(t, Top(t), l)
  BY DEF WaitForEvent
<1>3. Top(t) \in Calls /\ B \in Seq(Ats) /\ Shape(stack[t]) = <<"sent">> \o B
  BY <1>1, <1>2, Innermost
<1>4. Orderly(lf, <<"sent">> \o B, t)
  BY <1>3 DEF InOrder
<1>5. /\ l \in LFs /\ Books(lf, <<"sent">> \o B, l, <<"yielding">> \o B, t)
      /\ Orderly(l, <<"yielding">> \o B, t)
  BY <1>1, <1>3, <1>4, StepDownBooks
<1> HIDE DEF l
<1>6. QED
  BY <1>2, <1>3, <1>5, WaitLoopAccounts DEF WaitLoop

LEMMA YieldedAccounts ==
  ASSUME NEW t \in Threads, InOrder(t), Yielded(t)
  PROVE  Accounted(t)
<1> DEFINE B == Tail(Shape(stack[t]))
<1>1. stack \in [Threads -> Seq(Calls)] /\ lf \in LFs
  BY DEF InOrder, Typed
<1>2. At(t) = "yielding" /\ At(t) # "application" /\ WaitLoop(t, Top(t), lf)
  BY DEF Yielded
<1>3. Top(t) \in Calls /\ B \in Seq(Ats) /\ Shape(stack[t]) = <<"yielding">> \o B
  BY <1>1, <1>2, Innermost
<1>4. Orderly(lf, <<"yielding">> \o B, t)
  BY <1>3 DEF InOrder
<1>5. Books(lf, Shape(stack[t]), lf, <<"yielding">> \o B, t)
  BY <1>3 DEF Books
<1>6. QED
  BY <1>1, <1>2, <1>3, <1>4, <1>5, WaitLoopAccounts DEF WaitLoop

LEMMA LeaveReactorAccounts ==
  ASSUME NEW t \in Threads, InOrder(t), LeaveReactor(t)
  PROVE  Accounted(t)
<1> DEFINE m == reset_client_leader_thread(lf, t)
           l == [m EXCEPT !.deferred = 0]
           B == Tail(Shape(stack[t]))
<1>1. stack \in [Threads -> Seq(Calls)] /\ lf \in LFs
  BY DEF InOrder, Typed
<1>2. At(t) = "leaving" /\ At(t) # "application"
  BY DEF LeaveReactor
<1>3. /\ Top(t) \in Calls /\ B \in Seq(Ats) /\ Shape(stack[t]) = <<"leaving">> \o B
      /\ stack[t] # <<>>
  BY <1>1, <1>2, Innermost
<1>4. Orderly(lf, <<"leaving">> \o B, t)
  BY <1>3 DEF InOrder
<1>5. /\ m \in LFs /\ Books(lf, Shape(stack[t]), m, <<"yielding">> \o B, t)
      /\ Orderly(m, <<"yielding">> \o B, t)
  BY <1>1, <1>3, <1>4, LeaveBooks
<1>6. \/ lf' = elect_new_leader(l) /\ stack' = SetTop(t, [Top(t) EXCEPT !.at = "yielding"])
      \/ WaitLoop(t, Top(t), l)
  BY DEF LeaveReactor
<1> HIDE DEF m
<1>7. /\ l \in LFs /\ l.leaders = m.leaders /\ l.clients = m.clients
      /\ l.client_thread_is_leader = m.client_thread_is_leader
      /\ l.event_loop_thread = m.event_loop_thread
      /\ l.client_leader_thread = m.client_leader_thread
  <2>1. 0 \in 0..MaxDeferred
    BY DEF MaxDeferred
  <2>2. QED BY <1>5, <2>1, DeferredFacts
<1> HIDE DEF l
<1>8. /\ Books(lf, Shape(stack[t]), l, <<"yielding">> \o B, t)
      /\ Orderly(l, <<"yielding">> \o B, t)
  BY <1>5, <1>7 DEF Books, Orderly, Counts, Leads
<1>9. CASE WaitLoop(t, Top(t), l)
  BY <1>2, <1>3, <1>7, <1>8, <1>9, WaitLoopAccounts DEF WaitLoop
<1>10. CASE lf' = elect_new_leader(l) /\ stack' = SetTop(t, [Top(t) EXCEPT !.at = "yielding"])
  <2> DEFINE c == [Top(t) EXCEPT !.at = "yielding"]
  <2>1. c \in Calls /\ c.at = "yielding"
    BY <1>3 DEF Calls, Waiting
  <2>2. stack' = SetTop(t, c)
    BY <1>10
  <2> HIDE DEF c
  <2>3. Changes(t, <<"yielding">> \o B) /\ Len(stack'[t]) = Len(stack[t])
    BY <1>1, <1>3, <2>1, <2>2, TopChanges
  <2>4. lf' \in LFs /\ SameBooks(l, lf')
    BY <1>7, <1>10, ElectFacts
  <2>5. /\ Books(lf, Shape(stack[t]), lf', <<"yielding">> \o B, t)
        /\ Orderly(lf', <<"yielding">> \o B, t)
    BY <1>8, <2>4, BooksElect, OrderlyElect
  <2>6. QED BY <2>3, <2>4, <2>5 DEF Accounted, Changes, InOrder
<1>11. QED
  BY <1>6, <1>9, <1>10

\* A follower without its wakeup, and unlinked.
LEMMA FollowerAccounts ==
  ASSUME NEW t \in Threads, InOrder(t), At(t) = "follower"
  PROVE  LET B == Tail(Shape(stack[t]))
             l == remove_follower([lf EXCEPT !.woken = @ \ {t}], t)
         IN  /\ l \in LFs /\ SameBooks(lf, l)
             /\ Books(lf, Shape(stack[t]), l, <<"yielding">> \o B, t)
             /\ Orderly(l, <<"yielding">> \o B, t)
<1> DEFINE k == [lf EXCEPT !.woken = @ \ {t}]
           l == remove_follower(k, t)
           B == Tail(Shape(stack[t]))
<1>1. stack \in [Threads -> Seq(Calls)] /\ lf \in LFs
  BY DEF InOrder, Typed
<1>2. k \in LFs /\ SameBooks(lf, k)
  BY <1>1 DEF LFs, SameBooks
<1> HIDE DEF k
<1>3. l \in LFs /\ SameBooks(k, l)
  BY <1>2, SignalFacts
<1> HIDE DEF l
<1>4. SameBooks(lf, l)
  BY <1>2, <1>3 DEF SameBooks
<1>5. B \in Seq(Ats) /\ Shape(stack[t]) = <<"follower">> \o B
  BY <1>1, Innermost
<1>6. Orderly(lf, <<"follower">> \o B, t)
  BY <1>5 DEF InOrder
<1>7. "follower" \in Ats /\ "yielding" \in Ats
  BY DEF Ats, Waiting
<1>8. /\ Books(lf, <<"follower">> \o B, lf, <<"yielding">> \o B, t)
      /\ Orderly(lf, <<"yielding">> \o B, t)
  BY <1>1, <1>5, <1>6, <1>7, QuietBooks
<1>9. /\ Books(lf, Shape(stack[t]), l, <<"yielding">> \o B, t)
      /\ Orderly(l, <<"yielding">> \o B, t)
  BY <1>4, <1>5, <1>8, BooksElect, OrderlyElect
<1>10. QED
  BY <1>3, <1>4, <1>9 DEF k, l

\* The destructors of a follower that returns.
LEMMA LeaveFollowerAccounts ==
  ASSUME NEW t \in Threads, InOrder(t), At(t) = "follower",
         NEW m \in LFs, SameBooks(lf, m),
         lf' = LeaveFollower(m, t), stack' = Pop(t)
  PROVE  Accounted(t)
<1> DEFINE k == [m EXCEPT !.woken = @ \ {t}]
           l == remove_follower(k, t)
           B == Tail(Shape(stack[t]))
<1>1. stack \in [Threads -> Seq(Calls)] /\ lf \in LFs /\ MaxDepth \in Nat
  BY LFAssumption DEF InOrder, Typed
<1>2. k \in LFs /\ SameBooks(m, k)
  BY DEF LFs, SameBooks
<1>3. lf' = reset_client_thread(l, t)
  BY DEF LeaveFollower
<1> HIDE DEF k
<1>4. l \in LFs /\ SameBooks(k, l)
  BY <1>2, SignalFacts
<1> HIDE DEF l
<1>5. SameBooks(lf, l)
  BY <1>2, <1>4 DEF SameBooks
<1>6. /\ B \in Seq(Ats) /\ Shape(stack[t]) = <<"follower">> \o B /\ stack[t] # <<>>
      /\ Len(stack[t]) \in Nat
  BY <1>1, Innermost
<1>7. Orderly(lf, <<"follower">> \o B, t)
  BY <1>6 DEF InOrder
<1>8. "follower" \in Ats /\ "yielding" \in Ats
  BY DEF Ats, Waiting
<1>9. /\ Books(lf, <<"follower">> \o B, lf, <<"yielding">> \o B, t)
      /\ Orderly(lf, <<"yielding">> \o B, t)
  BY <1>1, <1>6, <1>7, <1>8, QuietBooks
<1>10. /\ Books(lf, Shape(stack[t]), l, <<"yielding">> \o B, t)
       /\ Orderly(l, <<"yielding">> \o B, t)
  BY <1>5, <1>6, <1>9, BooksElect, OrderlyElect
<1>11. lf' \in LFs /\ Books(l, <<"yielding">> \o B, lf', B, t) /\ Orderly(lf', B, t)
  BY <1>3, <1>4, <1>6, <1>10, ReturnBooks
<1>12. Books(lf, Shape(stack[t]), lf', B, t)
  BY <1>10, <1>11, BooksTransitive
<1>13. Changes(t, B) /\ Len(stack'[t]) = Len(stack[t]) - 1
  BY <1>1, <1>6, PopChanges
<1>14. Len(stack'[t]) <= MaxDepth
  BY <1>1, <1>6, <1>13 DEF InOrder
<1>15. QED
  BY <1>11, <1>12, <1>13, <1>14 DEF Accounted, Changes

LEMMA FollowerStepsAccount ==
  ASSUME NEW t \in Threads, InOrder(t),
         FollowerWakes(t) \/ FollowerTimesOut(t) \/ FollowerWaitFails(t)
  PROVE  Accounted(t)
<1> DEFINE B == Tail(Shape(stack[t]))
           l == remove_follower([lf EXCEPT !.woken = @ \ {t}], t)
<1>1. At(t) = "follower" /\ At(t) # "application"
  BY DEF FollowerWakes, FollowerTimesOut, FollowerWaitFails
<1>2. stack \in [Threads -> Seq(Calls)] /\ lf \in LFs /\ SameBooks(lf, lf)
  BY DEF InOrder, Typed, SameBooks
<1>3. elect_new_leader(lf) \in LFs /\ SameBooks(lf, elect_new_leader(lf))
  BY <1>2, ElectFacts
<1>4. Top(t) \in Calls /\ keep_waiting(Top(t)) \in BOOLEAN
  BY <1>1, <1>2, Innermost DEF keep_waiting
<1>5. CASE FollowerWakes(t)
  <2>1. /\ l \in LFs /\ Books(lf, Shape(stack[t]), l, <<"yielding">> \o B, t)
        /\ Orderly(l, <<"yielding">> \o B, t)
    BY <1>1, FollowerAccounts
  <2>2. \/ Follow(t, Top(t), l) \/ Lead(t, Top(t), l)
        \/ lf' = LeaveFollower(lf, t) /\ stack' = Pop(t)
    BY <1>5 DEF FollowerWakes
  <2> HIDE DEF l
  <2>3. CASE lf' = LeaveFollower(lf, t) /\ stack' = Pop(t)
    BY <1>1, <1>2, <2>3, LeaveFollowerAccounts
  <2>4. CASE Follow(t, Top(t), l) \/ Lead(t, Top(t), l)
    BY <1>1, <1>4, <2>1, <2>4, WaitLoopAccounts
  <2>5. QED BY <2>2, <2>3, <2>4
<1>6. CASE FollowerTimesOut(t)
  BY <1>1, <1>3, <1>6, LeaveFollowerAccounts DEF FollowerTimesOut
<1>7. CASE FollowerWaitFails(t)
  <2> DEFINE m == IF Top(t).timed /\ ~successful(Top(t)) THEN elect_new_leader(lf) ELSE lf
  <2>1. m \in LFs /\ SameBooks(lf, m) /\ lf' = LeaveFollower(m, t) /\ stack' = Pop(t)
    BY <1>2, <1>3, <1>7 DEF FollowerWaitFails
  <2> HIDE DEF m
  <2>2. QED BY <1>1, <2>1, LeaveFollowerAccounts
<1>8. QED
  BY <1>5, <1>6, <1>7

\* The innermost call goes on, without a change of the counters.
LEMMA QuietAccounts ==
  ASSUME NEW t \in Threads, InOrder(t), At(t) # "application",
         NEW c \in Calls, stack' = SetTop(t, c), lf' \in LFs, SameBooks(lf, lf'),
         \/ At(t) \in {"loop", "starting", "entering", "failed"}
              /\ c.at \in {"loop", "starting", "entering", "failed"}
         \/ At(t) \in {"leading", "leaving"} /\ c.at = "leaving"
         \/ At(t) \in {"leading", "leaving"} /\ c.at = "leading"
              /\ lf.client_leader_thread[t] > 0
         \/ At(t) \in {"running", "ended"} /\ c.at = "ended"
  PROVE  Accounted(t)
<1> DEFINE B == Tail(Shape(stack[t]))
<1>1. stack \in [Threads -> Seq(Calls)] /\ lf \in LFs
  BY DEF InOrder, Typed
<1>2. /\ B \in Seq(Ats) /\ Shape(stack[t]) = <<At(t)>> \o B /\ stack[t] # <<>>
      /\ At(t) \in Ats
  BY <1>1, Innermost
<1>3. c.at \in Ats /\ Orderly(lf, <<At(t)>> \o B, t)
  BY <1>2 DEF Calls, Ats, InOrder
<1>4. Books(lf, <<At(t)>> \o B, lf, <<c.at>> \o B, t) /\ Orderly(lf, <<c.at>> \o B, t)
  <2> DEFINE a == At(t)
             b == c.at
  <2> HIDE DEF a, b
  <2>1. /\ a \in Ats /\ b \in Ats /\ Orderly(lf, <<a>> \o B, t)
        /\ \/ a \in {"loop", "starting", "entering", "failed"}
                /\ b \in {"loop", "starting", "entering", "failed"}
           \/ a \in {"leading", "leaving"} /\ b = "leaving"
           \/ a \in {"leading", "leaving"} /\ b = "leading" /\ lf.client_leader_thread[t] > 0
           \/ a \in {"running", "ended"} /\ b = "ended"
    BY <1>2, <1>3 DEF a, b
  <2> HIDE DEF B
  <2>2. Books(lf, <<a>> \o B, lf, <<b>> \o B, t) /\ Orderly(lf, <<b>> \o B, t)
    BY <1>1, <1>2, <2>1, QuietBooks
  <2>3. QED BY <2>2 DEF a, b
<1>5. Books(lf, Shape(stack[t]), lf', <<c.at>> \o B, t) /\ Orderly(lf', <<c.at>> \o B, t)
  BY <1>2, <1>4, BooksElect, OrderlyElect
<1>6. Changes(t, <<c.at>> \o B) /\ Len(stack'[t]) = Len(stack[t])
  BY <1>1, <1>2, TopChanges
<1>7. QED
  BY <1>5, <1>6 DEF Accounted, Changes, InOrder

\* A call without a leadership returns.
LEMMA PopAccounts ==
  ASSUME NEW t \in Threads, InOrder(t), At(t) \in {"loop", "failed"},
         stack' = Pop(t), lf' \in LFs, SameBooks(lf, lf')
  PROVE  Accounted(t)
<1> DEFINE B == Tail(Shape(stack[t]))
<1>1. stack \in [Threads -> Seq(Calls)] /\ lf \in LFs /\ MaxDepth \in Nat
  BY LFAssumption DEF InOrder, Typed
<1>2. /\ B \in Seq(Ats) /\ Shape(stack[t]) = <<At(t)>> \o B /\ stack[t] # <<>>
      /\ Len(stack[t]) \in Nat
  BY <1>1, Innermost
<1>3. Orderly(lf, <<At(t)>> \o B, t) /\ At(t) \in {"sent", "loop", "failed"}
  BY <1>2 DEF InOrder
<1>4. Books(lf, <<At(t)>> \o B, lf, B, t) /\ Orderly(lf, B, t)
  BY <1>1, <1>2, <1>3, CallBooks
<1>5. Books(lf, Shape(stack[t]), lf', B, t) /\ Orderly(lf', B, t)
  BY <1>2, <1>4, BooksElect, OrderlyElect
<1>6. Changes(t, B) /\ Len(stack'[t]) = Len(stack[t]) - 1
  BY <1>1, <1>2, PopChanges
<1>7. Len(stack'[t]) <= MaxDepth
  BY <1>1, <1>2, <1>6 DEF InOrder
<1>8. QED
  BY <1>5, <1>6, <1>7 DEF Accounted, Changes

LEMMA CallAccounts ==
  ASSUME NEW t \in Threads, InOrder(t), NEW timed \in BOOLEAN,
         Invoke(t, timed) \/ Run(t, timed)
  PROVE  Accounted(t)
<1>1. stack \in [Threads -> Seq(Calls)] /\ lf \in LFs /\ MaxDepth \in Nat
      /\ stack[t] \in Seq(Calls)
  BY LFAssumption DEF InOrder, Typed
<1>2. PICK a \in {"sent", "loop"} : stack' = Push(t, Call(a, timed))
  BY DEF Invoke, Run
<1>3. /\ At(t) \in {"application", "upcall"} /\ Len(stack[t]) < MaxDepth /\ lf' = lf
  BY DEF Invoke, Run, MayCall, InApplication
<1>4. Call(a, timed) \in Calls /\ Call(a, timed).at = a
  BY DEF Call, Calls, Waiting, Looping, States, Results
<1>5. /\ Changes(t, <<a>> \o Shape(stack[t])) /\ Len(stack'[t]) = Len(stack[t]) + 1
  BY <1>1, <1>2, <1>4, PushChanges
<1>6. TopOf(Shape(stack[t])) \in {"application", "upcall"} /\ Shape(stack[t]) \in Seq(Ats)
  <2>1. At(t) = At0(stack[t])
    BY DEF At, At0
  <2>2. QED BY <1>1, <1>3, <2>1, AtShape, ShapeType
<1>7. /\ Books(lf, Shape(stack[t]), lf, <<a>> \o Shape(stack[t]), t)
      /\ Orderly(lf, <<a>> \o Shape(stack[t]), t)
  BY <1>1, <1>6, CallBooks DEF InOrder
<1>8. Len(stack'[t]) <= MaxDepth
  BY <1>1, <1>3, <1>5
<1>9. QED
  BY <1>1, <1>3, <1>5, <1>7, <1>8 DEF Accounted, Changes

\* A thread enters the event loop, from l that has the books of lf.
LEMMA EnterAccounts ==
  ASSUME NEW t \in Threads, InOrder(t), At(t) \in {"starting", "entering"},
         NEW l \in LFs, SameCounters(lf, l),
         lf' = set_event_loop_thread(l, t),
         stack' = SetTop(t, [Top(t) EXCEPT !.at = "running"])
  PROVE  Accounted(t)
<1> DEFINE B == Tail(Shape(stack[t]))
           c == [Top(t) EXCEPT !.at = "running"]
<1>1. stack \in [Threads -> Seq(Calls)] /\ lf \in LFs
  BY DEF InOrder, Typed
<1>2. /\ B \in Seq(Ats) /\ Shape(stack[t]) = <<At(t)>> \o B /\ stack[t] # <<>>
      /\ Top(t) \in Calls
  BY <1>1, Innermost
<1>3. Orderly(lf, <<At(t)>> \o B, t)
  BY <1>2 DEF InOrder
<1>4. Orderly(l, <<At(t)>> \o B, t) /\ Books(lf, <<At(t)>> \o B, l, <<At(t)>> \o B, t)
  BY <1>3, BooksSame
<1>5. /\ lf' \in LFs /\ Books(l, <<At(t)>> \o B, lf', <<"running">> \o B, t)
      /\ Orderly(lf', <<"running">> \o B, t)
  BY <1>2, <1>4, EnterBooks
<1>6. Books(lf, Shape(stack[t]), lf', <<"running">> \o B, t)
  <2>1. Books(lf, <<At(t)>> \o B, lf', <<"running">> \o B, t)
    BY <1>4, <1>5, BooksTransitive
  <2>2. QED BY <1>2, <2>1
<1>7. c \in Calls /\ c.at = "running" /\ stack' = SetTop(t, c)
  BY <1>2 DEF Calls, Looping
<1> HIDE DEF c
<1>8. Changes(t, <<"running">> \o B) /\ Len(stack'[t]) = Len(stack[t])
  BY <1>1, <1>2, <1>7, TopChanges
<1>9. QED
  BY <1>5, <1>6, <1>8 DEF Accounted, Changes, InOrder

\* Wakeups and waiting event loop threads are no part of the books.
Waiters(l, W, K) == [l EXCEPT !.event_loop_threads_waiting = W, !.woken = K]

LEMMA WaitingFacts ==
  ASSUME NEW l \in LFs, NEW W \in SUBSET Threads, NEW K \in SUBSET Threads
  PROVE  LET m == Waiters(l, W, K)
         IN  /\ m \in LFs /\ m.event_loop_threads_waiting = W /\ m.woken = K
             /\ SameCounters(l, m)
             /\ m.follower_set = l.follower_set /\ m.deferred = l.deferred
             /\ m.has_shutdown = l.has_shutdown
             /\ m.reactor_shutdown = l.reactor_shutdown
             /\ m.event_loop_done = l.event_loop_done
<1> DEFINE m == Waiters(l, W, K)
<1>1. m \in LFs
  BY DEF LFs, Waiters
<1>2. /\ m.event_loop_threads_waiting = W /\ m.woken = K
      /\ m.leaders = l.leaders /\ m.clients = l.clients
      /\ m.client_thread_is_leader = l.client_thread_is_leader
      /\ m.event_loop_thread = l.event_loop_thread
  BY DEF LFs, Waiters
<1>3. /\ m.client_leader_thread = l.client_leader_thread
      /\ m.follower_set = l.follower_set /\ m.deferred = l.deferred
      /\ m.has_shutdown = l.has_shutdown
      /\ m.reactor_shutdown = l.reactor_shutdown
      /\ m.event_loop_done = l.event_loop_done
  BY DEF LFs, Waiters
<1>4. QED
  BY <1>1, <1>2, <1>3 DEF SameCounters

\* The books of a call that counts for nothing do not depend on who waits.
LEMMA WaitAccounts ==
  ASSUME NEW t \in Threads, InOrder(t), At(t) \in {"starting", "entering"},
         lf' \in LFs, SameCounters(lf, lf'),
         NEW b \in {"entering", "failed"}, stack' = SetTop(t, [Top(t) EXCEPT !.at = b])
  PROVE  Accounted(t)
<1> DEFINE B == Tail(Shape(stack[t]))
           c == [Top(t) EXCEPT !.at = b]
<1>1. stack \in [Threads -> Seq(Calls)] /\ lf \in LFs
  BY DEF InOrder, Typed
<1>2. /\ B \in Seq(Ats) /\ Shape(stack[t]) = <<At(t)>> \o B /\ stack[t] # <<>>
      /\ Top(t) \in Calls
  BY <1>1, Innermost
<1>3. Orderly(lf, <<At(t)>> \o B, t)
  BY <1>2 DEF InOrder
<1>4. At(t) \in Ats /\ b \in Ats
  BY DEF Ats, Waiting, Looping
<1>5. Books(lf, <<At(t)>> \o B, lf, <<b>> \o B, t) /\ Orderly(lf, <<b>> \o B, t)
  <2> DEFINE a == At(t)
  <2>1. a \in {"starting", "entering"} /\ a \in Ats /\ Orderly(lf, <<a>> \o B, t)
    BY <1>3, <1>4
  <2> HIDE DEF a, B
  <2>2. Books(lf, <<a>> \o B, lf, <<b>> \o B, t) /\ Orderly(lf, <<b>> \o B, t)
    BY <1>1, <1>2, <1>4, <2>1, QuietBooks
  <2>3. QED BY <2>2 DEF a
<1>6. Books(lf, Shape(stack[t]), lf', <<b>> \o B, t) /\ Orderly(lf', <<b>> \o B, t)
  <2> DEFINE r == <<b>> \o B
             q == <<At(t)>> \o B
  <2>1. Books(lf, q, lf, r, t) /\ Orderly(lf, r, t) /\ Shape(stack[t]) = q
    BY <1>2, <1>5
  <2> HIDE DEF r, q
  <2>2. Books(lf, q, lf', r, t) /\ Orderly(lf', r, t)
    BY <2>1, BooksSame
  <2>3. QED BY <2>1, <2>2 DEF r
<1>7. c \in Calls /\ c.at = b /\ stack' = SetTop(t, c)
  BY <1>2 DEF Calls, Looping
<1> HIDE DEF c
<1>8. Changes(t, <<b>> \o B) /\ Len(stack'[t]) = Len(stack[t])
  BY <1>1, <1>2, <1>7, TopChanges
<1>9. QED
  BY <1>6, <1>8 DEF Accounted, Changes, InOrder

LEMMA StartIterationAccounts ==
  ASSUME NEW t \in Threads, InOrder(t), StartIteration(t)
  PROVE  Accounted(t)
<1>1. /\ stack \in [Threads -> Seq(Calls)] /\ lf' \in LFs /\ SameBooks(lf, lf')
      /\ At(t) = "loop" /\ At(t) # "application"
  BY DEF InOrder, Typed, StartIteration, SameBooks
<1>2. CASE stack' = Pop(t)
  BY <1>1, <1>2, PopAccounts
<1>3. CASE stack' = SetTop(t, [Top(t) EXCEPT !.at = "starting"])
  <2> DEFINE c == [Top(t) EXCEPT !.at = "starting"]
  <2>1. Top(t) \in Calls
    BY <1>1, Innermost
  <2>2. c \in Calls /\ c.at = "starting" /\ stack' = SetTop(t, c)
    BY <1>3, <2>1 DEF Calls, Looping
  <2> HIDE DEF c
  <2>3. QED BY <1>1, <2>2, QuietAccounts
<1>4. QED
  BY <1>2, <1>3 DEF StartIteration

LEMMA EnterEventLoopAccounts ==
  ASSUME NEW t \in Threads, InOrder(t), EnterEventLoop(t)
  PROVE  Accounted(t)
<1>1. lf \in LFs /\ At(t) = "starting"
  BY DEF InOrder, Typed, EnterEventLoop
<1>2. CASE /\ lf' = [lf EXCEPT !.event_loop_threads_waiting = @ \cup {t}]
           /\ stack' = SetTop(t, [Top(t) EXCEPT !.at = "entering"])
  <2> DEFINE W == lf.event_loop_threads_waiting \cup {t}
  <2>1. W \in SUBSET Threads /\ lf.woken \in SUBSET Threads
    BY <1>1 DEF LFs
  <2>2. lf' = Waiters(lf, W, lf.woken)
    BY <1>1, <1>2 DEF LFs, Waiters
  <2> HIDE DEF W
  <2>3. lf' \in LFs /\ SameCounters(lf, lf')
    BY <1>1, <2>1, <2>2, WaitingFacts
  <2>4. QED BY <1>1, <1>2, <2>3, WaitAccounts
<1>3. CASE /\ lf' = set_event_loop_thread(lf, t)
           /\ stack' = SetTop(t, [Top(t) EXCEPT !.at = "running"])
  <2>1. SameCounters(lf, lf)
    BY DEF SameCounters
  <2>2. QED BY <1>1, <1>3, <2>1, EnterAccounts
<1>4. QED
  BY <1>2, <1>3 DEF EnterEventLoop

LEMMA EnteringFailsAccounts ==
  ASSUME NEW t \in Threads, InOrder(t), EnteringFails(t)
  PROVE  Accounted(t)
<1>1. /\ lf \in LFs /\ At(t) = "entering"
      /\ stack' = SetTop(t, [Top(t) EXCEPT !.at = "failed"])
  BY DEF InOrder, Typed, EnteringFails
<1> DEFINE W == lf.event_loop_threads_waiting \ {t}
           K == lf.woken \ {t}
<1>2. W \in SUBSET Threads /\ K \in SUBSET Threads
  BY <1>1 DEF LFs
<1>3. lf' = Waiters(lf, W, K)
  BY DEF EnteringFails, Waiters
<1> HIDE DEF W, K
<1>4. lf' \in LFs /\ SameCounters(lf, lf')
  BY <1>1, <1>2, <1>3, WaitingFacts
<1>5. QED
  BY <1>1, <1>4, WaitAccounts

LEMMA EnteringWakesAccounts ==
  ASSUME NEW t \in Threads, InOrder(t), EnteringWakes(t)
  PROVE  Accounted(t)
<1>1. /\ lf \in LFs /\ At(t) = "entering" /\ stack \in [Threads -> Seq(Calls)]
  BY DEF InOrder, Typed, EnteringWakes
<1> DEFINE k == [lf EXCEPT !.woken = @ \ {t}]
           l == [k EXCEPT !.event_loop_threads_waiting = @ \ {t}]
           W == lf.event_loop_threads_waiting \ {t}
           K == lf.woken \ {t}
<1>2. /\ W \in SUBSET Threads /\ K \in SUBSET Threads
      /\ lf.event_loop_threads_waiting \in SUBSET Threads
  BY <1>1 DEF LFs
<1>3. k = Waiters(lf, lf.event_loop_threads_waiting, K)
  BY <1>1 DEF LFs, Waiters
<1>4. l = Waiters(lf, W, K)
  BY <1>1 DEF LFs, Waiters
<1>5. CASE lf' = k /\ UNCHANGED stack
  <2>1. lf' \in LFs /\ SameCounters(lf, lf')
    <3> HIDE DEF K
    <3>1. QED BY <1>1, <1>2, <1>3, <1>5, WaitingFacts
  <2>2. Books(lf, Shape(stack[t]), lf', Shape(stack[t]), t) /\ Orderly(lf', Shape(stack[t]), t)
    BY <2>1, BooksSame DEF InOrder
  <2>3. QED BY <1>1, <1>5, <2>1, <2>2 DEF Accounted, InOrder
<1>6. CASE /\ lf' = set_event_loop_thread(l, t)
           /\ stack' = SetTop(t, [Top(t) EXCEPT !.at = "running"])
  <2> HIDE DEF l, W, K
  <2>1. l \in LFs /\ SameCounters(lf, l)
    BY <1>1, <1>2, <1>4, WaitingFacts
  <2>2. QED BY <1>1, <1>6, <2>1, EnterAccounts
<1>7. QED
  BY <1>5, <1>6 DEF EnteringWakes

LEMMA FailIterationAccounts ==
  ASSUME NEW t \in Threads, InOrder(t), FailIteration(t)
  PROVE  Accounted(t)
<1>1. lf \in LFs /\ At(t) = "failed" /\ stack' = Pop(t) /\ lf' = elect_new_leader(lf)
  BY DEF InOrder, Typed, FailIteration
<1>2. lf' \in LFs /\ SameBooks(lf, lf')
  BY <1>1, ElectFacts
<1>3. QED
  BY <1>1, <1>2, PopAccounts

LEMMA EndIterationAccounts ==
  ASSUME NEW t \in Threads, InOrder(t), NEW again \in BOOLEAN, EndIteration(t, again)
  PROVE  Accounted(t)
<1> DEFINE B == Tail(Shape(stack[t]))
           c == [Top(t) EXCEPT !.at = "loop"]
           m == reset_event_loop_thread(lf, t)
           r == IF again THEN <<"loop">> \o B ELSE B
<1>1. /\ stack \in [Threads -> Seq(Calls)] /\ lf \in LFs /\ MaxDepth \in Nat
      /\ At(t) = "ended" /\ At(t) # "application"
  BY LFAssumption DEF InOrder, Typed, EndIteration
<1>2. /\ B \in Seq(Ats) /\ Shape(stack[t]) = <<"ended">> \o B /\ stack[t] # <<>>
      /\ Top(t) \in Calls /\ Len(stack[t]) \in Nat
  BY <1>1, Innermost
<1>3. Orderly(lf, <<"ended">> \o B, t) /\ r \in {<<"loop">> \o B, B}
  BY <1>2 DEF InOrder
<1>4. m \in LFs /\ Books(lf, <<"ended">> \o B, m, r, t) /\ Orderly(m, r, t)
  <2> HIDE DEF r
  <2>1. QED BY <1>1, <1>2, <1>3, EndBooks
<1>5. lf' = elect_new_leader(m)
  BY DEF EndIteration
<1> HIDE DEF m
<1>6. lf' \in LFs /\ SameBooks(m, lf')
  BY <1>4, <1>5, ElectFacts
<1>7. Books(lf, Shape(stack[t]), lf', r, t) /\ Orderly(lf', r, t)
  BY <1>2, <1>4, <1>6, BooksElect, OrderlyElect
<1>8. Changes(t, r) /\ Len(stack'[t]) <= MaxDepth
  <2>1. CASE again
    <3>1. c \in Calls /\ c.at = "loop" /\ stack' = SetTop(t, c)
      BY <1>2, <2>1 DEF Calls, Looping, EndIteration
    <3> HIDE DEF c
    <3>2. Changes(t, <<"loop">> \o B) /\ Len(stack'[t]) = Len(stack[t])
      BY <1>1, <1>2, <3>1, TopChanges
    <3>3. QED BY <2>1, <3>2 DEF InOrder
  <2>2. CASE ~again
    <3>1. stack' = Pop(t)
      BY <2>2 DEF EndIteration
    <3>2. Changes(t, B) /\ Len(stack'[t]) = Len(stack[t]) - 1
      BY <1>1, <1>2, <3>1, PopChanges
    <3>3. Len(stack'[t]) <= MaxDepth
      BY <1>1, <1>2, <3>2 DEF InOrder
    <3>4. QED BY <2>2, <3>2, <3>3
  <2>3. QED BY <2>1, <2>2
<1>9. QED
  BY <1>6, <1>7, <1>8 DEF Accounted, Changes

\* handle_events returns to thread t, whose event may have completed before.
LEMMA ReturnedAccounts ==
  ASSUME NEW t \in Threads, InOrder(t), At(t) \in {"leading", "running"},
         NEW st \in [Threads -> Seq(Calls)],
         \A v \in Threads : Shape(st[v]) = Shape(stack[v]) /\ Len(st[v]) = Len(stack[v]),
         st[t] # <<>>, NEW l, NEW result \in Results,
         l.client_leader_thread = lf.client_leader_thread,
         stack' = Returned(st, l, t, result), lf' \in LFs, SameCounters(lf, lf')
  PROVE  Accounted(t)
<1> DEFINE S == Shape(stack[t])
           B == Tail(S)
           n == TopOf(Shape(stack'[t]))
           a == At(t)
<1>1. stack \in [Threads -> Seq(Calls)] /\ lf \in LFs /\ a # "application"
  BY DEF InOrder, Typed
<1>2. B \in Seq(Ats) /\ S = <<a>> \o B /\ stack[t] # <<>> /\ a \in Ats
  BY <1>1, Innermost
<1>3. st[t] \in Seq(Calls) /\ Head(st[t]).at = a
  <2>1. Head(S) = a
    BY <1>2, Cons
  <2>2. QED BY <2>1, ShapeFacts
<1>4. /\ stack' \in [Threads -> Seq(Calls)]
      /\ \A u \in Threads \ {t} : stack'[u] = st[u]
      /\ Shape(stack'[t]) = <<n>> \o B /\ Len(stack'[t]) = Len(stack[t])
      /\ a = "running" => n = "ended"
      /\ a # "running" =>
           n = "leaving" \/ (n = "leading" /\ lf.client_leader_thread[t] > 0)
  <2> HIDE DEF a
  <2>1. QED BY <1>3, ReturnedFacts
<1>5. Orderly(lf, <<a>> \o B, t) /\ a \in {"leading", "running"}
  BY <1>2 DEF InOrder
<1>6. n \in Ats
  BY <1>4, <1>5 DEF Ats, Waiting, Looping
<1> HIDE DEF n, a
<1>7. Books(lf, <<a>> \o B, lf, <<n>> \o B, t) /\ Orderly(lf, <<n>> \o B, t)
  <2> HIDE DEF B
  <2>1. QED BY <1>1, <1>2, <1>4, <1>5, <1>6, QuietBooks
<1>8. Books(lf, S, lf', Shape(stack'[t]), t) /\ Orderly(lf', Shape(stack'[t]), t)
  <2> DEFINE r == Shape(stack'[t])
  <2>1. Books(lf, S, lf, r, t) /\ Orderly(lf, r, t)
    BY <1>2, <1>4, <1>7
  <2> HIDE DEF r, S
  <2>2. Books(lf, S, lf', r, t) /\ Orderly(lf', r, t)
    BY <2>1, BooksSame
  <2>3. QED BY <2>2 DEF r
<1>9. \A u \in Threads \ {t} : Shape(stack'[u]) = Shape(stack[u])
  BY <1>4
<1>10. QED
  BY <1>4, <1>8, <1>9 DEF Accounted, InOrder

\* The follower bound to a completed event is signaled.
LEMMA NotifiedFacts ==
  ASSUME lf \in LFs, NEW u \in Threads, NEW i
  PROVE  /\ Notified(u, i) \in LFs /\ SameBooks(lf, Notified(u, i))
         /\ SameCounters(lf, Notified(u, i))
<1>1. CASE Bound(u, i)
  BY <1>1, SignalFacts DEF Notified, SameBooks, SameCounters
<1>2. CASE ~Bound(u, i)
  BY <1>2 DEF Notified, SameBooks, SameCounters
<1>3. QED
  BY <1>1, <1>2

LEMMA DispatchAccounts ==
  ASSUME NEW t \in Threads, InOrder(t), NEW u \in Threads, NEW i, NEW new \in Completions,
         Dispatch(t, u, i, new)
  PROVE  Accounted(t)
<1> DEFINE st == Changed(u, i, new)
<1>1. /\ stack \in [Threads -> Seq(Calls)] /\ lf \in LFs
      /\ At(t) \in {"leading", "running"} /\ i \in 1..Len(stack[u])
      /\ lf' = Notified(u, i) /\ stack' = Returned(st, lf', t, "events")
  BY DEF InOrder, Typed, Dispatch, InReactor, Pending
<1>2. /\ st \in [Threads -> Seq(Calls)]
      /\ \A v \in Threads : Shape(st[v]) = Shape(stack[v]) /\ Len(st[v]) = Len(stack[v])
  BY <1>1, ChangedFacts
<1> HIDE DEF st
<1>3. st[t] # <<>>
  <2>1. stack[t] # <<>> /\ stack[t] \in Seq(Calls) /\ st[t] \in Seq(Calls)
    BY <1>1, <1>2 DEF At
  <2>2. QED BY <1>2, <2>1, ShapeType
<1>4. lf' \in LFs /\ SameCounters(lf, lf')
  BY <1>1, NotifiedFacts
<1>5. lf'.client_leader_thread = lf.client_leader_thread /\ "events" \in Results
  BY <1>4 DEF SameCounters, Results
<1> DEFINE l == lf'
<1> HIDE DEF l
<1>6. stack' = Returned(st, l, t, "events") /\ l.client_leader_thread = lf.client_leader_thread
  BY <1>1, <1>5 DEF l
<1>7. QED
  BY <1>1, <1>2, <1>3, <1>4, <1>5, <1>6, ReturnedAccounts

LEMMA ChangeOutsideAccounts ==
  ASSUME NEW t \in Threads, InOrder(t), NEW u \in Threads, NEW i, NEW new \in Completions,
         ChangeOutside(t, u, i, new)
  PROVE  Accounted(t)
<1>1. /\ stack \in [Threads -> Seq(Calls)] /\ lf \in LFs
      /\ i \in 1..Len(stack[u]) /\ lf' = Notified(u, i) /\ stack' = Changed(u, i, new)
  BY DEF InOrder, Typed, ChangeOutside, Pending
<1>2. /\ stack' \in [Threads -> Seq(Calls)]
      /\ \A v \in Threads : Shape(stack'[v]) = Shape(stack[v])
                            /\ Len(stack'[v]) = Len(stack[v])
  BY <1>1, ChangedFacts
<1>3. lf' \in LFs /\ SameCounters(lf, lf')
  BY <1>1, NotifiedFacts
<1>4. Books(lf, Shape(stack[t]), lf', Shape(stack[t]), t) /\ Orderly(lf', Shape(stack[t]), t)
  BY <1>3, BooksSame DEF InOrder
<1>5. QED
  BY <1>2, <1>3, <1>4 DEF Accounted, InOrder

LEMMA HandleNothingAccounts ==
  ASSUME NEW t \in Threads, InOrder(t), NEW result \in Results, HandleNothing(t, result)
  PROVE  Accounted(t)
<1>1. /\ stack \in [Threads -> Seq(Calls)] /\ lf' \in LFs /\ SameCounters(lf, lf')
      /\ At(t) \in {"leading", "running"} /\ stack' = Returned(stack, lf, t, result)
  BY DEF InOrder, Typed, HandleNothing, InReactor, SameCounters
<1>2. stack[t] # <<>>
  BY <1>1 DEF At
<1>3. QED
  BY <1>1, <1>2, ReturnedAccounts

LEMMA DeferEventAccounts ==
  ASSUME NEW t \in Threads, InOrder(t), DeferEvent(t)
  PROVE  Accounted(t)
<1>1. /\ stack \in [Threads -> Seq(Calls)] /\ lf \in LFs
      /\ At(t) \in {"leading", "running"} /\ stack' = Returned(stack, lf, t, "events")
      /\ "events" \in Results
  BY DEF InOrder, Typed, DeferEvent, Results
<1> DEFINE d == lf.deferred + 1
<1>2. d \in 0..MaxDeferred /\ lf' = [lf EXCEPT !.deferred = d]
  BY <1>1 DEF DeferEvent, LFs, MaxDeferred
<1> HIDE DEF d
<1>3. lf' \in LFs /\ SameCounters(lf, lf')
  BY <1>1, <1>2, DeferredFacts DEF SameCounters
<1>4. stack[t] # <<>>
  BY <1>1 DEF At
<1>5. QED
  BY <1>1, <1>3, <1>4, ReturnedAccounts

LEMMA UpcallAccounts ==
  ASSUME NEW t \in Threads, InOrder(t), Upcall(t)
  PROVE  Accounted(t)
<1> DEFINE S == Shape(stack[t])
           U == <<"upcall">> \o S
           c == Call("upcall", FALSE)
<1>1. /\ stack \in [Threads -> Seq(Calls)] /\ lf \in LFs /\ MaxDepth \in Nat
      /\ At(t) \in {"leading", "running"} /\ At(t) # "application"
      /\ Len(stack[t]) < MaxDepth /\ stack' = Push(t, c)
  BY LFAssumption DEF InOrder, Typed, Upcall, InReactor
<1>2. stack[t] \in Seq(Calls) /\ stack[t] # <<>> /\ Len(stack[t]) \in Nat
      /\ Top(t).at = At(t)
  BY <1>1, Innermost
<1>3. S \in Seq(Ats) /\ S # <<>> /\ Head(S) \in {"leading", "running"}
  BY <1>1, <1>2, ShapeType, ShapeFacts DEF Top
<1>4. c \in Calls /\ c.at = "upcall"
  BY DEF Call, Calls, States, Results
<1> HIDE DEF c
<1>5. Changes(t, U) /\ Len(stack'[t]) = Len(stack[t]) + 1
  BY <1>1, <1>4, PushChanges
<1>6. Len(stack'[t]) <= MaxDepth
  BY <1>1, <1>2, <1>5
<1>7. Orderly(lf, S, t)
  BY DEF InOrder
<1> HIDE DEF S
<1>8. Books(lf, S, lf, U, t) /\ Orderly(lf, U, t)
  BY <1>1, <1>3, <1>7, KeepBooks
<1> DEFINE m == Abdicates(lf, t)
<1>9. m \in LFs /\ Books(lf, S, m, U, t) /\ Orderly(m, U, t)
  BY <1>1, <1>3, <1>7, AbdicateBooks
<1>10. lf' = lf \/ lf' = elect_new_leader(m)
  BY UpcallThread DEF Upcall
<1> HIDE DEF m, U
<1>11. lf' \in LFs /\ Books(lf, S, lf', U, t) /\ Orderly(lf', U, t)
  <2>1. CASE lf' = lf
    BY <1>1, <1>8, <2>1
  <2>2. CASE lf' = elect_new_leader(m)
    <3>1. lf' \in LFs /\ SameBooks(m, lf')
      BY <1>9, <2>2, ElectFacts
    <3>2. QED BY <1>9, <3>1, BooksElect, OrderlyElect
  <2>3. QED BY <1>10, <2>1, <2>2
<1>12. QED
  BY <1>5, <1>6, <1>11 DEF Accounted, Changes, S

\* An upcall returns into handle_events, which may have lost its leadership.
LEMMA BackBooks ==
  ASSUME NEW l \in LFs, NEW t \in Threads, NEW B \in Seq(Ats), NEW a \in {"leading", "running"},
         Orderly(l, <<"upcall">> \o (<<a>> \o B), t), NEW b,
         \/ a = "leading" /\ b = "leaving"
         \/ a = "leading" /\ b = "leading" /\ l.client_leader_thread[t] > 0
         \/ a = "running" /\ b = "ended"
  PROVE  /\ Books(l, <<"upcall">> \o (<<a>> \o B), l, <<b>> \o B, t)
         /\ Orderly(l, <<b>> \o B, t)
<1> DEFINE A == <<a>> \o B
           U == <<"upcall">> \o A
           R == <<b>> \o B
<1>1. /\ a \in Ats \ {"upcall"} /\ b \in Ats \ {"upcall"} /\ "upcall" \in Ats
      /\ "upcall" \notin Clienting /\ (a \in Clienting <=> b \in Clienting)
      /\ (a \in Leading <=> b \in Leading) /\ (a \in Running <=> b \in Running)
  BY DEF Ats, Waiting, Looping, Clienting, Leading, Running
<1>2. A \in Seq(Ats) /\ TopOf(R) = b
  BY <1>1, TopCons
<1>3. Serving(R) = Serving(A)
  BY <1>1, ServingCons
<1>4. Nest(U) /\ Lent(U, l.client_leader_thread[t], l.event_loop_thread[t])
  BY DEF Orderly
<1> HIDE DEF A
<1>5. TopOf(U) = "upcall" /\ Serving(U) = Serving(A) /\ Nest(A)
  BY <1>1, <1>2, <1>4, TopCons, ServingCons, NestCons
<1>6. Nest(R)
  BY <1>1, <1>5, BaseFacts DEF A
<1>7. Lent(R, l.client_leader_thread[t], l.event_loop_thread[t])
  <2> DEFINE c == l.client_leader_thread[t]
             e == l.event_loop_thread[t]
  <2>1. c \in Int /\ e \in Int
    BY LFTypes
  <2>2. Lent(U, c, e)
    BY <1>4
  <2> HIDE DEF c, e
  <2>3. Lent(A, c, e)
    BY <1>2, <2>1, <2>2, LentPlaces
  <2>4. Lent(R, c, e) <=> Lent(A, c, e)
    <3>1. CASE a \in Leading
      BY <1>1, <2>1, <3>1, LentCons DEF A
    <3>2. CASE a \in Running
      BY <1>1, <2>1, <3>2, LentCons DEF A
    <3>3. QED BY <3>1, <3>2 DEF Leading, Running
  <2>5. QED BY <2>3, <2>4 DEF c, e
<1>8. Counts(l, U, t) = Counts(l, R, t)
  BY <1>2, <1>5 DEF Counts
<1>9. Books(l, U, l, R, t)
  BY <1>3, <1>5, <1>8 DEF Books
<1>10. Orderly(l, R, t)
  BY <1>2, <1>6, <1>7 DEF Orderly
<1>11. QED
  BY <1>9, <1>10 DEF A

LEMMA UpcallReturnsAccounts ==
  ASSUME NEW t \in Threads, InOrder(t), UpcallReturns(t)
  PROVE  Accounted(t)
<1> DEFINE S == Shape(stack[t])
           A == Tail(S)
           st == Pop(t)
           n == TopOf(Shape(stack'[t]))
<1>1. /\ stack \in [Threads -> Seq(Calls)] /\ lf \in LFs /\ At(t) = "upcall"
      /\ stack' = Returned(st, lf, t, "events") /\ lf' = lf /\ "events" \in Results
      /\ MaxDepth \in Nat
  BY LFAssumption DEF InOrder, Typed, UpcallReturns, Results
<1>2. /\ stack[t] \in Seq(Calls) /\ stack[t] # <<>> /\ A \in Seq(Ats)
      /\ S = <<"upcall">> \o A /\ Len(stack[t]) \in Nat
  BY <1>1, Innermost
<1>3. A # <<>> /\ Head(A) \in {"leading", "running"}
  <2>1. Nest(<<"upcall">> \o A) /\ "upcall" \in Ats
    BY <1>2 DEF InOrder, Orderly, Ats
  <2>2. QED BY <1>2, <2>1, NestCons
<1> DEFINE B == Tail(A)
           a == Head(A)
<1>4. A = <<a>> \o B /\ B \in Seq(Ats)
  BY <1>2, <1>3, ConsHeadTail
<1>5. /\ Tail(stack[t]) \in Seq(Calls) /\ Shape(Tail(stack[t])) = A
      /\ Len(Tail(stack[t])) = Len(stack[t]) - 1
  BY <1>2, ConsHeadTail, ShapeFacts
<1>6. /\ st \in [Threads -> Seq(Calls)] /\ st[t] = Tail(stack[t])
      /\ \A u \in Threads \ {t} : st[u] = stack[u]
  BY <1>1, <1>5 DEF Pop
<1>7. st[t] # <<>> /\ Head(st[t]).at = a
  <2>1. st[t] # <<>>
    BY <1>3, <1>5, <1>6, ShapeType
  <2>2. QED BY <1>5, <1>6, <2>1, ShapeFacts
<1> HIDE DEF st, A, a
<1>8. /\ stack' \in [Threads -> Seq(Calls)]
      /\ \A u \in Threads \ {t} : stack'[u] = st[u]
      /\ Shape(stack'[t]) = <<n>> \o B /\ Len(stack'[t]) = Len(st[t])
      /\ a = "running" => n = "ended"
      /\ a # "running" =>
           n = "leaving" \/ (n = "leading" /\ lf.client_leader_thread[t] > 0)
  <2>1. /\ stack' \in [Threads -> Seq(Calls)]
        /\ \A u \in Threads \ {t} : stack'[u] = st[u]
        /\ Shape(stack'[t]) = <<n>> \o Tail(Shape(st[t])) /\ Len(stack'[t]) = Len(st[t])
        /\ Head(st[t]).at = "running" => n = "ended"
        /\ Head(st[t]).at # "running" =>
             n = "leaving" \/ (n = "leading" /\ lf.client_leader_thread[t] > 0)
    <3> DEFINE r == Returned(st, lf, t, "events")
    <3>1. st \in [Threads -> Seq(Calls)] /\ st[t] # <<>> /\ "events" \in Results
      BY <1>1, <1>6, <1>7
    <3>2. /\ r \in [Threads -> Seq(Calls)]
          /\ \A u \in Threads \ {t} : r[u] = st[u]
          /\ Shape(r[t]) = <<TopOf(Shape(r[t]))>> \o Tail(Shape(st[t]))
          /\ Len(r[t]) = Len(st[t])
          /\ Head(st[t]).at = "running" => TopOf(Shape(r[t])) = "ended"
          /\ Head(st[t]).at # "running" =>
               \/ TopOf(Shape(r[t])) = "leaving"
               \/ TopOf(Shape(r[t])) = "leading" /\ lf.client_leader_thread[t] > 0
      BY <3>1, ReturnedFacts
    <3>3. stack' = r
      BY <1>1
    <3> HIDE DEF r
    <3>4. QED BY <3>2, <3>3
  <2>2. Tail(Shape(st[t])) = B
    BY <1>5, <1>6
  <2>3. QED BY <1>7, <2>1, <2>2
<1>9. a \in {"leading", "running"} /\ Orderly(lf, <<"upcall">> \o (<<a>> \o B), t)
  BY <1>2, <1>3, <1>4 DEF InOrder, a
<1> HIDE DEF B, n
<1>10. /\ Books(lf, <<"upcall">> \o (<<a>> \o B), lf, <<n>> \o B, t)
       /\ Orderly(lf, <<n>> \o B, t)
  BY <1>1, <1>4, <1>8, <1>9, BackBooks
<1>11. Books(lf, S, lf', Shape(stack'[t]), t) /\ Orderly(lf', Shape(stack'[t]), t)
  BY <1>1, <1>2, <1>4, <1>8, <1>10
<1>12. Len(stack'[t]) <= MaxDepth
  <2>1. Len(stack'[t]) = Len(stack[t]) - 1 /\ Len(stack[t]) <= MaxDepth
    BY <1>5, <1>6, <1>8 DEF InOrder
  <2>2. QED BY <1>1, <1>2, <2>1
<1>13. QED
  BY <1>1, <1>6, <1>8, <1>11, <1>12 DEF Accounted

\* Every step of a thread.
LEMMA StepAccounts ==
  ASSUME NEW t \in Threads, InOrder(t), Step(t)
  PROVE  Accounted(t)
<1>1. ASSUME NEW timed \in TimedCalls, Invoke(t, timed) \/ Run(t, timed)
      PROVE  Accounted(t)
  <2>1. timed \in BOOLEAN
    BY LFAssumption
  <2>2. QED BY <1>1, <2>1, CallAccounts
<1>2. ASSUME NEW u \in Threads, NEW i \in Depths, NEW new \in Completions,
             Dispatch(t, u, i, new) \/ ChangeOutside(t, u, i, new)
      PROVE  Accounted(t)
  BY <1>2, DispatchAccounts, ChangeOutsideAccounts
<1>3. ASSUME NEW again \in BOOLEAN, EndIteration(t, again)
      PROVE  Accounted(t)
  BY <1>3, EndIterationAccounts
<1>4. ASSUME NEW result \in Results, HandleNothing(t, result)
      PROVE  Accounted(t)
  BY <1>4, HandleNothingAccounts
<1>5. CASE WaitForEvent(t) \/ LeaveReactor(t) \/ Yielded(t)
  BY <1>5, WaitForEventAccounts, LeaveReactorAccounts, YieldedAccounts
<1>6. CASE FollowerWakes(t) \/ FollowerTimesOut(t) \/ FollowerWaitFails(t)
  BY <1>6, FollowerStepsAccount
<1>7. CASE StartIteration(t) \/ EnterEventLoop(t) \/ EnteringWakes(t)
  BY <1>7, StartIterationAccounts, EnterEventLoopAccounts, EnteringWakesAccounts
<1>8. CASE EnteringFails(t) \/ FailIteration(t)
  BY <1>8, EnteringFailsAccounts, FailIterationAccounts
<1>9. CASE Upcall(t) \/ UpcallReturns(t) \/ DeferEvent(t)
  BY <1>9, UpcallAccounts, UpcallReturnsAccounts, DeferEventAccounts
<1>10. QED
  BY <1>1, <1>2, <1>3, <1>4, <1>5, <1>6, <1>7, <1>8, <1>9 DEF Step

-----------------------------------------------------------------------------
(* The books balance: each counter is the sum of what the threads contribute *)

\* One pair for each unit that a thread contributes.
Units(g) == {p \in Threads \X Nat : 1 <= p[2] /\ p[2] <= g[p[1]]}

Sums(g, n) == IsFiniteSet(Units(g)) /\ n = Cardinality(Units(g))

LEMMA BlockOfUnits ==
  ASSUME NEW t, NEW k \in Nat
  PROVE  IsFiniteSet({t} \X (1..k)) /\ Cardinality({t} \X (1..k)) = k
<1> DEFINE X == {t}
           Y == 1..k
<1>1. IsFiniteSet(X) /\ Cardinality(X) = 1
  BY FS_Singleton
<1>2. IsFiniteSet(Y) /\ Cardinality(Y) = k
  BY FS_Interval
<1> HIDE DEF X, Y
<1>3. IsFiniteSet(X \X Y) /\ Cardinality(X \X Y) = Cardinality(X) * Cardinality(Y)
  BY <1>1, <1>2, FS_Product
<1>4. Cardinality(X \X Y) = k
  BY <1>1, <1>2, <1>3
<1>5. QED
  BY <1>3, <1>4 DEF X, Y

\* The units of thread t and those of the others.
LEMMA SplitUnits ==
  ASSUME NEW g \in [Threads -> Nat], NEW t \in Threads, IsFiniteSet(Units(g))
  PROVE  LET R == {p \in Units(g) : p[1] # t}
         IN  /\ IsFiniteSet(R) /\ Cardinality(R) \in Nat
             /\ Cardinality(Units(g)) = Cardinality(R) + g[t]
<1> DEFINE R == {p \in Units(g) : p[1] # t}
           O == {t} \X (1..g[t])
<1>1. IsFiniteSet(R) /\ Cardinality(R) \in Nat
  BY FS_Subset, FS_CardinalityType
<1>3. g[t] \in Nat
  OBVIOUS
<1>4. IsFiniteSet(O) /\ Cardinality(O) = g[t]
  BY <1>3, BlockOfUnits
<1>5. Units(g) = R \cup O /\ R \cap O = {}
  BY DEF Units
<1> HIDE DEF R, O
<1>6. Cardinality(R \cap O) = 0
  BY <1>5, FS_EmptySet
<1>7. Cardinality(Units(g)) = Cardinality(R) + Cardinality(O) - Cardinality(R \cap O)
  BY <1>1, <1>4, <1>5, FS_Union
<1>8. QED
  BY <1>1, <1>3, <1>4, <1>6, <1>7 DEF R

LEMMA SumsStep ==
  ASSUME NEW g \in [Threads -> Nat], NEW h \in [Threads -> Nat], NEW t \in Threads,
         \A u \in Threads \ {t} : h[u] = g[u],
         NEW n \in Int, NEW m \in Int, m - h[t] = n - g[t], Sums(g, n)
  PROVE  Sums(h, m)
<1> DEFINE R == {p \in Units(g) : p[1] # t}
           O == {t} \X (1..h[t])
<1>1. /\ IsFiniteSet(R) /\ Cardinality(R) \in Nat
      /\ Cardinality(Units(g)) = Cardinality(R) + g[t]
  BY SplitUnits DEF Sums
<1>2. R = {p \in Units(h) : p[1] # t} /\ Units(h) = R \cup O
  BY DEF Units
<1>3. IsFiniteSet(O)
  <2>1. h[t] \in Nat
    OBVIOUS
  <2>2. QED BY <2>1, BlockOfUnits
<1> HIDE DEF R, O
<1>4. IsFiniteSet(Units(h))
  <2>1. IsFiniteSet(R \cup O)
    BY <1>1, <1>3, FS_Union
  <2>2. QED BY <1>2, <2>1
<1>5. Cardinality(Units(h)) = Cardinality(R) + h[t]
  BY <1>2, <1>4, SplitUnits
<1>6. n = Cardinality(Units(g)) /\ g[t] \in Nat /\ h[t] \in Nat
  BY DEF Sums
<1>7. m = Cardinality(R) + h[t]
  BY <1>1, <1>6
<1>8. QED
  BY <1>4, <1>5, <1>7 DEF Sums

LEMMA SumsFacts ==
  ASSUME NEW g \in [Threads -> Nat], NEW n, Sums(g, n)
  PROVE  /\ n \in Nat
         /\ \A t \in Threads : g[t] <= n
         /\ n > 0 => \E t \in Threads : g[t] > 0
<1>1. n \in Nat
  BY FS_CardinalityType DEF Sums
<1>2. ASSUME NEW t \in Threads PROVE g[t] <= n
  <2> DEFINE R == {p \in Units(g) : p[1] # t}
  <2>1. Cardinality(R) \in Nat /\ Cardinality(Units(g)) = Cardinality(R) + g[t]
    BY SplitUnits DEF Sums
  <2> HIDE DEF R
  <2>2. QED BY <2>1 DEF Sums
<1>3. ASSUME n > 0 PROVE \E t \in Threads : g[t] > 0
  <2>1. Units(g) # {}
    BY <1>1, <1>3, FS_EmptySet DEF Sums
  <2>2. QED BY <2>1 DEF Units
<1>4. QED
  BY <1>1, <1>2, <1>3

LEMMA SumsZero ==
  Sums([t \in Threads |-> 0], 0)
<1>1. Units([t \in Threads |-> 0]) = {}
  BY DEF Units
<1>2. QED
  BY <1>1, FS_EmptySet DEF Sums

\* How many clients each thread is.
ServingOf(st) == [t \in Threads |-> Serving(Shape(st[t]))]

(***************************************************************************)
(* The inductive invariant of the counters.                                *)
(***************************************************************************)
Balanced ==
  /\ Typed
  /\ \A t \in Threads : Len(stack[t]) <= MaxDepth /\ Orderly(lf, Shape(stack[t]), t)
  /\ LeadersCounted
  /\ Sums(lf.client_leader_thread, lf.client_thread_is_leader)
  /\ Sums(ServingOf(stack), lf.clients)

\* The contribution of a thread to leaders_.
LEMMA CountsFacts ==
  ASSUME stack \in [Threads -> Seq(Calls)], NEW t \in Threads
  PROVE  /\ Counts(lf, Shape(stack[t]), t) = IF t \in Counted THEN 1 ELSE 0
         /\ At(t) = TopOf(Shape(stack[t]))
<1>1. At(t) = At0(stack[t])
  BY DEF At, At0
<1>2. At(t) = TopOf(Shape(stack[t]))
  BY <1>1, AtShape
<1>3. QED
  BY <1>2 DEF Counts, Counted

LEMMA BalancedInit == Init => Balanced
<1> SUFFICES ASSUME Init PROVE Balanced
  OBVIOUS
<1>1. \A t \in Threads : stack[t] = <<>> /\ lf.event_loop_thread[t] = 0
                         /\ lf.client_leader_thread[t] = 0
  BY DEF Init
<1>2. Typed
  <2>1. lf \in LFs
    BY DEF Init, LFs, MaxDeferred
  <2>2. stack \in [Threads -> Seq(Calls)]
    BY DEF Init
  <2>3. QED BY <2>1, <2>2 DEF Typed
<1>3. Shape(<<>>) = <<>> /\ Len(<<>>) = 0 /\ <<>> \in Seq(Calls)
  BY DEF Shape
<1>4. \A t \in Threads : Len(stack[t]) <= MaxDepth /\ Orderly(lf, Shape(stack[t]), t)
  BY <1>1, <1>3, LFAssumption DEF Orderly, Nest, Lent, TopOf
<1>5. LeadersCounted
  <2>1. Counted = {}
    BY <1>1 DEF Counted, Leads
  <2>2. QED BY <2>1, FS_EmptySet DEF LeadersCounted, Init
<1>6. Sums(lf.client_leader_thread, lf.client_thread_is_leader)
  BY SumsZero DEF Init
<1>7. Sums(ServingOf(stack), lf.clients)
  <2>1. Serving(<<>>) = 0
    <3>1. Inside(<<>>, 1, Clienting) = {}
      BY DEF Inside
    <3>2. QED BY <3>1, FS_EmptySet DEF Serving
  <2>2. ServingOf(stack) = [t \in Threads |-> 0]
    BY <1>1, <1>3, <2>1 DEF ServingOf
  <2>3. QED BY <2>2, SumsZero DEF Init
<1>8. QED
  BY <1>2, <1>4, <1>5, <1>6, <1>7 DEF Balanced

LEMMA ServingType ==
  ASSUME NEW st \in [Threads -> Seq(Calls)]
  PROVE  ServingOf(st) \in [Threads -> Nat]
<1>1. ASSUME NEW t \in Threads PROVE Serving(Shape(st[t])) \in Nat
  <2>1. Shape(st[t]) \in Seq(Ats) /\ "upcall" \in Ats
    BY ShapeType DEF Ats
  <2>2. QED BY <2>1, ServingCons
<1>2. QED
  BY <1>1 DEF ServingOf

LEMMA BalancedStep ==
  ASSUME Balanced, NEW t \in Threads, Step(t)
  PROVE  Balanced' /\ Accounted(t)
<1>1. InOrder(t) /\ lf \in LFs /\ stack \in [Threads -> Seq(Calls)]
  BY DEF Balanced, InOrder, Typed
<1>2. Accounted(t)
  BY <1>1, StepAccounts
<1>3. /\ lf' \in LFs /\ stack' \in [Threads -> Seq(Calls)]
      /\ \A u \in Threads \ {t} : Shape(stack'[u]) = Shape(stack[u])
      /\ Len(stack'[t]) <= MaxDepth
      /\ Books(lf, Shape(stack[t]), lf', Shape(stack'[t]), t)
      /\ Orderly(lf', Shape(stack'[t]), t)
  BY <1>2 DEF Accounted
<1>4. /\ \A u \in Threads \ {t} :
           /\ lf'.event_loop_thread[u] = lf.event_loop_thread[u]
           /\ lf'.client_leader_thread[u] = lf.client_leader_thread[u]
      /\ lf'.leaders - Counts(lf', Shape(stack'[t]), t)
           = lf.leaders - Counts(lf, Shape(stack[t]), t)
      /\ lf'.client_thread_is_leader - lf'.client_leader_thread[t]
           = lf.client_thread_is_leader - lf.client_leader_thread[t]
      /\ lf'.clients - Serving(Shape(stack'[t])) = lf.clients - Serving(Shape(stack[t]))
  BY <1>3 DEF Books
<1>5. ASSUME NEW u \in Threads
      PROVE  Len(stack'[u]) <= MaxDepth /\ Orderly(lf', Shape(stack'[u]), u)
  <2>1. CASE u = t
    BY <1>3, <2>1
  <2>2. CASE u # t
    <3>1. Len(stack[u]) <= MaxDepth /\ Orderly(lf, Shape(stack[u]), u)
      BY DEF Balanced
    <3>2. Len(stack'[u]) = Len(stack[u])
      <4>1. stack[u] \in Seq(Calls) /\ stack'[u] \in Seq(Calls)
        BY <1>1, <1>3
      <4>2. Len(Shape(stack[u])) = Len(stack[u]) /\ Len(Shape(stack'[u])) = Len(stack'[u])
        BY <4>1, ShapeType
      <4>3. QED BY <1>3, <2>2, <4>2
    <3>3. Orderly(lf', Shape(stack'[u]), u)
      BY <1>3, <1>4, <2>2, <3>1 DEF Orderly
    <3>4. QED BY <3>1, <3>2, <3>3
  <2>3. QED BY <2>1, <2>2
<1>6. LeadersCounted'
  <2> DEFINE c == IF t \in Counted THEN 1 ELSE 0
             d == IF t \in Counted' THEN 1 ELSE 0
  <2>1. Counts(lf, Shape(stack[t]), t) = c
    BY <1>1, CountsFacts
  <2>2. \A u \in Threads : At(u) = TopOf(Shape(stack[u]))
                           /\ At(u)' = TopOf(Shape(stack'[u]))
    <3>1. \A u \in Threads : At(u) = At0(stack[u]) /\ At(u)' = At0(stack'[u])
      BY DEF At, At0
    <3>2. QED BY <1>1, <1>3, <3>1, AtShape
  <2>3. Counts(lf', Shape(stack'[t]), t) = d
    BY <2>2 DEF Counts, Counted
  <2>4. Counted \ {t} = Counted' \ {t}
    <3>1. ASSUME NEW u \in Threads \ {t} PROVE u \in Counted <=> u \in Counted'
      <4>1. At(u) = At(u)'
        BY <1>3, <2>2
      <4>2. Leads(lf, u) <=> Leads(lf', u)
        BY <1>4 DEF Leads
      <4>3. QED BY <4>1, <4>2 DEF Counted
    <3>2. Counted \subseteq Threads /\ Counted' \subseteq Threads
      BY DEF Counted
    <3>3. QED BY <3>1, <3>2
  <2>5. IsFiniteSet(Counted) /\ IsFiniteSet(Counted')
    <3>1. Counted \in SUBSET Threads /\ Counted' \in SUBSET Threads
      BY DEF Counted
    <3>2. QED BY <3>1, FS_Subset, LFAssumption
  <2>6. /\ Cardinality(Counted) \in Nat /\ Cardinality(Counted') \in Nat
        /\ Cardinality(Counted \ {t}) = Cardinality(Counted) - c
        /\ Cardinality(Counted' \ {t}) = Cardinality(Counted') - d
    <3>1. Cardinality(Counted) \in Nat /\ Cardinality(Counted') \in Nat
      BY <2>5, FS_CardinalityType
    <3>2. Cardinality(Counted \ {t}) = Cardinality(Counted) - c
      <4> DEFINE X == Counted
      <4>1. IsFiniteSet(X) /\ Cardinality(X) \in Nat
        BY <2>5, <3>1
      <4> HIDE DEF X
      <4>2. Cardinality(X \ {t}) = IF t \in X THEN Cardinality(X) - 1 ELSE Cardinality(X)
        BY <4>1, FS_RemoveElement
      <4>3. Cardinality(X \ {t}) = Cardinality(X) - IF t \in X THEN 1 ELSE 0
        BY <4>1, <4>2
      <4>4. QED BY <4>3 DEF X
    <3>3. Cardinality(Counted' \ {t}) = Cardinality(Counted') - d
      <4> DEFINE X == Counted'
      <4>1. IsFiniteSet(X) /\ Cardinality(X) \in Nat
        BY <2>5, <3>1
      <4> HIDE DEF X
      <4>2. Cardinality(X \ {t}) = IF t \in X THEN Cardinality(X) - 1 ELSE Cardinality(X)
        BY <4>1, FS_RemoveElement
      <4>3. Cardinality(X \ {t}) = Cardinality(X) - IF t \in X THEN 1 ELSE 0
        BY <4>1, <4>2
      <4>4. QED BY <4>3 DEF X
    <3>4. QED BY <3>1, <3>2, <3>3
  <2>7. lf.leaders = Cardinality(Counted) /\ lf'.leaders \in Int
    BY <1>3 DEF Balanced, LeadersCounted, LFs
  <2>8. c \in {0, 1} /\ d \in {0, 1}
    OBVIOUS
  <2>9. lf'.leaders - d = Cardinality(Counted') - d
    <3> HIDE DEF c, d
    <3>1. QED BY <1>4, <2>1, <2>3, <2>4, <2>6, <2>7
  <2>10. lf'.leaders = Cardinality(Counted')
    <3> HIDE DEF c, d
    <3>1. QED BY <2>6, <2>7, <2>8, <2>9
  <2>11. QED BY <2>10 DEF LeadersCounted
<1>7. Sums(lf'.client_leader_thread, lf'.client_thread_is_leader)
  <2> DEFINE g == lf.client_leader_thread
             h == lf'.client_leader_thread
             n == lf.client_thread_is_leader
             m == lf'.client_thread_is_leader
  <2>1. g \in [Threads -> Nat] /\ h \in [Threads -> Nat] /\ n \in Int /\ m \in Int
    BY <1>1, <1>3 DEF LFs
  <2>2. (\A u \in Threads \ {t} : h[u] = g[u]) /\ m - h[t] = n - g[t] /\ Sums(g, n)
    BY <1>4 DEF Balanced
  <2> HIDE DEF g, h, m, n
  <2>3. Sums(h, m)
    BY <2>1, <2>2, SumsStep
  <2>4. QED BY <2>3 DEF h, m
<1>8. Sums(ServingOf(stack'), lf'.clients)
  <2> DEFINE g == ServingOf(stack)
             h == ServingOf(stack')
             n == lf.clients
             m == lf'.clients
  <2>1. g \in [Threads -> Nat] /\ h \in [Threads -> Nat] /\ n \in Int /\ m \in Int
    BY <1>1, <1>3, ServingType DEF LFs
  <2>2. (\A u \in Threads \ {t} : h[u] = g[u]) /\ m - h[t] = n - g[t] /\ Sums(g, n)
    BY <1>3, <1>4 DEF Balanced, ServingOf
  <2> HIDE DEF g, h, m, n
  <2>3. Sums(h, m)
    BY <2>1, <2>2, SumsStep
  <2>4. QED BY <2>3 DEF h, m
<1>9. QED
  BY <1>2, <1>3, <1>5, <1>6, <1>7, <1>8 DEF Balanced, Typed

\* The shutdown touches none of the books.
LEMMA ShutdownFacts ==
  ASSUME lf \in LFs, Shutdown \/ ShutdownReactor
  PROVE  /\ lf' \in LFs /\ SameCounters(lf, lf') /\ stack' = stack
         /\ lf'.event_loop_threads_waiting = lf.event_loop_threads_waiting
         /\ lf'.follower_set = lf.follower_set /\ lf'.woken = lf.woken
         /\ lf'.deferred = lf.deferred /\ lf'.has_shutdown
         /\ Shutdown => /\ lf'.reactor_shutdown = lf.reactor_shutdown
                        /\ lf'.event_loop_done = lf.event_loop_done
         /\ ShutdownReactor =>
              /\ lf'.reactor_shutdown
              /\ lf'.event_loop_done = (lf.event_loop_done \/ DropReplies \/ lf.clients = 0)
<1>1. CASE Shutdown
  <2>1. lf' = [lf EXCEPT !.has_shutdown = TRUE] /\ stack' = stack /\ ~lf.has_shutdown
    BY <1>1 DEF Shutdown
  <2>2. lf' \in LFs
    BY <2>1 DEF LFs
  <2>3. SameCounters(lf, lf')
    BY <2>1 DEF LFs, SameCounters
  <2>4. /\ lf'.event_loop_threads_waiting = lf.event_loop_threads_waiting
        /\ lf'.follower_set = lf.follower_set /\ lf'.woken = lf.woken
        /\ lf'.deferred = lf.deferred /\ lf'.has_shutdown
        /\ lf'.reactor_shutdown = lf.reactor_shutdown
        /\ lf'.event_loop_done = lf.event_loop_done
    BY <2>1 DEF LFs
  <2>5. ~ShutdownReactor
    BY <2>1 DEF ShutdownReactor
  <2>6. QED BY <2>1, <2>2, <2>3, <2>4, <2>5
<1>2. CASE ShutdownReactor
  <2> DEFINE done == lf.event_loop_done \/ DropReplies \/ lf.clients = 0
  <2>1. /\ lf' = [lf EXCEPT !.reactor_shutdown = TRUE, !.event_loop_done = done]
        /\ stack' = stack /\ lf.has_shutdown
    BY <1>2 DEF ShutdownReactor
  <2>2. done \in BOOLEAN
    OBVIOUS
  <2> HIDE DEF done
  <2>3. lf' \in LFs
    BY <2>1, <2>2 DEF LFs
  <2>4. SameCounters(lf, lf')
    BY <2>1 DEF LFs, SameCounters
  <2>5. /\ lf'.event_loop_threads_waiting = lf.event_loop_threads_waiting
        /\ lf'.follower_set = lf.follower_set /\ lf'.woken = lf.woken
        /\ lf'.deferred = lf.deferred /\ lf'.has_shutdown
    BY <2>1 DEF LFs
  <2>6. lf'.reactor_shutdown /\ lf'.event_loop_done = done
    BY <2>1 DEF LFs
  <2>7. ~Shutdown
    BY <2>1 DEF Shutdown
  <2>8. QED BY <2>1, <2>3, <2>4, <2>5, <2>6, <2>7 DEF done
<1>3. QED
  BY <1>1, <1>2

LEMMA BalancedNext ==
  ASSUME Balanced, [Next]_vars
  PROVE  Balanced'
<1>1. ASSUME NEW t \in Threads, Step(t) PROVE Balanced'
  BY <1>1, BalancedStep
<1>2. CASE Shutdown \/ ShutdownReactor
  <2>1. lf \in LFs /\ stack \in [Threads -> Seq(Calls)]
    BY DEF Balanced, Typed
  <2>2. lf' \in LFs /\ SameCounters(lf, lf') /\ stack' = stack
    BY <1>2, <2>1, ShutdownFacts
  <2>3. \A t \in Threads : Len(stack'[t]) <= MaxDepth /\ Orderly(lf', Shape(stack'[t]), t)
    <3>1. \A t \in Threads : Orderly(lf, Shape(stack[t]), t) => Orderly(lf', Shape(stack[t]), t)
      BY <2>2, BooksSame
    <3>2. QED BY <2>2, <3>1 DEF Balanced
  <2>4. LeadersCounted'
    <3>1. Counted' = Counted
      BY <2>2 DEF Counted, SameCounters, Leads, At
    <3>2. QED BY <2>2, <3>1 DEF Balanced, LeadersCounted, SameCounters
  <2>5. /\ Sums(lf'.client_leader_thread, lf'.client_thread_is_leader)
        /\ Sums(ServingOf(stack'), lf'.clients)
    BY <2>2 DEF Balanced, SameCounters
  <2>6. QED BY <2>1, <2>2, <2>3, <2>4, <2>5 DEF Balanced, Typed
<1>3. CASE UNCHANGED vars
  BY <1>3 DEF Balanced, Typed, LeadersCounted, Counted, At, vars
<1>4. QED
  BY <1>1, <1>2, <1>3 DEF Next

\* What the books say of the counters.
LEMMA BalancedFacts ==
  ASSUME Balanced
  PROVE  /\ TypeOK /\ LeadersCounted
         /\ lf.leaders > 0 <=> Counted # {}
         /\ lf.client_thread_is_leader > 0 <=>
              \E t \in Threads : lf.client_leader_thread[t] > 0
<1>1. lf \in LFs /\ stack \in [Threads -> Seq(Calls)] /\ LeadersCounted
  BY DEF Balanced, Typed
<1>2. /\ lf.client_thread_is_leader \in Nat
      /\ \A t \in Threads : lf.client_leader_thread[t] <= lf.client_thread_is_leader
      /\ lf.client_thread_is_leader > 0 => \E t \in Threads : lf.client_leader_thread[t] > 0
  <2> DEFINE g == lf.client_leader_thread
             n == lf.client_thread_is_leader
  <2>1. g \in [Threads -> Nat] /\ Sums(g, n)
    BY <1>1 DEF LFs, Balanced
  <2> HIDE DEF g, n
  <2>2. n \in Nat /\ (\A t \in Threads : g[t] <= n) /\ (n > 0 => \E t \in Threads : g[t] > 0)
    BY <2>1, SumsFacts
  <2>3. QED BY <2>2 DEF g, n
<1>3. lf.clients \in Nat
  <2>1. ServingOf(stack) \in [Threads -> Nat]
    BY <1>1, ServingType
  <2>2. QED BY <2>1, SumsFacts DEF Balanced
<1>4. IsFiniteSet(Counted)
  BY LFAssumption, FS_Subset DEF Counted
<1>5. lf.leaders \in Nat /\ (lf.leaders > 0 <=> Counted # {})
  <2> DEFINE X == Counted
  <2>1. IsFiniteSet(X) /\ lf.leaders = Cardinality(X)
    BY <1>1, <1>4 DEF LeadersCounted
  <2> HIDE DEF X
  <2>2. Cardinality(X) \in Nat /\ (Cardinality(X) = 0 <=> X = {})
    BY <2>1, FS_CardinalityType, FS_EmptySet
  <2>3. QED BY <2>1, <2>2 DEF X
<1>6. TypeOK
  BY <1>1, <1>2, <1>3, <1>5 DEF TypeOK, LFs
<1>7. ASSUME NEW t \in Threads, lf.client_leader_thread[t] > 0
      PROVE  lf.client_thread_is_leader > 0
  <2>1. lf.client_leader_thread[t] \in Nat
    BY <1>1 DEF LFs
  <2>2. QED BY <1>2, <1>7, <2>1
<1>8. QED
  BY <1>1, <1>2, <1>5, <1>6, <1>7

(***************************************************************************)
(* The inductive invariant of the counters holds: what each thread owes to *)
(* leaders_, clients_ and client_thread_is_leader_ follows from the calls  *)
(* it is in, and the counters are the sums.                                *)
(***************************************************************************)
THEOREM BalancedInvariant == Spec => []Balanced
<1>1. Init => Balanced
  BY BalancedInit
<1>2. Balanced /\ [Next]_vars => Balanced'
  BY BalancedNext
<1>3. QED
  BY <1>1, <1>2, PTL DEF Spec

(***************************************************************************)
(* No counter ever becomes negative, whatever threads nest: neither        *)
(* leaders_, clients_ nor client_thread_is_leader_, nor the counters of    *)
(* the TSS, although both set_upcall_thread and the destructors of the     *)
(* helpers may give the same leadership up.                                *)
(***************************************************************************)
THEOREM CountersNeverNegative == Spec => []TypeOK
<1>1. Balanced => TypeOK
  BY BalancedFacts
<1>2. QED
  BY <1>1, BalancedInvariant, PTL

(***************************************************************************)
(* leaders_ is the number of threads that lead: set_client_thread and      *)
(* reset_client_thread, which step down and up again around a wait, see    *)
(* the same answer to is_leader, however much leadership the upcalls       *)
(* between them have given up and taken.                                   *)
(***************************************************************************)
THEOREM LeadersAlwaysCounted == Spec => []LeadersCounted
<1>1. Balanced => LeadersCounted
  BY BalancedFacts
<1>2. QED
  BY <1>1, BalancedInvariant, PTL
=============================================================================
