------------------------- MODULE TPReactorReferences -------------------------
(***************************************************************************)
(* More proofs about TPReactor, for any number of threads, handles,        *)
(* handlers and masks: the variables keep their types; the reference       *)
(* counts of the handlers are exact, whatever the application calls; and,  *)
(* if it leaves resuming, clearing and replacing masks and marking handles *)
(* ready to the reactor, no two threads are in I/O upcalls of one handler. *)
(* The third rests on the second: that a handler has one reference means   *)
(* that nobody is in its upcall.                                           *)
(***************************************************************************)
EXTENDS TPReactorProofs, FiniteSetTheorems

-----------------------------------------------------------------------------
(* Counting *)

One(b) == IF b THEN 1 ELSE 0

\* The four kinds of references: of the creator, of the repository, of the
\* upcalls and of the buffers in the pipe.
Owns(o, eh)     == Cardinality({eh} \cap o)
Bindings(f, eh) == Cardinality({h \in Handles : f[h] = eh})
Ups(i, eh)      == Cardinality({t \in Threads : i[t].eh = eh})
Sent(p, eh)     == Cardinality({k \in DOMAIN p : p[k] = eh})

\* A set changes in at most one element.
LEMMA Recount ==
  ASSUME NEW D, IsFiniteSet(D), NEW S \in SUBSET D, NEW T \in SUBSET D, NEW x \in D,
         \A y \in D \ {x} : y \in S <=> y \in T
  PROVE  /\ Cardinality(S) \in Nat /\ Cardinality(T) \in Nat
         /\ Cardinality(T) = Cardinality(S) - One(x \in S) + One(x \in T)
<1>1. IsFiniteSet(S) /\ IsFiniteSet(T) /\ Cardinality(S) \in Nat /\ Cardinality(T) \in Nat
  BY FS_Subset, FS_CardinalityType
<1>2. CASE x \in S <=> x \in T
  <2>1. S = T
    BY <1>2
  <2>2. QED BY <1>1, <2>1 DEF One
<1>3. CASE x \in S /\ x \notin T
  <2>1. T = S \ {x}
    BY <1>3
  <2>2. Cardinality(S \ {x}) = Cardinality(S) - 1
    BY <1>1, <1>3, FS_RemoveElement
  <2>3. QED BY <1>1, <1>3, <2>1, <2>2 DEF One
<1>4. CASE x \notin S /\ x \in T
  <2>1. T = S \cup {x}
    BY <1>4
  <2>2. Cardinality(S \cup {x}) = Cardinality(S) + 1
    BY <1>1, <1>4, FS_AddElement
  <2>3. QED BY <1>1, <1>4, <2>1, <2>2 DEF One
<1>5. QED
  BY <1>2, <1>3, <1>4

LEMMA OwnsFacts ==
  ASSUME NEW o, NEW eh
  PROVE  Owns(o, eh) = IF eh \in o THEN 1 ELSE 0
<1>1. {eh} \cap o = IF eh \in o THEN {eh} ELSE {}
  OBVIOUS
<1>2. Cardinality({eh}) = 1 /\ Cardinality({}) = 0
  BY FS_Singleton, FS_EmptySet
<1>3. QED
  BY <1>1, <1>2 DEF Owns

LEMMA BindingsFacts ==
  ASSUME NEW f \in [Handles -> EventHandlers \cup {Null}], NEW h \in Handles,
         NEW g, NEW eh,
         \A k \in Handles \ {h} : g[k] = f[k]
  PROVE  /\ Bindings(f, eh) \in Nat
         /\ Bindings(g, eh) = Bindings(f, eh) - (IF f[h] = eh THEN 1 ELSE 0)
                                              + (IF g[h] = eh THEN 1 ELSE 0)
<1> DEFINE S == {k \in Handles : f[k] = eh}
           T == {k \in Handles : g[k] = eh}
<1>1. IsFiniteSet(Handles)
  BY ReactorAssumption
<1>2. S \in SUBSET Handles /\ T \in SUBSET Handles
  OBVIOUS
<1>3. \A k \in Handles \ {h} : k \in S <=> k \in T
  OBVIOUS
<1>4. (h \in S <=> f[h] = eh) /\ (h \in T <=> g[h] = eh)
  OBVIOUS
<1>5. Cardinality(S) = Bindings(f, eh) /\ Cardinality(T) = Bindings(g, eh)
  BY DEF Bindings
<1> HIDE DEF S, T
<1>6. /\ Cardinality(S) \in Nat
      /\ Cardinality(T) = Cardinality(S) - One(h \in S) + One(h \in T)
  BY <1>1, <1>2, <1>3, Recount
<1>7. /\ One(h \in S) = IF f[h] = eh THEN 1 ELSE 0
      /\ One(h \in T) = IF g[h] = eh THEN 1 ELSE 0
  BY <1>4 DEF One
<1>8. QED
  BY <1>5, <1>6, <1>7

LEMMA UpsFacts ==
  ASSUME NEW i \in [Threads -> Infos], NEW t \in Threads, NEW g, NEW eh,
         \A u \in Threads \ {t} : g[u] = i[u]
  PROVE  /\ Ups(i, eh) \in Nat
         /\ Ups(g, eh) = Ups(i, eh) - (IF i[t].eh = eh THEN 1 ELSE 0)
                                    + (IF g[t].eh = eh THEN 1 ELSE 0)
<1> DEFINE S == {u \in Threads : i[u].eh = eh}
           T == {u \in Threads : g[u].eh = eh}
<1>1. IsFiniteSet(Threads)
  BY ReactorAssumption
<1>2. S \in SUBSET Threads /\ T \in SUBSET Threads
  OBVIOUS
<1>3. \A u \in Threads \ {t} : u \in S <=> u \in T
  OBVIOUS
<1>4. (t \in S <=> i[t].eh = eh) /\ (t \in T <=> g[t].eh = eh)
  OBVIOUS
<1>5. Cardinality(S) = Ups(i, eh) /\ Cardinality(T) = Ups(g, eh)
  BY DEF Ups
<1> HIDE DEF S, T
<1>6. /\ Cardinality(S) \in Nat
      /\ Cardinality(T) = Cardinality(S) - One(t \in S) + One(t \in T)
  BY <1>1, <1>2, <1>3, Recount
<1>7. /\ One(t \in S) = IF i[t].eh = eh THEN 1 ELSE 0
      /\ One(t \in T) = IF g[t].eh = eh THEN 1 ELSE 0
  BY <1>4 DEF One
<1>8. QED
  BY <1>5, <1>6, <1>7

LEMMA SentAppend ==
  ASSUME NEW p \in Seq(EventHandlers \cup {Null}), NEW x \in EventHandlers \cup {Null},
         NEW eh
  PROVE  /\ Sent(p, eh) \in Nat
         /\ Sent(Append(p, x), eh) = Sent(p, eh) + (IF x = eh THEN 1 ELSE 0)
<1> DEFINE q == Append(p, x)
           n == Len(p)
           D == 1 .. n + 1
           S == {k \in DOMAIN p : p[k] = eh}
           T == {k \in DOMAIN q : q[k] = eh}
<1>1. /\ n \in Nat /\ DOMAIN p = 1 .. n /\ DOMAIN q = D
      /\ \A k \in 1 .. n : q[k] = p[k] /\ q[n + 1] = x
  BY AppendProperties
<1>2. IsFiniteSet(D)
  BY <1>1, FS_Interval
<1>3. S \in SUBSET D /\ T \in SUBSET D /\ n + 1 \in D
  BY <1>1
<1>4. \A k \in D \ {n + 1} : k \in S <=> k \in T
  BY <1>1
<1>5. n + 1 \notin S /\ (n + 1 \in T <=> x = eh)
  BY <1>1
<1>6. Cardinality(S) = Sent(p, eh) /\ Cardinality(T) = Sent(q, eh)
  BY DEF Sent
<1> HIDE DEF S, T, D, q
<1>7. /\ Cardinality(S) \in Nat
      /\ Cardinality(T) = Cardinality(S) - One(n + 1 \in S) + One(n + 1 \in T)
  BY <1>2, <1>3, <1>4, Recount
<1>8. One(n + 1 \in S) = 0 /\ One(n + 1 \in T) = One(x = eh)
  BY <1>5 DEF One
<1>9. One(x = eh) \in Nat /\ One(x = eh) = IF x = eh THEN 1 ELSE 0
  BY DEF One
<1>10. QED
  BY <1>6, <1>7, <1>8, <1>9 DEF q

\* A pipe with bare wakeups only.
LEMMA SentNone ==
  ASSUME NEW p, \A k \in DOMAIN p : p[k] = Null, NEW eh \in EventHandlers
  PROVE  Sent(p, eh) = 0 /\ Sent(<<>>, eh) = 0
<1>1. {k \in DOMAIN p : p[k] = eh} = {} /\ {k \in DOMAIN <<>> : <<>>[k] = eh} = {}
  BY ReactorAssumption
<1>2. QED
  BY <1>1, FS_EmptySet DEF Sent

\* The pipe is read up to the first buffer that has a handler.
LEMMA SentRest ==
  ASSUME NEW p \in Seq(EventHandlers \cup {Null}), NEW i \in DOMAIN p, p[i] # Null,
         \A j \in 1 .. i - 1 : p[j] = Null, NEW eh \in EventHandlers
  PROVE  Sent(SubSeq(p, i + 1, Len(p)), eh) = Sent(p, eh) - (IF p[i] = eh THEN 1 ELSE 0)
<1> DEFINE n == Len(p)
           q == SubSeq(p, i + 1, n)
           S == {k \in DOMAIN p : p[k] = eh}
           R == S \ {i}
           T == {k \in DOMAIN q : q[k] = eh}
<1>1. n \in Nat /\ i \in 1 .. n /\ DOMAIN p = 1 .. n
  OBVIOUS
<1>2. /\ q \in Seq(EventHandlers \cup {Null}) /\ Len(q) = n - i
      /\ \A k \in 1 .. n - i : q[k] = p[i + k]
  <2>1. i + 1 \in Int /\ n \in Int /\ \A k \in i + 1 .. n : p[k] \in EventHandlers \cup {Null}
    BY <1>1
  <2>2. /\ q \in Seq(EventHandlers \cup {Null})
        /\ Len(q) = IF i + 1 <= n THEN n - (i + 1) + 1 ELSE 0
        /\ \A k \in 1 .. n - (i + 1) + 1 : q[k] = p[(i + 1) + k - 1]
    <3> HIDE DEF n
    <3>1. QED BY <2>1, SubSeqProperties
  <2> HIDE DEF q
  <2>3. Len(q) = n - i
    BY <1>1, <2>2
  <2>4. ASSUME NEW k \in 1 .. n - i PROVE q[k] = p[i + k]
    <3>1. k \in 1 .. n - (i + 1) + 1 /\ (i + 1) + k - 1 = i + k
      BY <1>1
    <3>2. QED BY <2>2, <3>1
  <2>5. QED BY <2>2, <2>3, <2>4
<1>3. DOMAIN q = 1 .. n - i
  <2> HIDE DEF q
  <2>1. QED BY <1>2
<1>4. R = {k \in i + 1 .. n : p[k] = eh}
  <2>1. ASSUME NEW k \in R PROVE k \in i + 1 .. n /\ p[k] = eh
    <3>1. k \in 1 .. n /\ k # i /\ p[k] = eh /\ eh # Null
      BY <1>1, ReactorAssumption
    <3>2. k \notin 1 .. i - 1
      BY <3>1
    <3>3. QED BY <1>1, <3>1, <3>2
  <2>2. ASSUME NEW k \in i + 1 .. n, p[k] = eh PROVE k \in R
    BY <1>1, <2>2
  <2>3. QED BY <2>1, <2>2
<1>5. T = {k \in 1 .. n - i : p[i + k] = eh}
  <2> HIDE DEF q
  <2>1. QED BY <1>2, <1>3
<1>6. IsFiniteSet(S) /\ Cardinality(S) \in Nat
  <2>1. IsFiniteSet(1 .. n)
    BY <1>1, FS_Interval
  <2>2. S \in SUBSET (1 .. n)
    BY <1>1
  <2>3. QED BY <2>1, <2>2, FS_Subset, FS_CardinalityType
<1>7. IsFiniteSet(R) /\ Cardinality(R) = Cardinality(S) - (IF p[i] = eh THEN 1 ELSE 0)
  <2>1. (i \in S) <=> p[i] = eh
    OBVIOUS
  <2> HIDE DEF S
  <2>2. IsFiniteSet(R) /\ Cardinality(R) = IF i \in S THEN Cardinality(S) - 1 ELSE Cardinality(S)
    BY <1>6, FS_RemoveElement
  <2>3. QED BY <1>6, <2>1, <2>2
<1>8. ExistsBijection(R, T)
  <2> DEFINE b == [k \in R |-> k - i]
  <2>1. b \in [R -> T]
    BY <1>1, <1>4, <1>5
  <2>2. \A k, m \in R : b[k] = b[m] => k = m
    BY <1>1, <1>4
  <2>3. ASSUME NEW m \in T PROVE \E k \in R : b[k] = m
    <3>1. m + i \in R /\ (m + i) - i = m
      BY <1>1, <1>4, <1>5
    <3>2. QED BY <3>1
  <2> HIDE DEF b, R, T
  <2>4. b \in Bijection(R, T)
    BY <2>1, <2>2, <2>3 DEF Bijection, Injection, Surjection, IsInjective
  <2>5. QED BY <2>4 DEF ExistsBijection
<1>9. Cardinality(T) = Cardinality(R)
  <2> HIDE DEF R, T
  <2>1. QED BY <1>7, <1>8, FS_Bijection
<1>10. Cardinality(S) = Sent(p, eh) /\ Cardinality(T) = Sent(q, eh)
  BY DEF Sent
<1> HIDE DEF R, S, T
<1>11. QED
  BY <1>7, <1>9, <1>10

-----------------------------------------------------------------------------
(* The repository counts its own references *)

\* The references of a handler that are not the repository's.
Spare(r, eh) == r.refs[eh] - Bindings(r.handler, eh)

\* q has the same references as r, but for the repository's.
Even(r, q) == \A eh \in EventHandlers : Spare(q, eh) = Spare(r, eh)

LEMMA SpareType ==
  ASSUME NEW r \in Reps, NEW eh \in EventHandlers
  PROVE  Spare(r, eh) \in Int /\ r.refs[eh] \in Int /\ Bindings(r.handler, eh) \in Nat
<1>1. r.handler \in [Handles -> EventHandlers \cup {Null}] /\ r.refs[eh] \in Int
  BY DEF Reps
<1>2. IsFiniteSet({h \in Handles : r.handler[h] = eh})
  BY ReactorAssumption, FS_Subset
<1>3. Bindings(r.handler, eh) \in Nat
  BY <1>2, FS_CardinalityType DEF Bindings
<1>4. QED
  BY <1>1, <1>3 DEF Spare

LEMMA SpareReference ==
  ASSUME NEW r \in Reps, NEW eh \in EventHandlers, NEW e \in EventHandlers
  PROVE  /\ Spare(AddReference(r, eh), e) = Spare(r, e) + (IF e = eh THEN 1 ELSE 0)
         /\ Spare(RemoveReference(r, eh), e) = Spare(r, e) - (IF e = eh THEN 1 ELSE 0)
<1> DEFINE more == AddReference(r, eh)
           less == RemoveReference(r, eh)
<1>1. more.handler = r.handler /\ less.handler = r.handler
  BY DEF AddReference, RemoveReference, Reps
<1>2. r.refs \in [EventHandlers -> Int]
  BY DEF Reps
<1>3. /\ more.refs = [r.refs EXCEPT ![eh] = @ + 1]
      /\ less.refs = [r.refs EXCEPT ![eh] = @ - 1]
  BY DEF AddReference, RemoveReference, Reps
<1>4. /\ more.refs[e] = r.refs[e] + (IF e = eh THEN 1 ELSE 0)
      /\ less.refs[e] = r.refs[e] - (IF e = eh THEN 1 ELSE 0)
  BY <1>2, <1>3
<1> HIDE DEF more, less
<1>5. /\ Spare(more, e) = Spare(r, e) + (IF e = eh THEN 1 ELSE 0)
      /\ Spare(less, e) = Spare(r, e) - (IF e = eh THEN 1 ELSE 0)
  BY <1>1, <1>4, SpareType DEF Spare
<1>6. QED
  BY <1>5 DEF more, less

LEMMA EvenSame ==
  ASSUME NEW r, NEW q, q.handler = r.handler, q.refs = r.refs
  PROVE  Even(r, q)
  BY DEF Even, Spare

LEMMA EvenTransitive ==
  ASSUME NEW p, NEW q, NEW r, Even(p, q), Even(q, r)
  PROVE  Even(p, r)
  BY DEF Even

LEMMA ReadyEven ==
  ASSUME NEW r \in Reps, NEW d
  PROVE  Even(r, [r EXCEPT !.ready = d])
<1>1. [r EXCEPT !.ready = d].handler = r.handler /\ [r EXCEPT !.ready = d].refs = r.refs
  BY DEF Reps
<1>2. QED
  BY <1>1, EvenSame

\* The handler of a handle changes from old to new, and so do the references.
LEMMA RebindEven ==
  ASSUME NEW r \in Reps, NEW q \in Reps, NEW h \in Handles,
         NEW new \in EventHandlers \cup {Null},
         q.handler[h] = new, \A k \in Handles \ {h} : q.handler[k] = r.handler[k],
         \A e \in EventHandlers :
           q.refs[e] = r.refs[e] - (IF r.handler[h] = e THEN 1 ELSE 0)
                                 + (IF new = e THEN 1 ELSE 0)
  PROVE  Even(r, q)
<1> SUFFICES ASSUME NEW e \in EventHandlers PROVE Spare(q, e) = Spare(r, e)
  BY DEF Even
<1>1. /\ r.handler \in [Handles -> EventHandlers \cup {Null}]
      /\ q.handler \in [Handles -> EventHandlers \cup {Null}]
  BY DEF Reps
<1>2. Bindings(q.handler, e) = Bindings(r.handler, e) - (IF r.handler[h] = e THEN 1 ELSE 0)
                                                     + (IF q.handler[h] = e THEN 1 ELSE 0)
  BY <1>1, BindingsFacts
<1>3. r.refs[e] \in Int /\ Bindings(r.handler, e) \in Nat
  BY SpareType
<1> DEFINE a == IF r.handler[h] = e THEN 1 ELSE 0
           b == IF new = e THEN 1 ELSE 0
<1>4. /\ a \in Nat /\ b \in Nat /\ q.refs[e] = r.refs[e] - a + b
      /\ Bindings(q.handler, e) = Bindings(r.handler, e) - a + b
  BY <1>2
<1> HIDE DEF a, b
<1>5. QED
  BY <1>3, <1>4 DEF Spare

LEMMA BindEven ==
  ASSUME NEW r \in Reps, NEW h \in Handles, NEW eh \in EventHandlers, NEW M \in SUBSET Masks
  PROVE  Even(r, Bind(r, h, eh, M))
<1> DEFINE bound == [r EXCEPT !.handler[h] = eh]
           f == [r.handler EXCEPT ![h] = eh]
           added == IF IsSuspended(bound, h)
                    THEN [bound EXCEPT !.suspend = @ \cup BitsOf(h, M)]
                    ELSE [bound EXCEPT !.wait = @ \cup BitsOf(h, M)]
           q == AddReference(added, eh)
<1>1. r.handler \in [Handles -> EventHandlers \cup {Null}] /\ Null \notin EventHandlers
  BY ReactorAssumption DEF Reps
<1>2. BitsOf(h, M) \subseteq Bits
  BY NotifyApart
<1>3. bound \in Reps /\ bound.handler = f /\ bound.refs = r.refs
  BY DEF Reps
<1> HIDE DEF bound
<1>4. added \in Reps /\ added.handler = f /\ added.refs = r.refs
  BY <1>2, <1>3 DEF Reps
<1> HIDE DEF added
<1>5. CASE r.handler[h] = Null
  <2>1. r.refs \in [EventHandlers -> Int]
    BY DEF Reps
  <2>2. q \in Reps /\ q.handler = f /\ q.refs = [r.refs EXCEPT ![eh] = @ + 1]
    BY <1>4 DEF AddReference, Reps
  <2> HIDE DEF q
  <2>3. ASSUME NEW e \in EventHandlers
        PROVE  q.refs[e] = r.refs[e] - (IF r.handler[h] = e THEN 1 ELSE 0)
                                     + (IF eh = e THEN 1 ELSE 0)
    BY <1>1, <1>5, <2>1, <2>2
  <2>a. q.handler[h] = eh /\ \A k \in Handles \ {h} : q.handler[k] = r.handler[k]
    BY <1>1, <2>2
  <2>b. eh \in EventHandlers \cup {Null} /\ q \in Reps
    BY <2>2
  <2>4. Even(r, q)
    BY <2>3, <2>a, <2>b, RebindEven
  <2>5. Bind(r, h, eh, M) = q
    BY <1>1, <1>5 DEF Bind, q, added, bound
  <2>6. QED BY <2>4, <2>5
<1>6. CASE r.handler[h] = eh
  <2>1. f = r.handler
    BY <1>1, <1>6
  <2>2. Even(r, added)
    BY <1>4, <2>1, EvenSame
  <2>3. QED BY <1>1, <1>6, <2>2 DEF Bind, added, bound
<1>7. CASE r.handler[h] # Null /\ r.handler[h] # eh
  BY <1>7 DEF Bind, Even
<1>8. QED
  BY <1>5, <1>6, <1>7

LEMMA UnbindEven ==
  ASSUME NEW r \in Reps, NEW h \in Handles, NEW M \in SUBSET Masks
  PROVE  Even(r, Unbind(r, h, M))
<1> DEFINE less == [r EXCEPT !.wait = @ \ BitsOf(h, M), !.suspend = @ \ BitsOf(h, M)]
           cleared == ClearDispatchMask(less)
           gone == [cleared EXCEPT !.handler[h] = Null]
           f == [r.handler EXCEPT ![h] = Null]
           q == RemoveReference(gone, r.handler[h])
<1>1. /\ r.handler \in [Handles -> EventHandlers \cup {Null}] /\ Null \notin EventHandlers
      /\ r.refs \in [EventHandlers -> Int]
  BY ReactorAssumption DEF Reps
<1>2. cleared \in Reps /\ cleared.handler = r.handler /\ cleared.refs = r.refs
  BY DEF Reps, ClearDispatchMask
<1>3. Even(r, cleared)
  BY <1>2, EvenSame
<1>4. gone \in Reps /\ gone.handler = f /\ gone.refs = r.refs
  <2> HIDE DEF cleared
  <2>1. QED BY <1>2 DEF Reps
<1>5. CASE r.handler[h] = Null
  <2>1. f = r.handler
    BY <1>1, <1>5
  <2>2. Even(r, gone)
    BY <1>4, <2>1, EvenSame
  <2>3. QED BY <1>3, <1>5, <2>2 DEF Unbind
<1>6. CASE r.handler[h] # Null
  <2>1. r.handler[h] \in EventHandlers
    BY <1>1, <1>6
  <2>2. q \in Reps /\ q.handler = f /\ q.refs = [r.refs EXCEPT ![r.handler[h]] = @ - 1]
    <3> HIDE DEF gone
    <3>1. QED BY <1>1, <1>4, <2>1 DEF RemoveReference, Reps
  <2>3. Even(r, q)
    <3> HIDE DEF q
    <3>1. ASSUME NEW e \in EventHandlers
          PROVE  q.refs[e] = r.refs[e] - (IF r.handler[h] = e THEN 1 ELSE 0)
                                       + (IF Null = e THEN 1 ELSE 0)
      BY <1>1, <2>1, <2>2
    <3>2. Null \in EventHandlers \cup {Null} /\ q \in Reps
      BY <2>2
    <3>3. q.handler[h] = Null /\ \A k \in Handles \ {h} : q.handler[k] = r.handler[k]
      BY <1>1, <2>2
    <3>4. QED BY <3>1, <3>2, <3>3, RebindEven
  <2>4. QED BY <1>3, <1>6, <2>3 DEF Unbind
<1>7. QED
  BY <1>5, <1>6

LEMMA SetsEven ==
  ASSUME NEW r \in Reps, NEW h \in Handles, NEW M \in SUBSET Masks
  PROVE  /\ Even(r, Suspend(r, h)) /\ Even(r, Resume(r, h))
         /\ Even(r, MaskAdd(r, h, M)) /\ Even(r, MaskClear(r, h, M))
         /\ Even(r, MaskSet(r, h, M)) /\ Even(r, ClearHandle(r, h))
<1>1. ASSUME NEW w, NEW s PROVE Even(r, [r EXCEPT !.wait = w, !.suspend = s])
  <2>1. /\ [r EXCEPT !.wait = w, !.suspend = s].handler = r.handler
        /\ [r EXCEPT !.wait = w, !.suspend = s].refs = r.refs
    BY DEF Reps
  <2>2. QED BY <2>1, EvenSame
<1>2. Even(r, Suspend(r, h))
  <2>1. Suspend(r, h).handler = r.handler /\ Suspend(r, h).refs = r.refs
    BY DEF Suspend, ClearDispatchMask, Reps
  <2>2. QED BY <2>1, EvenSame
<1>3. Even(r, Resume(r, h))
  <2>1. Resume(r, h).handler = r.handler /\ Resume(r, h).refs = r.refs
    BY DEF Resume, Reps
  <2>2. QED BY <2>1, EvenSame
<1>4. Even(r, MaskAdd(r, h, M))
  <2>1. MaskAdd(r, h, M).handler = r.handler /\ MaskAdd(r, h, M).refs = r.refs
    BY DEF MaskAdd, Reps
  <2>2. QED BY <2>1, EvenSame
<1>5. Even(r, MaskClear(r, h, M))
  <2>1. MaskClear(r, h, M).handler = r.handler /\ MaskClear(r, h, M).refs = r.refs
    BY DEF MaskClear, ClearDispatchMask, Reps
  <2>2. QED BY <2>1, EvenSame
<1>6. Even(r, MaskSet(r, h, M))
  <2>1. MaskSet(r, h, M).handler = r.handler /\ MaskSet(r, h, M).refs = r.refs
    BY DEF MaskSet, Reps
  <2>2. QED BY <2>1, EvenSame
<1>7. Even(r, ClearHandle(r, h))
  BY ReadyEven DEF ClearHandle
<1>8. QED
  BY <1>2, <1>3, <1>4, <1>5, <1>6, <1>7

LEMMA AfterUpcallEven ==
  ASSUME NEW r, Good(r), NEW i, i.handle \in Handles, i.mask \in Masks
  PROVE  Even(r, AfterUpcall(r, i))
<1> DEFINE removed == IF i.failed THEN Unbind(r, i.handle, {i.mask}) ELSE r
<1>1. Even(r, r) /\ r \in Reps
  BY DEF Even, Good
<1>2. Even(r, removed) /\ removed \in Reps
  BY <1>1, UnbindEven, UnbindKeeps DEF Keeps, Good
<1> HIDE DEF removed
<1>3. Even(removed, Resume(removed, i.handle))
  BY <1>2, SetsEven
<1>4. Even(r, Resume(removed, i.handle))
  BY <1>2, <1>3, EvenTransitive
<1>5. QED
  BY <1>1, <1>2, <1>4 DEF AfterUpcall, removed

-----------------------------------------------------------------------------
(* Who refers to a handler *)

\* Only a thread in an upcall has a handler in its dispatch info.
Free == \A t \in Threads : pc[t] \notin {"upcall", "post", "notify"} => info[t].eh = Null

LEMMA FreeMoves ==
  ASSUME IInv, Free, NEW t \in Threads, NEW place, pc' = [pc EXCEPT ![t] = place],
         \/ info' = info /\ info[t].eh = Null
         \/ info' = [info EXCEPT ![t] = NoInfo]
         \/ place \in {"upcall", "post", "notify"} /\ \E j : info' = [info EXCEPT ![t] = j]
  PROVE  Free'
<1>1. pc \in [Threads -> Places] /\ info \in [Threads -> Infos] /\ NoInfo.eh = Null
  BY DEF IInv, ThreadsOK, NoInfo
<1> HIDE DEF NoInfo
<1>2. ASSUME NEW u \in Threads \ {t} PROVE pc'[u] = pc[u] /\ info'[u] = info[u]
  BY <1>1
<1>3. pc'[t] \notin {"upcall", "post", "notify"} => info'[t].eh = Null
  BY <1>1
<1>4. QED
  BY <1>2, <1>3 DEF Free

LEMMA FreeStays ==
  ASSUME Free, pc' = pc, info' = info
  PROVE  Free'
  BY DEF Free

LEMMA FreeNext ==
  ASSUME IInv, Free, [Next]_vars
  PROVE  Free'
<1>1. CASE UNCHANGED vars
  BY <1>1, FreeStays DEF vars
<1>2. ASSUME NEW eh \in EventHandlers, DropReference(eh) PROVE Free'
  BY <1>2, FreeStays DEF DropReference
<1>3. ASSUME NEW t \in Threads,
             Call(t) \/ Perform(t) \/ \E eh \in EventHandlers : Notify(t, eh)
      PROVE  Free'
  <2>1. pc' = pc /\ info' = info
    BY <1>3 DEF Call, Notify, Perform, RegisterHandler, RemoveHandler, MaskOps, ReadyOps,
                SuspendHandler, ResumeHandler, Deactivate, CallReturns
  <2>2. QED BY <2>1, FreeStays
<1>4. ASSUME NEW t \in Threads,
             \/ HandleEvents(t) \/ ReadTokenTimedOut(t) \/ LeaveDeactivated(t)
             \/ HandleTimerEvents(t) \/ TimerReturns(t) \/ HandleNothing(t)
             \/ \E h \in Handles, m \in Masks : HandleRemoved(t, h, m)
             \/ \E ready, count : GetEventForDispatching(t, ready, count)
      PROVE  Free'
  <2>1. /\ info' = info /\ pc[t] \notin {"upcall", "post", "notify"}
        /\ \E place : pc' = [pc EXCEPT ![t] = place]
    BY <1>4 DEF HandleEvents, ReadTokenTimedOut, LeaveDeactivated, HandleTimerEvents,
                TimerReturns, HandleNothing, HandleRemoved, GetEventForDispatching,
                NotificationsHandled, Dispatching, LeaveToken, GoTo
  <2>2. info[t].eh = Null
    BY <2>1 DEF Free
  <2>3. QED BY <2>1, <2>2, FreeMoves
<1>5. ASSUME NEW t \in Threads,
             \/ \E i : HandleNotifyEvents(t, i)
             \/ \E h \in Handles, m \in Masks : HandleSocketEvents(t, h, m)
      PROVE  Free'
  <2>1. \E place \in {"upcall", "post", "notify"} :
          pc' = [pc EXCEPT ![t] = place] /\ \E j : info' = [info EXCEPT ![t] = j]
    BY <1>5 DEF HandleNotifyEvents, HandleSocketEvents, LeaveToken, GoTo
  <2>2. QED BY <2>1, FreeMoves
<1>6. ASSUME NEW t \in Threads, PostProcess(t) \/ NotifyReturns(t) PROVE Free'
  <2>1. info' = [info EXCEPT ![t] = NoInfo] /\ pc' = [pc EXCEPT ![t] = "idle"]
    BY <1>6 DEF PostProcess, NotifyReturns, GoTo
  <2>2. QED BY <2>1, FreeMoves
<1>7. ASSUME NEW t \in Threads, NEW failed \in BOOLEAN, UpcallReturns(t, failed)
      PROVE  Free'
  <2>1. \/ info' = [info EXCEPT ![t] = NoInfo] /\ pc' = [pc EXCEPT ![t] = "idle"]
        \/ /\ \E j : info' = [info EXCEPT ![t] = j]
           /\ pc' = [pc EXCEPT ![t] = "post"]
    <3> DEFINE j == [info[t] EXCEPT !.failed = failed]
    <3>1. \/ info' = [info EXCEPT ![t] = NoInfo] /\ pc' = [pc EXCEPT ![t] = "idle"]
          \/ info' = [info EXCEPT ![t] = j] /\ pc' = [pc EXCEPT ![t] = "post"]
      BY <1>7 DEF UpcallReturns, GoTo
    <3> HIDE DEF j
    <3>2. QED BY <3>1
  <2>2. QED BY <2>1, FreeMoves
<1>8. QED
  BY <1>1, <1>2, <1>3, <1>4, <1>5, <1>6, <1>7 DEF Next, Lead, DispatchOther, Return

LEMMA CountTypes ==
  ASSUME IInv, NEW eh \in EventHandlers
  PROVE  /\ Spare(rep, eh) \in Int /\ rep.refs[eh] \in Int /\ Bindings(rep.handler, eh) \in Nat
         /\ Owns(owned, eh) \in Nat /\ Ups(info, eh) \in Nat /\ Sent(pipe, eh) \in Nat
<1>1. rep \in Reps /\ pipe \in Seq(EventHandlers \cup {Null})
  BY DEF IInv, Good, PipeOK
<1>2. Owns(owned, eh) \in Nat
  BY OwnsFacts
<1>3. IsFiniteSet({t \in Threads : info[t].eh = eh})
  BY ReactorAssumption, FS_Subset
<1>4. Ups(info, eh) \in Nat
  BY <1>3, FS_CardinalityType DEF Ups
<1>5. Sent(pipe, eh) \in Nat
  BY <1>1, SentAppend
<1>6. QED
  BY <1>1, <1>2, <1>4, <1>5, SpareType

\* The references that are not the repository's.
Referred == \A eh \in EventHandlers :
              Spare(rep, eh) = Owns(owned, eh) + Ups(info, eh) + Sent(pipe, eh)

LEMMA ReferredMeans == IInv => (ReferencesCounted <=> Referred)
<1> SUFFICES ASSUME IInv PROVE ReferencesCounted <=> Referred
  OBVIOUS
<1>1. ASSUME NEW eh \in EventHandlers
      PROVE  (rep.refs[eh] = Owns(owned, eh) + Bindings(rep.handler, eh)
                              + Ups(info, eh) + Sent(pipe, eh))
             <=> Spare(rep, eh) = Owns(owned, eh) + Ups(info, eh) + Sent(pipe, eh)
  BY CountTypes DEF Spare
<1>2. ReferencesCounted <=>
        \A eh \in EventHandlers :
          rep.refs[eh] = Owns(owned, eh) + Bindings(rep.handler, eh)
                           + Ups(info, eh) + Sent(pipe, eh)
  BY Zenon DEF ReferencesCounted, Owns, Bindings, Ups, Sent
<1>3. QED
  BY <1>1, <1>2 DEF Referred

\* A step that changes no references but the repository's.
LEMMA EvenStep ==
  ASSUME Referred, Even(rep, rep'), owned' = owned,
         \A eh \in EventHandlers : Ups(info', eh) = Ups(info, eh),
         \A eh \in EventHandlers : Sent(pipe', eh) = Sent(pipe, eh)
  PROVE  Referred'
  BY DEF Referred, Even

\* A step that changes the references to x.
LEMMA OneStep ==
  ASSUME IInv, Referred, NEW x \in EventHandlers,
         NEW s \in Int, NEW o \in Int, NEW u \in Int, NEW p \in Int, s = o + u + p,
         \A e \in EventHandlers : Spare(rep', e) = Spare(rep, e) + (IF e = x THEN s ELSE 0),
         \A e \in EventHandlers : Owns(owned', e) = Owns(owned, e) + (IF e = x THEN o ELSE 0),
         \A e \in EventHandlers : Ups(info', e) = Ups(info, e) + (IF e = x THEN u ELSE 0),
         \A e \in EventHandlers : Sent(pipe', e) = Sent(pipe, e) + (IF e = x THEN p ELSE 0)
  PROVE  Referred'
<1> SUFFICES ASSUME NEW e \in EventHandlers
             PROVE  Spare(rep', e) = Owns(owned', e) + Ups(info', e) + Sent(pipe', e)
  BY DEF Referred
<1>1. Spare(rep, e) = Owns(owned, e) + Ups(info, e) + Sent(pipe, e)
  BY DEF Referred
<1>2. /\ Spare(rep, e) \in Int /\ Owns(owned, e) \in Nat /\ Ups(info, e) \in Nat
      /\ Sent(pipe, e) \in Nat
  BY CountTypes
<1>3. QED
  BY <1>1, <1>2

\* Wakeups come and go.
LEMMA SentWakeups ==
  ASSUME IInv,
         \/ pipe' = pipe \/ pipe' = Append(pipe, Null)
         \/ pipe' = <<>> /\ \A k \in DOMAIN pipe : pipe[k] = Null,
         NEW eh \in EventHandlers
  PROVE  Sent(pipe', eh) = Sent(pipe, eh)
<1>1. pipe \in Seq(EventHandlers \cup {Null}) /\ eh # Null /\ Null \in EventHandlers \cup {Null}
  BY ReactorAssumption DEF IInv, PipeOK
<1>2. CASE pipe' = Append(pipe, Null)
  <2>1. /\ Sent(pipe, eh) \in Nat
        /\ Sent(Append(pipe, Null), eh) = Sent(pipe, eh) + (IF Null = eh THEN 1 ELSE 0)
    BY <1>1, SentAppend
  <2>2. QED BY <1>1, <1>2, <2>1
<1>3. CASE pipe' = <<>> /\ \A k \in DOMAIN pipe : pipe[k] = Null
  BY <1>3, SentNone
<1>4. QED
  BY <1>2, <1>3

LEMMA WakeupSent ==
  ASSUME SendWakeup \/ \E t : AcquireToken(t) \/ NotificationsHandled(t)
  PROVE  \/ pipe' = pipe \/ pipe' = Append(pipe, Null)
         \/ pipe' = <<>> /\ \A k \in DOMAIN pipe : pipe[k] = Null
  BY DEF SendWakeup, AcquireToken, NotificationsHandled

\* A step that changes handlers and wakeups only.
LEMMA EvenReferred ==
  ASSUME IInv, Referred, Even(rep, rep'), owned' = owned, info' = info,
         \/ pipe' = pipe \/ pipe' = Append(pipe, Null)
         \/ pipe' = <<>> /\ \A k \in DOMAIN pipe : pipe[k] = Null
  PROVE  Referred'
<1>1. \A eh \in EventHandlers : Sent(pipe', eh) = Sent(pipe, eh)
  BY SentWakeups
<1>2. QED
  BY <1>1, EvenStep

LEMMA RepGood ==
  ASSUME IInv
  PROVE  Good(rep) /\ rep \in Reps /\ Even(rep, rep)
  BY DEF IInv, Good, Even

LEMMA LoopReferred ==
  ASSUME IInv, Referred, NEW t \in Threads,
         \/ HandleEvents(t) \/ ReadTokenTimedOut(t) \/ LeaveDeactivated(t)
         \/ HandleTimerEvents(t) \/ TimerReturns(t) \/ HandleNothing(t) \/ Call(t)
         \/ \E h \in Handles, m \in Masks : HandleRemoved(t, h, m)
         \/ \E ready, count : GetEventForDispatching(t, ready, count)
  PROVE  Referred'
<1>1. rep \in Reps /\ Even(rep, rep)
  BY RepGood
<1>2. CASE \/ HandleEvents(t) \/ ReadTokenTimedOut(t) \/ LeaveDeactivated(t)
           \/ HandleTimerEvents(t) \/ TimerReturns(t)
  <2>1. rep' = rep /\ owned' = owned /\ info' = info /\ pipe' = pipe
    BY <1>2 DEF HandleEvents, ReadTokenTimedOut, LeaveDeactivated, HandleTimerEvents, TimerReturns
  <2>2. QED BY <1>1, <2>1, EvenReferred
<1>3. CASE Call(t)
  <2>1. rep' = rep /\ owned' = owned /\ info' = info /\ AcquireToken(t)
    BY <1>3 DEF Call
  <2>2. QED BY <1>1, <2>1, WakeupSent, EvenReferred
<1>4. CASE HandleNothing(t)
  <2>1. /\ rep' = rep \/ rep' = WithoutNotify
        /\ owned' = owned /\ info' = info /\ NotificationsHandled(t)
    BY <1>4 DEF HandleNothing
  <2>2. Even(rep, rep')
    BY <1>1, <2>1, ReadyEven DEF WithoutNotify
  <2>3. QED BY <2>1, <2>2, WakeupSent, EvenReferred
<1>5. ASSUME NEW h \in Handles, NEW m \in Masks, HandleRemoved(t, h, m) PROVE Referred'
  <2> DEFINE w == WithoutNotify
             c == ClearHandle(w, h)
  <2>1. /\ rep' = Unbind(c, h, {m}) /\ owned' = owned /\ info' = info
        /\ NotificationsHandled(t)
    BY <1>5 DEF HandleRemoved
  <2>2. w \in Reps /\ Even(rep, w)
    BY <1>1, ReadyEven, WithoutNotifyKeeps DEF WithoutNotify, Keeps, Good
  <2> HIDE DEF w
  <2>3. c \in Reps /\ Even(w, c)
    <3>1. c \in Reps
      BY <2>2 DEF ClearHandle, Reps
    <3>2. QED BY <2>2, <3>1, SetsEven
  <2> HIDE DEF c
  <2>4. Even(c, rep')
    BY <2>1, <2>3, UnbindEven
  <2>5. Even(rep, rep')
    BY <2>2, <2>3, <2>4, EvenTransitive
  <2>6. QED BY <2>1, <2>5, WakeupSent, EvenReferred
<1>6. ASSUME NEW ready, NEW count, GetEventForDispatching(t, ready, count) PROVE Referred'
  <2>1. /\ rep' = [rep EXCEPT !.ready = ready] /\ owned' = owned /\ info' = info
        /\ pipe' = pipe
    BY <1>6 DEF GetEventForDispatching
  <2>2. Even(rep, rep')
    BY <1>1, <2>1, ReadyEven
  <2>3. QED BY <2>1, <2>2, EvenReferred
<1>7. QED
  BY <1>2, <1>3, <1>4, <1>5, <1>6

LEMMA PerformReferred ==
  ASSUME IInv, Referred, NEW t \in Threads, Perform(t)
  PROVE  Referred'
<1>1. rep \in Reps /\ Even(rep, rep)
  BY RepGood
<1>2. CASE Deactivate(t)
  <2>1. rep' = rep /\ owned' = owned /\ info' = info /\ SendWakeup
    BY <1>2 DEF Deactivate, CallReturns
  <2>2. QED BY <1>1, <2>1, WakeupSent, EvenReferred
<1>3. ASSUME NEW h \in Handles, NEW M \in SUBSET Masks, NEW eh \in EventHandlers,
             RegisterHandler(t, h, eh, M)
      PROVE  Referred'
  <2>1. rep' = Bind(rep, h, eh, M) /\ owned' = owned /\ info' = info /\ pipe' = pipe
    BY <1>3 DEF RegisterHandler, CallReturns
  <2>2. QED BY <1>1, <2>1, BindEven, EvenReferred
<1>4. ASSUME NEW h \in Handles, NEW M \in SUBSET Masks,
             \/ RemoveHandler(t, h, M) \/ MaskOps(t, h, M) \/ ReadyOps(t, h, M)
             \/ SuspendHandler(t, h) \/ ResumeHandler(t, h)
      PROVE  Referred'
  <2>1. /\ owned' = owned /\ info' = info /\ pipe' = pipe
        /\ \/ rep' = Unbind(rep, h, M) \/ rep' = Suspend(rep, h) \/ rep' = Resume(rep, h)
           \/ rep' = MaskAdd(rep, h, M) \/ rep' = MaskClear(rep, h, M)
           \/ rep' = MaskSet(rep, h, M) \/ \E d : rep' = [rep EXCEPT !.ready = d]
    BY <1>4 DEF RemoveHandler, MaskOps, ReadyOps, SuspendHandler, ResumeHandler, CallReturns
  <2>2. Even(rep, rep')
    BY <1>1, <2>1, UnbindEven, SetsEven, ReadyEven
  <2>3. QED BY <2>1, <2>2, EvenReferred
<1>5. Masks \in SUBSET Masks
  OBVIOUS
<1>6. QED
  BY <1>2, <1>3, <1>4, <1>5 DEF Perform

\* Nothing changes in one of the counts.
LEMMA SameCounts ==
  ASSUME IInv, NEW x \in EventHandlers
  PROVE  /\ \A e \in EventHandlers : Spare(rep, e) = Spare(rep, e) + (IF e = x THEN 0 ELSE 0)
         /\ \A e \in EventHandlers : Owns(owned, e) = Owns(owned, e) + (IF e = x THEN 0 ELSE 0)
         /\ \A e \in EventHandlers : Ups(info, e) = Ups(info, e) + (IF e = x THEN 0 ELSE 0)
         /\ \A e \in EventHandlers : Sent(pipe, e) = Sent(pipe, e) + (IF e = x THEN 0 ELSE 0)
  BY CountTypes

\* An upcall of x begins, or ends.
LEMMA UpsBegin ==
  ASSUME IInv, NEW t \in Threads, info[t].eh = Null, NEW j, info' = [info EXCEPT ![t] = j],
         NEW x \in EventHandlers, j.eh = x
  PROVE  \A e \in EventHandlers : Ups(info', e) = Ups(info, e) + (IF e = x THEN 1 ELSE 0)
<1>1. info \in [Threads -> Infos] /\ Null \notin EventHandlers
  BY ReactorAssumption DEF IInv, ThreadsOK
<1>2. info'[t].eh = x /\ \A u \in Threads \ {t} : info'[u] = info[u]
  BY <1>1
<1>3. ASSUME NEW e \in EventHandlers
      PROVE  Ups(info', e) = Ups(info, e) + (IF e = x THEN 1 ELSE 0)
  <2>1. /\ Ups(info', e) = Ups(info, e) - (IF info[t].eh = e THEN 1 ELSE 0)
                                        + (IF info'[t].eh = e THEN 1 ELSE 0)
        /\ Ups(info, e) \in Nat
    <3> DEFINE g == info'
    <3>1. \A u \in Threads \ {t} : g[u] = info[u]
      BY <1>2
    <3> HIDE DEF g
    <3>2. /\ Ups(g, e) = Ups(info, e) - (IF info[t].eh = e THEN 1 ELSE 0)
                                      + (IF g[t].eh = e THEN 1 ELSE 0)
          /\ Ups(info, e) \in Nat
      BY <1>1, <3>1, UpsFacts
    <3>3. QED BY <3>2 DEF g
  <2>2. QED BY <1>1, <1>2, <2>1
<1>4. QED
  BY <1>3

LEMMA UpsEnd ==
  ASSUME IInv, NEW t \in Threads, info' = [info EXCEPT ![t] = NoInfo],
         NEW x \in EventHandlers, info[t].eh = x
  PROVE  \A e \in EventHandlers : Ups(info', e) = Ups(info, e) + (IF e = x THEN -1 ELSE 0)
<1>1. info \in [Threads -> Infos] /\ Null \notin EventHandlers /\ NoInfo.eh = Null
  BY ReactorAssumption DEF IInv, ThreadsOK, NoInfo
<1> HIDE DEF NoInfo
<1>2. info'[t].eh = Null /\ \A u \in Threads \ {t} : info'[u] = info[u]
  BY <1>1
<1>3. ASSUME NEW e \in EventHandlers
      PROVE  Ups(info', e) = Ups(info, e) + (IF e = x THEN -1 ELSE 0)
  <2>1. /\ Ups(info', e) = Ups(info, e) - (IF info[t].eh = e THEN 1 ELSE 0)
                                        + (IF info'[t].eh = e THEN 1 ELSE 0)
        /\ Ups(info, e) \in Nat
    <3> DEFINE g == info'
    <3>1. \A u \in Threads \ {t} : g[u] = info[u]
      BY <1>2
    <3> HIDE DEF g
    <3>2. /\ Ups(g, e) = Ups(info, e) - (IF info[t].eh = e THEN 1 ELSE 0)
                                      + (IF g[t].eh = e THEN 1 ELSE 0)
          /\ Ups(info, e) \in Nat
      BY <1>1, <3>1, UpsFacts
    <3>3. QED BY <3>2 DEF g
  <2>2. QED BY <1>1, <1>2, <2>1
<1>4. QED
  BY <1>3

\* The handler of the event gets a reference for the upcall.
LEMMA SocketReferred ==
  ASSUME IInv, Free, Referred, NEW t \in Threads, NEW h \in Handles, NEW m \in Masks,
         HandleSocketEvents(t, h, m)
  PROVE  Referred'
<1> DEFINE eh == rep.handler[h]
           w == WithoutNotify
           c == ClearHandle(w, h)
           s == Suspend(c, h)
           j == [handle |-> h, eh |-> eh, mask |-> m, failed |-> FALSE]
<1>1. /\ pc[t] = "dispatch" /\ info' = [info EXCEPT ![t] = j] /\ owned' = owned
      /\ rep' = AddReference(s, eh) /\ eh # Null /\ NotificationsHandled(t)
  BY DEF HandleSocketEvents, NotificationsHandled, Dispatching, Claim
<1>2. info[t].eh = Null /\ eh \in EventHandlers /\ j.eh = eh
  BY <1>1 DEF Free, IInv, Good, Reps
<1>3. w \in Reps /\ Even(rep, w)
  BY RepGood, ReadyEven, WithoutNotifyKeeps DEF WithoutNotify, Keeps, Good
<1> HIDE DEF w, eh, j
<1>4. c \in Reps /\ Even(w, c)
  <2>1. c \in Reps
    BY <1>3 DEF ClearHandle, Reps
  <2>2. QED BY <1>3, <2>1, SetsEven
<1> HIDE DEF c
<1>5. s \in Reps /\ Even(c, s)
  <2>1. BitsOf(h, Masks) \subseteq Bits
    BY NotifyApart
  <2>2. s \in Reps
    BY <1>4, <2>1 DEF Suspend, ClearDispatchMask, Reps
  <2>3. QED BY <1>4, <2>2, SetsEven
<1> HIDE DEF s
<1>6. Even(rep, s)
  BY <1>3, <1>4, <1>5, EvenTransitive
<1>7. \A e \in EventHandlers : Spare(rep', e) = Spare(rep, e) + (IF e = eh THEN 1 ELSE 0)
  BY <1>1, <1>2, <1>5, <1>6, SpareReference DEF Even
<1>8. \A e \in EventHandlers : Ups(info', e) = Ups(info, e) + (IF e = eh THEN 1 ELSE 0)
  BY <1>1, <1>2, UpsBegin
<1>9. \A e \in EventHandlers : Sent(pipe', e) = Sent(pipe, e) + (IF e = eh THEN 0 ELSE 0)
  BY <1>1, <1>2, WakeupSent, SentWakeups, SameCounts
<1>10. \A e \in EventHandlers : Owns(owned', e) = Owns(owned, e) + (IF e = eh THEN 0 ELSE 0)
  BY <1>1, <1>2, SameCounts
<1>11. 1 = 0 + 1 + 0 /\ 1 \in Int /\ 0 \in Int
  OBVIOUS
<1>12. QED
  BY <1>2, <1>7, <1>8, <1>9, <1>10, <1>11, OneStep

\* The reference in the pipe becomes the one of the upcall.
LEMMA NotifyReferred ==
  ASSUME IInv, Free, Referred, NEW t \in Threads, NEW i, HandleNotifyEvents(t, i)
  PROVE  Referred'
<1> DEFINE x == pipe[i]
           j == [NoInfo EXCEPT !.eh = x]
<1>1. /\ pc[t] = "dispatch" /\ info' = [info EXCEPT ![t] = j] /\ owned' = owned
      /\ rep' = [rep EXCEPT !.ready = @ \ {NotifyBit}]
      /\ pipe' = SubSeq(pipe, i + 1, Len(pipe))
      /\ i \in DOMAIN pipe /\ pipe[i] # Null /\ \A k \in 1 .. i - 1 : pipe[k] = Null
  BY DEF HandleNotifyEvents, Dispatching, FirstDispatchable
<1>2. /\ pipe \in Seq(EventHandlers \cup {Null}) /\ x \in EventHandlers
      /\ info[t].eh = Null
  <2>1. pipe \in Seq(EventHandlers \cup {Null})
    BY DEF IInv, PipeOK
  <2>2. x \in EventHandlers
    BY <1>1, <2>1
  <2>3. info[t].eh = Null
    BY <1>1 DEF Free
  <2>4. QED BY <2>1, <2>2, <2>3
<1>3. j.eh = x
  BY DEF NoInfo
<1> HIDE DEF j
<1>4. Even(rep, rep')
  BY <1>1, RepGood, ReadyEven
<1>5. \A e \in EventHandlers : Spare(rep', e) = Spare(rep, e) + (IF e = x THEN 0 ELSE 0)
  BY <1>2, <1>4, SameCounts DEF Even
<1>6. ASSUME NEW e \in EventHandlers
      PROVE  Sent(pipe', e) = Sent(pipe, e) + (IF e = x THEN -1 ELSE 0)
  <2>1. Sent(pipe', e) = Sent(pipe, e) - (IF pipe[i] = e THEN 1 ELSE 0)
    BY <1>1, <1>2, SentRest
  <2>2. Sent(pipe, e) \in Nat
    BY CountTypes
  <2>3. QED BY <2>1, <2>2
<1>7. \A e \in EventHandlers : Owns(owned', e) = Owns(owned, e) + (IF e = x THEN 0 ELSE 0)
  BY <1>1, <1>2, SameCounts
<1> HIDE DEF x
<1>8. \A e \in EventHandlers : Ups(info', e) = Ups(info, e) + (IF e = x THEN 1 ELSE 0)
  BY <1>1, <1>2, <1>3, UpsBegin
<1>9. 0 = 0 + 1 + (-1) /\ 1 \in Int /\ 0 \in Int /\ -1 \in Int
  OBVIOUS
<1>10. QED
  BY <1>2, <1>5, <1>6, <1>7, <1>8, <1>9, OneStep, SMTT(30)

\* The reference of an upcall is given back.
LEMMA ReturnReferred ==
  ASSUME IInv, Referred, NEW t \in Threads, NEW q \in Reps, Even(rep, q),
         info[t].eh \in EventHandlers, rep' = RemoveReference(q, info[t].eh),
         info' = [info EXCEPT ![t] = NoInfo], pipe' = pipe, owned' = owned
  PROVE  Referred'
<1> DEFINE x == info[t].eh
<1>1. x \in EventHandlers /\ rep' = RemoveReference(q, x) /\ x = info[t].eh
  OBVIOUS
<1> HIDE DEF x
<1>2. ASSUME NEW e \in EventHandlers
      PROVE  Spare(rep', e) = Spare(rep, e) + (IF e = x THEN -1 ELSE 0)
  <2>1. Spare(rep', e) = Spare(rep, e) - (IF e = x THEN 1 ELSE 0)
    BY <1>1, SpareReference DEF Even
  <2>2. Spare(rep, e) \in Int
    BY CountTypes
  <2>3. QED BY <2>1, <2>2
<1>3. \A e \in EventHandlers : Ups(info', e) = Ups(info, e) + (IF e = x THEN -1 ELSE 0)
  BY <1>1, UpsEnd
<1>4. ASSUME NEW e \in EventHandlers
      PROVE  Spare(rep', e) = Owns(owned', e) + Ups(info', e) + Sent(pipe', e)
  <2>1. Spare(rep, e) = Owns(owned, e) + Ups(info, e) + Sent(pipe, e)
    BY DEF Referred
  <2>2. Owns(owned, e) \in Nat /\ Ups(info, e) \in Nat /\ Sent(pipe, e) \in Nat
    BY CountTypes
  <2>3. Owns(owned', e) = Owns(owned, e) /\ Sent(pipe', e) = Sent(pipe, e)
    OBVIOUS
  <2>4. Spare(rep', e) = Owns(owned, e) + Ups(info', e) + Sent(pipe, e)
    <3> DEFINE a == Spare(rep', e)
               b == Ups(info', e)
               d == IF e = x THEN -1 ELSE 0
               o == Owns(owned, e)
               u == Ups(info, e)
               p == Sent(pipe, e)
    <3>1. a = (o + u + p) + d
      BY <1>2, <2>1
    <3>2. b = u + d
      BY <1>3
    <3>3. o \in Int /\ u \in Int /\ p \in Int /\ d \in Int
      BY <2>2
    <3> HIDE DEF a, b, d, o, u, p
    <3>4. a = o + b + p
      BY <3>1, <3>2, <3>3
    <3>5. QED BY <3>4 DEF a, b, o, p
  <2>5. QED BY <2>3, <2>4
<1>5. QED
  BY <1>4 DEF Referred

LEMMA UpcallReferred ==
  ASSUME IInv, Referred, NEW t \in Threads, Return(t) \/ PostProcess(t)
  PROVE  Referred'
<1>1. Good(rep) /\ rep \in Reps /\ Even(rep, rep)
  BY RepGood
<1>2. /\ pc[t] \in {"upcall", "post"} =>
           info[t].handle \in Handles /\ info[t].eh \in EventHandlers /\ info[t].mask \in Masks
      /\ pc[t] = "notify" => info[t].eh \in EventHandlers
      /\ info \in [Threads -> Infos]
  BY DEF IInv, ThreadsOK, ThreadOK
<1>3. CASE TimerReturns(t)
  BY <1>3, LoopReferred
<1>4. CASE NotifyReturns(t)
  BY <1>1, <1>2, <1>4, ReturnReferred DEF NotifyReturns
<1>5. CASE PostProcess(t)
  <2> DEFINE q == AfterUpcall(rep, info[t])
  <2>1. /\ pc[t] = "post" /\ rep' = RemoveReference(q, info[t].eh)
        /\ info' = [info EXCEPT ![t] = NoInfo] /\ pipe' = pipe /\ owned' = owned
    BY <1>5 DEF PostProcess
  <2>2. q \in Reps /\ Even(rep, q)
    BY <1>1, <1>2, <2>1, AfterUpcallEven, AfterUpcallKeeps DEF Keeps, Good
  <2> HIDE DEF q
  <2>3. QED BY <1>2, <2>1, <2>2, ReturnReferred
<1>6. ASSUME NEW failed \in BOOLEAN, UpcallReturns(t, failed) PROVE Referred'
  <2>1. CASE failed \/ info[t].eh \notin AppResumes
    <3> DEFINE j == [info[t] EXCEPT !.failed = failed]
    <3>1. /\ AcquireToken(t) /\ info' = [info EXCEPT ![t] = j]
          /\ rep' = rep /\ owned' = owned
      BY <1>6, <2>1 DEF UpcallReturns
    <3>2. j.eh = info[t].eh
      BY <1>2 DEF Infos
    <3> HIDE DEF j
    <3>3. \A u \in Threads : info'[u].eh = info[u].eh
      BY <1>2, <3>1, <3>2
    <3>4. \A e \in EventHandlers : Ups(info', e) = Ups(info, e)
      BY <3>3 DEF Ups
    <3>5. \A e \in EventHandlers : Sent(pipe', e) = Sent(pipe, e)
      BY <3>1, WakeupSent, SentWakeups
    <3>6. QED BY <1>1, <3>1, <3>4, <3>5, EvenStep
  <2>2. CASE ~(failed \/ info[t].eh \notin AppResumes)
    <3>1. /\ pc[t] = "upcall" /\ rep' = RemoveReference(rep, info[t].eh)
          /\ info' = [info EXCEPT ![t] = NoInfo] /\ pipe' = pipe /\ owned' = owned
      BY <1>6, <2>2 DEF UpcallReturns
    <3>2. QED BY <1>1, <1>2, <3>1, ReturnReferred
  <2>3. QED BY <2>1, <2>2
<1>7. QED
  BY <1>3, <1>4, <1>5, <1>6 DEF Return

LEMMA OutsideReferred ==
  ASSUME IInv, Referred, NEW x \in EventHandlers,
         DropReference(x) \/ \E t \in Threads : Notify(t, x)
  PROVE  Referred'
<1>1. rep \in Reps /\ pipe \in Seq(EventHandlers \cup {Null})
  BY RepGood DEF IInv, PipeOK
<1>2. -1 = (-1) + 0 + 0 /\ 1 = 0 + 0 + 1 /\ -1 \in Int /\ 0 \in Int /\ 1 \in Int
  OBVIOUS
<1>3. CASE DropReference(x)
  <2>1. /\ x \in owned /\ owned' = owned \ {x} /\ rep' = RemoveReference(rep, x)
        /\ info' = info /\ pipe' = pipe
    BY <1>3 DEF DropReference
  <2>2. ASSUME NEW e \in EventHandlers
        PROVE  /\ Spare(rep', e) = Spare(rep, e) + (IF e = x THEN -1 ELSE 0)
               /\ Owns(owned', e) = Owns(owned, e) + (IF e = x THEN -1 ELSE 0)
    <3>1. Spare(rep', e) = Spare(rep, e) - (IF e = x THEN 1 ELSE 0) /\ Spare(rep, e) \in Int
      BY <1>1, <2>1, SpareReference, CountTypes
    <3>2. /\ Owns(owned', e) = IF e \in owned' THEN 1 ELSE 0
          /\ Owns(owned, e) = IF e \in owned THEN 1 ELSE 0
      BY OwnsFacts
    <3>3. QED BY <2>1, <3>1, <3>2
  <2>3. /\ \A e \in EventHandlers : Ups(info', e) = Ups(info, e) + (IF e = x THEN 0 ELSE 0)
        /\ \A e \in EventHandlers : Sent(pipe', e) = Sent(pipe, e) + (IF e = x THEN 0 ELSE 0)
    BY <2>1, SameCounts
  <2>4. QED BY <1>2, <2>2, <2>3, OneStep
<1>4. CASE \E t \in Threads : Notify(t, x)
  <2>1. /\ owned' = owned /\ rep' = AddReference(rep, x)
        /\ info' = info /\ pipe' = Append(pipe, x)
    BY <1>4 DEF Notify
  <2>2. ASSUME NEW e \in EventHandlers
        PROVE  /\ Spare(rep', e) = Spare(rep, e) + (IF e = x THEN 1 ELSE 0)
               /\ Sent(pipe', e) = Sent(pipe, e) + (IF e = x THEN 1 ELSE 0)
    <3>1. Spare(rep', e) = Spare(rep, e) + (IF e = x THEN 1 ELSE 0)
      BY <1>1, <2>1, SpareReference
    <3>2. Sent(Append(pipe, x), e) = Sent(pipe, e) + (IF x = e THEN 1 ELSE 0)
      BY <1>1, SentAppend, SMTT(30)
    <3>3. QED BY <2>1, <3>1, <3>2
  <2>3. /\ \A e \in EventHandlers : Ups(info', e) = Ups(info, e) + (IF e = x THEN 0 ELSE 0)
        /\ \A e \in EventHandlers : Owns(owned', e) = Owns(owned, e) + (IF e = x THEN 0 ELSE 0)
    BY <2>1, SameCounts
  <2>4. QED BY <1>2, <2>2, <2>3, OneStep
<1>5. QED
  BY <1>3, <1>4

LEMMA ReferredNext ==
  ASSUME IInv, Free, Referred, [Next]_vars
  PROVE  Referred'
<1>1. CASE UNCHANGED vars
  BY <1>1, RepGood, EvenReferred DEF vars
<1>2. ASSUME NEW eh \in EventHandlers, DropReference(eh) PROVE Referred'
  BY <1>2, OutsideReferred
<1>3. ASSUME NEW t \in Threads, NEW eh \in EventHandlers, Notify(t, eh) PROVE Referred'
  BY <1>3, OutsideReferred
<1>4. ASSUME NEW t \in Threads,
             \/ HandleEvents(t) \/ ReadTokenTimedOut(t) \/ LeaveDeactivated(t)
             \/ HandleTimerEvents(t) \/ HandleNothing(t) \/ Call(t)
             \/ \E h \in Handles, m \in Masks : HandleRemoved(t, h, m)
             \/ \E ready, count : GetEventForDispatching(t, ready, count)
      PROVE  Referred'
  BY <1>4, LoopReferred
<1>5. ASSUME NEW t \in Threads, DispatchOther(t) PROVE Referred'
  BY <1>4, <1>5, SocketReferred, NotifyReferred DEF DispatchOther
<1>6. ASSUME NEW t \in Threads, Lead(t) \/ Return(t) PROVE Referred'
  BY <1>4, <1>5, <1>6, PerformReferred, UpcallReferred DEF Lead
<1>7. QED
  BY <1>1, <1>2, <1>3, <1>4, <1>6 DEF Next

LEMMA ReferredInit == Init => Referred /\ Free
<1> SUFFICES ASSUME Init PROVE Referred /\ Free
  OBVIOUS
<1>1. IInv
  BY InitIInv
<1>2. Free
  BY DEF Init, Free, NoInfo
<1>3. ASSUME NEW eh \in EventHandlers
      PROVE  Spare(rep, eh) = Owns(owned, eh) + Ups(info, eh) + Sent(pipe, eh)
  <2>1. eh # Null
    BY ReactorAssumption
  <2>2. rep.refs[eh] = 1 /\ {h \in Handles : rep.handler[h] = eh} = {}
    BY <2>1 DEF Init
  <2>3. {t \in Threads : info[t].eh = eh} = {} /\ {k \in DOMAIN pipe : pipe[k] = eh} = {}
    BY <2>1 DEF Init, NoInfo
  <2>4. Owns(owned, eh) = 1
    BY OwnsFacts DEF Init
  <2>5. Bindings(rep.handler, eh) = 0 /\ Ups(info, eh) = 0 /\ Sent(pipe, eh) = 0
    BY <2>2, <2>3, FS_EmptySet DEF Bindings, Ups, Sent
  <2>6. QED BY <2>2, <2>4, <2>5 DEF Spare
<1>4. QED
  BY <1>2, <1>3 DEF Referred

(***************************************************************************)
(* The reference count of a handler is exact, whatever calls the threads   *)
(* and the upcalls make: bind and unbind, the guard of an upcall, the      *)
(* buffers of notify and the creator each add one reference and give it    *)
(* back once, so a handler is neither deleted under an upcall nor leaked.  *)
(***************************************************************************)
THEOREM ReferencesAlwaysCounted == Spec => []ReferencesCounted
<1>1. Init => IInv /\ Free /\ Referred
  BY InitIInv, ReferredInit
<1>2. IInv /\ Free /\ Referred /\ [Next]_vars => (IInv /\ Free /\ Referred)'
  BY IInvNext, FreeNext, ReferredNext
<1>3. IInv /\ Referred => ReferencesCounted
  BY ReferredMeans
<1>4. QED
  BY <1>1, <1>2, <1>3, PTL DEF Spec

-----------------------------------------------------------------------------
(* Types *)

Queues == token \in Threads \cup {Null} /\ writers \in Seq(Threads) /\ readers \in Seq(Threads)

LEMMA RemoveEntryType ==
  ASSUME NEW q \in Seq(Threads), NEW t
  PROVE  remove_entry(q, t) \in Seq(Threads)
<1>1. CASE ~ \E i \in 1..Len(q) : q[i] = t
  BY <1>1 DEF remove_entry
<1>2. CASE \E i \in 1..Len(q) : q[i] = t
  <2> DEFINE k == CHOOSE i \in 1..Len(q) : q[i] = t
             n == Len(q)
  <2>1. k \in 1..n /\ n \in Nat \ {0}
    BY <1>2
  <2>2. remove_entry(q, t) = [i \in 1..(n - 1) |-> IF i < k THEN q[i] ELSE q[i + 1]]
    BY <1>2 DEF remove_entry
  <2> HIDE DEF k
  <2>3. QED BY <2>1, <2>2
<1>3. QED
  BY <1>1, <1>2

\* What a step does to the token and its queues.
LEMMA TokenSteps ==
  ASSUME [Next]_vars
  PROVE  \/ ReleaseToken \/ UNCHANGED tokenVars
         \/ \E t \in Threads :
              \/ AcquireToken(t) \/ AcquireReadToken(t)
              \/ UNCHANGED <<token, writers>> /\ readers' = remove_entry(readers, t)
<1>1. CASE UNCHANGED vars
  BY <1>1 DEF vars, tokenVars
<1>2. ASSUME NEW t \in Threads, HandleEvents(t) \/ ReadTokenTimedOut(t) \/ Call(t)
      PROVE  \/ AcquireToken(t) \/ AcquireReadToken(t)
             \/ UNCHANGED <<token, writers>> /\ readers' = remove_entry(readers, t)
  BY <1>2 DEF HandleEvents, ReadTokenTimedOut, Call
<1>3. ASSUME NEW t \in Threads, Perform(t) PROVE ReleaseToken
  BY <1>3 DEF Perform, RegisterHandler, RemoveHandler, MaskOps, ReadyOps, SuspendHandler,
              ResumeHandler, Deactivate, CallReturns
<1>4. ASSUME NEW t \in Threads, DispatchOther(t) PROVE ReleaseToken
  BY <1>4 DEF DispatchOther, HandleNotifyEvents, HandleSocketEvents, HandleRemoved,
              HandleNothing, LeaveToken
<1>5. ASSUME NEW t \in Threads, Lead(t) PROVE ReleaseToken \/ UNCHANGED tokenVars
  BY <1>3, <1>4, <1>5 DEF Lead, LeaveDeactivated, GetEventForDispatching,
                          HandleTimerEvents, PostProcess, LeaveToken
<1>6. ASSUME NEW t \in Threads, Return(t) PROVE AcquireToken(t) \/ UNCHANGED tokenVars
  BY <1>6 DEF Return, UpcallReturns, NotifyReturns, TimerReturns
<1>7. ASSUME NEW eh \in EventHandlers,
             DropReference(eh) \/ \E t \in Threads : Notify(t, eh)
      PROVE  UNCHANGED tokenVars
  BY <1>7 DEF DropReference, Notify
<1>8. QED
  BY <1>1, <1>2, <1>5, <1>6, <1>7 DEF Next

LEMMA QueuesNext ==
  ASSUME Queues, [Next]_vars
  PROVE  Queues'
<1>1. token \in Threads \cup {Null} /\ writers \in Seq(Threads) /\ readers \in Seq(Threads)
  BY DEF Queues
<1>2. CASE ReleaseToken
  <2>1. writers # <<>> => Head(writers) \in Threads /\ Tail(writers) \in Seq(Threads)
    BY <1>1, HeadTailProperties
  <2>2. readers # <<>> => Head(readers) \in Threads /\ Tail(readers) \in Seq(Threads)
    BY <1>1, HeadTailProperties
  <2>3. QED BY <1>1, <1>2, <2>1, <2>2 DEF ReleaseToken, Queues
<1>3. CASE UNCHANGED tokenVars
  BY <1>3 DEF Queues, tokenVars
<1>4. ASSUME NEW t \in Threads, AcquireToken(t) \/ AcquireReadToken(t) PROVE Queues'
  <2>1. Append(writers, t) \in Seq(Threads) /\ Append(readers, t) \in Seq(Threads)
    BY <1>1, AppendProperties
  <2>2. QED BY <1>1, <1>4, <2>1 DEF AcquireToken, AcquireReadToken, Queues
<1>5. ASSUME NEW t \in Threads,
             UNCHANGED <<token, writers>> /\ readers' = remove_entry(readers, t)
      PROVE  Queues'
  BY <1>1, <1>5, RemoveEntryType DEF Queues
<1>6. QED
  BY <1>2, <1>3, <1>4, <1>5, TokenSteps

PipeFits == Len(pipe) <= MaxPipe

LEMMA PipeSteps ==
  ASSUME [Next]_vars
  PROVE  \/ pipe' = pipe \/ pipe' = <<>>
         \/ \E x \in EventHandlers \cup {Null} : Len(pipe) < MaxPipe /\ pipe' = Append(pipe, x)
         \/ \E i \in DOMAIN pipe : pipe' = SubSeq(pipe, i + 1, Len(pipe))
<1> DEFINE P == \/ pipe' = pipe \/ pipe' = <<>>
                \/ \E x \in EventHandlers \cup {Null} :
                     Len(pipe) < MaxPipe /\ pipe' = Append(pipe, x)
                \/ \E i \in DOMAIN pipe : pipe' = SubSeq(pipe, i + 1, Len(pipe))
<1>1. pipe' = pipe => P
  OBVIOUS
<1>2. SendWakeup => P
  BY DEF SendWakeup
<1>3. ASSUME NEW t, AcquireToken(t) PROVE P
  BY <1>1, <1>2, <1>3 DEF AcquireToken
<1>4. ASSUME NEW t, NotificationsHandled(t) PROVE P
  BY <1>4 DEF NotificationsHandled
<1>5. ASSUME NEW t, NEW i, HandleNotifyEvents(t, i) PROVE P
  BY <1>5 DEF HandleNotifyEvents, FirstDispatchable
<1>6. ASSUME NEW eh \in EventHandlers, NEW t, Notify(t, eh) PROVE P
  BY <1>6 DEF Notify
<1> HIDE DEF P
<1>7. ASSUME UNCHANGED vars PROVE P
  BY <1>1, <1>7 DEF vars
<1>8. ASSUME NEW t \in Threads, HandleEvents(t) \/ ReadTokenTimedOut(t) \/ Call(t)
      PROVE  P
  BY <1>1, <1>3, <1>8 DEF HandleEvents, ReadTokenTimedOut, Call
<1>9. ASSUME NEW t \in Threads, Perform(t) PROVE P
  BY <1>1, <1>2, <1>9 DEF Perform, RegisterHandler, RemoveHandler, MaskOps, ReadyOps,
                          SuspendHandler, ResumeHandler, Deactivate
<1>10. ASSUME NEW t \in Threads, DispatchOther(t) PROVE P
  BY <1>4, <1>5, <1>10 DEF DispatchOther, HandleSocketEvents, HandleRemoved, HandleNothing
<1>11. ASSUME NEW t \in Threads, Lead(t) PROVE P
  BY <1>1, <1>9, <1>10, <1>11 DEF Lead, LeaveDeactivated, GetEventForDispatching,
                                  HandleTimerEvents, PostProcess
<1>12. ASSUME NEW t \in Threads, Return(t) PROVE P
  BY <1>1, <1>3, <1>12 DEF Return, UpcallReturns, NotifyReturns, TimerReturns
<1>13. ASSUME NEW eh \in EventHandlers, DropReference(eh) PROVE P
  BY <1>1, <1>13 DEF DropReference
<1>14. ASSUME NEW t \in Threads,
              \/ HandleEvents(t) \/ ReadTokenTimedOut(t) \/ Lead(t) \/ Return(t) \/ Call(t)
              \/ \E eh \in EventHandlers : Notify(t, eh)
       PROVE  P
  BY <1>6, <1>8, <1>11, <1>12, <1>14
<1>15. P
  BY <1>7, <1>13, <1>14 DEF Next
<1>16. QED
  BY <1>15 DEF P

LEMMA PipeFitsNext ==
  ASSUME IInv, PipeFits, [Next]_vars
  PROVE  PipeFits'
<1>1. /\ pipe \in Seq(EventHandlers \cup {Null}) /\ MaxPipe \in Nat
      /\ Len(pipe) \in Nat /\ Len(pipe) <= MaxPipe
  BY ReactorAssumption DEF IInv, PipeOK, PipeFits
<1>2. CASE pipe' = pipe
  BY <1>2 DEF PipeFits
<1>3. CASE pipe' = <<>>
  BY <1>1, <1>3 DEF PipeFits
<1>4. ASSUME NEW x \in EventHandlers \cup {Null}, Len(pipe) < MaxPipe, pipe' = Append(pipe, x)
      PROVE  PipeFits'
  <2>1. Len(Append(pipe, x)) = Len(pipe) + 1
    BY <1>1, AppendProperties
  <2>2. QED BY <1>1, <1>4, <2>1 DEF PipeFits
<1>5. ASSUME NEW i \in DOMAIN pipe, pipe' = SubSeq(pipe, i + 1, Len(pipe)) PROVE PipeFits'
  <2> DEFINE n == Len(pipe)
             q == SubSeq(pipe, i + 1, n)
  <2>1. /\ n \in Nat /\ i \in 1 .. n /\ i + 1 \in Int
        /\ \A k \in i + 1 .. n : pipe[k] \in EventHandlers \cup {Null}
    BY <1>1
  <2>2. Len(q) = IF i + 1 <= n THEN n - (i + 1) + 1 ELSE 0
    <3> HIDE DEF n
    <3>1. QED BY <2>1, SubSeqProperties
  <2>3. pipe' = q
    BY <1>5
  <2> HIDE DEF q
  <2>4. Len(q) <= MaxPipe
    BY <1>1, <2>1, <2>2
  <2>5. QED BY <2>3, <2>4 DEF PipeFits
<1>6. QED
  BY <1>2, <1>3, <1>4, <1>5, PipeSteps

\* The variables that no reference and no handle set depends on.
Flags ==
  /\ {state_changed, deactivated} \subseteq BOOLEAN
  /\ event_count \in {-1, 0, 1} /\ calling \subseteq Threads

LEMMA FlagSteps ==
  ASSUME [Next]_vars
  PROVE  /\ state_changed' = state_changed \/ state_changed' = FALSE
            \/ state_changed' = TRUE \/ state_changed' = (event_count # 0)
         /\ deactivated' = deactivated \/ deactivated' = TRUE
         /\ event_count' = event_count \/ event_count' \in {-1, 0, 1}
         /\ \/ calling' = calling
            \/ \E t \in Threads : calling' = calling \cup {t} \/ calling' = calling \ {t}
<1> DEFINE S == state_changed' = state_changed \/ state_changed' = FALSE
                \/ state_changed' = TRUE \/ state_changed' = (event_count # 0)
           D == deactivated' = deactivated \/ deactivated' = TRUE
           E == event_count' = event_count \/ event_count' \in {-1, 0, 1}
           C == \/ calling' = calling
                \/ \E t \in Threads : calling' = calling \cup {t} \/ calling' = calling \ {t}
           F == S /\ D /\ E /\ C
<1>1. ASSUME UNCHANGED vars PROVE F
  BY <1>1 DEF vars
<1>2. ASSUME NEW t \in Threads,
             HandleEvents(t) \/ ReadTokenTimedOut(t) \/ Call(t)
             \/ LeaveDeactivated(t) \/ HandleTimerEvents(t) \/ PostProcess(t) \/ Return(t)
             \/ \E eh \in EventHandlers : Notify(t, eh)
      PROVE  F
  BY <1>2 DEF HandleEvents, ReadTokenTimedOut, Call, LeaveDeactivated, HandleTimerEvents,
              LeaveToken, PostProcess, Return, UpcallReturns, NotifyReturns, TimerReturns,
              Notify, loopVars
<1>3. ASSUME NEW t \in Threads, NEW ready, NEW count \in {-1, 0, 1},
             GetEventForDispatching(t, ready, count)
      PROVE  F
  BY <1>3 DEF GetEventForDispatching
<1>4. ASSUME NEW t \in Threads, DispatchOther(t) PROVE F
  BY <1>4 DEF DispatchOther, HandleNotifyEvents, HandleSocketEvents, HandleRemoved,
              HandleNothing, LeaveToken
<1>5. ASSUME NEW t \in Threads, Perform(t) PROVE F
  BY <1>5 DEF Perform, RegisterHandler, RemoveHandler, SuspendHandler, ResumeHandler, MaskOps,
              ReadyOps, Deactivate, CallReturns, loopVars
<1>6. ASSUME NEW eh \in EventHandlers, DropReference(eh) PROVE F
  BY <1>6 DEF DropReference, loopVars
<1> HIDE DEF F
<1>7. ASSUME NEW t \in Threads, Lead(t) PROVE F
  BY <1>2, <1>3, <1>4, <1>5, <1>7 DEF Lead
<1>8. ASSUME NEW t \in Threads,
             \/ HandleEvents(t) \/ ReadTokenTimedOut(t) \/ Lead(t) \/ Return(t) \/ Call(t)
             \/ \E eh \in EventHandlers : Notify(t, eh)
      PROVE  F
  BY <1>2, <1>7, <1>8
<1>9. F
  BY <1>1, <1>6, <1>8 DEF Next
<1>10. QED
  BY <1>9 DEF F

LEMMA FlagsNext ==
  ASSUME Flags, [Next]_vars
  PROVE  Flags'
<1>1. state_changed' \in BOOLEAN
  BY FlagSteps, Zenon DEF Flags
<1>2. deactivated' \in BOOLEAN
  BY FlagSteps, Zenon DEF Flags
<1>3. event_count' \in {-1, 0, 1}
  BY FlagSteps, Zenon DEF Flags
<1>4. calling' \subseteq Threads
  <2>1. calling \subseteq Threads
    BY DEF Flags
  <2>2. CASE calling' = calling
    BY <2>1, <2>2
  <2>3. ASSUME NEW t \in Threads, calling' = calling \cup {t} \/ calling' = calling \ {t}
        PROVE  calling' \subseteq Threads
    BY <2>1, <2>3
  <2>4. QED BY <2>2, <2>3, FlagSteps, Zenon
<1>5. QED
  BY <1>1, <1>2, <1>3, <1>4, Zenon DEF Flags

LEMMA TypeInit == Init => Queues /\ PipeFits /\ Flags
<1> SUFFICES ASSUME Init PROVE Queues /\ PipeFits /\ Flags
  OBVIOUS
<1>1. Queues
  BY DEF Init, Queues
<1>2. PipeFits
  BY ReactorAssumption DEF Init, PipeFits
<1>3. {state_changed, deactivated} \subseteq BOOLEAN
  BY Zenon DEF Init
<1>4. event_count \in {-1, 0, 1} /\ calling \subseteq Threads
  BY DEF Init
<1>5. QED
  BY <1>1, <1>2, <1>3, <1>4 DEF Flags

LEMMA TypesMean == IInv /\ Queues /\ PipeFits /\ Flags => TypeOK
<1> SUFFICES ASSUME IInv, Queues, PipeFits, Flags PROVE TypeOK
  OBVIOUS
<1>1. rep \in Reps /\ NotifyBit \in rep.wait /\ owned \subseteq EventHandlers
  BY DEF IInv, Good
<1>2. pipe \in Seq(EventHandlers \cup {Null}) /\ Len(pipe) <= MaxPipe
  BY DEF IInv, PipeOK, PipeFits
<1>3. pc \in [Threads -> Places]
  BY DEF IInv, ThreadsOK
<1>4. /\ {state_changed, deactivated} \subseteq BOOLEAN
      /\ event_count \in {-1, 0, 1} /\ calling \subseteq Threads
  BY Zenon DEF Flags
<1>5. token \in Threads \cup {Null} /\ writers \in Seq(Threads) /\ readers \in Seq(Threads)
  BY DEF Queues
<1>6. QED
  BY <1>1, <1>2, <1>3, <1>4, <1>5, Zenon DEF TypeOK

(***************************************************************************)
(* Every variable keeps its type whatever is called and in whatever order: *)
(* the notification pipe is never filled beyond what it takes, because the *)
(* sleep_hook and deactivate send only if there is room and notify waits   *)
(* for it, and the read end of the pipe stays in the wait set whatever     *)
(* unbind, suspend_i and bit_ops take out.                                 *)
(***************************************************************************)
THEOREM TypesKept == Spec => []TypeOK
<1>1. Init => IInv /\ Queues /\ PipeFits /\ Flags
  BY InitIInv, TypeInit
<1>2. IInv /\ Queues /\ PipeFits /\ Flags /\ [Next]_vars => (IInv /\ Queues /\ PipeFits /\ Flags)'
  BY IInvNext, QueuesNext, PipeFitsNext, FlagsNext
<1>3. QED
  BY <1>1, <1>2, TypesMean, PTL DEF Spec

-----------------------------------------------------------------------------
(* One upcall at a time *)

\* The bits of a handle are suspended, and none of them is waited for.
Asleep(r, k) ==
  r.wait \cap BitsOf(k, Masks) = {} /\ r.suspend \cap BitsOf(k, Masks) # {}

\* From r to q the handle k gets no handler, and is not woken while it keeps
\* the one that it has.
Kept(r, q, k) ==
  \/ q.handler[k] = Null
  \/ q.handler[k] = r.handler[k] /\ (Asleep(r, k) => Asleep(q, k))

LEMMA KeptTransitive ==
  ASSUME NEW p, NEW q, NEW r, NEW k, Kept(p, q, k), Kept(q, r, k)
  PROVE  Kept(p, r, k)
  BY DEF Kept

LEMMA KeptSame ==
  ASSUME NEW r, NEW q, q.handler = r.handler, q.wait = r.wait, q.suspend = r.suspend, NEW k
  PROVE  Kept(r, q, k)
  BY DEF Kept, Asleep

LEMMA ReferenceKept ==
  ASSUME NEW r \in Reps, NEW eh, NEW k
  PROVE  Kept(r, AddReference(r, eh), k) /\ Kept(r, RemoveReference(r, eh), k)
<1> DEFINE more == AddReference(r, eh)
           less == RemoveReference(r, eh)
<1>1. more.handler = r.handler /\ more.wait = r.wait /\ more.suspend = r.suspend
  BY DEF AddReference, Reps
<1>2. less.handler = r.handler /\ less.wait = r.wait /\ less.suspend = r.suspend
  BY DEF RemoveReference, Reps
<1> HIDE DEF more, less
<1>3. Kept(r, more, k) /\ Kept(r, less, k)
  BY <1>1, <1>2, KeptSame
<1>4. QED
  BY <1>3 DEF more, less

LEMMA ReadyKept ==
  ASSUME NEW r \in Reps, NEW d, NEW k
  PROVE  Kept(r, [r EXCEPT !.ready = d], k)
<1> DEFINE q == [r EXCEPT !.ready = d]
<1>1. q.handler = r.handler /\ q.wait = r.wait /\ q.suspend = r.suspend
  BY DEF Reps
<1> HIDE DEF q
<1>2. Kept(r, q, k)
  BY <1>1, KeptSame
<1>3. QED
  BY <1>2 DEF q

\* Bits of one handle are added or taken out: nothing changes for another one.
LEMMA OtherBits ==
  ASSUME NEW h \in Handles, NEW k \in Handles, h # k, NEW B \in SUBSET BitsOf(h, Masks), NEW s
  PROVE  /\ (s \cup B) \cap BitsOf(k, Masks) = s \cap BitsOf(k, Masks)
         /\ (s \ B) \cap BitsOf(k, Masks) = s \cap BitsOf(k, Masks)
  BY BitsApart

LEMMA UnbindKept ==
  ASSUME NEW r \in Reps, NEW h \in Handles, NEW M \in SUBSET Masks, NEW k \in Handles
  PROVE  Kept(r, Unbind(r, h, M), k)
<1> DEFINE B == BitsOf(h, M)
           less == [r EXCEPT !.wait = @ \ B, !.suspend = @ \ B]
           cleared == ClearDispatchMask(less)
           gone == [cleared EXCEPT !.handler[h] = Null]
           q == RemoveReference(gone, r.handler[h])
           f == [r.handler EXCEPT ![h] = Null]
<1>1. B \subseteq BitsOf(h, Masks)
  BY NotifyApart
<1>2. cleared.handler = r.handler /\ cleared.wait = r.wait \ B /\ cleared.suspend = r.suspend \ B
  BY DEF ClearDispatchMask, Reps
<1>3. gone.handler = f /\ gone.wait = cleared.wait /\ gone.suspend = cleared.suspend
  BY DEF ClearDispatchMask, Reps
<1>4. q.handler = gone.handler /\ q.wait = gone.wait /\ q.suspend = gone.suspend
  BY DEF RemoveReference, ClearDispatchMask, Reps
<1>5. f[h] = Null /\ \A x \in Handles \ {h} : f[x] = r.handler[x]
  BY DEF Reps
<1>6. Unbind(r, h, M) =
        IF (cleared.wait \cup cleared.suspend) \cap BitsOf(h, Masks) # {} THEN cleared
        ELSE IF r.handler[h] = Null THEN gone ELSE q
  BY DEF Unbind
<1> HIDE DEF B, cleared, gone, q, f
<1>7. CASE k # h
  <2>1. /\ (r.wait \ B) \cap BitsOf(k, Masks) = r.wait \cap BitsOf(k, Masks)
        /\ (r.suspend \ B) \cap BitsOf(k, Masks) = r.suspend \cap BitsOf(k, Masks)
    BY <1>1, <1>7, OtherBits
  <2>2. Kept(r, cleared, k) /\ Kept(r, gone, k) /\ Kept(r, q, k)
    BY <1>2, <1>3, <1>4, <1>5, <1>7, <2>1 DEF Kept, Asleep
  <2>3. QED BY <1>6, <2>2
<1>8. CASE k = h
  <2>1. Kept(r, gone, k) /\ Kept(r, q, k)
    BY <1>3, <1>4, <1>5, <1>8 DEF Kept
  <2>2. CASE (cleared.wait \cup cleared.suspend) \cap BitsOf(h, Masks) # {}
    <3>1. Asleep(r, k) => Asleep(cleared, k)
      BY <1>2, <1>8, <2>2 DEF Asleep
    <3>2. Kept(r, cleared, k)
      BY <1>2, <3>1 DEF Kept
    <3>3. QED BY <1>6, <2>2, <3>2
  <2>3. QED BY <1>6, <2>1, <2>2
<1>9. QED
  BY <1>7, <1>8

LEMMA SuspendKept ==
  ASSUME NEW r \in Reps, NEW h \in Handles
  PROVE  /\ \A k \in Handles : Kept(r, Suspend(r, h), k)
         /\ r.handler[h] # Null /\ r.wait \cap BitsOf(h, Masks) # {}
              => Asleep(Suspend(r, h), h) /\ Suspend(r, h).handler = r.handler
<1> DEFINE B == r.wait \cap BitsOf(h, Masks)
           moved == [r EXCEPT !.suspend = @ \cup B, !.wait = @ \ B]
           q == ClearDispatchMask(moved)
<1>1. Suspend(r, h) = IF r.handler[h] = Null THEN r ELSE q
  BY DEF Suspend
<1>2. q.handler = r.handler /\ q.wait = r.wait \ B /\ q.suspend = r.suspend \cup B
  BY DEF ClearDispatchMask, Reps
<1>3. B \in SUBSET BitsOf(h, Masks)
  OBVIOUS
<1>4. (r.wait \ B) \cap BitsOf(h, Masks) = {}
  OBVIOUS
<1>5. B = r.wait \cap BitsOf(h, Masks)
  OBVIOUS
<1> HIDE DEF B, q
<1>6. ASSUME NEW k \in Handles PROVE Kept(r, q, k)
  <2>1. CASE k = h
    BY <1>2, <1>4, <2>1 DEF Kept, Asleep
  <2>2. CASE k # h
    <3>1. /\ (r.wait \ B) \cap BitsOf(k, Masks) = r.wait \cap BitsOf(k, Masks)
          /\ (r.suspend \cup B) \cap BitsOf(k, Masks) = r.suspend \cap BitsOf(k, Masks)
      BY <1>3, <2>2, OtherBits
    <3>2. QED BY <1>2, <3>1 DEF Kept, Asleep
  <2>3. QED BY <2>1, <2>2
<1>7. r.wait \cap BitsOf(h, Masks) # {} => Asleep(q, h)
  BY <1>2, <1>3, <1>4, <1>5 DEF Asleep
<1>8. \A k \in Handles : Kept(r, r, k)
  BY DEF Kept
<1>9. QED
  BY <1>1, <1>2, <1>6, <1>7, <1>8

LEMMA ResumeKept ==
  ASSUME NEW r \in Reps, NEW h \in Handles
  PROVE  /\ Resume(r, h).handler = r.handler
         /\ \A k \in Handles \ {h} : Kept(r, Resume(r, h), k)
<1> DEFINE B == r.suspend \cap BitsOf(h, Masks)
           q == [r EXCEPT !.wait = @ \cup B, !.suspend = @ \ B]
<1>1. Resume(r, h) = IF r.handler[h] = Null THEN r ELSE q
  BY DEF Resume
<1>2. q.handler = r.handler /\ q.wait = r.wait \cup B /\ q.suspend = r.suspend \ B
  BY DEF Reps
<1>3. B \in SUBSET BitsOf(h, Masks)
  OBVIOUS
<1> HIDE DEF B, q
<1>4. ASSUME NEW k \in Handles \ {h} PROVE Kept(r, q, k)
  <2>1. /\ (r.wait \cup B) \cap BitsOf(k, Masks) = r.wait \cap BitsOf(k, Masks)
        /\ (r.suspend \ B) \cap BitsOf(k, Masks) = r.suspend \cap BitsOf(k, Masks)
    BY <1>3, OtherBits
  <2>2. QED BY <1>2, <2>1 DEF Kept, Asleep
<1>5. \A k \in Handles : Kept(r, r, k)
  BY DEF Kept
<1>6. QED
  BY <1>1, <1>2, <1>4, <1>5

LEMMA MaskAddKept ==
  ASSUME NEW r \in Reps, NEW h \in Handles, NEW M \in SUBSET Masks, NEW k \in Handles
  PROVE  Kept(r, MaskAdd(r, h, M), k)
<1> DEFINE B == BitsOf(h, M)
           down == [r EXCEPT !.suspend = @ \cup B]
           up == [r EXCEPT !.wait = @ \cup B]
<1>1. MaskAdd(r, h, M) = IF IsSuspended(r, h) THEN down ELSE up
  BY DEF MaskAdd
<1>2. /\ down.handler = r.handler /\ down.wait = r.wait /\ down.suspend = r.suspend \cup B
      /\ up.handler = r.handler /\ up.wait = r.wait \cup B /\ up.suspend = r.suspend
  BY DEF Reps
<1>3. B \in SUBSET BitsOf(h, Masks)
  BY NotifyApart
<1> HIDE DEF B, down, up
<1>4. CASE k # h
  <2>1. /\ (r.wait \cup B) \cap BitsOf(k, Masks) = r.wait \cap BitsOf(k, Masks)
        /\ (r.suspend \cup B) \cap BitsOf(k, Masks) = r.suspend \cap BitsOf(k, Masks)
    BY <1>3, <1>4, OtherBits
  <2>2. QED BY <1>1, <1>2, <2>1 DEF Kept, Asleep
<1>5. CASE k = h
  <2>1. Kept(r, down, k)
    BY <1>2 DEF Kept, Asleep
  <2>2. ~IsSuspended(r, h) => r.handler[h] = Null \/ ~Asleep(r, h)
    BY DEF IsSuspended, Asleep
  <2>3. ~IsSuspended(r, h) => Kept(r, up, k)
    BY <1>2, <1>5, <2>2 DEF Kept
  <2>4. QED BY <1>1, <2>1, <2>3
<1>6. QED
  BY <1>4, <1>5

\* A handle that has no handler gets one, or nothing is bound.
LEMMA BindKept ==
  ASSUME NEW r \in Reps, NEW h \in Handles, NEW eh \in EventHandlers, NEW M \in SUBSET Masks,
         r.handler[h] # eh
  PROVE  \/ Bind(r, h, eh, M) = r
         \/ /\ Bind(r, h, eh, M).handler[h] = eh
            /\ \A k \in Handles \ {h} : /\ Bind(r, h, eh, M).handler[k] = r.handler[k]
                                        /\ Kept(r, Bind(r, h, eh, M), k)
<1> DEFINE B == BitsOf(h, M)
           f == [r.handler EXCEPT ![h] = eh]
           bound == [r EXCEPT !.handler[h] = eh]
           down == [bound EXCEPT !.suspend = @ \cup B]
           up == [bound EXCEPT !.wait = @ \cup B]
<1>1. f[h] = eh /\ \A k \in Handles \ {h} : f[k] = r.handler[k]
  BY DEF Reps
<1>2. /\ down.handler = f /\ down.wait = r.wait /\ down.suspend = r.suspend \cup B
      /\ up.handler = f /\ up.wait = r.wait \cup B /\ up.suspend = r.suspend
  BY DEF Reps
<1>3. /\ AddReference(down, eh).handler = down.handler
      /\ AddReference(down, eh).wait = down.wait
      /\ AddReference(down, eh).suspend = down.suspend
      /\ AddReference(up, eh).handler = up.handler
      /\ AddReference(up, eh).wait = up.wait /\ AddReference(up, eh).suspend = up.suspend
  BY DEF AddReference, Reps
<1>4. r.handler[h] # Null => Bind(r, h, eh, M) = r
  BY ReactorAssumption DEF Bind
<1>5. r.handler[h] = Null =>
        Bind(r, h, eh, M) = AddReference(down, eh) \/ Bind(r, h, eh, M) = AddReference(up, eh)
  BY ReactorAssumption DEF Bind
<1>6. B \in SUBSET BitsOf(h, Masks)
  BY NotifyApart
<1> HIDE DEF B, f, down, up
<1>7. ASSUME NEW k \in Handles \ {h}
      PROVE  Kept(r, AddReference(down, eh), k) /\ Kept(r, AddReference(up, eh), k)
  <2>1. /\ (r.wait \cup B) \cap BitsOf(k, Masks) = r.wait \cap BitsOf(k, Masks)
        /\ (r.suspend \cup B) \cap BitsOf(k, Masks) = r.suspend \cap BitsOf(k, Masks)
    BY <1>6, OtherBits
  <2>2. QED BY <1>1, <1>2, <1>3, <2>1 DEF Kept, Asleep
<1>8. QED
  BY <1>1, <1>2, <1>3, <1>4, <1>5, <1>7

\* Every handle of the handler is suspended.
Held(r, eh) == \A k \in Handles : r.handler[k] = eh => Asleep(r, k)

\* Handlers in I/O upcalls that the reactor resumes are held.
Busy ==
  \A t \in Threads, eh \in EventHandlers \ AppResumes : InUpcall(t, eh) => Held(rep, eh)

\* A handler is registered for one handle.
Once ==
  \A h, k \in Handles : rep.handler[h] = rep.handler[k] => h = k \/ rep.handler[h] = Null

Single == Busy /\ Once /\ OneUpcallPerHandler

\* A step that begins no upcall and gives no handle a handler, and after which
\* nobody is in an upcall of x, whose handles it may wake.
LEMMA SingleStep ==
  ASSUME Single, NEW x,
         \A k \in Handles : rep'.handler[k] = Null \/ rep'.handler[k] = rep.handler[k],
         \A k \in Handles : rep.handler[k] # x => Kept(rep, rep', k),
         \A t \in Threads, eh \in EventHandlers \ AppResumes :
           InUpcall(t, eh)' => InUpcall(t, eh) /\ eh # x
  PROVE  Single'
<1>1. ASSUME NEW t \in Threads, NEW eh \in EventHandlers \ AppResumes, InUpcall(t, eh)'
      PROVE  Held(rep, eh)'
  <2>1. InUpcall(t, eh) /\ eh # x /\ eh # Null
    BY <1>1, ReactorAssumption
  <2>2. Held(rep, eh)
    BY <2>1 DEF Single, Busy
  <2>3. ASSUME NEW k \in Handles, rep'.handler[k] = eh PROVE Asleep(rep', k)
    <3>1. rep.handler[k] = eh
      BY <2>1, <2>3
    <3>2. Kept(rep, rep', k) /\ Asleep(rep, k)
      BY <2>1, <2>2, <3>1 DEF Held
    <3>3. QED BY <2>1, <2>3, <3>2 DEF Kept
  <2>4. QED BY <2>3 DEF Held, Asleep
<1>2. Once'
  BY DEF Single, Once
<1>3. OneUpcallPerHandler'
  <2>1. ASSUME NEW eh \in EventHandlers \ AppResumes, NEW t \in Threads, NEW u \in Threads,
               InUpcall(t, eh)', InUpcall(u, eh)'
        PROVE  t = u
    BY <2>1 DEF Single, OneUpcallPerHandler
  <2>2. QED BY <2>1 DEF OneUpcallPerHandler
<1>4. QED
  BY <1>1, <1>2, <1>3 DEF Single, Busy

\* A step that only takes handlers out and suspends.
LEMMA SingleQuiet ==
  ASSUME Single, \A k \in Handles : Kept(rep, rep', k),
         \A t \in Threads : pc'[t] \in {"upcall", "post"} =>
           pc[t] \in {"upcall", "post"} /\ info'[t].eh = info[t].eh
  PROVE  Single'
<1>1. \A k \in Handles : rep'.handler[k] = Null \/ rep'.handler[k] = rep.handler[k]
  BY DEF Kept
<1>2. \A t \in Threads, eh \in EventHandlers \ AppResumes :
        InUpcall(t, eh)' => InUpcall(t, eh) /\ eh # Null
  BY ReactorAssumption DEF InUpcall
<1>3. QED
  BY <1>1, <1>2, SingleStep

\* Threads that move between places outside I/O upcalls, or leave them.
LEMMA NoneBegins ==
  ASSUME IInv, NEW t \in Threads, NEW place,
         pc' = [pc EXCEPT ![t] = place], place \notin {"upcall", "post"},
         \A u \in Threads \ {t} : info'[u] = info[u]
  PROVE  \A u \in Threads : pc'[u] \in {"upcall", "post"} =>
           u # t /\ pc[u] \in {"upcall", "post"} /\ info'[u] = info[u]
  BY DEF IInv, ThreadsOK

LEMMA LoopSingle ==
  ASSUME IInv, Single, NEW t \in Threads,
         \/ HandleEvents(t) \/ ReadTokenTimedOut(t) \/ LeaveDeactivated(t)
         \/ HandleTimerEvents(t) \/ TimerReturns(t) \/ HandleNothing(t)
         \/ NotifyReturns(t) \/ \E i : HandleNotifyEvents(t, i)
         \/ \E h \in Handles, m \in Masks : HandleRemoved(t, h, m)
         \/ \E ready, count : GetEventForDispatching(t, ready, count)
  PROVE  Single'
<1>1. rep \in Reps
  BY RepGood
<1>2. \/ pc' = [pc EXCEPT ![t] = "idle"] \/ pc' = [pc EXCEPT ![t] = "handle_events"]
      \/ pc' = [pc EXCEPT ![t] = "dispatch"] \/ pc' = [pc EXCEPT ![t] = "timer"]
      \/ pc' = [pc EXCEPT ![t] = "notify"]
  BY DEF HandleEvents, ReadTokenTimedOut, LeaveDeactivated, HandleTimerEvents, TimerReturns,
         HandleNothing, NotifyReturns, HandleNotifyEvents, HandleRemoved,
         GetEventForDispatching, LeaveToken, GoTo
<1>3. \A u \in Threads \ {t} : info'[u] = info[u]
  BY DEF IInv, ThreadsOK, HandleEvents, ReadTokenTimedOut, LeaveDeactivated, HandleTimerEvents, TimerReturns,
         HandleNothing, NotifyReturns, HandleNotifyEvents, HandleRemoved,
         GetEventForDispatching
<1>4. \A u \in Threads : pc'[u] \in {"upcall", "post"} =>
        pc[u] \in {"upcall", "post"} /\ info'[u].eh = info[u].eh
  BY <1>2, <1>3, NoneBegins
<1>5. ASSUME NEW k \in Handles PROVE Kept(rep, rep', k)
  <2>1. Kept(rep, rep, k) /\ Kept(rep, WithoutNotify, k)
    BY <1>1, KeptSame, ReadyKept DEF WithoutNotify
  <2>2. CASE \/ HandleEvents(t) \/ ReadTokenTimedOut(t) \/ LeaveDeactivated(t)
             \/ HandleTimerEvents(t) \/ TimerReturns(t) \/ HandleNothing(t)
    BY <2>1, <2>2 DEF HandleEvents, ReadTokenTimedOut, LeaveDeactivated, HandleTimerEvents,
                      TimerReturns, HandleNothing
  <2>3. CASE NotifyReturns(t)
    BY <1>1, <2>3, ReferenceKept DEF NotifyReturns
  <2>4. ASSUME NEW i, HandleNotifyEvents(t, i) PROVE Kept(rep, rep', k)
    BY <1>1, <2>4, ReadyKept DEF HandleNotifyEvents
  <2>5. ASSUME NEW ready, NEW count, GetEventForDispatching(t, ready, count)
        PROVE  Kept(rep, rep', k)
    BY <1>1, <2>5, ReadyKept DEF GetEventForDispatching
  <2>6. ASSUME NEW h \in Handles, NEW m \in Masks, HandleRemoved(t, h, m)
        PROVE  Kept(rep, rep', k)
    <3> DEFINE w == WithoutNotify
               c == ClearHandle(w, h)
    <3>1. rep' = Unbind(c, h, {m})
      BY <2>6 DEF HandleRemoved
    <3>2. w \in Reps
      BY <1>1 DEF WithoutNotify, Reps
    <3> HIDE DEF w
    <3>3. c \in Reps /\ Kept(w, c, k)
      BY <3>2, ReadyKept DEF ClearHandle, Reps
    <3> HIDE DEF c
    <3>4. Kept(c, rep', k)
      BY <3>1, <3>3, UnbindKept
    <3>5. Kept(rep, w, k)
      BY <2>1 DEF w
    <3>6. QED BY <3>3, <3>4, <3>5, KeptTransitive
  <2>7. QED BY <2>2, <2>3, <2>4, <2>5, <2>6
<1>6. QED
  BY <1>4, <1>5, SingleQuiet

LEMMA UpcallReturnsSingle ==
  ASSUME IInv, Single, NEW t \in Threads, NEW failed, UpcallReturns(t, failed)
  PROVE  Single'
<1>1. rep \in Reps /\ pc \in [Threads -> Places] /\ info \in [Threads -> Infos]
  BY DEF IInv, Good, ThreadsOK
<1>2. \A k \in Handles : Kept(rep, rep', k)
  <2>1. rep' = rep \/ rep' = RemoveReference(rep, info[t].eh)
    BY DEF UpcallReturns
  <2>2. QED BY <1>1, <2>1, KeptSame, ReferenceKept
<1>3. CASE failed \/ info[t].eh \notin AppResumes
  <2> DEFINE j == [info[t] EXCEPT !.failed = failed]
  <2>1. /\ pc[t] = "upcall" /\ pc' = [pc EXCEPT ![t] = "post"]
        /\ info' = [info EXCEPT ![t] = j]
    BY <1>3 DEF UpcallReturns, GoTo
  <2>2. j.eh = info[t].eh
    BY <1>1 DEF Infos
  <2> HIDE DEF j
  <2>3. \A u \in Threads : pc'[u] \in {"upcall", "post"} =>
          pc[u] \in {"upcall", "post"} /\ info'[u].eh = info[u].eh
    BY <1>1, <2>1, <2>2
  <2>4. QED BY <1>2, <2>3, SingleQuiet
<1>4. CASE ~(failed \/ info[t].eh \notin AppResumes)
  <2>1. pc' = [pc EXCEPT ![t] = "idle"] /\ info' = [info EXCEPT ![t] = NoInfo]
    BY <1>4 DEF UpcallReturns, GoTo
  <2>2. \A u \in Threads : pc'[u] \in {"upcall", "post"} =>
          pc[u] \in {"upcall", "post"} /\ info'[u].eh = info[u].eh
    BY <1>1, <2>1
  <2>3. QED BY <1>2, <2>2, SingleQuiet
<1>5. QED
  BY <1>3, <1>4

\* The handle is resumed, but nobody else is in an upcall of its handler.
LEMMA PostProcessSingle ==
  ASSUME IInv, Single, NEW t \in Threads, PostProcess(t)
  PROVE  Single'
<1> DEFINE i == info[t]
           x == i.eh
           h == i.handle
           removed == IF i.failed THEN Unbind(rep, h, {i.mask}) ELSE rep
           q == AfterUpcall(rep, i)
<1>1. /\ pc[t] = "post" /\ pc' = [pc EXCEPT ![t] = "idle"]
      /\ info' = [info EXCEPT ![t] = NoInfo] /\ rep' = RemoveReference(q, x)
  BY DEF PostProcess, GoTo
<1>2. rep \in Reps /\ h \in Handles /\ x \in EventHandlers /\ {i.mask} \in SUBSET Masks
  BY <1>1 DEF IInv, Good, ThreadsOK, ThreadOK
<1>3. q = IF rep.handler[h] # x THEN rep
          ELSE IF x \notin AppResumes THEN Resume(removed, h) ELSE removed
  BY DEF AfterUpcall
<1>4. q \in Reps
  BY <1>1, AfterUpcallKeeps DEF IInv, Good, ThreadsOK, ThreadOK, Keeps
<1>5. removed \in Reps /\ \A k \in Handles : Kept(rep, removed, k)
  BY <1>2, KeptSame, UnbindKept, UnbindKeeps DEF IInv, Keeps, Good
<1> HIDE DEF removed, q, h, x
<1>6. rep.handler[h] # x => \A k \in Handles : Kept(rep, q, k)
  BY <1>3, KeptSame
<1>7. /\ \A k \in Handles : q.handler[k] = Null \/ q.handler[k] = rep.handler[k]
      /\ \A k \in Handles : rep.handler[k] # x => Kept(rep, q, k)
  <2>1. \A k \in Handles : removed.handler[k] = Null \/ removed.handler[k] = rep.handler[k]
    BY <1>5 DEF Kept
  <2>2. Resume(removed, h).handler = removed.handler
    BY <1>2, <1>5, ResumeKept
  <2>3. \A k \in Handles \ {h} : Kept(rep, Resume(removed, h), k)
    BY <1>2, <1>5, ResumeKept, KeptTransitive
  <2>4. CASE rep.handler[h] # x
    BY <1>3, <1>6, <2>4
  <2>5. CASE rep.handler[h] = x
    BY <1>3, <1>5, <2>1, <2>2, <2>3, <2>5
  <2>6. QED BY <2>4, <2>5
<1>8. /\ \A k \in Handles : rep'.handler[k] = Null \/ rep'.handler[k] = rep.handler[k]
      /\ \A k \in Handles : rep.handler[k] # x => Kept(rep, rep', k)
  <2>1. \A k \in Handles : Kept(q, rep', k)
    BY <1>1, <1>4, ReferenceKept
  <2>2. QED BY <1>7, <2>1, KeptTransitive DEF Kept
<1>9. \A u \in Threads : pc'[u] \in {"upcall", "post"} =>
        u # t /\ pc[u] \in {"upcall", "post"} /\ info'[u] = info[u]
  BY <1>1 DEF IInv, ThreadsOK
<1>10. ASSUME NEW u \in Threads, NEW eh \in EventHandlers \ AppResumes, InUpcall(u, eh)'
       PROVE  InUpcall(u, eh) /\ eh # x
  <2>1. u # t /\ InUpcall(u, eh)
    BY <1>9, <1>10 DEF InUpcall
  <2>2. InUpcall(t, x)
    BY <1>1 DEF InUpcall, x
  <2>3. QED BY <2>1, <2>2 DEF Single, OneUpcallPerHandler
<1>11. QED
  BY <1>8, <1>10, SingleStep

\* An upcall begins: the handle was waited for, so nobody is in an upcall of
\* its handler, and now it is suspended.
LEMMA SocketSingle ==
  ASSUME IInv, Single, "set" \notin Calls, "ready" \notin Calls, NEW t \in Threads, NEW h \in Handles, NEW m \in Masks,
         HandleSocketEvents(t, h, m)
  PROVE  Single'
<1> DEFINE x == rep.handler[h]
           w == WithoutNotify
           c == ClearHandle(w, h)
           s == Suspend(c, h)
           j == [handle |-> h, eh |-> x, mask |-> m, failed |-> FALSE]
<1>1. /\ pc[t] = "dispatch" /\ pc' = [pc EXCEPT ![t] = "upcall"]
      /\ info' = [info EXCEPT ![t] = j] /\ rep' = AddReference(s, x)
      /\ x # Null /\ GetSocketEventInfo(h, m)
  BY DEF HandleSocketEvents, NotificationsHandled, Dispatching, Claim, LeaveToken, GoTo
<1>2. /\ rep \in Reps /\ x \in EventHandlers /\ j.eh = x
      /\ pc \in [Threads -> Places] /\ info \in [Threads -> Infos]
  BY <1>1 DEF IInv, Good, Reps, ThreadsOK
<1>3. <<h, m>> \in rep.wait /\ <<h, m>> \in BitsOf(h, Masks)
  BY <1>1 DEF GetSocketEventInfo, Candidates, IInv, Good, Consistent, BitsOf
<1>4. /\ w \in Reps /\ w.handler = rep.handler /\ w.wait = rep.wait
      /\ \A k \in Handles : Kept(rep, w, k)
  BY <1>2, ReadyKept DEF WithoutNotify, Reps
<1> HIDE DEF w, j
<1>5. /\ c \in Reps /\ c.handler = rep.handler /\ c.wait = rep.wait
      /\ \A k \in Handles : Kept(w, c, k)
  BY <1>4, ReadyKept DEF ClearHandle, Reps
<1> HIDE DEF c
<1>6. /\ \A k \in Handles : Kept(c, s, k)
      /\ Asleep(s, h) /\ s.handler = rep.handler
  BY <1>1, <1>3, <1>5, SuspendKept
<1>7. s \in Reps
  <2>1. BitsOf(h, Masks) \subseteq Bits
    BY NotifyApart
  <2>2. QED BY <1>5, <2>1 DEF Suspend, ClearDispatchMask, Reps
<1> HIDE DEF s
<1>8. /\ rep'.handler = rep.handler /\ rep'.wait = s.wait /\ rep'.suspend = s.suspend
      /\ \A k \in Handles : Kept(s, rep', k)
  BY <1>1, <1>6, <1>7, ReferenceKept DEF AddReference, Reps
<1>9. \A k \in Handles : Kept(rep, rep', k)
  BY <1>4, <1>5, <1>6, <1>8, KeptTransitive
<1>10. Once'
  BY <1>8 DEF Single, Once
<1>11. Held(rep', x)
  <2>1. ASSUME NEW k \in Handles, rep'.handler[k] = x PROVE k = h
    BY <1>1, <1>8, <2>1 DEF Single, Once
  <2>2. Asleep(rep', h)
    BY <1>6, <1>8 DEF Asleep
  <2>3. QED BY <2>1, <2>2 DEF Held
<1>12. ~Asleep(rep, h)
  BY <1>3 DEF Asleep
<1>13. x \notin AppResumes => \A u \in Threads : ~InUpcall(u, x)
  BY <1>2, <1>12 DEF Single, Busy, Held
<1> HIDE DEF x
<1>14. ASSUME NEW u \in Threads, NEW eh \in EventHandlers \ AppResumes, InUpcall(u, eh)'
       PROVE  (u = t /\ eh = x) \/ (u # t /\ eh # x /\ InUpcall(u, eh))
  <2>1. CASE u = t
    BY <1>1, <1>2, <1>14, <2>1 DEF InUpcall
  <2>2. CASE u # t
    <3>1. InUpcall(u, eh)
      BY <1>1, <1>2, <1>14, <2>2 DEF InUpcall
    <3>2. QED BY <1>13, <2>2, <3>1
  <2>3. QED BY <2>1, <2>2
<1>15. OneUpcallPerHandler'
  <2>1. ASSUME NEW eh \in EventHandlers \ AppResumes, NEW u \in Threads, NEW v \in Threads,
               InUpcall(u, eh)', InUpcall(v, eh)'
        PROVE  u = v
    BY <1>14, <2>1 DEF Single, OneUpcallPerHandler
  <2>2. QED BY <2>1 DEF OneUpcallPerHandler
<1>16. Busy'
  <2>1. ASSUME NEW u \in Threads, NEW eh \in EventHandlers \ AppResumes, InUpcall(u, eh)'
        PROVE  Held(rep', eh)
    <3>1. CASE eh = x
      BY <1>11, <3>1
    <3>2. CASE eh # x
      <4>1. Held(rep, eh) /\ eh # Null
        BY <1>14, <2>1, <3>2, ReactorAssumption DEF Single, Busy
      <4>2. QED BY <1>8, <1>9, <4>1 DEF Held, Kept
    <3>3. QED BY <3>1, <3>2
  <2>2. QED BY <2>1 DEF Busy, Held, Asleep
<1>17. QED
  BY <1>10, <1>15, <1>16 DEF Single

\* Nobody but its creator refers to a handler that has one reference.
LEMMA Unreferred ==
  ASSUME IInv, Referred, NEW eh \in EventHandlers, eh \in owned, rep.refs[eh] = 1
  PROVE  /\ \A k \in Handles : rep.handler[k] # eh
         /\ \A t \in Threads : info[t].eh # eh
<1> DEFINE S == {k \in Handles : rep.handler[k] = eh}
           T == {t \in Threads : info[t].eh = eh}
<1>1. /\ rep.refs[eh] \in Int /\ Bindings(rep.handler, eh) \in Nat
      /\ Ups(info, eh) \in Nat /\ Sent(pipe, eh) \in Nat
  BY CountTypes
<1>2. Owns(owned, eh) = 1
  BY OwnsFacts
<1>3. rep.refs[eh] - Bindings(rep.handler, eh) = Owns(owned, eh) + Ups(info, eh) + Sent(pipe, eh)
  BY DEF Referred, Spare
<1>4. Bindings(rep.handler, eh) = 0 /\ Ups(info, eh) = 0
  BY <1>1, <1>2, <1>3
<1>5. IsFiniteSet(S) /\ IsFiniteSet(T)
  BY ReactorAssumption, FS_Subset
<1>6. Cardinality(S) = 0 /\ Cardinality(T) = 0
  BY <1>4 DEF Bindings, Ups
<1> HIDE DEF S, T
<1>7. S = {} /\ T = {}
  BY <1>5, <1>6, FS_EmptySet
<1>8. QED
  BY <1>7 DEF S, T

LEMMA RegisterSingle ==
  ASSUME IInv, Referred, Single, ~Reopens, NEW t \in Threads, NEW h \in Handles,
         NEW x \in EventHandlers, NEW M \in SUBSET Masks, RegisterHandler(t, h, x, M)
  PROVE  Single'
<1> DEFINE q == Bind(rep, h, x, M)
<1>1. rep' = q /\ pc' = pc /\ info' = info /\ x \in owned /\ rep.refs[x] = 1
  BY DEF RegisterHandler, MayRegister, CallReturns
<1>2. (\A k \in Handles : rep.handler[k] # x) /\ (\A u \in Threads : info[u].eh # x)
  BY <1>1, Unreferred
<1>3. \/ q = rep
      \/ /\ q.handler[h] = x
         /\ \A k \in Handles \ {h} : q.handler[k] = rep.handler[k] /\ Kept(rep, q, k)
  BY <1>2, RepGood, BindKept
<1> HIDE DEF q
<1>4. CASE q = rep
  BY <1>1, <1>4, KeptSame, SingleQuiet
<1>5. CASE q # rep
  <2>1. Once'
    BY <1>1, <1>2, <1>3, <1>5 DEF Single, Once
  <2>2. OneUpcallPerHandler'
    BY <1>1 DEF Single, OneUpcallPerHandler, InUpcall
  <2>3. ASSUME NEW u \in Threads, NEW eh \in EventHandlers \ AppResumes, InUpcall(u, eh)
        PROVE  Held(q, eh)
    <3>1. eh # x /\ eh # Null /\ Held(rep, eh)
      BY <1>2, <2>3, ReactorAssumption DEF InUpcall, Single, Busy
    <3>2. QED BY <1>3, <1>5, <3>1 DEF Held, Kept
  <2>4. Busy'
    BY <1>1, <2>3 DEF Busy, InUpcall, Held, Asleep
  <2>5. QED BY <2>1, <2>2, <2>4 DEF Single
<1>6. QED
  BY <1>4, <1>5

LEMMA CallsSingle ==
  ASSUME IInv, Referred, Single, ~Reopens,
         {"resume", "clear", "set", "ready"} \cap Calls = {}, NEW t \in Threads, Perform(t)
  PROVE  Single'
<1>1. ASSUME NEW h \in Handles, NEW M \in SUBSET Masks,
             \/ RemoveHandler(t, h, M) \/ MaskOps(t, h, M) \/ ReadyOps(t, h, M)
             \/ SuspendHandler(t, h) \/ ResumeHandler(t, h) \/ Deactivate(t)
      PROVE  Single'
  <2>1. /\ pc' = pc /\ info' = info
        /\ \/ rep' = rep \/ rep' = Unbind(rep, h, M) \/ rep' = MaskAdd(rep, h, M)
           \/ rep' = Suspend(rep, h)
    BY <1>1 DEF RemoveHandler, MaskOps, ReadyOps, SuspendHandler, ResumeHandler, Deactivate,
                CallReturns, Performs
  <2>2. \A k \in Handles : Kept(rep, rep', k)
    BY <2>1, RepGood, KeptSame, UnbindKept, MaskAddKept, SuspendKept
  <2>3. QED BY <2>1, <2>2, SingleQuiet
<1>2. CASE Deactivate(t)
  <2>1. pc' = pc /\ info' = info /\ rep' = rep
    BY <1>2 DEF Deactivate, CallReturns
  <2>2. QED BY <2>1, KeptSame, SingleQuiet
<1>3. Masks \in SUBSET Masks
  OBVIOUS
<1>4. QED
  BY <1>1, <1>2, <1>3, RegisterSingle DEF Perform

LEMMA SingleNext ==
  ASSUME IInv, Referred, Single, [Next]_vars,
         ~Reopens, {"resume", "clear", "set", "ready"} \cap Calls = {}
  PROVE  Single'
<1>1. ASSUME UNCHANGED vars PROVE Single'
  BY <1>1, KeptSame, SingleQuiet DEF vars
<1>2. ASSUME NEW eh \in EventHandlers,
             DropReference(eh) \/ \E t \in Threads : Notify(t, eh)
      PROVE  Single'
  <2>1. /\ pc' = pc /\ info' = info
        /\ rep' = RemoveReference(rep, eh) \/ rep' = AddReference(rep, eh)
    BY <1>2 DEF DropReference, Notify
  <2>2. QED BY <2>1, RepGood, ReferenceKept, SingleQuiet
<1>3. ASSUME NEW t \in Threads, Call(t) PROVE Single'
  <2>1. pc' = pc /\ info' = info /\ rep' = rep
    BY <1>3 DEF Call
  <2>2. QED BY <2>1, KeptSame, SingleQuiet
<1>4. ASSUME NEW t \in Threads, Return(t) PROVE Single'
  BY <1>4, LoopSingle, UpcallReturnsSingle DEF Return
<1>5. ASSUME NEW t \in Threads, DispatchOther(t) PROVE Single'
  BY <1>5, LoopSingle, SocketSingle DEF DispatchOther
<1>6. ASSUME NEW t \in Threads, Lead(t) PROVE Single'
  BY <1>5, <1>6, LoopSingle, PostProcessSingle, CallsSingle DEF Lead
<1>7. ASSUME NEW t \in Threads,
             \/ HandleEvents(t) \/ ReadTokenTimedOut(t) \/ Lead(t) \/ Return(t) \/ Call(t)
             \/ \E eh \in EventHandlers : Notify(t, eh)
      PROVE  Single'
  BY <1>2, <1>3, <1>4, <1>6, <1>7, LoopSingle
<1>8. QED
  BY <1>1, <1>2, <1>7 DEF Next

(***************************************************************************)
(* No two threads are in I/O upcalls of one handler, and none begins one   *)
(* between an upcall and its post-processing, if the application leaves    *)
(* resuming, clearing and replacing masks and marking handles as ready to  *)
(* the reactor, and registers a handler only while nobody else refers to   *)
(* it: while a thread is in an upcall every handle of the handler is       *)
(* suspended, whatever is suspended, removed or added to its masks         *)
(* meanwhile, and select () does not look at it.  That a new registration  *)
(* finds no upcall is what the exact reference counts give.                *)
(***************************************************************************)
THEOREM UpcallsAlwaysAlone ==
  ASSUME ~Reopens, {"resume", "clear", "set", "ready"} \cap Calls = {}
  PROVE  Spec => []OneUpcallPerHandler
<1>1. Init => Single
  BY DEF Init, Single, Busy, Once, OneUpcallPerHandler, InUpcall
<1>2. Init => IInv /\ Free /\ Referred /\ Single
  BY <1>1, InitIInv, ReferredInit
<1>3. IInv /\ Free /\ Referred /\ Single /\ [Next]_vars => (IInv /\ Free /\ Referred /\ Single)'
  BY IInvNext, FreeNext, ReferredNext, SingleNext
<1>4. Single => OneUpcallPerHandler
  BY DEF Single
<1>5. QED
  BY <1>2, <1>3, <1>4, PTL DEF Spec
=============================================================================
