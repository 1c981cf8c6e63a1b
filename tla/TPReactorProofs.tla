--------------------------- MODULE TPReactorProofs ---------------------------
(***************************************************************************)
(* Proofs about TPReactor, for any number of threads, handles, handlers    *)
(* and masks, whatever the application calls: the handle sets stay         *)
(* consistent; and no handle is left suspended, if the application does    *)
(* not suspend handles itself.                                             *)
(***************************************************************************)
EXTENDS TPReactor, SequenceTheorems, TLAPS

\* The bits of one handle: suspended together, with a handler, or not at all.
HandleAgrees(f, w, s, h) ==
  \/ s \cap BitsOf(h, Masks) = {}
  \/ w \cap BitsOf(h, Masks) = {} /\ f[h] # Null

\* Ready bits d are waited for and not of suspended handles, as far as the calls
\* of the application leave them alone.
ReadyAgrees(w, s, d) ==
  /\ {"set", "ready"} \cap Calls # {} \/ d \subseteq w
  /\ \/ "ready" \in Calls
     \/ \A h \in Handles : s \cap BitsOf(h, Masks) = {} \/ d \cap BitsOf(h, Masks) = {}

\* Handlers f, wait set w, suspend set s and ready set d of a consistent
\* repository.
SetsAgree(f, w, s, d) ==
  /\ NotifyBit \in w
  /\ ReadyAgrees(w, s, d)
  /\ \A h \in Handles : HandleAgrees(f, w, s, h)

\* A repository of the right type whose sets are consistent.
Good(r) == r \in Reps /\ NotifyBit \in r.wait /\ Consistent(r)

\* Every handle suspended in q is suspended in r, and has the same handler.
NoneSuspended(r, q) ==
  \A k \in Handles :
    \/ q.suspend \cap BitsOf(k, Masks) = {}
    \/ r.suspend \cap BitsOf(k, Masks) # {} /\ q.handler[k] = r.handler[k]

\* q is consistent again, and no handle has been suspended on the way from r.
Keeps(r, q) == Good(q) /\ NoneSuspended(r, q)

-----------------------------------------------------------------------------
(* Sets of bits *)

LEMMA NotifyApart ==
  ASSUME NEW h \in Handles, NEW M \in SUBSET Masks
  PROVE  NotifyBit \notin BitsOf(h, M) /\ BitsOf(h, M) \subseteq Bits
         /\ BitsOf(h, M) \subseteq BitsOf(h, Masks)
  BY ReactorAssumption DEF NotifyBit, BitsOf, Bits

\* Bits of different handles are different.
LEMMA BitsApart ==
  ASSUME NEW h \in Handles, NEW k \in Handles, h # k
  PROVE  BitsOf(h, Masks) \cap BitsOf(k, Masks) = {}
  BY DEF BitsOf

LEMMA GoodMeans ==
  ASSUME NEW r \in Reps
  PROVE  Good(r) <=> SetsAgree(r.handler, r.wait, r.suspend, r.ready)
  BY DEF Good, Consistent, SetsAgree, HandleAgrees, ReadyAgrees

\* Bits of one handle are added to the wait set, if it is not suspended.
LEMMA AddWait ==
  ASSUME NEW f, NEW w, NEW s, NEW d, SetsAgree(f, w, s, d),
         NEW h \in Handles, NEW B \in SUBSET BitsOf(h, Masks),
         s \cap BitsOf(h, Masks) = {}
  PROVE  SetsAgree(f, w \cup B, s, d)
  <1>0. ReadyAgrees(w \cup B, s, d)
    BY DEF SetsAgree, ReadyAgrees
  <1>1. ASSUME NEW k \in Handles PROVE HandleAgrees(f, w \cup B, s, k)
    <2>1. CASE k = h
      BY <2>1 DEF HandleAgrees
    <2>2. CASE k # h
      BY <2>2, BitsApart DEF HandleAgrees, SetsAgree
    <2> QED
      BY <2>1, <2>2
  <1> QED
    BY <1>0, <1>1 DEF SetsAgree

\* Bits of one handle are added to the suspend set, if it has a handler none
\* of its bits is waited for, and none is ready unless it was suspended before.
LEMMA AddSuspend ==
  ASSUME NEW f, NEW w, NEW s, NEW d, SetsAgree(f, w, s, d),
         NEW h \in Handles, NEW B \in SUBSET BitsOf(h, Masks),
         w \cap BitsOf(h, Masks) = {}, f[h] # Null,
         s \cap BitsOf(h, Masks) # {} \/ d = {}
  PROVE  SetsAgree(f, w, s \cup B, d)
  <1>0. ReadyAgrees(w, s \cup B, d)
    <2>1. ASSUME NEW k \in Handles, "ready" \notin Calls
          PROVE  (s \cup B) \cap BitsOf(k, Masks) = {} \/ d \cap BitsOf(k, Masks) = {}
      <3>1. CASE k = h
        BY <2>1, <3>1 DEF SetsAgree, ReadyAgrees
      <3>2. CASE k # h
        BY <2>1, <3>2, BitsApart DEF SetsAgree, ReadyAgrees
      <3> QED
        BY <3>1, <3>2
    <2> QED
      BY <2>1 DEF SetsAgree, ReadyAgrees
  <1>1. ASSUME NEW k \in Handles PROVE HandleAgrees(f, w, s \cup B, k)
    <2>1. CASE k = h
      BY <2>1 DEF HandleAgrees
    <2>2. CASE k # h
      BY <2>2, BitsApart DEF HandleAgrees, SetsAgree
    <2> QED
      BY <2>1, <2>2
  <1> QED
    BY <1>0, <1>1 DEF SetsAgree

\* Bits of handles are taken out of the sets, and the ready bits forgotten.
LEMMA TakeOut ==
  ASSUME NEW f, NEW w, NEW s, NEW d, SetsAgree(f, w, s, d),
         NEW B, NEW C, NotifyBit \notin B
  PROVE  SetsAgree(f, w \ B, s \ C, {})
  <1>1. ASSUME NEW k \in Handles PROVE HandleAgrees(f, w \ B, s \ C, k)
    BY DEF HandleAgrees, SetsAgree
  <1> QED
    BY <1>1 DEF SetsAgree, ReadyAgrees

\* The bits of one handle are replaced, in the set in which the handle is.
LEMMA ReplaceBits ==
  ASSUME NEW f, NEW w, NEW s, NEW d, SetsAgree(f, w, s, d),
         NEW h \in Handles, NEW B \in SUBSET BitsOf(h, Masks)
  PROVE  /\ s \cap BitsOf(h, Masks) # {} =>
              SetsAgree(f, w, (s \ BitsOf(h, Masks)) \cup B, d)
         /\ s \cap BitsOf(h, Masks) = {} /\ "set" \in Calls =>
              SetsAgree(f, (w \ BitsOf(h, Masks)) \cup B, s, d)
  <1> DEFINE A == BitsOf(h, Masks)
             t == (s \ A) \cup B
             x == (w \ A) \cup B
  <1>0. NotifyBit \notin A
    BY NotifyApart
  <1>1. \A k \in Handles \ {h} : /\ t \cap BitsOf(k, Masks) = s \cap BitsOf(k, Masks)
                                /\ x \cap BitsOf(k, Masks) = w \cap BitsOf(k, Masks)
    BY BitsApart
  <1>2. ASSUME s \cap A # {} PROVE SetsAgree(f, w, t, d)
    <2>1. \A k \in Handles : s \cap BitsOf(k, Masks) = {} => t \cap BitsOf(k, Masks) = {}
      BY <1>1, <1>2
    <2> HIDE DEF t, A
    <2> QED
      BY <2>1 DEF SetsAgree, HandleAgrees, ReadyAgrees
  <1>3. ASSUME s \cap A = {}, "set" \in Calls PROVE SetsAgree(f, x, s, d)
    <2>1. NotifyBit \in x
      BY <1>0 DEF SetsAgree
    <2>2. ReadyAgrees(x, s, d)
      BY <1>3 DEF SetsAgree, ReadyAgrees
    <2>3. \A k \in Handles : s \cap BitsOf(k, Masks) = {}
                            \/ x \cap BitsOf(k, Masks) = w \cap BitsOf(k, Masks)
      BY <1>1, <1>3
    <2> HIDE DEF x, A
    <2> QED
      BY <2>1, <2>2, <2>3 DEF SetsAgree, HandleAgrees
  <1> QED
    BY <1>2, <1>3

\* The handler of a handle changes: to another one, or to none if the handle
\* has no bit suspended.
LEMMA ChangeHandler ==
  ASSUME NEW f \in [Handles -> EventHandlers \cup {Null}],
         NEW w, NEW s, NEW d, SetsAgree(f, w, s, d),
         NEW h \in Handles, NEW eh \in EventHandlers \cup {Null},
         eh # Null \/ s \cap BitsOf(h, Masks) = {}
  PROVE  SetsAgree([f EXCEPT ![h] = eh], w, s, d)
  <1>1. ASSUME NEW k \in Handles PROVE HandleAgrees([f EXCEPT ![h] = eh], w, s, k)
    BY DEF HandleAgrees, SetsAgree
  <1> QED
    BY <1>1 DEF SetsAgree

-----------------------------------------------------------------------------
(* The operations on handle sets and repository *)

LEMMA KeepsTransitive ==
  ASSUME NEW p, NEW q, NEW r, Keeps(p, q), Keeps(q, r)
  PROVE  Keeps(p, r)
  BY DEF Keeps, NoneSuspended

LEMMA ReferenceKeeps ==
  ASSUME NEW r, Good(r), NEW eh \in EventHandlers
  PROVE  /\ Keeps(r, AddReference(r, eh)) /\ Keeps(r, RemoveReference(r, eh))
         /\ AddReference(r, eh).handler = r.handler
         /\ AddReference(r, eh).suspend = r.suspend
         /\ RemoveReference(r, eh).handler = r.handler
         /\ RemoveReference(r, eh).suspend = r.suspend
  <1> DEFINE more == AddReference(r, eh)
             less == RemoveReference(r, eh)
  <1>1. r \in Reps
    BY DEF Good
  <1>2. /\ more \in Reps /\ more.handler = r.handler /\ more.wait = r.wait
        /\ more.suspend = r.suspend /\ more.ready = r.ready
    BY <1>1 DEF AddReference, Reps
  <1>3. /\ less \in Reps /\ less.handler = r.handler /\ less.wait = r.wait
        /\ less.suspend = r.suspend /\ less.ready = r.ready
    BY <1>1 DEF RemoveReference, Reps
  <1>4. Good(more) /\ Good(less)
    BY <1>1, <1>2, <1>3, GoodMeans
  <1> QED
    BY <1>2, <1>3, <1>4 DEF Keeps, NoneSuspended

\* The ready bits become those that select () returns, some of those they were,
\* or what the application sets them to.
LEMMA ReadyKeeps ==
  ASSUME NEW r, Good(r), NEW d,
         \/ d \subseteq r.wait \/ d \subseteq r.ready
         \/ "ready" \in Calls /\ d \subseteq Bits \cup {NotifyBit}
  PROVE  /\ Keeps(r, [r EXCEPT !.ready = d])
         /\ [r EXCEPT !.ready = d].handler = r.handler
         /\ [r EXCEPT !.ready = d].wait = r.wait
         /\ [r EXCEPT !.ready = d].suspend = r.suspend
         /\ [r EXCEPT !.ready = d].ready = d
  <1> DEFINE q == [r EXCEPT !.ready = d]
  <1>1. r \in Reps
    BY DEF Good
  <1>2. /\ q \in Reps /\ q.handler = r.handler /\ q.wait = r.wait
        /\ q.suspend = r.suspend /\ q.ready = d
    <2>1. d \in SUBSET (Bits \cup {NotifyBit})
      BY <1>1 DEF Reps
    <2> QED
      BY <1>1, <2>1 DEF Reps
  <1>3. SetsAgree(r.handler, r.wait, r.suspend, d)
    <2>1. SetsAgree(r.handler, r.wait, r.suspend, r.ready)
      BY <1>1, GoodMeans
    <2>2. ReadyAgrees(r.wait, r.suspend, d)
      BY <2>1 DEF SetsAgree, HandleAgrees, ReadyAgrees
    <2> QED
      BY <2>1, <2>2 DEF SetsAgree
  <1>4. Good(q)
    BY <1>2, <1>3, GoodMeans
  <1> QED
    BY <1>2, <1>4 DEF Keeps, NoneSuspended

LEMMA BindKeeps ==
  ASSUME NEW r, Good(r), NEW h \in Handles, NEW eh \in EventHandlers,
         NEW M \in SUBSET Masks
  PROVE  Keeps(r, Bind(r, h, eh, M))
  <1> DEFINE bound == [r EXCEPT !.handler[h] = eh]
             f == [r.handler EXCEPT ![h] = eh]
             added == IF IsSuspended(bound, h)
                      THEN [bound EXCEPT !.suspend = @ \cup BitsOf(h, M)]
                      ELSE [bound EXCEPT !.wait = @ \cup BitsOf(h, M)]
  <1>0. r \in Reps /\ eh # Null /\ r.handler \in [Handles -> EventHandlers \cup {Null}]
    BY ReactorAssumption DEF Good, Reps
  <1>1. /\ bound \in Reps /\ bound.handler = f /\ bound.wait = r.wait
        /\ bound.suspend = r.suspend /\ bound.ready = r.ready
    BY <1>0 DEF Reps
  <1>2. SetsAgree(r.handler, r.wait, r.suspend, r.ready)
    BY <1>0, GoodMeans
  <1>3. SetsAgree(f, r.wait, r.suspend, r.ready)
    BY <1>0, <1>2, ChangeHandler
  <1>4. BitsOf(h, M) \in SUBSET BitsOf(h, Masks) /\ BitsOf(h, M) \in SUBSET Bits
    BY NotifyApart
  <1>5. f[h] = eh /\ \A k \in Handles \ {h} : f[k] = r.handler[k]
    BY <1>0
  <1>6. CASE IsSuspended(bound, h) /\ r.handler[h] = eh
    <2>1. r.wait \cap BitsOf(h, Masks) = {} /\ r.suspend \cap BitsOf(h, Masks) # {}
      BY <1>1, <1>3, <1>6 DEF SetsAgree, HandleAgrees, IsSuspended
    <2>2. SetsAgree(f, r.wait, r.suspend \cup BitsOf(h, M), r.ready)
      BY <1>0, <1>3, <1>4, <1>5, <2>1, AddSuspend
    <2>3. /\ added \in Reps /\ added.handler = f /\ added.wait = r.wait
          /\ added.suspend = r.suspend \cup BitsOf(h, M) /\ added.ready = r.ready
      BY <1>1, <1>4, <1>6 DEF Reps
    <2>4. Good(added)
      BY <2>2, <2>3, GoodMeans
    <2>5. ASSUME NEW k \in Handles
          PROVE  \/ added.suspend \cap BitsOf(k, Masks) = {}
                 \/ r.suspend \cap BitsOf(k, Masks) # {} /\ added.handler[k] = r.handler[k]
      <3>1. CASE k = h
        BY <1>5, <1>6, <2>1, <2>3, <3>1
      <3>2. CASE k # h
        BY <1>4, <1>5, <2>3, <3>2, BitsApart
      <3> QED
        BY <3>1, <3>2
    <2> QED
      BY <1>0, <1>6, <2>4, <2>5 DEF Keeps, NoneSuspended, Bind
  <1>7. CASE ~IsSuspended(bound, h) /\ r.handler[h] \in {eh, Null}
    <2>1. r.suspend \cap BitsOf(h, Masks) = {}
      BY <1>0, <1>1, <1>5, <1>7 DEF IsSuspended
    <2>2. SetsAgree(f, r.wait \cup BitsOf(h, M), r.suspend, r.ready)
      BY <1>3, <1>4, <2>1, AddWait
    <2>3. /\ added \in Reps /\ added.handler = f
          /\ added.wait = r.wait \cup BitsOf(h, M)
          /\ added.suspend = r.suspend /\ added.ready = r.ready
      BY <1>1, <1>4, <1>7 DEF Reps
    <2>4. Keeps(r, added)
      BY <1>5, <2>1, <2>2, <2>3, GoodMeans DEF Keeps, NoneSuspended
    <2>5. Keeps(r, AddReference(added, eh))
      BY <2>4, ReferenceKeeps, KeepsTransitive DEF Keeps
    <2> QED
      BY <1>0, <1>7, <2>4, <2>5 DEF Bind
  <1>8. CASE IsSuspended(bound, h) /\ r.handler[h] = Null
    BY <1>1, <1>2, <1>8 DEF IsSuspended, SetsAgree, HandleAgrees
  <1>9. CASE r.handler[h] \notin {eh, Null}
    BY <1>9 DEF Bind, Keeps, NoneSuspended
  <1> QED
    BY <1>6, <1>7, <1>8, <1>9

LEMMA UnbindKeeps ==
  ASSUME NEW r, Good(r), NEW h \in Handles, NEW M \in SUBSET Masks
  PROVE  Keeps(r, Unbind(r, h, M))
  <1> DEFINE less == [r EXCEPT !.wait = @ \ BitsOf(h, M), !.suspend = @ \ BitsOf(h, M)]
             cleared == ClearDispatchMask(less)
             gone == [cleared EXCEPT !.handler[h] = Null]
  <1>0. r \in Reps /\ r.handler \in [Handles -> EventHandlers \cup {Null}]
    BY DEF Good, Reps
  <1>1. /\ cleared \in Reps /\ cleared.handler = r.handler
        /\ cleared.wait = r.wait \ BitsOf(h, M)
        /\ cleared.suspend = r.suspend \ BitsOf(h, M) /\ cleared.ready = {}
    BY <1>0 DEF ClearDispatchMask, Reps
  <1>2. SetsAgree(r.handler, cleared.wait, cleared.suspend, {})
    <2>1. SetsAgree(r.handler, r.wait, r.suspend, r.ready)
      BY <1>0, GoodMeans
    <2>2. NotifyBit \notin BitsOf(h, M)
      BY NotifyApart
    <2>3. SetsAgree(r.handler, r.wait \ BitsOf(h, M), r.suspend \ BitsOf(h, M), {})
      BY <2>1, <2>2, TakeOut
    <2> QED
      BY <1>1, <2>3
  <1>3. Keeps(r, cleared)
    BY <1>1, <1>2, GoodMeans DEF Keeps, NoneSuspended
  <1>4. ASSUME (cleared.wait \cup cleared.suspend) \cap BitsOf(h, Masks) = {}
        PROVE  /\ Keeps(r, gone)
               /\ r.handler[h] # Null => Keeps(r, RemoveReference(gone, r.handler[h]))
    <2> DEFINE f == [r.handler EXCEPT ![h] = Null]
    <2>1. /\ gone \in Reps /\ gone.handler = f /\ gone.wait = cleared.wait
          /\ gone.suspend = cleared.suspend /\ gone.ready = {}
      BY <1>1 DEF Reps
    <2>2. SetsAgree(f, cleared.wait, cleared.suspend, {})
      BY <1>0, <1>2, <1>4, ChangeHandler
    <2>3. cleared.suspend \cap BitsOf(h, Masks) = {}
      BY <1>4
    <2>4. \A k \in Handles \ {h} : f[k] = r.handler[k]
      BY <1>0
    <2>5. Keeps(r, gone)
      BY <1>1, <2>1, <2>2, <2>3, <2>4, GoodMeans DEF Keeps, NoneSuspended
    <2>6. r.handler[h] # Null => r.handler[h] \in EventHandlers
      BY <1>0
    <2> QED
      BY <2>5, <2>6, ReferenceKeeps, KeepsTransitive DEF Keeps
  <1> QED
    BY <1>3, <1>4 DEF Unbind

LEMMA ResumeKeeps ==
  ASSUME NEW r, Good(r), NEW h \in Handles
  PROVE  Keeps(r, Resume(r, h)) /\ Resume(r, h).suspend \cap BitsOf(h, Masks) = {}
  <1> DEFINE moved == r.suspend \cap BitsOf(h, Masks)
             more == [r EXCEPT !.wait = @ \cup moved, !.suspend = @ \ moved]
  <1>0. r \in Reps /\ SetsAgree(r.handler, r.wait, r.suspend, r.ready)
    BY GoodMeans DEF Good
  <1>1. CASE r.handler[h] # Null
    <2>1. /\ more \in Reps /\ more.handler = r.handler
          /\ more.wait = r.wait \cup moved /\ more.suspend = r.suspend \ moved
          /\ more.ready = r.ready
      BY <1>0 DEF Reps
    <2>2. SetsAgree(r.handler, r.wait, r.suspend \ moved, r.ready)
      BY <1>0 DEF SetsAgree, HandleAgrees, ReadyAgrees
    <2>3. SetsAgree(r.handler, r.wait \cup moved, r.suspend \ moved, r.ready)
      BY <2>2, AddWait
    <2> QED
      BY <1>1, <2>1, <2>3, GoodMeans DEF Resume, Keeps, NoneSuspended
  <1>2. CASE r.handler[h] = Null
    BY <1>0, <1>2 DEF Resume, Keeps, NoneSuspended, SetsAgree, HandleAgrees
  <1> QED
    BY <1>1, <1>2

\* Only the handle that is suspended becomes suspended.
LEMMA SuspendGood ==
  ASSUME NEW r, Good(r), NEW h \in Handles
  PROVE  /\ Good(Suspend(r, h)) /\ Suspend(r, h).handler = r.handler
         /\ \A k \in Handles \ {h} :
              Suspend(r, h).suspend \cap BitsOf(k, Masks) = r.suspend \cap BitsOf(k, Masks)
  <1> DEFINE moved == r.wait \cap BitsOf(h, Masks)
             less == [r EXCEPT !.suspend = @ \cup moved, !.wait = @ \ moved]
             q == ClearDispatchMask(less)
  <1>0. r \in Reps /\ SetsAgree(r.handler, r.wait, r.suspend, r.ready)
    BY GoodMeans DEF Good
  <1>1. CASE r.handler[h] # Null
    <2>0. moved \in SUBSET Bits /\ NotifyBit \notin moved
      BY <1>0, NotifyApart
    <2>1. /\ q \in Reps /\ q.handler = r.handler
          /\ q.wait = r.wait \ moved /\ q.suspend = r.suspend \cup moved
          /\ q.ready = {}
      BY <1>0, <2>0 DEF ClearDispatchMask, Reps
    <2>2. SetsAgree(r.handler, r.wait \ moved, r.suspend \ {}, {})
      BY <1>0, <2>0, TakeOut
    <2>3. SetsAgree(r.handler, r.wait \ moved, r.suspend, {})
      <3>1. r.suspend \ {} = r.suspend
        OBVIOUS
      <3> QED
        BY <2>2, <3>1
    <2>4. SetsAgree(r.handler, r.wait \ moved, r.suspend \cup moved, {})
      BY <1>1, <2>3, AddSuspend
    <2>5. \A k \in Handles \ {h} : moved \cap BitsOf(k, Masks) = {}
      BY BitsApart
    <2> QED
      BY <1>1, <2>1, <2>4, <2>5, GoodMeans DEF Suspend
  <1> QED
    BY <1>1 DEF Suspend

LEMMA MaskKeeps ==
  ASSUME NEW r, Good(r), NEW h \in Handles, NEW M \in SUBSET Masks
  PROVE  /\ Keeps(r, MaskAdd(r, h, M)) /\ Keeps(r, MaskClear(r, h, M))
         /\ "set" \in Calls => Keeps(r, MaskSet(r, h, M))
  <1> DEFINE B == BitsOf(h, M)
             A == BitsOf(h, Masks)
  <1>0. /\ r \in Reps /\ SetsAgree(r.handler, r.wait, r.suspend, r.ready)
        /\ B \in SUBSET BitsOf(h, Masks) /\ B \in SUBSET Bits /\ NotifyBit \notin B
    BY GoodMeans, NotifyApart DEF Good
  <1>1. CASE IsSuspended(r, h)
    <2> DEFINE more == [r EXCEPT !.suspend = @ \cup B]
               less == ClearDispatchMask([r EXCEPT !.suspend = @ \ B])
    <2>1. /\ r.wait \cap BitsOf(h, Masks) = {} /\ r.handler[h] # Null
          /\ r.suspend \cap BitsOf(h, Masks) # {}
      BY <1>0, <1>1 DEF SetsAgree, HandleAgrees, IsSuspended
    <2>2. /\ more \in Reps /\ more.handler = r.handler /\ more.wait = r.wait
          /\ more.suspend = r.suspend \cup B /\ more.ready = r.ready
      BY <1>0 DEF Reps
    <2>3. SetsAgree(r.handler, r.wait, r.suspend \cup B, r.ready)
      BY <1>0, <2>1, AddSuspend
    <2>4. ASSUME NEW k \in Handles
          PROVE  \/ more.suspend \cap BitsOf(k, Masks) = {}
                 \/ r.suspend \cap BitsOf(k, Masks) # {}
      BY <1>0, <2>1, <2>2, BitsApart
    <2>5. Keeps(r, more)
      BY <2>2, <2>3, <2>4, GoodMeans DEF Keeps, NoneSuspended
    <2>6. /\ less \in Reps /\ less.handler = r.handler /\ less.wait = r.wait \ {}
          /\ less.suspend = r.suspend \ B /\ less.ready = {}
      BY <1>0 DEF Reps, ClearDispatchMask
    <2>7. SetsAgree(r.handler, r.wait \ {}, r.suspend \ B, {})
      BY <1>0, TakeOut
    <2>8. Keeps(r, less)
      BY <2>6, <2>7, GoodMeans DEF Keeps, NoneSuspended
    <2> DEFINE new == [r EXCEPT !.suspend = (@ \ A) \cup B]
    <2>9. /\ new \in Reps /\ new.handler = r.handler /\ new.wait = r.wait
          /\ new.suspend = (r.suspend \ A) \cup B /\ new.ready = r.ready
      BY <1>0 DEF Reps
    <2>10. SetsAgree(r.handler, r.wait, (r.suspend \ A) \cup B, r.ready)
      BY <1>0, <2>1, ReplaceBits
    <2>11. ASSUME NEW k \in Handles
           PROVE  \/ new.suspend \cap BitsOf(k, Masks) = {}
                  \/ r.suspend \cap BitsOf(k, Masks) # {}
      BY <1>0, <2>1, <2>9, BitsApart
    <2>12. Keeps(r, new)
      BY <2>9, <2>10, <2>11, GoodMeans DEF Keeps, NoneSuspended
    <2> QED
      BY <1>1, <2>5, <2>8, <2>12 DEF MaskAdd, MaskClear, MaskSet
  <1>2. CASE ~IsSuspended(r, h)
    <2> DEFINE more == [r EXCEPT !.wait = @ \cup B]
               less == ClearDispatchMask([r EXCEPT !.wait = @ \ B])
    <2>1. r.suspend \cap BitsOf(h, Masks) = {}
      BY <1>0, <1>2 DEF SetsAgree, HandleAgrees, IsSuspended
    <2>2. /\ more \in Reps /\ more.handler = r.handler /\ more.wait = r.wait \cup B
          /\ more.suspend = r.suspend /\ more.ready = r.ready
      BY <1>0 DEF Reps
    <2>3. SetsAgree(r.handler, r.wait \cup B, r.suspend, r.ready)
      BY <1>0, <2>1, AddWait
    <2>4. Keeps(r, more)
      BY <2>2, <2>3, GoodMeans DEF Keeps, NoneSuspended
    <2>5. /\ less \in Reps /\ less.handler = r.handler /\ less.wait = r.wait \ B
          /\ less.suspend = r.suspend \ {} /\ less.ready = {}
      BY <1>0 DEF Reps, ClearDispatchMask
    <2>6. SetsAgree(r.handler, r.wait \ B, r.suspend \ {}, {})
      BY <1>0, TakeOut
    <2>7. Keeps(r, less)
      BY <2>5, <2>6, GoodMeans DEF Keeps, NoneSuspended
    <2> DEFINE new == [r EXCEPT !.wait = (@ \ A) \cup B]
    <2>8. /\ new \in Reps /\ new.handler = r.handler /\ new.wait = (r.wait \ A) \cup B
          /\ new.suspend = r.suspend /\ new.ready = r.ready
      BY <1>0 DEF Reps
    <2>9. ASSUME "set" \in Calls PROVE Keeps(r, new)
      <3>1. SetsAgree(r.handler, (r.wait \ A) \cup B, r.suspend, r.ready)
        BY <1>0, <2>1, <2>9, ReplaceBits
      <3> QED
        BY <2>8, <3>1, GoodMeans DEF Keeps, NoneSuspended
    <2> QED
      BY <1>2, <2>4, <2>7, <2>9 DEF MaskAdd, MaskClear, MaskSet
  <1> QED
    BY <1>1, <1>2

\* Before an upcall only the handle of the event becomes suspended.
LEMMA ClaimGood ==
  ASSUME NEW r, Good(r), NEW h \in Handles, NEW eh \in EventHandlers
  PROVE  /\ Good(Claim(r, h, eh)) /\ Claim(r, h, eh).handler = r.handler
         /\ \A k \in Handles \ {h} :
              Claim(r, h, eh).suspend \cap BitsOf(k, Masks)
                = r.suspend \cap BitsOf(k, Masks)
  <1> DEFINE cleared == ClearHandle(r, h)
  <1>1. r.ready \ BitsOf(h, Masks) \subseteq r.ready
    OBVIOUS
  <1>2. Good(cleared) /\ cleared.handler = r.handler /\ cleared.suspend = r.suspend
    BY <1>1, ReadyKeeps DEF Keeps, ClearHandle, Good
  <1>3. /\ Good(Suspend(cleared, h)) /\ Suspend(cleared, h).handler = r.handler
        /\ \A k \in Handles \ {h} :
             Suspend(cleared, h).suspend \cap BitsOf(k, Masks)
               = r.suspend \cap BitsOf(k, Masks)
    BY <1>2, SuspendGood
  <1> QED
    BY <1>3, ReferenceKeeps DEF Claim, Keeps

LEMMA AfterUpcallKeeps ==
  ASSUME NEW r, Good(r), NEW i, i.handle \in Handles, i.mask \in Masks
  PROVE  /\ Keeps(r, AfterUpcall(r, i))
         /\ \/ r.handler[i.handle] # i.eh
            \/ i.eh \in AppResumes
            \/ AfterUpcall(r, i).suspend \cap BitsOf(i.handle, Masks) = {}
  <1> DEFINE removed == IF i.failed THEN Unbind(r, i.handle, {i.mask}) ELSE r
  <1>1. Keeps(r, removed)
    BY UnbindKeeps DEF Keeps, NoneSuspended
  <1>2. /\ Keeps(r, Resume(removed, i.handle))
        /\ Resume(removed, i.handle).suspend \cap BitsOf(i.handle, Masks) = {}
    BY <1>1, ResumeKeeps, KeepsTransitive, ZenonT(40) DEF Keeps
  <1>3. Keeps(r, r)
    BY DEF Keeps, NoneSuspended
  <1> QED
    BY <1>1, <1>2, <1>3 DEF AfterUpcall

-----------------------------------------------------------------------------
(* The inductive invariant *)

Infos == [handle : Handles \cup {notify_handle}, eh : EventHandlers \cup {Null},
          mask : Masks \cup {"READ"}, failed : BOOLEAN]

\* A thread in an upcall knows what for.
ThreadOK(place, i) ==
  /\ place \in {"upcall", "post"} =>
       i.handle \in Handles /\ i.eh \in EventHandlers /\ i.mask \in Masks
  /\ place = "notify" => i.eh \in EventHandlers

ThreadsOK ==
  /\ pc \in [Threads -> Places] /\ info \in [Threads -> Infos]
  /\ \A t \in Threads : ThreadOK(pc[t], info[t])

PipeOK == pipe \in Seq(EventHandlers \cup {Null})

IInv == Good(rep) /\ ThreadsOK /\ PipeOK /\ owned \subseteq EventHandlers

LEMMA NoInfoType == NoInfo \in Infos
  BY DEF NoInfo, Infos

\* A thread goes to another place, with another dispatch info.
LEMMA ThreadGoes ==
  ASSUME ThreadsOK, NEW t \in Threads, NEW place \in Places, NEW i \in Infos,
         ThreadOK(place, i),
         pc' = [pc EXCEPT ![t] = place], info' = [info EXCEPT ![t] = i]
  PROVE  ThreadsOK'
  BY DEF ThreadsOK

LEMMA ThreadLeaves ==
  ASSUME ThreadsOK, NEW t \in Threads,
         NEW place \in {"idle", "handle_events", "dispatch", "timer"},
         pc' = [pc EXCEPT ![t] = place],
         info' = info \/ info' = [info EXCEPT ![t] = NoInfo]
  PROVE  ThreadsOK'
  <1>1. PICK i \in Infos : info' = [info EXCEPT ![t] = i]
    BY NoInfoType DEF ThreadsOK
  <1>2. ThreadOK(place, i) /\ place \in Places
    BY DEF ThreadOK, Places
  <1> QED
    BY <1>1, <1>2, ThreadGoes

LEMMA PipeKept ==
  ASSUME PipeOK, NEW eh \in EventHandlers \cup {Null},
         \/ pipe' = pipe \/ pipe' = <<>> \/ pipe' = Append(pipe, eh)
  PROVE  PipeOK'
  <1>1. CASE pipe' = Append(pipe, eh)
    BY <1>1, AppendProperties DEF PipeOK
  <1>2. CASE pipe' = pipe
    BY <1>2 DEF PipeOK
  <1>3. CASE pipe' = <<>>
    BY <1>3, EmptySeq DEF PipeOK
  <1> QED
    BY <1>1, <1>2, <1>3

LEMMA SendWakeupKeeps ==
  ASSUME PipeOK, SendWakeup
  PROVE  PipeOK'
  <1>1. pipe' = pipe \/ pipe' = Append(pipe, Null)
    BY DEF SendWakeup
  <1> QED
    BY <1>1, PipeKept

LEMMA AcquireKeeps ==
  ASSUME PipeOK, NEW t, AcquireToken(t)
  PROVE  PipeOK'
  <1>1. pipe' = pipe \/ SendWakeup
    BY DEF AcquireToken
  <1> QED
    BY <1>1, PipeKept, SendWakeupKeeps

LEMMA InitIInv == Init => IInv
  <1> SUFFICES ASSUME Init PROVE IInv
    OBVIOUS
  <1>1. rep \in Reps
    BY DEF Init, Reps, Bits
  <1>2. SetsAgree(rep.handler, rep.wait, rep.suspend, rep.ready)
    BY DEF Init, SetsAgree, HandleAgrees, ReadyAgrees
  <1>3. Good(rep)
    BY <1>1, <1>2, GoodMeans
  <1>4. ThreadsOK
    BY NoInfoType DEF Init, ThreadsOK, ThreadOK, Places
  <1> QED
    BY <1>3, <1>4 DEF Init, IInv, PipeOK

-----------------------------------------------------------------------------
(* The steps: what each does to the repository, and that IInv is kept *)

\* A thread whose upcall goes on.
GoesOn(u) ==
  pc[u] \in {"upcall", "post"} =>
    pc'[u] \in {"upcall", "post"} /\ info'[u] = info[u]

\* A step that suspends no handle, after which IInv holds, and that takes no
\* thread out of its upcall.
Quiet ==
  /\ IInv' /\ Keeps(rep, rep')
  /\ \A u \in Threads : GoesOn(u)

LEMMA SameRep ==
  ASSUME IInv
  PROVE  Keeps(rep, rep)
  BY DEF IInv, Keeps, NoneSuspended

LEMMA MovesQuiet ==
  ASSUME IInv, NEW t \in Threads, pc[t] \notin {"upcall", "post"},
         NEW place \in {"idle", "handle_events", "dispatch", "timer"},
         pc' = [pc EXCEPT ![t] = place],
         info' = info \/ info' = [info EXCEPT ![t] = NoInfo],
         Keeps(rep, rep'), PipeOK', owned' = owned
  PROVE  Quiet
  <1>1. ThreadsOK'
    BY ThreadLeaves DEF IInv
  <1>2. \A u \in Threads : GoesOn(u)
    BY DEF GoesOn, IInv, ThreadsOK
  <1> QED
    BY <1>1, <1>2 DEF Quiet, IInv, Keeps

LEMMA StaysQuiet ==
  ASSUME IInv, pc' = pc, info' = info, Keeps(rep, rep'), PipeOK', owned' \subseteq owned
  PROVE  Quiet
  <1>1. ThreadsOK'
    BY DEF IInv, ThreadsOK
  <1>2. \A u \in Threads : GoesOn(u)
    BY DEF GoesOn
  <1> QED
    BY <1>1, <1>2 DEF Quiet, IInv, Keeps

LEMMA ReadTokenSteps ==
  ASSUME IInv, NEW t \in Threads,
         HandleEvents(t) \/ ReadTokenTimedOut(t) \/ LeaveDeactivated(t)
  PROVE  Quiet
  <1>1. /\ rep' = rep /\ pipe' = pipe /\ owned' = owned /\ info' = info
        /\ pc[t] \notin {"upcall", "post"}
        /\ pc' = [pc EXCEPT ![t] = "handle_events"] \/ pc' = [pc EXCEPT ![t] = "idle"]
    BY DEF HandleEvents, ReadTokenTimedOut, LeaveDeactivated, GoTo
  <1>2. Keeps(rep, rep') /\ PipeOK'
    BY <1>1, SameRep DEF IInv, PipeOK
  <1> QED
    BY <1>1, <1>2, MovesQuiet

LEMMA GetEventStep ==
  ASSUME IInv, NEW t \in Threads, NEW ready, NEW count,
         GetEventForDispatching(t, ready, count)
  PROVE  Quiet
  <1>1. /\ pc[t] \notin {"upcall", "post"} /\ pc' = [pc EXCEPT ![t] = "dispatch"]
        /\ info' = info /\ pipe' = pipe /\ owned' = owned
        /\ rep' = [rep EXCEPT !.ready = ready]
    BY DEF GetEventForDispatching, GoTo
  <1>2. ready \subseteq rep.wait \/ ready \subseteq rep.ready
    BY DEF GetEventForDispatching, Remembered, SelectReturns
  <1>3. Keeps(rep, rep')
    BY <1>1, <1>2, ReadyKeeps DEF IInv
  <1>4. PipeOK'
    BY <1>1 DEF IInv, PipeOK
  <1> QED
    BY <1>1, <1>3, <1>4, MovesQuiet

LEMMA TimerSteps ==
  ASSUME IInv, NEW t \in Threads, HandleTimerEvents(t) \/ TimerReturns(t)
  PROVE  Quiet
  <1>1. /\ rep' = rep /\ pipe' = pipe /\ owned' = owned /\ info' = info
        /\ pc[t] \notin {"upcall", "post"}
        /\ pc' = [pc EXCEPT ![t] = "timer"] \/ pc' = [pc EXCEPT ![t] = "idle"]
    BY DEF HandleTimerEvents, TimerReturns, LeaveToken, GoTo, Dispatching
  <1>2. Keeps(rep, rep') /\ PipeOK'
    BY <1>1, SameRep DEF IInv, PipeOK
  <1> QED
    BY <1>1, <1>2, MovesQuiet

LEMMA NotifyStep ==
  ASSUME IInv, NEW t \in Threads, NEW i, HandleNotifyEvents(t, i)
  PROVE  Quiet
  <1> DEFINE j == [NoInfo EXCEPT !.eh = pipe[i]]
  <1>1. /\ pc[t] \notin {"upcall", "post"} /\ pc' = [pc EXCEPT ![t] = "notify"]
        /\ info' = [info EXCEPT ![t] = j] /\ owned' = owned
        /\ rep' = [rep EXCEPT !.ready = @ \ {NotifyBit}]
        /\ pipe' = SubSeq(pipe, i + 1, Len(pipe))
        /\ i \in DOMAIN pipe /\ pipe[i] # Null
    BY DEF HandleNotifyEvents, LeaveToken, GoTo, Dispatching, FirstDispatchable
  <1>2. pipe[i] \in EventHandlers
    BY <1>1 DEF IInv, PipeOK
  <1>3. Keeps(rep, rep')
    <2>1. rep.ready \ {NotifyBit} \subseteq rep.ready
      OBVIOUS
    <2> QED
      BY <1>1, <2>1, ReadyKeeps DEF IInv
  <1>4. PipeOK'
    <2> DEFINE n == Len(pipe)
    <2>1. n \in Int /\ i + 1 \in Int /\ \A k \in i + 1 .. n : pipe[k] \in EventHandlers \cup {Null}
      BY <1>1 DEF IInv, PipeOK
    <2> HIDE DEF n
    <2>2. SubSeq(pipe, i + 1, n) \in Seq(EventHandlers \cup {Null})
      BY <2>1, SubSeqProperties
    <2> QED
      BY <1>1, <2>2 DEF PipeOK, n
  <1>5. ThreadsOK'
    <2>1. j \in Infos /\ ThreadOK("notify", j) /\ "notify" \in Places
      BY <1>2, NoInfoType DEF NoInfo, Infos, ThreadOK, Places
    <2> HIDE DEF j
    <2> QED
      BY <1>1, <2>1, ThreadGoes DEF IInv
  <1>6. \A u \in Threads : GoesOn(u)
    BY <1>1 DEF GoesOn, IInv, ThreadsOK
  <1> QED
    BY <1>1, <1>3, <1>4, <1>5, <1>6 DEF Quiet, IInv, Keeps

LEMMA NotifyReturnStep ==
  ASSUME IInv, NEW t \in Threads, NotifyReturns(t)
  PROVE  Quiet
  <1>1. /\ pc[t] = "notify" /\ pc' = [pc EXCEPT ![t] = "idle"]
        /\ info' = [info EXCEPT ![t] = NoInfo] /\ pipe' = pipe /\ owned' = owned
        /\ rep' = RemoveReference(rep, info[t].eh)
    BY DEF NotifyReturns, GoTo
  <1>2. info[t].eh \in EventHandlers
    BY <1>1 DEF IInv, ThreadsOK, ThreadOK
  <1>3. Keeps(rep, rep') /\ PipeOK'
    BY <1>1, <1>2, ReferenceKeeps DEF IInv, PipeOK
  <1> QED
    BY <1>1, <1>3, MovesQuiet

LEMMA WithoutNotifyKeeps ==
  ASSUME IInv
  PROVE  /\ Keeps(rep, WithoutNotify) /\ WithoutNotify.handler = rep.handler
         /\ WithoutNotify.suspend = rep.suspend
  <1>1. rep.ready \ {NotifyBit} \subseteq rep.ready
    OBVIOUS
  <1> QED
    BY <1>1, ReadyKeeps DEF IInv, WithoutNotify

LEMMA HandleNothingStep ==
  ASSUME IInv, NEW t \in Threads, HandleNothing(t)
  PROVE  Quiet
  <1>1. /\ pc[t] \notin {"upcall", "post"} /\ pc' = [pc EXCEPT ![t] = "idle"]
        /\ info' = info /\ owned' = owned /\ pipe' \in {pipe, <<>>}
        /\ rep' \in {rep, WithoutNotify}
    BY DEF HandleNothing, NotificationsHandled, LeaveToken, GoTo, Dispatching
  <1>2. Keeps(rep, rep')
    BY <1>1, SameRep, WithoutNotifyKeeps
  <1>3. PipeOK'
    BY <1>1, PipeKept DEF IInv
  <1> QED
    BY <1>1, <1>2, <1>3, MovesQuiet

LEMMA HandleRemovedStep ==
  ASSUME IInv, NEW t \in Threads, NEW h \in Handles, NEW m \in Masks,
         HandleRemoved(t, h, m)
  PROVE  Quiet
  <1> DEFINE w == WithoutNotify
             c == ClearHandle(w, h)
  <1>1. /\ pc[t] \notin {"upcall", "post"} /\ pc' = [pc EXCEPT ![t] = "idle"]
        /\ info' = info /\ owned' = owned /\ pipe' \in {pipe, <<>>}
        /\ rep' = Unbind(c, h, {m})
    BY DEF HandleRemoved, NotificationsHandled, LeaveToken, GoTo, Dispatching
  <1>2. Keeps(rep, w)
    BY WithoutNotifyKeeps
  <1> HIDE DEF w
  <1>3. Keeps(w, c)
    <2>1. w.ready \ BitsOf(h, Masks) \subseteq w.ready
      OBVIOUS
    <2> QED
      BY <1>2, <2>1, ReadyKeeps DEF Keeps, ClearHandle
  <1> HIDE DEF c
  <1>4. Keeps(c, Unbind(c, h, {m}))
    BY <1>3, UnbindKeeps DEF Keeps
  <1>5. Keeps(rep, rep')
    BY <1>1, <1>2, <1>3, <1>4, KeepsTransitive
  <1>6. PipeOK'
    BY <1>1, PipeKept DEF IInv
  <1> QED
    BY <1>1, <1>5, <1>6, MovesQuiet

\* An upcall begins: its thread knows the one handle that becomes suspended.
LEMMA SocketStep ==
  ASSUME IInv, NEW t \in Threads, NEW h \in Handles, NEW m \in Masks,
         HandleSocketEvents(t, h, m)
  PROVE  /\ IInv' /\ \A u \in Threads : GoesOn(u)
         /\ pc'[t] = "upcall" /\ info'[t].handle = h /\ info'[t].eh = rep'.handler[h]
         /\ \A k \in Handles \ {h} :
              /\ rep'.suspend \cap BitsOf(k, Masks) = rep.suspend \cap BitsOf(k, Masks)
              /\ rep'.handler[k] = rep.handler[k]
  <1> DEFINE eh == rep.handler[h]
             w == WithoutNotify
             i == [handle |-> h, eh |-> eh, mask |-> m, failed |-> FALSE]
  <1>1. /\ pc[t] \notin {"upcall", "post"} /\ pc' = [pc EXCEPT ![t] = "upcall"]
        /\ info' = [info EXCEPT ![t] = i] /\ owned' = owned /\ pipe' \in {pipe, <<>>}
        /\ rep' = Claim(w, h, eh) /\ eh # Null
    BY DEF HandleSocketEvents, NotificationsHandled, LeaveToken, GoTo, Dispatching
  <1>2. Good(w) /\ w.handler = rep.handler /\ w.suspend = rep.suspend
    BY WithoutNotifyKeeps DEF Keeps
  <1>3. eh \in EventHandlers
    BY <1>1 DEF IInv, Good, Reps
  <1> HIDE DEF w, eh
  <1>4. /\ Good(rep') /\ rep'.handler = rep.handler
        /\ \A k \in Handles \ {h} :
             rep'.suspend \cap BitsOf(k, Masks) = rep.suspend \cap BitsOf(k, Masks)
    BY <1>1, <1>2, <1>3, ClaimGood
  <1>5. ThreadsOK'
    <2>1. i \in Infos /\ ThreadOK("upcall", i) /\ "upcall" \in Places
      BY <1>3 DEF Infos, ThreadOK, Places
    <2> HIDE DEF i
    <2> QED
      BY <1>1, <2>1, ThreadGoes DEF IInv
  <1>6. PipeOK'
    BY <1>1, PipeKept DEF IInv
  <1>7. /\ \A u \in Threads : GoesOn(u)
        /\ pc'[t] = "upcall" /\ info'[t].handle = h /\ info'[t].eh = eh
    BY <1>1 DEF GoesOn, IInv, ThreadsOK
  <1> QED
    BY <1>1, <1>4, <1>5, <1>6, <1>7 DEF IInv, eh

\* An upcall ends: no handle becomes suspended, and the one of the upcall is
\* not left suspended unless the application resumes it.
Ends(t) ==
  /\ IInv' /\ Keeps(rep, rep')
  /\ \A u \in Threads \ {t} : GoesOn(u)
  /\ LET h == info[t].handle
     IN  \/ rep.handler[h] # info[t].eh
         \/ info[t].eh \in AppResumes
         \/ rep'.suspend \cap BitsOf(h, Masks) = {}

LEMMA UpcallReturnsStep ==
  ASSUME IInv, NEW t \in Threads, NEW failed \in BOOLEAN, UpcallReturns(t, failed)
  PROVE  Ends(t) \/ /\ IInv' /\ Keeps(rep, rep')
                    /\ pc'[t] = "post" /\ info'[t].eh = info[t].eh
                    /\ info'[t].handle = info[t].handle
                    /\ \A u \in Threads \ {t} : GoesOn(u)
  <1>0. /\ pc[t] = "upcall" /\ owned' = owned
        /\ info[t].handle \in Handles /\ info[t].eh \in EventHandlers
        /\ info[t].mask \in Masks /\ info[t] \in Infos
    BY DEF UpcallReturns, IInv, ThreadsOK, ThreadOK
  <1>1. CASE failed \/ info[t].eh \notin AppResumes
    <2> DEFINE i == [info[t] EXCEPT !.failed = failed]
    <2>1. /\ AcquireToken(t) /\ pc' = [pc EXCEPT ![t] = "post"]
          /\ info' = [info EXCEPT ![t] = i] /\ rep' = rep
      BY <1>1 DEF UpcallReturns, GoTo
    <2>2. /\ i \in Infos /\ i.handle = info[t].handle /\ i.eh = info[t].eh
          /\ i.mask = info[t].mask
      BY <1>0 DEF Infos
    <2> HIDE DEF i
    <2>3. ThreadOK("post", i) /\ "post" \in Places
      BY <1>0, <2>2 DEF ThreadOK, Places
    <2>4. ThreadsOK'
      BY <2>1, <2>2, <2>3, ThreadGoes DEF IInv
    <2>5. PipeOK'
      BY <2>1, AcquireKeeps DEF IInv
    <2>6. /\ pc'[t] = "post" /\ info'[t] = i /\ \A u \in Threads \ {t} : GoesOn(u)
      BY <2>1 DEF GoesOn, IInv, ThreadsOK
    <2> QED
      BY <1>0, <2>1, <2>2, <2>4, <2>5, <2>6, SameRep DEF IInv
  <1>2. CASE ~failed /\ info[t].eh \in AppResumes
    <2>1. /\ rep' = RemoveReference(rep, info[t].eh) /\ pipe' = pipe
          /\ info' = [info EXCEPT ![t] = NoInfo] /\ pc' = [pc EXCEPT ![t] = "idle"]
      BY <1>2 DEF UpcallReturns, GoTo
    <2>2. Keeps(rep, rep') /\ PipeOK'
      BY <1>0, <2>1, ReferenceKeeps DEF IInv, PipeOK
    <2>3. ThreadsOK'
      BY <2>1, ThreadLeaves DEF IInv
    <2>4. \A u \in Threads \ {t} : GoesOn(u)
      BY <2>1 DEF GoesOn, IInv, ThreadsOK
    <2> QED
      BY <1>0, <1>2, <2>2, <2>3, <2>4 DEF Ends, IInv, Keeps
  <1> QED
    BY <1>1, <1>2

LEMMA PostProcessStep ==
  ASSUME IInv, NEW t \in Threads, PostProcess(t)
  PROVE  Ends(t)
  <1> DEFINE q == AfterUpcall(rep, info[t])
  <1>1. /\ pc[t] = "post" /\ pc' = [pc EXCEPT ![t] = "idle"]
        /\ info' = [info EXCEPT ![t] = NoInfo] /\ owned' = owned /\ pipe' = pipe
        /\ rep' = RemoveReference(q, info[t].eh)
    BY DEF PostProcess, GoTo
  <1>2. /\ info[t].handle \in Handles /\ info[t].eh \in EventHandlers
        /\ info[t].mask \in Masks
    BY <1>1 DEF IInv, ThreadsOK, ThreadOK
  <1>3. /\ Keeps(rep, q)
        /\ \/ rep.handler[info[t].handle] # info[t].eh
           \/ info[t].eh \in AppResumes
           \/ q.suspend \cap BitsOf(info[t].handle, Masks) = {}
    BY <1>2, AfterUpcallKeeps DEF IInv
  <1> HIDE DEF q
  <1>4. Keeps(q, rep') /\ rep'.suspend = q.suspend
    BY <1>1, <1>2, <1>3, ReferenceKeeps DEF Keeps
  <1>5. Keeps(rep, rep')
    BY <1>3, <1>4, KeepsTransitive
  <1>6. ThreadsOK'
    BY <1>1, ThreadLeaves DEF IInv
  <1>7. \A u \in Threads \ {t} : GoesOn(u)
    BY <1>1 DEF GoesOn, IInv, ThreadsOK
  <1>8. PipeOK'
    BY <1>1 DEF IInv, PipeOK
  <1> QED
    BY <1>1, <1>3, <1>4, <1>5, <1>6, <1>7, <1>8 DEF Ends, IInv, Keeps

\* The operations that the application calls, but suspend_handler.
LEMMA CallSteps ==
  ASSUME IInv, NEW t \in Threads, Call(t) \/ Deactivate(t)
  PROVE  Quiet
  <1>1. CASE Call(t)
    <2>1. PipeOK'
      BY <1>1, AcquireKeeps DEF Call, IInv
    <2> QED
      BY <1>1, <2>1, SameRep, StaysQuiet DEF Call
  <1>2. CASE Deactivate(t)
    <2>1. PipeOK'
      BY <1>2, SendWakeupKeeps DEF Deactivate, IInv
    <2> QED
      BY <1>2, <2>1, SameRep, StaysQuiet DEF Deactivate, CallReturns
  <1> QED
    BY <1>1, <1>2

LEMMA HandlerSteps ==
  ASSUME IInv, NEW t \in Threads, NEW h \in Handles, NEW M \in SUBSET Masks,
         \/ \E eh \in EventHandlers : RegisterHandler(t, h, eh, M)
         \/ RemoveHandler(t, h, M) \/ MaskOps(t, h, M) \/ ReadyOps(t, h, M)
         \/ ResumeHandler(t, h)
  PROVE  Quiet
  <1>1. /\ pc' = pc /\ info' = info /\ pipe' = pipe /\ owned' = owned
        /\ \/ \E eh \in EventHandlers : rep' = Bind(rep, h, eh, M)
           \/ rep' = Unbind(rep, h, M)
           \/ rep' = MaskAdd(rep, h, M) \/ rep' = MaskClear(rep, h, M)
           \/ "set" \in Calls /\ rep' = MaskSet(rep, h, M)
           \/ "ready" \in Calls /\ \E d \in ReadyMasks(rep, h, M) :
                                    rep' = [rep EXCEPT !.ready = d]
           \/ rep' = Resume(rep, h)
    BY DEF RegisterHandler, RemoveHandler, MaskOps, ReadyOps, ResumeHandler,
           CallReturns, Performs
  <1>2. Keeps(rep, rep')
    <2>1. ASSUME "ready" \in Calls, NEW d \in ReadyMasks(rep, h, M)
          PROVE  Keeps(rep, [rep EXCEPT !.ready = d])
      <3>1. rep.ready \subseteq Bits \cup {NotifyBit} /\ BitsOf(h, M) \subseteq Bits
        BY NotifyApart DEF IInv, Good, Reps
      <3>2. d \subseteq Bits \cup {NotifyBit}
        BY <3>1 DEF ReadyMasks
      <3> QED
        BY <2>1, <3>2, ReadyKeeps DEF IInv
    <2> QED
      BY <1>1, <2>1, BindKeeps, UnbindKeeps, MaskKeeps, ResumeKeeps DEF IInv
  <1>3. PipeOK'
    BY <1>1 DEF IInv, PipeOK
  <1> QED
    BY <1>1, <1>2, <1>3, StaysQuiet

LEMMA ReferenceSteps ==
  ASSUME IInv, NEW eh \in EventHandlers,
         DropReference(eh) \/ \E t \in Threads : Notify(t, eh)
  PROVE  Quiet
  <1>1. /\ pc' = pc /\ info' = info /\ owned' \subseteq owned
        /\ pipe' = pipe \/ pipe' = Append(pipe, eh)
        /\ rep' = AddReference(rep, eh) \/ rep' = RemoveReference(rep, eh)
    BY DEF Notify, DropReference
  <1>2. Keeps(rep, rep') /\ PipeOK'
    BY <1>1, ReferenceKeeps, PipeKept DEF IInv
  <1> QED
    BY <1>1, <1>2, StaysQuiet

LEMMA SuspendStep ==
  ASSUME IInv, NEW t \in Threads, NEW h \in Handles, SuspendHandler(t, h)
  PROVE  IInv'
  <1>1. /\ pc' = pc /\ info' = info /\ pipe' = pipe /\ owned' = owned
        /\ rep' = Suspend(rep, h)
    BY DEF SuspendHandler, CallReturns
  <1>2. Good(rep')
    BY <1>1, SuspendGood DEF IInv
  <1> QED
    BY <1>1, <1>2 DEF IInv, ThreadsOK, PipeOK

LEMMA StutterStep ==
  ASSUME IInv, UNCHANGED vars
  PROVE  Quiet
  <1>1. pc' = pc /\ info' = info /\ pipe' = pipe /\ owned' = owned /\ rep' = rep
    BY DEF vars
  <1>2. PipeOK' /\ Keeps(rep, rep')
    BY <1>1, SameRep DEF IInv, PipeOK
  <1> QED
    BY <1>1, <1>2, StaysQuiet

\* What a step may do to the upcalls and to the suspended handles.
Steps ==
  \/ Quiet
  \/ \E t \in Threads, h \in Handles, m \in Masks : HandleSocketEvents(t, h, m)
  \/ \E t \in Threads, failed \in BOOLEAN : UpcallReturns(t, failed)
  \/ \E t \in Threads : PostProcess(t)
  \/ "suspend" \in Calls /\ \E t \in Threads, h \in Handles : SuspendHandler(t, h)

LEMMA NextSteps ==
  ASSUME IInv, [Next]_vars
  PROVE  Steps
  <1>1. CASE UNCHANGED vars
    BY <1>1, StutterStep DEF Steps
  <1>2. ASSUME NEW eh \in EventHandlers, DropReference(eh) PROVE Steps
    BY <1>2, ReferenceSteps DEF Steps
  <1>3. ASSUME NEW t \in Threads, NEW eh \in EventHandlers, Notify(t, eh) PROVE Steps
    BY <1>3, ReferenceSteps DEF Steps
  <1>4. ASSUME NEW t \in Threads, HandleEvents(t) \/ ReadTokenTimedOut(t) PROVE Steps
    BY <1>4, ReadTokenSteps DEF Steps
  <1>5. ASSUME NEW t \in Threads, Call(t) PROVE Steps
    BY <1>5, CallSteps DEF Steps
  <1>6. ASSUME NEW t \in Threads, Return(t) PROVE Steps
    BY <1>6, NotifyReturnStep, TimerSteps DEF Steps, Return
  <1>7. ASSUME NEW t \in Threads, Perform(t) PROVE Steps
    <2>1. ASSUME NEW h \in Handles, NEW M \in SUBSET Masks,
                 \/ \E eh \in EventHandlers : RegisterHandler(t, h, eh, M)
                 \/ RemoveHandler(t, h, M) \/ MaskOps(t, h, M) \/ ReadyOps(t, h, M)
          PROVE  Steps
      BY <2>1, HandlerSteps DEF Steps
    <2>2. ASSUME NEW h \in Handles, ResumeHandler(t, h) PROVE Steps
      <3>1. Masks \in SUBSET Masks
        OBVIOUS
      <3> QED
        BY <2>2, <3>1, HandlerSteps DEF Steps
    <2>3. ASSUME NEW h \in Handles, SuspendHandler(t, h) PROVE Steps
      BY <2>3 DEF Steps, SuspendHandler, Performs
    <2>4. CASE Deactivate(t)
      BY <2>4, CallSteps DEF Steps
    <2> QED
      BY <1>7, <2>1, <2>2, <2>3, <2>4 DEF Perform
  <1>8. ASSUME NEW t \in Threads, DispatchOther(t) PROVE Steps
    <2>1. ASSUME NEW i \in 1 .. MaxPipe, HandleNotifyEvents(t, i) PROVE Steps
      BY <2>1, NotifyStep DEF Steps
    <2>2. ASSUME NEW h \in Handles, NEW m \in Masks, HandleSocketEvents(t, h, m)
          PROVE  Steps
      BY <2>2 DEF Steps
    <2>3. ASSUME NEW h \in Handles, NEW m \in Masks, HandleRemoved(t, h, m)
          PROVE  Steps
      BY <2>3, HandleRemovedStep DEF Steps
    <2>4. CASE HandleNothing(t)
      BY <2>4, HandleNothingStep DEF Steps
    <2> QED
      BY <1>8, <2>1, <2>2, <2>3, <2>4 DEF DispatchOther
  <1>9. ASSUME NEW t \in Threads, Lead(t) PROVE Steps
    <2>1. CASE LeaveDeactivated(t)
      BY <2>1, ReadTokenSteps DEF Steps
    <2>2. ASSUME NEW ready, NEW count, GetEventForDispatching(t, ready, count)
          PROVE  Steps
      BY <2>2, GetEventStep DEF Steps
    <2>3. CASE HandleTimerEvents(t)
      BY <2>3, TimerSteps DEF Steps
    <2>4. CASE PostProcess(t)
      BY <2>4 DEF Steps
    <2> QED
      BY <1>7, <1>8, <1>9, <2>1, <2>2, <2>3, <2>4 DEF Lead
  <1> QED
    BY <1>1, <1>2, <1>3, <1>4, <1>5, <1>6, <1>9 DEF Next

LEMMA IInvNext ==
  ASSUME IInv, [Next]_vars
  PROVE  IInv'
  <1>1. Steps
    BY NextSteps
  <1>2. CASE Quiet
    BY <1>2 DEF Quiet
  <1>3. ASSUME NEW t \in Threads, NEW h \in Handles, NEW m \in Masks,
               HandleSocketEvents(t, h, m)
        PROVE  IInv'
    BY <1>3, SocketStep
  <1>4. ASSUME NEW t \in Threads, NEW failed \in BOOLEAN, UpcallReturns(t, failed)
        PROVE  IInv'
    BY <1>4, UpcallReturnsStep DEF Ends
  <1>5. ASSUME NEW t \in Threads, PostProcess(t) PROVE IInv'
    BY <1>5, PostProcessStep DEF Ends
  <1>6. ASSUME NEW t \in Threads, NEW h \in Handles, SuspendHandler(t, h) PROVE IInv'
    BY <1>6, SuspendStep
  <1> QED
    BY <1>1, <1>2, <1>3, <1>4, <1>5, <1>6 DEF Steps

(***************************************************************************)
(* The inductive invariant holds, whatever is called: the repository is    *)
(* well typed and its sets agree, the ready bits as far as SetsConsistent  *)
(* says; every thread in an upcall of handle_events () knows its handle    *)
(* and handler, and the notification pipe holds handlers or bare wakeups.  *)
(***************************************************************************)
THEOREM Inductive == Spec => []IInv
  <1>1. IInv /\ [Next]_vars => IInv'
    BY IInvNext
  <1> QED
    BY <1>1, InitIInv, PTL DEF Spec

(***************************************************************************)
(* Whatever the threads and the upcalls call, mask_ops (SET_MASK) and      *)
(* ready_ops included, no handle is half suspended and no suspended handle *)
(* is without a handler: bind, unbind, suspend_i, resume_i and bit_ops     *)
(* keep the wait set and the suspend set in step.  Without ready_ops a     *)
(* leader finds no ready bit of a suspended handle; without either of the  *)
(* two it finds only ready bits that are still waited for.                 *)
(***************************************************************************)
THEOREM SetsStayConsistent == Spec => []SetsConsistent
  <1>1. IInv => SetsConsistent
    BY DEF IInv, Good, SetsConsistent
  <1> QED
    BY <1>1, Inductive, PTL

-----------------------------------------------------------------------------
(* Suspended handles *)

LEMMA QuietSuspended ==
  ASSUME IInv, SuspendedForUpcall, Keeps(rep, rep'),
         \A u \in Threads : pc[u] \in {"upcall", "post"} =>
           /\ pc'[u] \in {"upcall", "post"}
           /\ info'[u].eh = info[u].eh /\ info'[u].handle = info[u].handle
  PROVE  SuspendedForUpcall'
  BY DEF SuspendedForUpcall, InUpcall, Keeps, NoneSuspended

LEMMA EndsSuspended ==
  ASSUME IInv, SuspendedForUpcall, NEW t \in Threads, Ends(t)
  PROVE  SuspendedForUpcall'
  <1> SUFFICES ASSUME NEW h \in Handles, rep'.suspend \cap BitsOf(h, Masks) # {},
                      rep'.handler[h] \notin AppResumes
               PROVE  \E u \in Threads : InUpcall(u, rep.handler[h])' /\ info'[u].handle = h
    BY DEF SuspendedForUpcall, InUpcall, Ends, Keeps, NoneSuspended
  <1>1. rep.suspend \cap BitsOf(h, Masks) # {} /\ rep'.handler[h] = rep.handler[h]
    BY DEF Ends, Keeps, NoneSuspended
  <1>2. PICK u \in Threads : InUpcall(u, rep.handler[h]) /\ info[u].handle = h
    BY <1>1 DEF SuspendedForUpcall
  <1>3. u # t
    BY <1>1, <1>2 DEF Ends, InUpcall
  <1> QED
    BY <1>1, <1>2, <1>3 DEF Ends, GoesOn, InUpcall

(***************************************************************************)
(* If the application leaves suspending to the reactor, a handle that is   *)
(* suspended has an upcall going on that resumes it, or a handler that the *)
(* application resumes: no interleaving of removals, registrations, mask   *)
(* changes and failing upcalls leaves a handle that nobody resumes.        *)
(***************************************************************************)
THEOREM NoneLeftSuspended ==
  ASSUME "suspend" \notin Calls
  PROVE  Spec => []SuspendedForUpcall
  <1>1. Init => SuspendedForUpcall
    BY DEF Init, SuspendedForUpcall
  <1>2. IInv /\ SuspendedForUpcall /\ [Next]_vars => SuspendedForUpcall'
    <2> SUFFICES ASSUME IInv, SuspendedForUpcall, [Next]_vars
                 PROVE  SuspendedForUpcall'
      OBVIOUS
    <2>1. Steps
      BY NextSteps
    <2>2. CASE Quiet
      BY <2>2, QuietSuspended DEF Quiet, GoesOn
    <2>3. ASSUME NEW t \in Threads, NEW h \in Handles, NEW m \in Masks,
                 HandleSocketEvents(t, h, m)
          PROVE  SuspendedForUpcall'
      BY <2>3, SocketStep DEF SuspendedForUpcall, InUpcall, GoesOn
    <2>4. ASSUME NEW t \in Threads, NEW failed \in BOOLEAN, UpcallReturns(t, failed)
          PROVE  SuspendedForUpcall'
      BY <2>4, UpcallReturnsStep, EndsSuspended, QuietSuspended DEF GoesOn
    <2>5. ASSUME NEW t \in Threads, PostProcess(t) PROVE SuspendedForUpcall'
      BY <2>5, PostProcessStep, EndsSuspended
    <2> QED
      BY <2>1, <2>2, <2>3, <2>4, <2>5 DEF Steps
  <1> QED
    BY <1>1, <1>2, Inductive, PTL DEF Spec
=============================================================================
