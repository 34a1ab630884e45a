-------------------------- MODULE BillingEventsProof --------------------------
(***************************************************************************)
(* The event ledger and the ordered upsert, for any number of              *)
(* subscriptions, handlers and reconciliations: an event is applied once,  *)
(* access and the row it follows do not come apart, and, where Stripe's    *)
(* seconds tell a subscription's events apart and no reconciliation runs,  *)
(* the latest event decides.                                               *)
(***************************************************************************)
EXTENDS BillingEvents, FiniteSetTheorems, TLAPS

-----------------------------------------------------------------------------
(* Shapes. *)

WorkerType == [pc : {"idle", "fetch", "begin", "tx"}, id : Ids \cup {NoId},
               sub : Subs \cup {NoSub}, at : 0..MaxClock, snap : StripeStatus,
               exists : BOOLEAN, grantable : BOOLEAN]

\* A worker at work has a subscription, and from the fetch on an id to claim; what a
\* reconciliation fetches exists, so that its id can be made of a status.
KnowsItsEvent(w) ==
    LET k == worker[w]
    IN k.pc # "idle" =>
         /\ k.sub \in Subs
         /\ w \in Handlers \/ k.pc # "fetch" => k.id \in Ids
         /\ w \notin Handlers /\ k.pc = "fetch" => stripe[k.sub] \in Status

TypeInv == TypeOK /\ \A w \in Workers : KnowsItsEvent(w)

\* Seconds are whole, begin in the past, and follow one another as ticks do.
LEMMA SecondBounds ==
    ASSUME NEW t \in Nat PROVE Second(t) \in Nat /\ Second(t) <= t
<1>1. t % TicksPerSecond \in 0..(TicksPerSecond - 1) /\ TicksPerSecond \in Nat \ {0}
  BY BillingAssumption
<1>2. t = TicksPerSecond * (t \div TicksPerSecond) + (t % TicksPerSecond) /\ t \div TicksPerSecond \in Nat
  BY BillingAssumption
<1>3. TicksPerSecond * (t \div TicksPerSecond) \in Nat
  BY <1>1, <1>2
<1> QED BY <1>1, <1>2, <1>3 DEF Second

LEMMA SecondMonotone ==
    ASSUME NEW t \in Nat PROVE Second(t) <= Second(t + 1)
<1> DEFINE k == TicksPerSecond
           x == t \div k
           y == (t + 1) \div k
<1>1. k \in Nat /\ k > 0
  BY BillingAssumption
<1>2. /\ x \in Nat /\ t % k \in 0..(k - 1) /\ t = k * x + (t % k)
      /\ y \in Nat /\ (t + 1) % k \in 0..(k - 1) /\ t + 1 = k * y + ((t + 1) % k)
  BY <1>1
<1>3. Second(t) = k * x /\ Second(t + 1) = k * y /\ k * x \in Nat /\ k * y \in Nat
  BY <1>1, <1>2 DEF Second
<1> HIDE DEF k, x, y
<1>4. k * x <= t /\ t < k * y + k
  BY <1>1, <1>2, <1>3
<1>5. k * y + k = k * (y + 1)
  BY <1>1, <1>2
<1>6. x < y + 1
  <2> SUFFICES ASSUME x >= y + 1 PROVE FALSE
    BY <1>2
  <2>1. k * x >= k * (y + 1)
    BY <1>1, <1>2
  <2> QED BY <1>1, <1>2, <1>3, <1>4, <1>5, <2>1
<1>7. k * x <= k * y
  BY <1>1, <1>2, <1>6
<1> QED BY <1>3, <1>7

\* The first tick.
LEMMA TypeInitially == Init => TypeInv
BY BillingAssumption
   DEF Init, TypeInv, TypeOK, KnowsItsEvent, Free, StripeStatus, Workers

\* A worker that changes alone, into something of its type that knows its event.
LEMMA TypeWorks ==
    ASSUME TypeInv, NEW w \in Workers, NEW k \in WorkerType,
           worker' = [worker EXCEPT ![w] = k],
           k.pc # "idle" =>
              /\ k.sub \in Subs
              /\ w \in Handlers \/ k.pc # "fetch" => k.id \in Ids
              /\ w \notin Handlers /\ k.pc = "fetch" => stripe[k.sub] \in Status,
           UNCHANGED <<clock, stripe, events>>,
           ledger' \subseteq Ids,
           stored' \in [Subs -> [status : StripeStatus, at : 0..MaxClock, detached : BOOLEAN]],
           entitlement' \in {"none", "active", "inactive"},
           reference' \in Subs \cup {NoSub}
    PROVE  TypeInv'
<1>1. worker \in [Workers -> WorkerType]
  BY DEF TypeInv, TypeOK, WorkerType
<1>2. worker' \in [Workers -> WorkerType]
  BY <1>1
<1>3. TypeOK'
  BY <1>2 DEF TypeInv, TypeOK, WorkerType
<1>4. ASSUME NEW v \in Workers PROVE KnowsItsEvent(v)'
  <2>1. CASE v = w
    BY <1>1, <2>1 DEF KnowsItsEvent
  <2>2. CASE v # w
    BY <1>1, <2>2 DEF TypeInv, KnowsItsEvent
  <2> QED BY <2>1, <2>2
<1> QED BY <1>3, <1>4 DEF TypeInv

\* Time passes.
LEMMA TypeTick == ASSUME TypeInv, Tick PROVE TypeInv'
BY BillingAssumption DEF TypeInv, TypeOK, KnowsItsEvent, Tick, billing

\* What a move of Stripe's subscription s does: it is no longer absent, and an event of its
\* own is emitted if anything changed.
LEMMA MoveEmits ==
    ASSUME TypeInv, NEW s \in Subs, StripeMove(s)
    PROVE  /\ stripe' \in [Subs -> StripeStatus] /\ stripe'[s] \in Status
           /\ \A q \in Subs \ {s} : stripe'[q] = stripe[q]
           /\ \/ stripe' = stripe /\ events' = events
              \/ /\ Cardinality(EventsOf(s)) < MaxEvents
                 /\ Spaced => \A e \in EventsOf(s) : e.at # Second(clock)
                 /\ events' = events \cup {[sub |-> s, n |-> Cardinality(EventsOf(s)) + 1,
                                            at |-> Second(clock)]}
<1>1. PICK st \in Status : stripe' = [stripe EXCEPT ![s] = st]
  BY DEF StripeMove
<1>2. stripe \in [Subs -> StripeStatus]
  BY DEF TypeInv, TypeOK
<1>3. /\ stripe' \in [Subs -> StripeStatus] /\ stripe'[s] \in Status
      /\ \A q \in Subs \ {s} : stripe'[q] = stripe[q]
  BY <1>1, <1>2 DEF StripeStatus
<1>4. CASE st = stripe[s]
  <2>1. stripe' = stripe
    BY <1>1, <1>2, <1>4
  <2>2. {q \in Subs : stripe'[q] # stripe[q]} = {}
    BY <2>1
  <2> QED BY <1>3, <2>1, <2>2 DEF StripeMove, Emits
<1>5. CASE st # stripe[s]
  <2>1. {q \in Subs : stripe'[q] # stripe[q]} = {s}
    BY <1>1, <1>2, <1>5
  <2>2. stripe'[s] # stripe[s]
    BY <2>1
  <2> QED BY <1>3, <2>1, <2>2 DEF StripeMove, Emits
<1> QED BY <1>4, <1>5

LEMMA TypeMove == ASSUME TypeInv, NEW s \in Subs, StripeMove(s), Cardinality(EventsOf(s)) \in Nat
                  PROVE  TypeInv'
<1>1. UNCHANGED <<clock, ledger, stored, entitlement, reference, worker>>
  BY DEF StripeMove, billing
<1>2. events' \subseteq Event
  <2>1. clock \in Nat /\ clock <= MaxClock /\ events \subseteq Event /\ MaxClock \in Nat /\ MaxEvents \in Nat
    BY BillingAssumption DEF TypeInv, TypeOK
  <2>2. Second(clock) \in 0..MaxClock
    BY <2>1, SecondBounds
  <2>3. Cardinality(EventsOf(s)) < MaxEvents =>
          [sub |-> s, n |-> Cardinality(EventsOf(s)) + 1, at |-> Second(clock)] \in Event
    BY <2>1, <2>2 DEF Event
  <2> QED BY <2>1, <2>3, MoveEmits
<1>3. TypeOK'
  BY <1>1, <1>2, MoveEmits DEF TypeInv, TypeOK
<1>4. ASSUME NEW w \in Workers PROVE KnowsItsEvent(w)'
  BY <1>1, MoveEmits DEF TypeInv, KnowsItsEvent
<1> QED BY <1>3, <1>4 DEF TypeInv

-----------------------------------------------------------------------------
(* Claims: the ledger and the transactions in progress. *)

\* An id is processed, or held by one transaction, never both; where the transaction is, the
\* account it found takes a grant.
Claimed ==
    /\ NoSecondApplication
    /\ \A v, w \in Workers : v # w /\ worker[v].pc = "tx" /\ worker[w].pc = "tx"
                             => worker[v].id # worker[w].id
    /\ \A w \in Workers : worker[w].pc = "tx" => worker[w].grantable

\* Events of one subscription are numbered and dated in the order they were emitted, in
\* seconds that have begun.
EventsNumbered ==
    /\ \A s \in Subs : IsFiniteSet(EventsOf(s))
    /\ \A e \in events : e.n <= Cardinality(EventsOf(e.sub)) /\ stripe[e.sub] \in Status
    /\ \A e, f \in events : e.sub = f.sub /\ e.n = f.n => e = f

BillingInv == TypeInv /\ Claimed /\ EventsNumbered /\ EntitlementFollowsReference

LEMMA InvInitially == Init => BillingInv
BY TypeInitially, FS_EmptySet
   DEF Init, BillingInv, Claimed, NoSecondApplication, EventsNumbered, EntitlementFollowsReference,
       EventsOf, Free

\* Numbering: a new event has the next number.
LEMMA NewEvent ==
    ASSUME TypeInv, EventsNumbered, NEW s \in Subs, NEW t,
           events' = events \cup {[sub |-> s, n |-> Cardinality(EventsOf(s)) + 1, at |-> t]}
    PROVE  LET new == [sub |-> s, n |-> Cardinality(EventsOf(s)) + 1, at |-> t]
           IN /\ Cardinality(EventsOf(s)) \in Nat
              /\ EventsOf(s)' = EventsOf(s) \cup {new} /\ new \notin events
              /\ IsFiniteSet(EventsOf(s)')
              /\ Cardinality(EventsOf(s)') = Cardinality(EventsOf(s)) + 1
              /\ \A q \in Subs \ {s} : EventsOf(q)' = EventsOf(q)
<1> DEFINE new == [sub |-> s, n |-> Cardinality(EventsOf(s)) + 1, at |-> t]
<1>1. IsFiniteSet(EventsOf(s)) /\ Cardinality(EventsOf(s)) \in Nat
  BY FS_CardinalityType DEF EventsNumbered
<1>2. \A e \in EventsOf(s) : e.n \in Nat /\ e.n <= Cardinality(EventsOf(s))
  BY BillingAssumption DEF EventsNumbered, EventsOf, TypeInv, TypeOK, Event
<1>3. new.sub = s /\ new.n = Cardinality(EventsOf(s)) + 1
  OBVIOUS
<1>4. new \notin EventsOf(s)
  <2> SUFFICES ASSUME new \in EventsOf(s) PROVE FALSE
    OBVIOUS
  <2>1. new.n <= Cardinality(EventsOf(s))
    BY <1>2
  <2> QED BY <1>1, <1>3, <2>1
<1>5. new \notin events
  BY <1>3, <1>4 DEF EventsOf
<1>6. /\ EventsOf(s)' = EventsOf(s) \cup {new}
      /\ \A q \in Subs \ {s} : EventsOf(q)' = EventsOf(q)
  BY <1>3 DEF EventsOf
<1>7. IsFiniteSet(EventsOf(s) \cup {new})
      /\ Cardinality(EventsOf(s) \cup {new}) = Cardinality(EventsOf(s)) + 1
  BY <1>1, <1>4, FS_AddElement
<1> QED BY <1>1, <1>5, <1>6, <1>7

\* A move of Stripe's keeps the numbering.
LEMMA MoveNumbers ==
    ASSUME TypeInv, EventsNumbered, NEW s \in Subs, StripeMove(s) PROVE EventsNumbered'
<1>1. \A e \in events : e.sub \in Subs
  BY DEF TypeInv, TypeOK, Event
<1>2. \A q \in Subs : stripe[q] \in Status => stripe'[q] \in Status
  BY MoveEmits
<1>3. CASE events' = events
  BY <1>1, <1>2, <1>3 DEF EventsNumbered, EventsOf
<1>4. CASE events' = events \cup {[sub |-> s, n |-> Cardinality(EventsOf(s)) + 1, at |-> Second(clock)]}
  <2> DEFINE new == [sub |-> s, n |-> Cardinality(EventsOf(s)) + 1, at |-> Second(clock)]
  <2>1. /\ Cardinality(EventsOf(s)) \in Nat
        /\ IsFiniteSet(EventsOf(s)')
        /\ Cardinality(EventsOf(s)') = Cardinality(EventsOf(s)) + 1
        /\ \A q \in Subs \ {s} : EventsOf(q)' = EventsOf(q)
    BY <1>4, NewEvent
  <2>2. new.sub = s /\ new.n = Cardinality(EventsOf(s)) + 1 /\ events' = events \cup {new}
    BY <1>4
  <2> HIDE DEF new
  <2>3. \A e \in events : e.n \in Nat /\ e.sub \in Subs /\ e.n <= Cardinality(EventsOf(e.sub))
    BY BillingAssumption DEF EventsNumbered, TypeInv, TypeOK, Event
  <2>4. \A q \in Subs : IsFiniteSet(EventsOf(q)')
    BY <2>1 DEF EventsNumbered
  <2>5. ASSUME NEW e \in events' PROVE e.n <= Cardinality(EventsOf(e.sub)') /\ stripe'[e.sub] \in Status
    <3>1. CASE e = new
      BY <2>1, <2>2, <3>1, MoveEmits
    <3>2. CASE e \in events /\ e.sub = s
      BY <2>1, <2>3, <3>2, MoveEmits
    <3>3. CASE e \in events /\ e.sub # s
      BY <1>2, <2>1, <2>3, <3>3 DEF EventsNumbered
    <3> QED BY <2>2, <3>1, <3>2, <3>3
  <2>6. ASSUME NEW e \in events', NEW f \in events', e.sub = f.sub, e.n = f.n PROVE e = f
    <3>1. ASSUME NEW g \in events, g.sub = s PROVE g.n # new.n
      BY <2>1, <2>2, <2>3, <3>1
    <3> QED BY <2>2, <2>6, <3>1 DEF EventsNumbered
  <2> QED BY <2>4, <2>5, <2>6 DEF EventsNumbered
<1> QED BY <1>3, <1>4, MoveEmits

\* What the other parts see of a step of a worker that writes nothing.
LEMMA QuietStep ==
    ASSUME BillingInv, NEW w \in Workers, NEW k, worker' = [worker EXCEPT ![w] = k],
           TypeInv', k.pc # "tx", UNCHANGED <<stripe, events, billing>>
    PROVE  BillingInv'
<1>1. \A v \in Workers : worker'[v].pc = "tx" => v # w /\ worker'[v] = worker[v]
  BY DEF BillingInv, TypeInv, TypeOK
<1>2. Claimed'
  BY <1>1 DEF BillingInv, Claimed, NoSecondApplication, billing
<1> QED BY <1>2 DEF BillingInv, EventsNumbered, EventsOf, EntitlementFollowsReference, billing

LEMMA InvTick == ASSUME BillingInv, Tick PROVE BillingInv'
<1>1. TypeInv'
  BY TypeTick DEF BillingInv
<1> QED BY <1>1 DEF BillingInv, Claimed, NoSecondApplication, EventsNumbered, EventsOf,
               EntitlementFollowsReference, Tick, billing

LEMMA InvMove == ASSUME BillingInv, NEW s \in Subs, StripeMove(s) PROVE BillingInv'
<1>1. Cardinality(EventsOf(s)) \in Nat
  BY FS_CardinalityType DEF BillingInv, EventsNumbered
<1>2. TypeInv'
  BY <1>1, TypeMove DEF BillingInv
<1>3. EventsNumbered'
  BY MoveNumbers DEF BillingInv
<1> QED BY <1>2, <1>3 DEF BillingInv, Claimed, NoSecondApplication, EntitlementFollowsReference,
                      StripeMove, billing

\* Stripe's delivery names an event Stripe has emitted.
LEMMA InvDeliver ==
    ASSUME BillingInv, NEW w \in Workers, NEW e \in events, Deliver(w, e) PROVE BillingInv'
<1> DEFINE k == [Free EXCEPT !.pc = "fetch", !.id = EventId(e), !.sub = e.sub, !.at = e.at]
<1>1. e \in Event
  BY DEF BillingInv, TypeInv, TypeOK
<1>2. EventId(e) \in Ids
  BY <1>1 DEF Event, EventId, Ids
<1>3. k \in WorkerType /\ k.pc = "fetch" /\ k.sub \in Subs /\ k.id \in Ids
  BY <1>1, <1>2, BillingAssumption DEF Event, Free, WorkerType, StripeStatus
<1>4. w \in Handlers /\ worker' = [worker EXCEPT ![w] = k] /\ UNCHANGED <<clock, stripe, events, billing>>
  BY DEF Deliver
<1> HIDE DEF k
<1>5. TypeInv'
  BY <1>3, <1>4, TypeWorks DEF BillingInv, TypeInv, TypeOK, billing
<1> QED BY <1>3, <1>4, <1>5, QuietStep

LEMMA InvStart ==
    ASSUME BillingInv, NEW w \in Workers, NEW s \in Subs, StartReconciliation(w, s) PROVE BillingInv'
<1> DEFINE k == [Free EXCEPT !.pc = "fetch", !.sub = s]
<1>1. k \in WorkerType /\ k.pc = "fetch" /\ k.sub = s
  <2>1. Free \in WorkerType
    BY BillingAssumption DEF Free, WorkerType, StripeStatus
  <2> QED BY <2>1 DEF WorkerType
<1>2. /\ worker' = [worker EXCEPT ![w] = k] /\ UNCHANGED <<clock, stripe, events, billing>>
      /\ w \in Reconcilers /\ stripe[s] \in Status
  BY DEF StartReconciliation, BillingInv, TypeInv, TypeOK, StripeStatus
<1>3. w \notin Handlers
  BY <1>2, BillingAssumption
<1> HIDE DEF k
<1>4. TypeInv'
  BY <1>1, <1>2, <1>3, TypeWorks DEF BillingInv, TypeInv, TypeOK, billing
<1> QED BY <1>1, <1>2, <1>4, QuietStep

\* The authoritative read gives a reconciliation the id to claim.
LEMMA InvFetch ==
    ASSUME BillingInv, NEW w \in Workers, Fetch(w) PROVE BillingInv'
<1> DEFINE s == worker[w].sub
           k == [worker[w] EXCEPT !.pc = "begin", !.snap = stripe[s],
                    !.id = IF w \in Handlers THEN worker[w].id ELSE ReconciliationEventId(s, stripe[s])]
<1>1. worker[w] \in WorkerType /\ stripe \in [Subs -> StripeStatus]
  BY DEF BillingInv, TypeInv, TypeOK, WorkerType
<1>2. /\ s \in Subs
      /\ w \in Handlers => worker[w].id \in Ids
      /\ w \notin Handlers => stripe[s] \in Status
  BY DEF BillingInv, TypeInv, KnowsItsEvent, Fetch
<1>3. ReconciliationEventId(s, stripe[s]) \in Ids \/ w \in Handlers
  BY <1>2 DEF ReconciliationEventId, Ids
<1>4. k \in WorkerType /\ k.pc = "begin" /\ k.sub \in Subs /\ k.id \in Ids
  BY <1>1, <1>2, <1>3 DEF WorkerType
<1>5. worker' = [worker EXCEPT ![w] = k] /\ UNCHANGED <<clock, stripe, events, billing>>
  BY DEF Fetch, BillingInv, TypeInv, TypeOK
<1> HIDE DEF k, s
<1>6. TypeInv'
  BY <1>4, <1>5, TypeWorks DEF BillingInv, TypeInv, TypeOK, billing
<1> QED BY <1>4, <1>5, <1>6, QuietStep

\* The transaction begins: an id in the ledger ends it, any other is claimed by it alone.
LEMMA InvBegin ==
    ASSUME BillingInv, NEW w \in Workers, Begin(w, TRUE, TRUE) PROVE BillingInv'
<1>1. /\ worker \in [Workers -> WorkerType] /\ clock \in 0..MaxClock
      /\ UNCHANGED <<clock, stripe, events, billing>>
      /\ worker[w].pc = "begin" /\ worker[w].sub \in Subs /\ worker[w].id \in Ids
  BY DEF BillingInv, TypeInv, TypeOK, WorkerType, KnowsItsEvent, Begin
<1>2. CASE worker' = [worker EXCEPT ![w] = Free]
  <2>1. Free \in WorkerType /\ Free.pc = "idle"
    BY BillingAssumption DEF Free, WorkerType, StripeStatus
  <2>2. TypeInv'
    BY <1>1, <1>2, <2>1, TypeWorks DEF BillingInv, TypeInv, TypeOK, billing
  <2> QED BY <1>1, <1>2, <2>1, <2>2, QuietStep
<1>3. CASE worker[w].id \notin ledger
  <2> DEFINE k == [worker[w] EXCEPT !.pc = "tx", !.at = IF w \in Handlers THEN worker[w].at ELSE clock,
                                    !.exists = TRUE, !.grantable = TRUE]
  <2>1. k \in WorkerType /\ k.pc = "tx" /\ k.sub \in Subs /\ k.id \in Ids /\ k.id = worker[w].id /\ k.grantable
    BY <1>1 DEF WorkerType
  <2>2. worker' = [worker EXCEPT ![w] = k] \/ worker' = [worker EXCEPT ![w] = Free]
    BY <1>1 DEF Begin
  <2> HIDE DEF k
  <2>3. CASE worker' = [worker EXCEPT ![w] = k]
    <3>1. TypeInv'
      BY <1>1, <2>1, <2>3, TypeWorks DEF BillingInv, TypeInv, TypeOK, billing
    <3>2. worker'[w] = k /\ \A v \in Workers \ {w} : worker'[v] = worker[v]
      BY <1>1, <2>3
    <3>3. \A v \in Workers \ {w} : worker[v].pc = "tx" => worker[v].id # worker[w].id
      BY DEF Begin, ClaimFree
    <3>4. Claimed'
      BY <1>1, <1>3, <2>1, <3>2, <3>3 DEF BillingInv, Claimed, NoSecondApplication, billing
    <3> QED BY <1>1, <3>1, <3>4 DEF BillingInv, EventsNumbered, EventsOf, EntitlementFollowsReference, billing
  <2> QED BY <1>2, <2>2, <2>3
<1> QED BY <1>2, <1>3 DEF Begin

\* The commit: the row, the entitlement that follows it and the claim, together.
LEMMA InvCommit ==
    ASSUME BillingInv, NEW w \in Workers, Commit(w) PROVE BillingInv'
<1> DEFINE k == worker[w]
<1>1. /\ k \in WorkerType /\ k.pc = "tx" /\ k.sub \in Subs /\ k.id \in Ids /\ k.grantable
      /\ worker \in [Workers -> WorkerType]
  BY DEF BillingInv, TypeInv, TypeOK, WorkerType, KnowsItsEvent, Claimed, Commit
<1>2. Free \in WorkerType /\ Free.pc = "idle"
  BY BillingAssumption DEF Free, WorkerType, StripeStatus
<1>3. /\ worker' = [worker EXCEPT ![w] = Free] /\ UNCHANGED <<clock, stripe, events>>
      /\ ledger' = ledger \cup {k.id}
  BY DEF Commit
<1>4. \/ UNCHANGED <<stored, entitlement, reference>>
      \/ \E d \in BOOLEAN :
           /\ stored' = [stored EXCEPT ![k.sub] = [status |-> k.snap, at |-> k.at, detached |-> d]]
           /\ entitlement' = IF StatusEntitles(k.snap) THEN "active" ELSE "inactive"
           /\ reference' = k.sub
  <2>1. CASE Applies(w)
    <3>1. stored[k.sub].detached \in BOOLEAN
      BY <1>1 DEF BillingInv, TypeInv, TypeOK
    <3>2. (stored[k.sub].detached \/ ~k.exists) \in BOOLEAN
      OBVIOUS
    <3> QED BY <1>1, <2>1, <3>2 DEF Commit
  <2>2. CASE ~Applies(w)
    BY <2>2 DEF Commit
  <2> QED BY <2>1, <2>2
<1> HIDE DEF k
<1>5. stored' \in [Subs -> [status : StripeStatus, at : 0..MaxClock, detached : BOOLEAN]]
  BY <1>1, <1>4 DEF BillingInv, TypeInv, TypeOK, WorkerType
<1>6. entitlement' \in {"none", "active", "inactive"} /\ reference' \in Subs \cup {NoSub}
  BY <1>1, <1>4 DEF BillingInv, TypeInv, TypeOK
<1>7. TypeInv'
  <2>1. ledger' \subseteq Ids
    BY <1>1, <1>3 DEF BillingInv, TypeInv, TypeOK
  <2> QED BY <1>2, <1>3, <1>5, <1>6, <2>1, TypeWorks DEF BillingInv
<1>8. Claimed'
  <2>1. \A v \in Workers : worker'[v].pc = "tx" =>
           v # w /\ worker'[v] = worker[v] /\ worker[v].pc = "tx" /\ worker[v].id # k.id
    BY <1>1, <1>2, <1>3 DEF BillingInv, Claimed, k
  <2> QED BY <1>3, <2>1 DEF BillingInv, Claimed, NoSecondApplication
<1>9. EntitlementFollowsReference'
  <2>1. CASE UNCHANGED <<stored, entitlement, reference>>
    BY <2>1 DEF BillingInv, EntitlementFollowsReference
  <2>2. ASSUME NEW d \in BOOLEAN,
           stored' = [stored EXCEPT ![k.sub] = [status |-> k.snap, at |-> k.at, detached |-> d]],
           entitlement' = IF StatusEntitles(k.snap) THEN "active" ELSE "inactive",
           reference' = k.sub
        PROVE EntitlementFollowsReference'
    <3>1. stored'[k.sub].status = k.snap
      BY <1>1, <2>2 DEF BillingInv, TypeInv, TypeOK
    <3> QED BY <2>2, <3>1 DEF EntitlementFollowsReference, StatusEntitles
  <2> QED BY <1>4, <2>1, <2>2
<1> QED BY <1>3, <1>7, <1>8, <1>9 DEF BillingInv, EventsNumbered, EventsOf

\* A failure anywhere leaves nothing behind.
LEMMA InvFails ==
    ASSUME BillingInv, NEW w \in Workers, Fails(w) PROVE BillingInv'
<1>1. Free \in WorkerType /\ Free.pc = "idle"
  BY BillingAssumption DEF Free, WorkerType, StripeStatus
<1>2. worker' = [worker EXCEPT ![w] = Free] /\ UNCHANGED <<clock, stripe, events, billing>>
  BY DEF Fails
<1>3. TypeInv'
  BY <1>1, <1>2, TypeWorks DEF BillingInv, TypeInv, TypeOK, billing
<1> QED BY <1>1, <1>2, <1>3, QuietStep

\* Every step keeps the invariant.
LEMMA InvStep == BillingInv /\ [Next]_vars => BillingInv'
<1> SUFFICES ASSUME BillingInv, [Next]_vars PROVE BillingInv'
  OBVIOUS
<1>1. CASE UNCHANGED vars
  BY <1>1 DEF vars, billing, BillingInv, TypeInv, TypeOK, KnowsItsEvent, Claimed, NoSecondApplication,
              EventsNumbered, EventsOf, EntitlementFollowsReference
<1>2. ASSUME NEW w \in Workers, Works(w) PROVE BillingInv'
  BY <1>2, InvDeliver, InvStart, InvFetch, InvBegin, InvCommit, InvFails DEF Works
<1> QED BY <1>1, <1>2, InvTick, InvMove DEF Next

LEMMA InvAlways == Spec => []BillingInv
BY InvInitially, InvStep, PTL DEF Spec

\* The rows, the ledger and the handlers keep their shapes.
THEOREM BillingTypeCorrect == Spec => []TypeOK
BY InvAlways, PTL DEF BillingInv, TypeInv

\* claimEvent inside the transaction: of any number of deliveries of one event at once, at
\* most one has an effect.
THEOREM AppliedOnce == Spec => []NoSecondApplication
BY InvAlways, PTL DEF BillingInv, Claimed

\* applySubscriptionEvent writes the row and the entitlement in one transaction, and a stale
\* event writes neither: access is what the stored status of its subscription gives.
THEOREM AccessFollowsItsRow == Spec => []EntitlementFollowsReference
BY InvAlways, PTL DEF BillingInv

-----------------------------------------------------------------------------
(* The latest event decides, where seconds tell a subscription's events apart and only     *)
(* webhooks write.                                                                         *)

\* Later events are of later seconds, and no second lies ahead of the clock.
EventsDated ==
    /\ \A e \in events : e.at <= Second(clock)
    /\ \A e, f \in events : e.sub = f.sub /\ e.n < f.n => e.at < f.at

\* A handler works for an event; if no change of its subscription has come since, what it
\* fetched is what Stripe holds.
WorksFor(w, e) ==
    LET k == worker[w]
    IN /\ k.id = EventId(e) /\ k.sub = e.sub /\ k.at = e.at
       /\ k.pc \in {"begin", "tx"} /\ e.n = Cardinality(EventsOf(e.sub)) => k.snap = stripe[e.sub]

HandlersWork == \A w \in Workers : worker[w].pc # "idle" => \E e \in events : WorksFor(w, e)

\* No event that has not been emitted is processed; the row is never dated ahead of the
\* latest event, and from that event's processing on it is that event's.
RowsFollow ==
    /\ \A s \in Subs, n \in Nat : <<s, n, "event">> \in ledger => n <= Cardinality(EventsOf(s))
    /\ \A s \in Subs : stored[s].at <= Second(clock)
    /\ \A e \in events : e.n = Cardinality(EventsOf(e.sub)) =>
         /\ stored[e.sub].at <= e.at
         /\ EventId(e) \in ledger => stored[e.sub].status = stripe[e.sub] /\ stored[e.sub].at = e.at

LatestInv == BillingInv /\ EventsDated /\ HandlersWork /\ RowsFollow

\* What the types give of the numbers that are compared.
LEMMA Numbers ==
    ASSUME BillingInv
    PROVE  /\ clock \in Nat /\ Second(clock) \in Nat
           /\ \A e \in events : /\ e \in Event /\ e.sub \in Subs /\ e.n \in Nat /\ e.at \in Nat
                                 /\ e.n <= Cardinality(EventsOf(e.sub))
           /\ \A s \in Subs : Cardinality(EventsOf(s)) \in Nat /\ stored[s].at \in Nat
<1>1. clock \in Nat
  BY BillingAssumption DEF BillingInv, TypeInv, TypeOK
<1>2. \A e \in events : e \in Event /\ e.sub \in Subs /\ e.n \in Nat /\ e.at \in Nat
  BY BillingAssumption DEF BillingInv, TypeInv, TypeOK, Event
<1>3. \A s \in Subs : stored[s].at \in Nat
  BY BillingAssumption DEF BillingInv, TypeInv, TypeOK
<1> QED BY <1>1, <1>2, <1>3, SecondBounds, FS_CardinalityType DEF BillingInv, EventsNumbered

LEMMA LatestInitially == Init => LatestInv
<1> SUFFICES ASSUME Init PROVE LatestInv
  OBVIOUS
<1>1. Second(0) \in Nat
  BY SecondBounds
<1> QED BY <1>1, InvInitially DEF Init, LatestInv, EventsDated, HandlersWork, RowsFollow, Free

\* Time passes: seconds that have begun stay begun.
LEMMA LatestTick == ASSUME LatestInv, Tick PROVE LatestInv'
<1>1. /\ clock \in Nat /\ Second(clock) <= Second(clock + 1) /\ Second(clock + 1) \in Nat
      /\ Second(clock) \in Nat
  BY Numbers, SecondMonotone, SecondBounds DEF LatestInv
<1>2. Second(clock)' = Second(clock + 1)
  BY DEF Tick, Second
<1>3. BillingInv'
  BY InvTick DEF LatestInv
<1>4. UNCHANGED <<stripe, events, ledger, stored, worker>>
  BY DEF Tick, billing
<1>5. EventsDated'
  BY <1>1, <1>2, <1>4, Numbers DEF LatestInv, EventsDated
<1>6. HandlersWork'
  BY <1>4 DEF LatestInv, HandlersWork, WorksFor, EventsOf
<1>7. RowsFollow'
  <2>1. \A s \in Subs : stored[s].at \in Nat /\ stored[s].at <= Second(clock)
    BY Numbers DEF LatestInv, RowsFollow
  <2>2. \A s \in Subs : stored[s].at <= Second(clock + 1)
    BY <1>1, <2>1
  <2> QED BY <1>2, <1>4, <2>2 DEF LatestInv, RowsFollow, EventsOf, EventId
<1> QED BY <1>3, <1>5, <1>6, <1>7 DEF LatestInv

\* A change of Stripe's has an event later than every other, which nobody works for yet.
LEMMA LatestMove == ASSUME LatestInv, Spaced, NEW s \in Subs, StripeMove(s) PROVE LatestInv'
<1>1. BillingInv'
  BY InvMove DEF LatestInv
<1>2. UNCHANGED <<clock, ledger, stored, worker>> /\ Second(clock)' = Second(clock)
  BY DEF StripeMove, billing, Second
<1>3. CASE stripe' = stripe /\ events' = events
  BY <1>1, <1>2, <1>3 DEF LatestInv, EventsDated, HandlersWork, WorksFor, RowsFollow, EventsOf
<1>4. CASE /\ \A e \in EventsOf(s) : e.at # Second(clock)
           /\ events' = events \cup {[sub |-> s, n |-> Cardinality(EventsOf(s)) + 1, at |-> Second(clock)]}
  <2>0. \A e \in events : e.sub = s => e.at < Second(clock)
    <3> SUFFICES ASSUME NEW e \in events, e.sub = s PROVE e.at < Second(clock)
      OBVIOUS
    <3>1. e.at # Second(clock)
      BY <1>4 DEF EventsOf
    <3>2. e.at <= Second(clock) /\ e.at \in Nat /\ Second(clock) \in Nat
      BY Numbers DEF LatestInv, EventsDated
    <3> QED BY <3>1, <3>2
  <2> DEFINE new == [sub |-> s, n |-> Cardinality(EventsOf(s)) + 1, at |-> Second(clock)]
             n(q) == Cardinality(EventsOf(q))
  <2>1. /\ n(s) \in Nat /\ n(s)' = n(s) + 1
        /\ \A q \in Subs \ {s} : n(q)' = n(q)
    BY <1>4, NewEvent DEF LatestInv, BillingInv
  <2>2. new.sub = s /\ new.n = n(s) + 1 /\ new.at = Second(clock) /\ events' = events \cup {new}
    BY <1>4
  <2>3. \A q \in Subs \ {s} : stripe'[q] = stripe[q]
    BY MoveEmits DEF LatestInv, BillingInv
  <2>4. /\ Second(clock) \in Nat
        /\ \A e \in events : e.sub \in Subs /\ e.n \in Nat /\ e.at \in Nat /\ e.n <= n(e.sub)
    BY Numbers DEF LatestInv
  <2> HIDE DEF new, n
  <2>6. EventsDated'
    BY <1>2, <2>0, <2>1, <2>2, <2>4 DEF LatestInv, EventsDated
  <2>7. \A e \in events : e.n = n(e.sub)' => e.sub # s /\ e.n = n(e.sub)
    BY <2>1, <2>4
  <2>8. HandlersWork'
    <3> SUFFICES ASSUME NEW w \in Workers, worker[w].pc # "idle"
                 PROVE  \E e \in events' : WorksFor(w, e)'
      BY <1>2 DEF HandlersWork
    <3>1. PICK e \in events : WorksFor(w, e)
      BY DEF LatestInv, HandlersWork
    <3>2. WorksFor(w, e)'
      BY <1>2, <2>3, <2>4, <2>7, <3>1 DEF WorksFor, n
    <3> QED BY <2>2, <3>2
  <2>9. RowsFollow'
    <3>1. ASSUME NEW q \in Subs, NEW i \in Nat, <<q, i, "event">> \in ledger PROVE i <= n(q)'
      BY <2>1, <3>1, Numbers DEF LatestInv, RowsFollow, n
    <3>2. ASSUME NEW e \in events', e.n = n(e.sub)'
          PROVE /\ stored[e.sub].at <= e.at
                /\ EventId(e) \in ledger => stored[e.sub].status = stripe'[e.sub] /\ stored[e.sub].at = e.at
      <4>1. CASE e = new
        <5>1. stored[s].at <= Second(clock)
          BY DEF LatestInv, RowsFollow
        <5>2. EventId(new) \notin ledger
          <6> SUFFICES ASSUME EventId(new) \in ledger PROVE FALSE
            OBVIOUS
          <6>1. <<s, n(s) + 1, "event">> \in ledger
            BY <2>2 DEF EventId
          <6>2. n(s) + 1 <= n(s)
            BY <2>1, <6>1 DEF LatestInv, RowsFollow, n
          <6> QED BY <2>1, <6>2
        <5> QED BY <2>2, <4>1, <5>1, <5>2
      <4>2. CASE e \in events
        BY <2>3, <2>4, <2>7, <3>2, <4>2 DEF LatestInv, RowsFollow, n
      <4> QED BY <2>2, <4>1, <4>2
    <3> QED BY <1>2, <3>1, <3>2 DEF LatestInv, RowsFollow, n
  <2> QED BY <1>1, <2>6, <2>8, <2>9 DEF LatestInv
<1> QED BY <1>3, <1>4, MoveEmits DEF LatestInv, BillingInv

\* A step of worker w that leaves the rows and the ledger alone.
LEMMA LatestQuiet ==
    ASSUME LatestInv, BillingInv', NEW w \in Workers, NEW k,
           worker' = [worker EXCEPT ![w] = k], UNCHANGED <<clock, stripe, events, billing>>,
           k.pc # "idle" => \E e \in events : WorksFor(w, e)'
    PROVE  LatestInv'
<1>1. \A v \in Workers \ {w} : worker'[v] = worker[v]
  BY DEF LatestInv, BillingInv, TypeInv, TypeOK
<1>2. worker'[w] = k
  BY DEF LatestInv, BillingInv, TypeInv, TypeOK
<1>3. \A v \in Workers \ {w}, e \in events : WorksFor(v, e) => WorksFor(v, e)'
  BY <1>1 DEF WorksFor, EventsOf
<1>4. HandlersWork'
  BY <1>1, <1>2, <1>3 DEF LatestInv, HandlersWork
<1> QED BY <1>4 DEF LatestInv, EventsDated, RowsFollow, EventsOf, Second, billing

LEMMA LatestDeliver ==
    ASSUME LatestInv, NEW w \in Workers, NEW e \in events, Deliver(w, e) PROVE LatestInv'
<1>1. BillingInv'
  BY InvDeliver DEF LatestInv
<1> DEFINE k == [Free EXCEPT !.pc = "fetch", !.id = EventId(e), !.sub = e.sub, !.at = e.at]
<1>2. worker' = [worker EXCEPT ![w] = k] /\ UNCHANGED <<clock, stripe, events, billing>>
  BY DEF Deliver
<1>3. worker'[w] = k
  BY <1>2 DEF LatestInv, BillingInv, TypeInv, TypeOK
<1>4. k.pc = "fetch" /\ k.id = EventId(e) /\ k.sub = e.sub /\ k.at = e.at
  BY DEF Free
<1> HIDE DEF k
<1>5. WorksFor(w, e)'
  BY <1>3, <1>4 DEF WorksFor, EventId
<1> QED BY <1>1, <1>2, <1>5, LatestQuiet

LEMMA LatestFetch ==
    ASSUME LatestInv, NEW w \in Handlers, Fetch(w) PROVE LatestInv'
<1>1. BillingInv' /\ w \in Workers
  BY InvFetch DEF LatestInv, Workers
<1> DEFINE k == [worker[w] EXCEPT !.pc = "begin", !.snap = stripe[worker[w].sub]]
<1>2. worker[w] \in WorkerType /\ worker \in [Workers -> WorkerType]
  BY <1>1 DEF LatestInv, BillingInv, TypeInv, TypeOK, WorkerType
<1>3. worker' = [worker EXCEPT ![w] = k] /\ UNCHANGED <<clock, stripe, events, billing>>
  BY <1>2 DEF Fetch, WorkerType
<1>4. k.pc = "begin" /\ k.id = worker[w].id /\ k.sub = worker[w].sub /\ k.at = worker[w].at
      /\ k.snap = stripe[worker[w].sub]
  BY <1>2 DEF WorkerType
<1> HIDE DEF k
<1>5. PICK e \in events : WorksFor(w, e)
  BY <1>1 DEF LatestInv, HandlersWork, Fetch
<1>6. WorksFor(w, e)'
  BY <1>1, <1>2, <1>3, <1>4, <1>5 DEF WorksFor, EventId, EventsOf
<1> QED BY <1>1, <1>3, <1>6, LatestQuiet

LEMMA LatestBegin ==
    ASSUME LatestInv, NEW w \in Handlers, Begin(w, TRUE, TRUE) PROVE LatestInv'
<1>1. BillingInv' /\ w \in Workers
  BY InvBegin DEF LatestInv, Workers
<1>2. worker[w] \in WorkerType /\ worker \in [Workers -> WorkerType] /\ UNCHANGED <<clock, stripe, events, billing>>
  BY <1>1 DEF LatestInv, BillingInv, TypeInv, TypeOK, WorkerType, Begin
<1>3. CASE worker' = [worker EXCEPT ![w] = Free]
  BY <1>1, <1>2, <1>3, LatestQuiet DEF Free
<1> DEFINE k == [worker[w] EXCEPT !.pc = "tx", !.at = worker[w].at, !.exists = TRUE, !.grantable = TRUE]
<1>4. CASE worker' = [worker EXCEPT ![w] = k]
  <2>1. k.pc = "tx" /\ k.id = worker[w].id /\ k.sub = worker[w].sub /\ k.at = worker[w].at
        /\ k.snap = worker[w].snap
    BY <1>2 DEF WorkerType
  <2> HIDE DEF k
  <2>2. PICK e \in events : WorksFor(w, e)
    BY <1>1 DEF LatestInv, HandlersWork, Begin
  <2>3. worker[w].pc = "begin"
    BY DEF Begin
  <2>4. WorksFor(w, e)'
    BY <1>1, <1>2, <1>4, <2>1, <2>2, <2>3 DEF WorksFor, EventId, EventsOf
  <2> QED BY <1>1, <1>2, <1>4, <2>4, LatestQuiet
<1>5. worker' = [worker EXCEPT ![w] = Free] \/ worker' = [worker EXCEPT ![w] = k]
  BY <1>2 DEF Begin, WorkerType
<1> QED BY <1>3, <1>4, <1>5

\* A commit for the latest event makes the row Stripe's; one for an older event finds the row
\* newer once the latest is in, and leaves it.
LEMMA LatestCommit ==
    ASSUME LatestInv, NEW w \in Handlers, Commit(w) PROVE LatestInv'
<1> DEFINE k == worker[w]
<1>1. BillingInv' /\ w \in Workers
  BY InvCommit DEF LatestInv, Workers
<1>2. PICK e \in events : WorksFor(w, e)
  BY <1>1 DEF LatestInv, HandlersWork, Commit
<1>3. /\ k \in WorkerType /\ k.pc = "tx" /\ k.sub \in Subs
      /\ worker' = [worker EXCEPT ![w] = Free] /\ UNCHANGED <<clock, stripe, events>>
      /\ ledger' = ledger \cup {k.id} /\ worker \in [Workers -> WorkerType]
      /\ stored \in [Subs -> [status : StripeStatus, at : 0..MaxClock, detached : BOOLEAN]]
  BY <1>1 DEF LatestInv, BillingInv, TypeInv, TypeOK, WorkerType, KnowsItsEvent, Commit
<1>4. k.id = EventId(e) /\ k.sub = e.sub /\ k.at = e.at
  BY <1>2 DEF WorksFor
<1>5. e.n = Cardinality(EventsOf(e.sub)) => k.snap = stripe[e.sub]
  BY <1>2, <1>3 DEF WorksFor
<1>6. IF Applies(w)
      THEN /\ \A q \in Subs \ {e.sub} : stored'[q] = stored[q]
           /\ stored'[e.sub].status = k.snap /\ stored'[e.sub].at = e.at
      ELSE stored' = stored
  BY <1>3, <1>4 DEF Commit
<1>7. Applies(w) <=> stored[e.sub].status = "none" \/ e.at >= stored[e.sub].at
  BY <1>4 DEF Applies
<1>8. /\ Second(clock) \in Nat
      /\ \A f \in events : /\ f.sub \in Subs /\ f.n \in Nat /\ f.at \in Nat
                            /\ f.n <= Cardinality(EventsOf(f.sub))
      /\ \A q \in Subs : Cardinality(EventsOf(q)) \in Nat /\ stored[q].at \in Nat
  BY Numbers DEF LatestInv
<1> HIDE DEF k
<1>9. HandlersWork'
  <2>1. \A v \in Workers : worker'[v].pc # "idle" => worker'[v] = worker[v] /\ worker[v].pc # "idle"
    BY <1>1, <1>3 DEF Free
  <2>2. \A v \in Workers, f \in events : worker'[v] = worker[v] /\ WorksFor(v, f) => WorksFor(v, f)'
    BY <1>3 DEF WorksFor, EventsOf
  <2> QED BY <1>3, <2>1, <2>2 DEF LatestInv, HandlersWork
<1>10. \A q \in Subs, i \in Nat : <<q, i, "event">> \in ledger' => i <= Cardinality(EventsOf(q))
  BY <1>3, <1>4, <1>8 DEF LatestInv, RowsFollow, EventId
<1>11. \A q \in Subs : stored'[q].at <= Second(clock)
  BY <1>6, <1>8 DEF LatestInv, RowsFollow, EventsDated
<1>12. ASSUME NEW f \in events, f.n = Cardinality(EventsOf(f.sub))
       PROVE /\ stored'[f.sub].at <= f.at
             /\ EventId(f) \in ledger' => stored'[f.sub].status = stripe[f.sub] /\ stored'[f.sub].at = f.at
  <2>1. /\ stored[f.sub].at <= f.at
        /\ EventId(f) \in ledger => stored[f.sub].status = stripe[f.sub] /\ stored[f.sub].at = f.at
    BY <1>12 DEF LatestInv, RowsFollow
  <2>2. CASE f = e
    <3>1. Applies(w)
      BY <1>7, <1>8, <2>1, <2>2
    <3> QED BY <1>5, <1>6, <1>8, <1>12, <2>2, <3>1
  <2>3. CASE f.sub = e.sub /\ f # e
    <3>1. e.n < f.n
      <4>1. e.n # f.n
        BY <2>3 DEF LatestInv, BillingInv, EventsNumbered
      <4>2. e.n <= f.n
        BY <1>8, <1>12, <2>3
      <4> QED BY <1>8, <4>1, <4>2
    <3>2. e.at < f.at
      BY <2>3, <3>1 DEF LatestInv, EventsDated
    <3>3. EventId(f) \in ledger' => EventId(f) \in ledger
      BY <1>3, <1>4, <1>8, <3>1 DEF EventId
    <3>4. stripe[f.sub] \in Status /\ "none" \notin Status
      BY DEF LatestInv, BillingInv, EventsNumbered, Status
    <3>5. CASE Applies(w)
      <4>1. EventId(f) \notin ledger
        <5> SUFFICES ASSUME EventId(f) \in ledger PROVE FALSE
          OBVIOUS
        <5> QED BY <1>7, <1>8, <2>1, <2>3, <3>2, <3>4, <3>5
      <4> QED BY <1>6, <1>8, <2>3, <3>2, <3>3, <3>5, <4>1
    <3> QED BY <1>6, <2>1, <3>3, <3>5
  <2>4. CASE f.sub # e.sub
    <3>1. stored'[f.sub] = stored[f.sub]
      BY <1>6, <1>8, <2>4
    <3>2. EventId(f) \in ledger' => EventId(f) \in ledger
      BY <1>3, <1>4, <2>4 DEF EventId
    <3> QED BY <2>1, <3>1, <3>2
  <2> QED BY <2>2, <2>3, <2>4
<1>13. RowsFollow'
  BY <1>3, <1>10, <1>11, <1>12 DEF RowsFollow, EventsOf, Second, EventId
<1> QED BY <1>1, <1>3, <1>9, <1>13 DEF LatestInv, EventsDated, Second

LEMMA LatestFails ==
    ASSUME LatestInv, NEW w \in Workers, Fails(w) PROVE LatestInv'
BY InvFails, LatestQuiet DEF LatestInv, Fails, Free

\* With webhooks alone, every step keeps it.
LEMMA LatestStep ==
    ASSUME Spaced, Reconcilers = {}
    PROVE  LatestInv /\ [Next]_vars => LatestInv'
<1> SUFFICES ASSUME LatestInv, [Next]_vars PROVE LatestInv'
  OBVIOUS
<1>1. CASE UNCHANGED vars
  <2>1. BillingInv'
    BY <1>1, InvStep DEF LatestInv
  <2> QED BY <1>1, <2>1 DEF vars, billing, LatestInv, EventsDated, HandlersWork, WorksFor, RowsFollow,
                            EventsOf, Second
<1>2. ASSUME NEW w \in Workers, Works(w) PROVE LatestInv'
  <2>1. w \in Handlers /\ w \notin Reconcilers
    BY DEF Workers
  <2>2. ~ \E s \in Subs : StartReconciliation(w, s)
    BY <2>1 DEF StartReconciliation
  <2> QED BY <1>2, <2>1, <2>2, LatestDeliver, LatestFetch, LatestBegin, LatestCommit, LatestFails DEF Works
<1> QED BY <1>1, <1>2, LatestTick, LatestMove DEF Next

\* UPSERT_SUBSCRIPTION_SQL dates the row by the event and processStripeEvent fills it from a
\* fresh read: whatever is delivered twice, late or after a failure, once the latest event of
\* a subscription is processed the row is what Stripe holds.
THEOREM LatestDecides ==
    ASSUME Spaced, Reconcilers = {}
    PROVE  Spec => []LatestEventSettles
<1>1. LatestInv => LatestEventSettles
  BY DEF LatestInv, RowsFollow, LatestEventSettles, Settled, Latest, EventsOf
<1> QED BY <1>1, LatestInitially, LatestStep, PTL DEF Spec

-----------------------------------------------------------------------------
(* Nothing left to process.  A subscription Stripe holds was announced, a  *)
(* row was announced and gave or took access, and there is no access but   *)
(* by a subscription: so once all is processed, the rows are Stripe's, and *)
(* where the account has had one subscription, so is the access.           *)

AnnouncedInv ==
    /\ \A s \in Subs : stripe[s] # "none" => Latest(s) # {}
    /\ \A s \in Subs : stored[s].status # "none" => stripe[s] # "none" /\ reference # NoSub
    /\ entitlement = "active" => reference # NoSub

SettledInv == LatestInv /\ AnnouncedInv

LEMMA AnnouncedInitially == Init => AnnouncedInv
BY DEF Init, AnnouncedInv

\* Stripe's move announces itself, and leaves the other subscriptions' events.
LEMMA AnnouncedMove ==
    ASSUME SettledInv, NEW s \in Subs, StripeMove(s) PROVE AnnouncedInv'
<1>1. BillingInv /\ TypeInv /\ EventsNumbered /\ UNCHANGED <<stored, entitlement, reference>>
  BY DEF SettledInv, LatestInv, BillingInv, StripeMove, billing
<1>2. stripe'[s] \in Status /\ \A q \in Subs \ {s} : stripe'[q] = stripe[q]
  BY <1>1, MoveEmits
<1>3. stripe'[s] # "none"
  BY <1>2 DEF Status
<1>4. CASE stripe' = stripe /\ events' = events
  BY <1>1, <1>4 DEF SettledInv, AnnouncedInv, Latest, EventsOf
<1>5. CASE events' = events \cup {[sub |-> s, n |-> Cardinality(EventsOf(s)) + 1, at |-> Second(clock)]}
  <2> DEFINE new == [sub |-> s, n |-> Cardinality(EventsOf(s)) + 1, at |-> Second(clock)]
  <2>1. EventsOf(s)' = EventsOf(s) \cup {new}
    BY <1>5 DEF EventsOf
  <2>2. Cardinality(EventsOf(s))' = Cardinality(EventsOf(s)) + 1
    BY <1>1, <1>5, NewEvent
  <2>3. new \in Latest(s)'
    BY <2>1, <2>2 DEF Latest
  <2>4. ASSUME NEW q \in Subs, q # s PROVE Latest(q)' = Latest(q)
    <3>1. new.sub # q
      BY <2>4
    <3>2. EventsOf(q)' = EventsOf(q)
      BY <1>5, <3>1, Zenon DEF EventsOf
    <3> QED
      BY <3>2 DEF Latest
  <2> QED
    BY <1>1, <1>2, <1>3, <2>3, <2>4 DEF SettledInv, AnnouncedInv
<1> QED
  BY <1>1, <1>4, <1>5, MoveEmits

\* A commit is of an event, whose subscription Stripe holds.
LEMMA AnnouncedCommit ==
    ASSUME SettledInv, NEW w \in Workers, Commit(w) PROVE AnnouncedInv'
<1> DEFINE k == worker[w]
<1>1. /\ k.pc = "tx" /\ k.sub \in Subs /\ k.grantable /\ NoSub \notin Subs
      /\ UNCHANGED <<stripe, events>>
  BY BillingAssumption
     DEF SettledInv, LatestInv, BillingInv, TypeInv, KnowsItsEvent, Claimed, Commit
<1>2. stripe[k.sub] # "none"
  <2>1. PICK e \in events : WorksFor(w, e)
    BY <1>1 DEF SettledInv, LatestInv, HandlersWork
  <2>2. stripe[e.sub] \in Status /\ e.sub = k.sub
    BY <2>1 DEF SettledInv, LatestInv, BillingInv, EventsNumbered, WorksFor
  <2> QED
    BY <2>2 DEF Status
<1>3. \/ UNCHANGED <<stored, entitlement, reference>>
      \/ /\ \A q \in Subs \ {k.sub} : stored'[q] = stored[q]
         /\ reference' = k.sub
  BY <1>1 DEF Commit, Applies
<1>4. \A q \in Subs : Latest(q)' = Latest(q)
  BY <1>1 DEF Latest, EventsOf
<1> QED
  BY <1>1, <1>2, <1>3, <1>4 DEF SettledInv, AnnouncedInv

LEMMA SettledStep ==
    ASSUME Spaced, Reconcilers = {}
    PROVE  SettledInv /\ [Next]_vars => SettledInv'
<1> SUFFICES ASSUME SettledInv, [Next]_vars PROVE AnnouncedInv'
  BY LatestStep DEF SettledInv
<1>1. ASSUME UNCHANGED <<stripe, events, stored, entitlement, reference>> PROVE AnnouncedInv'
  BY <1>1 DEF SettledInv, AnnouncedInv, Latest, EventsOf
<1>2. ASSUME NEW w \in Workers, Works(w) PROVE AnnouncedInv'
  BY <1>1, <1>2, AnnouncedCommit DEF Works, Deliver, StartReconciliation, Fetch, Begin, Fails, billing
<1> QED
  BY <1>1, <1>2, AnnouncedMove DEF Next, Tick, vars, billing

LEMMA SettledAlways ==
    ASSUME Spaced, Reconcilers = {}
    PROVE  Spec => []SettledInv
<1>1. Init => SettledInv
  BY LatestInitially, AnnouncedInitially DEF SettledInv
<1> QED
  BY <1>1, SettledStep, PTL DEF Spec

\* Every change is announced by an event, and an event is processed with its effect or not at
\* all: once all events are processed and no handler is at work, every row is what Stripe holds.
THEOREM ProcessedMeansStored ==
    ASSUME Spaced, Reconcilers = {}
    PROVE  Spec => [](Quiet => StoredAgrees)
<1>1. ASSUME SettledInv, Quiet, NEW s \in Subs PROVE stored[s].status = stripe[s]
  <2>1. CASE stripe[s] = "none"
    BY <1>1, <2>1 DEF SettledInv, AnnouncedInv
  <2>2. CASE stripe[s] # "none"
    <3>1. PICK e \in Latest(s) : TRUE
      BY <1>1, <2>2 DEF SettledInv, AnnouncedInv
    <3>2. e \in events /\ e.sub = s /\ e.n = Cardinality(EventsOf(s)) /\ EventId(e) \in ledger
      BY <1>1, <3>1 DEF Latest, EventsOf, Quiet
    <3> QED
      BY <1>1, <3>2 DEF SettledInv, LatestInv, RowsFollow
  <2> QED
    BY <2>1, <2>2
<1>2. SettledInv => (Quiet => StoredAgrees)
  BY <1>1 DEF StoredAgrees
<1> QED
  BY <1>2, SettledAlways, PTL

\* "active: granted, the period is paid for" (stripe-billing.md), for an account that has had one
\* subscription; with two it is not so.
THEOREM PaidIsGranted ==
    ASSUME Spaced, Reconcilers = {}, NEW s, Subs = {s}
    PROVE  Spec => []PaidMeansGranted /\ [](Quiet => AccessAgrees)
<1>1. ASSUME SettledInv, Quiet => StoredAgrees, Quiet PROVE AccessAgrees
  <2>1. stored[s].status = stripe[s]
    BY <1>1 DEF StoredAgrees
  <2>2. reference = NoSub \/ reference = s
    BY <1>1 DEF SettledInv, LatestInv, BillingInv, TypeInv, TypeOK
  <2>3. StatusEntitles(stripe[s]) => reference # NoSub
    BY <1>1, <2>1 DEF SettledInv, AnnouncedInv, StatusEntitles, ENTITLING
  <2>4. reference # NoSub => (entitlement = "active" <=> StatusEntitles(stored[reference].status))
    BY <1>1 DEF SettledInv, LatestInv, BillingInv, EntitlementFollowsReference
  <2>5. entitlement = "active" => reference # NoSub
    BY <1>1 DEF SettledInv, AnnouncedInv
  <2>6. entitlement = "active" <=> StatusEntitles(stripe[s])
    BY <2>1, <2>2, <2>3, <2>4, <2>5
  <2> QED
    BY <2>6 DEF AccessAgrees
<1>2. (SettledInv /\ (Quiet => StoredAgrees)) => PaidMeansGranted /\ (Quiet => AccessAgrees)
  BY <1>1 DEF PaidMeansGranted, AccessAgrees
<1> QED
  BY <1>2, SettledAlways, ProcessedMeansStored, PTL
=============================================================================
