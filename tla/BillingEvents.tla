--------------------------- MODULE BillingEvents ---------------------------
(***************************************************************************)
(* Stripe events becoming an entitlement: the webhook handler              *)
(* (processStripeEvent), the reconciliation a reader's return from         *)
(* Checkout runs, and the one transaction both end in                      *)
(* (applySubscriptionEvent).  Stripe delivers an event any number of       *)
(* times, in any order, to any number of handlers at once, and each        *)
(* handler asks Stripe for the subscription as it is when it asks.         *)
(*                                                                         *)
(* The transaction is two steps: Begin, up to the rows it has read and     *)
(* locked, and Commit, its writes, which no other transaction sees apart   *)
(* (the subscription row is locked from the upsert on).                    *)
(***************************************************************************)
EXTENDS Subscriptions, Naturals, FiniteSets

CONSTANTS
    Subs, NoSub,     \* Stripe subscription ids of the account; none of them
    Handlers,        \* webhook deliveries being handled at once
    Reconcilers,     \* reconciliations running at once
    TicksPerSecond,  \* resolution of the server's clock over that of event.created
    MaxClock,        \* bound: how long time is followed
    MaxEvents,       \* bound: events per subscription
    Spaced           \* no two events of a subscription share a second

ASSUME BillingAssumption ==
    /\ NoSub \notin Subs /\ Handlers \cap Reconcilers = {}
    /\ TicksPerSecond \in Nat \ {0}
    /\ MaxClock \in Nat
    /\ MaxEvents \in Nat
    /\ Spaced \in BOOLEAN

Workers == Handlers \cup Reconcilers

VARIABLES
    clock,        \* now(), in ticks
    stripe,       \* Stripe's own subscriptions
    events,       \* the events Stripe has emitted
    ledger,       \* identity.billing_events: the ids already processed
    stored,       \* identity.billing_subscriptions
    entitlement,  \* identity.premium_entitlements.status of the account
    reference,    \* its external_reference: the subscription it follows
    worker        \* the handlers and reconciliations in progress

billing == <<ledger, stored, entitlement, reference>>
vars == <<clock, stripe, events, ledger, stored, entitlement, reference, worker>>

Event == [sub : Subs, n : 1..MaxEvents, at : 0..MaxClock]
\* Ledger ids.  reconciliationEventId is made of the subscription and its status
\* (the period end, abstracted, does not change with them here).
EventId(e) == <<e.sub, e.n, "event">>
ReconciliationEventId(s, st) == <<s, 0, st>>
Ids == (Subs \X (1..MaxEvents) \X {"event"}) \cup (Subs \X {0} \X Status)
NoId == <<>>

Free == [pc |-> "idle", id |-> NoId, sub |-> NoSub, at |-> 0, snap |-> "none",
         exists |-> FALSE, grantable |-> FALSE]

TypeOK ==
    /\ clock \in 0..MaxClock
    /\ stripe \in [Subs -> StripeStatus]
    /\ events \subseteq Event
    /\ ledger \subseteq Ids
    /\ stored \in [Subs -> [status : StripeStatus, at : 0..MaxClock, detached : BOOLEAN]]
    /\ entitlement \in {"none", "active", "inactive"}
    /\ reference \in Subs \cup {NoSub}
    /\ worker \in [Workers -> [pc : {"idle", "fetch", "begin", "tx"}, id : Ids \cup {NoId},
                               sub : Subs \cup {NoSub}, at : 0..MaxClock, snap : StripeStatus,
                               exists : BOOLEAN, grantable : BOOLEAN]]

Init ==
    /\ clock = 0
    /\ stripe = [s \in Subs |-> "none"]
    /\ events = {}
    /\ ledger = {}
    /\ stored = [s \in Subs |-> [status |-> "none", at |-> 0, detached |-> FALSE]]
    /\ entitlement = "none"
    /\ reference = NoSub
    /\ worker = [w \in Workers |-> Free]

-----------------------------------------------------------------------------
(* Stripe. *)

Tick == /\ clock < MaxClock
        /\ clock' = clock + 1
        /\ UNCHANGED <<stripe, events, billing, worker>>

\* event.created is in whole seconds.
Second(t) == t - (t % TicksPerSecond)

EventsOf(s) == {e \in events : e.sub = s}

\* Every change of a subscription is announced by an event of its own.
Emits ==
    /\ \A s \in Subs : stripe'[s] # stripe[s] =>
         /\ Cardinality(EventsOf(s)) < MaxEvents
         /\ Spaced => \A e \in EventsOf(s) : e.at # Second(clock)
    /\ events' = events \cup
         {[sub |-> s, n |-> Cardinality(EventsOf(s)) + 1, at |-> Second(clock)] :
            s \in {q \in Subs : stripe'[q] # stripe[q]}}

StripeMove(s) ==
    /\ \E st \in Status :
         /\ <<stripe[s], st>> \in StripeMoves
         /\ stripe' = [stripe EXCEPT ![s] = st]
    /\ Emits
    /\ UNCHANGED <<clock, billing, worker>>

-----------------------------------------------------------------------------
(* One handler. *)

Deliver(w, e) ==
    /\ w \in Handlers
    /\ worker[w].pc = "idle"
    /\ worker' = [worker EXCEPT ![w] = [Free EXCEPT !.pc = "fetch", !.id = EventId(e),
                                                    !.sub = e.sub, !.at = e.at]]
    /\ UNCHANGED <<clock, stripe, events, billing>>

\* reconcileAccount: of the Session's subscription, or of the newest one listed.
StartReconciliation(w, s) ==
    /\ w \in Reconcilers
    /\ worker[w].pc = "idle"
    /\ stripe[s] # "none"
    /\ worker' = [worker EXCEPT ![w] = [Free EXCEPT !.pc = "fetch", !.sub = s]]
    /\ UNCHANGED <<clock, stripe, events, billing>>

\* The authoritative read: Stripe's status now, whatever the event said.
Fetch(w) ==
    /\ worker[w].pc = "fetch"
    /\ worker' = [worker EXCEPT ![w].pc = "begin", ![w].snap = stripe[worker[w].sub],
                    ![w].id = IF w \in Handlers THEN @
                              ELSE ReconciliationEventId(worker[w].sub, stripe[worker[w].sub])]
    /\ UNCHANGED <<clock, stripe, events, billing>>

\* MUTANT of ClaimFree: the ledger is read, then written.
ClaimUnlocked(id) == id # NoId

\* Claiming an id waits for a transaction that holds the same claim.
ClaimFree(id) == \A v \in Workers : worker[v].pc = "tx" => worker[v].id # id

\* MUTANT of Begin: the claim commits before the work it is for.
BeginClaimsFirst(w, exists, grantable) ==
    /\ worker[w].pc = "begin"
    /\ worker[w].id \notin ledger
    /\ ledger' = ledger \cup {worker[w].id}
    /\ worker' = [worker EXCEPT ![w].pc = "tx", ![w].exists = exists, ![w].grantable = grantable]
    /\ UNCHANGED <<clock, stripe, events, stored, entitlement, reference>>

\* begin; claimEvent; the account and its deletion state, read and locked.  A
\* reconciliation is dated now, by the server's clock.
Begin(w, exists, grantable) ==
    /\ worker[w].pc = "begin"
    /\ ClaimFree(worker[w].id)
    /\ \/ /\ worker[w].id \in ledger
          /\ worker' = [worker EXCEPT ![w] = Free]
       \/ /\ worker[w].id \notin ledger
          /\ worker' = [worker EXCEPT ![w].pc = "tx",
                          ![w].at = IF w \in Handlers THEN @ ELSE clock,
                          ![w].exists = exists, ![w].grantable = exists /\ grantable]
    /\ UNCHANGED <<clock, stripe, events, billing>>

\* MUTANT of Applies: the upsert has no `where`.
AppliesAlways(w) == stored[worker[w].sub].at \in Nat

\* UPSERT_SUBSCRIPTION_SQL: a row is overwritten by what is at least as new.
Applies(w) ==
    LET row == stored[worker[w].sub]
    IN row.status = "none" \/ worker[w].at >= row.at

\* MUTANT of Commit: a stale event still moves the entitlement.
CommitStaleEntitles(w) ==
    /\ worker[w].pc = "tx"
    /\ ledger' = ledger \cup {worker[w].id}
    /\ stored' = IF Applies(w)
                 THEN [stored EXCEPT ![worker[w].sub].status = worker[w].snap,
                                     ![worker[w].sub].at = worker[w].at]
                 ELSE stored
    /\ entitlement' = IF StatusEntitles(worker[w].snap) THEN "active" ELSE "inactive"
    /\ reference' = worker[w].sub
    /\ worker' = [worker EXCEPT ![w] = Free]
    /\ UNCHANGED <<clock, stripe, events>>

Commit(w) ==
    /\ worker[w].pc = "tx"
    /\ LET s == worker[w].sub
           writes == Applies(w) /\ worker[w].grantable
       IN /\ ledger' = ledger \cup {worker[w].id}
          /\ stored' = IF Applies(w)
                       THEN [stored EXCEPT ![s] =
                               [status |-> worker[w].snap, at |-> worker[w].at,
                                detached |-> @.detached \/ ~worker[w].exists]]
                       ELSE stored
          /\ entitlement' = IF ~writes THEN entitlement
                            ELSE IF StatusEntitles(worker[w].snap) THEN "active" ELSE "inactive"
          /\ reference' = IF writes THEN s ELSE reference
    /\ worker' = [worker EXCEPT ![w] = Free]
    /\ UNCHANGED <<clock, stripe, events>>

\* Stripe does not answer, the database fails, or the process dies: the claim
\* goes with the transaction, and Stripe delivers again.
Fails(w) ==
    /\ worker[w].pc # "idle"
    /\ worker' = [worker EXCEPT ![w] = Free]
    /\ UNCHANGED <<clock, stripe, events, billing>>

Works(w) == \/ \E e \in events : Deliver(w, e)
            \/ \E s \in Subs : StartReconciliation(w, s)
            \/ Fetch(w) \/ Begin(w, TRUE, TRUE) \/ Commit(w) \/ Fails(w)

Next == \/ Tick
        \/ \E s \in Subs : StripeMove(s)
        \/ \E w \in Workers : Works(w)

Spec == Init /\ [][Next]_vars

-----------------------------------------------------------------------------
(* What the events add up to. *)

\* Idempotency is an insert (store.ts): the claim and the effects commit
\* together, so of all the deliveries of one event at most one has an effect.
NoSecondApplication ==
    \A w \in Workers : worker[w].pc = "tx" => worker[w].id \notin ledger

\* The latest event of a subscription has been processed.
Latest(s) == {e \in EventsOf(s) : e.n = Cardinality(EventsOf(s))}
Settled(s) == \E e \in Latest(s) : EventId(e) \in ledger

\* The row is dated by the event and filled from the re-fetch (webhook.ts): once
\* the latest event has been processed the row is what Stripe holds, whichever
\* older deliveries, stale fetches among them, commit after it.
LatestEventSettles == \A s \in Subs : Settled(s) => stored[s].status = stripe[s]

\* "A late `updated` cannot resurrect stale access after a `deleted`" (store.ts):
\* once the end of the subscription has been processed, nothing reopens it.
DeletedIsFinal ==
    \A s \in Subs : stripe[s] \in TERMINAL /\ Settled(s) => ~StatusEntitles(stored[s].status)

\* One transaction for the row and the entitlement: access is what the stored
\* status of the subscription it names gives, whatever failed in between.
EntitlementFollowsReference ==
    reference # NoSub => (entitlement = "active" <=> StatusEntitles(stored[reference].status))

Quiet == /\ \A e \in events : EventId(e) \in ledger
         /\ \A w \in Workers : worker[w].pc = "idle"

StoredAgrees == \A s \in Subs : stored[s].status = stripe[s]
AccessAgrees == entitlement = "active" <=> \E s \in Subs : StatusEntitles(stripe[s])

\* "active: granted, the period is paid for" (stripe-billing.md, section 8).
PaidMeansGranted ==
    Quiet => ((\E s \in Subs : StatusEntitles(stripe[s])) => entitlement = "active")

\* Stripe delivers an event until it is answered with success; a handler of an
\* event not yet processed, tried again and again, gets through to Stripe and to
\* the database.
Unprocessed(w) == worker[w].id \notin ledger

DeliveryFairness ==
    \A w \in Handlers :
        /\ SF_vars(\E e \in events : EventId(e) \notin ledger /\ Deliver(w, e))
        /\ SF_vars(Unprocessed(w) /\ Fetch(w))
        /\ SF_vars(Unprocessed(w) /\ Begin(w, TRUE, TRUE))
        /\ SF_vars(Commit(w))
        /\ WF_vars(Fetch(w) \/ Begin(w, TRUE, TRUE))

FairSpec == Spec /\ DeliveryFairness

\* No event is dropped: a failed delivery leaves nothing behind that would make
\* the next one count as done, so in the end Urdais agrees with Stripe.
EventuallyAgrees == <>[](StoredAgrees /\ AccessAgrees)
=============================================================================
