------------------------ MODULE AccountLifecycleProof ------------------------
(***************************************************************************)
(* AccountLifecycle implements AccountDeletion, and what the two keep      *)
(* together.  A handler's transaction holds the key of the account it has  *)
(* found, and shares the deletion row it has read: neither changes under   *)
(* it.  The deletion's own invariant comes from AccountDeletionProof, by   *)
(* the refinement.                                                         *)
(***************************************************************************)
EXTENDS AccountLifecycle, FiniteSetTheorems, TLAPS

DP == INSTANCE AccountDeletionProof

-----------------------------------------------------------------------------
(* Shapes. *)

WorkerType == [pc : {"idle", "fetch", "begin", "tx"}, id : B!Ids \cup {B!NoId},
               sub : Subs \cup {NoSub}, at : 0..MaxClock, snap : B!StripeStatus,
               exists : BOOLEAN, grantable : BOOLEAN]

\* A worker at work has a subscription, and from the fetch on an id to claim; what a
\* reconciliation fetches exists.
KnowsItsEvent(w, k) ==
    k.pc # "idle" =>
        /\ k.sub \in Subs
        /\ w \in Handlers \/ k.pc # "fetch" => k.id \in B!Ids
        /\ w \notin Handlers /\ k.pc = "fetch" => stripe[k.sub] \in B!Status

WorkersInv == /\ worker \in [B!Workers -> WorkerType]
              /\ shares \in [B!Workers -> SUBSET D!Records]
              /\ \A w \in B!Workers : KnowsItsEvent(w, worker[w])

StoredType == [Subs -> [status : B!StripeStatus, at : 0..MaxClock, detached : BOOLEAN]]

BillingInv ==
    /\ clock \in 0..MaxClock
    /\ stripe \in [Subs -> B!StripeStatus]
    /\ events \subseteq B!Event /\ \A s \in Subs : IsFiniteSet(B!EventsOf(s))
    /\ ledger \subseteq B!Ids
    /\ stored \in StoredType
    /\ entitlement \in {"none", "active", "inactive"}
    /\ reference \in Subs \cup {NoSub}

TypedInv == WorkersInv /\ BillingInv

LEMMA FreeType == B!Free \in WorkerType /\ B!Free.pc = "idle" /\ \A w \in B!Workers : KnowsItsEvent(w, B!Free)
BY LifecycleAssumption DEF B!Free, WorkerType, B!StripeStatus, B!NoId, KnowsItsEvent

LEMMA TypedInit == Init => TypedInv
<1> SUFFICES ASSUME Init PROVE TypedInv
  OBVIOUS
<1>1. WorkersInv
  BY FreeType DEF Init, B!Init, WorkersInv
<1>2. BillingInv
  BY LifecycleAssumption, FS_EmptySet
  DEF Init, B!Init, BillingInv, StoredType, B!StripeStatus, B!EventsOf
<1> QED
  BY <1>1, <1>2 DEF TypedInv

\* One worker changes, to what it may be.
LEMMA OneWorker ==
    ASSUME WorkersInv, NEW w \in B!Workers, NEW k \in WorkerType, KnowsItsEvent(w, k),
           worker' = [worker EXCEPT ![w] = k], stripe' = stripe,
           shares' \in [B!Workers -> SUBSET D!Records]
    PROVE  WorkersInv'
BY DEF WorkersInv, KnowsItsEvent

LEMMA TypedStart ==
    ASSUME TypedInv, NEW w \in B!Workers, StartEvent(w)
    PROVE  /\ TypedInv'
           /\ \E k : worker' = [worker EXCEPT ![w] = k] /\ k.pc # "tx"
           /\ UNCHANGED <<deletion, payer, stripe, shares, B!billing>>
<1>1. BillingInv' /\ UNCHANGED <<deletion, payer, stripe, shares, B!billing>>
  BY DEF TypedInv, BillingInv, StartEvent, B!Deliver, B!StartReconciliation, B!Fetch, B!billing,
     B!EventsOf, deletion
<1>2. ASSUME NEW k \in WorkerType, KnowsItsEvent(w, k), k.pc # "tx",
             worker' = [worker EXCEPT ![w] = k]
      PROVE  WorkersInv' /\ \E q : worker' = [worker EXCEPT ![w] = q] /\ q.pc # "tx"
  BY <1>1, <1>2, OneWorker DEF TypedInv, WorkersInv
<1>3. ASSUME NEW e \in events, B!Deliver(w, e)
      PROVE  \E k \in WorkerType : /\ KnowsItsEvent(w, k) /\ k.pc # "tx"
                                   /\ worker' = [worker EXCEPT ![w] = k]
  <2> DEFINE k == [B!Free EXCEPT !.pc = "fetch", !.id = B!EventId(e), !.sub = e.sub, !.at = e.at]
  <2>1. e \in B!Event
    BY DEF TypedInv, BillingInv
  <2>2. B!EventId(e) \in B!Ids /\ e.sub \in Subs /\ e.at \in 0..MaxClock
    BY <2>1 DEF B!Event, B!EventId, B!Ids
  <2>3. k \in WorkerType /\ k.pc = "fetch" /\ k.sub = e.sub /\ k.id = B!EventId(e)
    BY <2>2, FreeType DEF WorkerType
  <2> HIDE DEF k
  <2>4. w \in Handlers /\ worker' = [worker EXCEPT ![w] = k]
    BY <1>3 DEF B!Deliver, k
  <2> QED BY <2>2, <2>3, <2>4 DEF KnowsItsEvent
<1>4. ASSUME NEW s \in Subs, B!StartReconciliation(w, s)
      PROVE  \E k \in WorkerType : /\ KnowsItsEvent(w, k) /\ k.pc # "tx"
                                   /\ worker' = [worker EXCEPT ![w] = k]
  <2> DEFINE k == [B!Free EXCEPT !.pc = "fetch", !.sub = s]
  <2>1. k \in WorkerType /\ k.pc = "fetch" /\ k.sub = s
    BY FreeType DEF WorkerType
  <2>2. stripe[s] \in B!Status
    BY <1>4 DEF TypedInv, BillingInv, B!StripeStatus, B!StartReconciliation
  <2> HIDE DEF k
  <2>3. w \notin Handlers /\ worker' = [worker EXCEPT ![w] = k]
    BY <1>4, LifecycleAssumption DEF B!StartReconciliation, k
  <2> QED BY <2>1, <2>2, <2>3 DEF KnowsItsEvent
<1>5. ASSUME B!Fetch(w)
      PROVE  \E k \in WorkerType : /\ KnowsItsEvent(w, k) /\ k.pc # "tx"
                                   /\ worker' = [worker EXCEPT ![w] = k]
  <2> DEFINE me == worker[w]
             id == IF w \in Handlers THEN me.id ELSE B!ReconciliationEventId(me.sub, stripe[me.sub])
             k == [me EXCEPT !.pc = "begin", !.snap = stripe[me.sub], !.id = id]
  <2>1. me \in WorkerType /\ KnowsItsEvent(w, me) /\ me.pc = "fetch"
    BY <1>5 DEF TypedInv, WorkersInv, B!Fetch
  <2>2. id \in B!Ids /\ stripe[me.sub] \in B!StripeStatus
    <3>1. me.sub \in Subs /\ stripe[me.sub] \in B!StripeStatus
      BY <2>1 DEF KnowsItsEvent, TypedInv, BillingInv
    <3>2. CASE w \in Handlers
      BY <2>1, <3>1, <3>2 DEF KnowsItsEvent
    <3>3. CASE w \notin Handlers
      BY <2>1, <3>1, <3>3 DEF KnowsItsEvent, B!Ids, B!ReconciliationEventId
    <3> QED BY <3>1, <3>2, <3>3
  <2>3. k \in WorkerType /\ k.pc = "begin" /\ k.sub = me.sub /\ k.id = id
    BY <2>1, <2>2 DEF WorkerType
  <2> HIDE DEF k
  <2>4. worker' = [worker EXCEPT ![w] = k]
    BY <1>5 DEF B!Fetch, k
  <2> QED BY <2>1, <2>2, <2>3, <2>4 DEF KnowsItsEvent
<1> QED
  BY <1>1, <1>2, <1>3, <1>4, <1>5 DEF StartEvent, TypedInv

\* What transaction k of worker w knows of the account it is for: whether it exists, and that
\* the deletion row it shares is at `requested`, or decided.
FoundBy(w, k) ==
    /\ k.exists <=> Exists
    /\ k.grantable => k.exists /\ \A r \in shares[w] : rec[r].stage = "requested"
    /\ k.exists /\ ~k.grantable =>
           \E r \in shares[w] : rec[r].acct = account /\ rec[r].stage \notin {"absent", "requested"}

\* What the begin of a transaction writes: it takes the account as it is, and its deletion row.
LEMMA BeginWrites ==
    ASSUME TypedInv, NEW w \in B!Workers, BeginEvent(w)
    PROVE  /\ UNCHANGED <<deletion, stripe, clock, events, payer, B!billing>>
           /\ shares' \in [B!Workers -> SUBSET D!Records]
           /\ \A v \in B!Workers : v # w => shares'[v] = shares[v]
           /\ \E k \in WorkerType :
                /\ worker' = [worker EXCEPT ![w] = k] /\ KnowsItsEvent(w, k)
                /\ k.pc = "tx" => FoundBy(w, k)'
<1> DEFINE seen == IF Exists THEN DeletionOf(account) ELSE {}
           grantable == \A r \in seen : rec[r].stage = "requested"
<1>1. /\ B!Begin(w, Exists, grantable)
      /\ shares' = [shares EXCEPT ![w] = IF worker'[w].pc = "tx" THEN seen ELSE {}]
      /\ UNCHANGED <<payer, deletion>>
  BY DEF BeginEvent
<1>2. seen \in SUBSET D!Records /\ Exists \in BOOLEAN /\ grantable \in BOOLEAN
  BY DEF DeletionOf, Exists
<1>3. /\ grantable => \A r \in seen : rec[r].stage = "requested"
      /\ Exists /\ ~grantable =>
            \E r \in seen : rec[r].acct = account /\ rec[r].stage \notin {"absent", "requested"}
  BY DEF DeletionOf
<1> HIDE DEF seen, grantable
<1>4. /\ shares' \in [B!Workers -> SUBSET D!Records]
      /\ \A v \in B!Workers : v # w => shares'[v] = shares[v]
      /\ worker'[w].pc = "tx" => shares'[w] = seen
  BY <1>1, <1>2 DEF TypedInv, WorkersInv
<1>5. UNCHANGED <<deletion, stripe, clock, events, payer, B!billing>>
  BY <1>1 DEF B!Begin
<1>6. CASE worker' = [worker EXCEPT ![w] = B!Free]
  BY <1>4, <1>5, <1>6, FreeType
<1>7. CASE worker' = [worker EXCEPT ![w].pc = "tx",
                        ![w].at = IF w \in Handlers THEN @ ELSE clock,
                        ![w].exists = Exists, ![w].grantable = Exists /\ grantable]
  <2> DEFINE me == worker[w]
             k == [me EXCEPT !.pc = "tx", !.at = IF w \in Handlers THEN @ ELSE clock,
                             !.exists = Exists, !.grantable = Exists /\ grantable]
  <2>1. me \in WorkerType /\ KnowsItsEvent(w, me) /\ me.pc = "begin" /\ clock \in 0..MaxClock
    BY <1>1 DEF TypedInv, WorkersInv, BillingInv, B!Begin
  <2>2. (Exists /\ grantable) \in BOOLEAN
    BY <1>2
  <2>3. /\ k \in WorkerType /\ k.pc = "tx" /\ k.sub = me.sub /\ k.id = me.id
        /\ k.exists = Exists /\ k.grantable = (Exists /\ grantable)
    BY <1>2, <2>1, <2>2 DEF WorkerType
  <2> HIDE DEF k
  <2>4. worker' = [worker EXCEPT ![w] = k]
    BY <1>7 DEF k
  <2>5. worker'[w] = k
    BY <2>4 DEF TypedInv, WorkersInv
  <2>6. KnowsItsEvent(w, k)
    BY <2>1, <2>3 DEF KnowsItsEvent
  <2>7. Exists' = Exists /\ rec' = rec /\ account' = account /\ shares'[w] = seen
    BY <1>4, <1>5, <2>3, <2>5 DEF Exists, deletion
  <2>8. PICK c \in WorkerType : c = k
    BY <2>3
  <2>9. /\ c.exists = Exists
        /\ c.grantable = (Exists /\ grantable)
    BY <2>3, <2>8
  <2>10. FoundBy(w, c)'
    BY <1>2, <1>3, <2>7, <2>9 DEF FoundBy
  <2> QED BY <1>4, <1>5, <2>4, <2>6, <2>8, <2>10
<1> QED
  BY <1>1, <1>6, <1>7 DEF B!Begin

LEMMA TypedBegin ==
    ASSUME TypedInv, NEW w \in B!Workers, BeginEvent(w)
    PROVE  TypedInv'
<1>1. BillingInv'
  BY BeginWrites DEF TypedInv, BillingInv, B!billing, B!EventsOf
<1>2. WorkersInv'
  BY BeginWrites, OneWorker DEF TypedInv
<1> QED
  BY <1>1, <1>2 DEF TypedInv

LEMMA EndWrites ==
    ASSUME TypedInv, NEW w \in B!Workers, EndEvent(w)
    PROVE  /\ UNCHANGED <<deletion, stripe, clock, events, payer>>
           /\ worker' = [worker EXCEPT ![w] = B!Free]
           /\ shares' = [shares EXCEPT ![w] = {}]
           /\ UNCHANGED B!billing \/ (worker[w].pc = "tx" /\ B!Commit(w))
BY DEF EndEvent, B!Commit, B!Fails

LEMMA TypedEnd ==
    ASSUME TypedInv, NEW w \in B!Workers, EndEvent(w)
    PROVE  TypedInv'
<1>1. UNCHANGED <<stripe, clock, events>>
  BY EndWrites
<1>2. WorkersInv'
  BY EndWrites, FreeType, OneWorker DEF TypedInv, WorkersInv
<1>3. CASE UNCHANGED B!billing
  BY <1>1, <1>2, <1>3 DEF TypedInv, BillingInv, B!billing, B!EventsOf
<1>4. CASE worker[w].pc = "tx" /\ B!Commit(w)
  <2> DEFINE me == worker[w]
             row == [status |-> me.snap, at |-> me.at,
                     detached |-> stored[me.sub].detached \/ ~me.exists]
  <2>1. me \in WorkerType /\ me.sub \in Subs /\ me.id \in B!Ids
    BY <1>4 DEF TypedInv, WorkersInv, KnowsItsEvent
  <2>2. /\ ledger' = ledger \cup {me.id}
        /\ stored' \in {stored, [stored EXCEPT ![me.sub] = row]}
        /\ entitlement' \in {entitlement, "active", "inactive"}
        /\ reference' \in {reference, me.sub}
    BY <1>4 DEF B!Commit
  <2>3. row \in [status : B!StripeStatus, at : 0..MaxClock, detached : BOOLEAN]
    BY <2>1 DEF WorkerType
  <2> HIDE DEF row
  <2>4. stored' \in StoredType
    BY <2>1, <2>2, <2>3 DEF TypedInv, BillingInv, StoredType
  <2>5. BillingInv'
    BY <1>1, <2>1, <2>2, <2>4 DEF TypedInv, BillingInv, B!EventsOf
  <2> QED BY <1>2, <2>5 DEF TypedInv
<1> QED
  BY <1>3, <1>4, EndWrites

\* What a step of the deletion does to the account and to the entitlement.
LEMMA DeletionWrites ==
    ASSUME DeletionSteps
    PROVE  \/ UNCHANGED <<account, minted, entitlement>>
           \/ /\ account = D!NoAccount /\ minted < MaxAccounts
              /\ minted' = minted + 1 /\ account' = minted + 1 /\ entitlement' = entitlement
           \/ /\ UNCHANGED <<account, minted>>
              /\ entitlement = "active" /\ entitlement' = "inactive"
           \/ /\ account # D!NoAccount /\ account' = D!NoAccount /\ minted' = minted /\ entitlement' = "none"
<1>1. ASSUME NEW p \in Requests, D!Begins(p)
      PROVE  \/ UNCHANGED <<account, minted, entitlement>>
             \/ /\ account = D!NoAccount /\ minted < MaxAccounts
                /\ minted' = minted + 1 /\ account' = minted + 1 /\ entitlement' = entitlement
  BY <1>1 DEF D!Begins, D!Arrive, D!ReadInFlight, D!SelectAccount, D!CheckInFlight,
     D!UpsertAccount, D!ReadMapping, D!OpenDeletion, D!store
<1>2. ASSUME NEW p \in Requests, D!Attempts(p)
      PROVE  \/ UNCHANGED <<account, minted, entitlement>>
             \/ /\ UNCHANGED <<account, minted>>
                /\ entitlement = "active" /\ entitlement' = "inactive"
             \/ /\ account # D!NoAccount /\ account' = D!NoAccount /\ minted' = minted /\ entitlement' = "none"
  <2>1. CASE D!MarkBillingTerminated(p)
    BY <2>1 DEF D!MarkBillingTerminated, D!RevokedForDeletion
  <2>2. CASE D!RemoveLocalAccount(p)
    BY <2>2 DEF D!RemoveLocalAccount
  <2> QED BY <1>2, <2>1, <2>2 DEF D!Attempts, D!AcquireLease, D!ListSubscriptions, D!CancelOne,
          D!Cancelled, D!RelistVerdict, D!DetachCustomer, D!DeleteAuthUser, D!MarkAuthDeleted,
          D!Finish, D!StageFails, D!ReleaseLease, D!Abandon, D!store
<1>3. ASSUME NEW c \in Sweepers, D!Sweeps(c)
      PROVE  UNCHANGED <<account, minted, entitlement>>
  BY <1>3 DEF D!Sweeps, D!SweepSelect, D!SweepLease, D!SweepErase, D!SweepComplete, D!SweepHolds,
     D!SweepRelease, D!SweepDies, D!store
<1>4. ASSUME \/ \E r \in D!Records : D!LeaseExpires(r)
             \/ D!ClaimCustomer \/ D!CustomerGone
             \/ \E s \in Subs : D!StripeMove(s)
      PROVE  UNCHANGED <<account, minted, entitlement>>
  BY <1>4 DEF D!LeaseExpires, D!ClaimCustomer, D!CustomerGone, D!StripeMove, D!store
<1> QED
  BY <1>1, <1>2, <1>3, <1>4 DEF DeletionSteps

\* Of an account that stays, only the end of billing revokes.
LEMMA RevocationWrites ==
    ASSUME DeletionSteps, account' = account, account # D!NoAccount, entitlement' # entitlement
    PROVE  \E p \in Requests : D!MarkBillingTerminated(p)
<1>1. PICK p \in Requests : D!Attempts(p)
  <2>1. ASSUME NEW p \in Requests, D!Begins(p) PROVE FALSE
    BY <2>1 DEF D!Begins, D!Arrive, D!ReadInFlight, D!SelectAccount, D!CheckInFlight,
       D!UpsertAccount, D!ReadMapping, D!OpenDeletion, D!store
  <2>2. ASSUME \/ \E c \in Sweepers : D!Sweeps(c)
               \/ \E r \in D!Records : D!LeaseExpires(r)
               \/ D!ClaimCustomer \/ D!CustomerGone
               \/ \E s \in Subs : D!StripeMove(s)
        PROVE  FALSE
    BY <2>2 DEF D!Sweeps, D!SweepSelect, D!SweepLease, D!SweepErase, D!SweepComplete,
       D!SweepHolds, D!SweepRelease, D!SweepDies, D!LeaseExpires, D!ClaimCustomer, D!CustomerGone,
       D!StripeMove, D!store
  <2> QED BY <2>1, <2>2 DEF DeletionSteps
<1>2. ~D!RemoveLocalAccount(p)
  BY DEF D!RemoveLocalAccount
<1> QED
  BY <1>1, <1>2 DEF D!Attempts, D!AcquireLease, D!ListSubscriptions, D!CancelOne,
     D!Cancelled, D!RelistVerdict, D!DetachCustomer, D!DeleteAuthUser, D!MarkAuthDeleted,
     D!Finish, D!StageFails, D!ReleaseLease, D!Abandon, D!store

\* What it does to Stripe's subscriptions.
LEMMA StripeWrites ==
    ASSUME DeletionSteps, stripe \in [Subs -> B!StripeStatus]
    PROVE  /\ stripe' \in [Subs -> B!StripeStatus]
           /\ \A s \in Subs : stripe'[s] = stripe[s] \/ stripe'[s] \in B!Status
<1> USE DEF D!Status, B!Status, B!StripeStatus
<1>1. ASSUME NEW p \in Requests, D!Attempts(p)
      PROVE  stripe' = stripe \/ \E s \in Subs : stripe' = [stripe EXCEPT ![s] = "canceled"]
  BY <1>1 DEF D!Attempts, D!AcquireLease, D!ListSubscriptions, D!CancelOne, D!Billable,
     D!Cancelled, D!RelistVerdict, D!MarkBillingTerminated, D!DetachCustomer, D!RemoveLocalAccount,
     D!DeleteAuthUser, D!MarkAuthDeleted, D!Finish, D!StageFails, D!ReleaseLease, D!Abandon
<1>2. ASSUME \/ \E p \in Requests : D!Begins(p)
             \/ \E c \in Sweepers : D!Sweeps(c)
             \/ \E r \in D!Records : D!LeaseExpires(r)
             \/ D!ClaimCustomer
      PROVE  stripe' = stripe
  BY <1>2 DEF D!Begins, D!Arrive, D!ReadInFlight, D!SelectAccount, D!CheckInFlight,
     D!UpsertAccount, D!ReadMapping, D!OpenDeletion, D!Sweeps, D!SweepSelect, D!SweepLease,
     D!SweepErase, D!SweepComplete, D!SweepHolds, D!SweepRelease, D!SweepDies, D!LeaseExpires,
     D!ClaimCustomer
<1>3. CASE D!CustomerGone
  BY <1>3 DEF D!CustomerGone
<1>4. ASSUME NEW s \in Subs, D!StripeMove(s)
      PROVE  \E st \in B!Status : stripe' = [stripe EXCEPT ![s] = st]
  BY <1>4 DEF D!StripeMove
<1>5. ASSUME NEW s \in Subs, NEW st \in B!Status, stripe' = [stripe EXCEPT ![s] = st]
      PROVE  /\ stripe' \in [Subs -> B!StripeStatus]
             /\ \A q \in Subs : stripe'[q] = stripe[q] \/ stripe'[q] \in B!Status
  BY <1>5
<1> QED
  BY <1>1, <1>2, <1>3, <1>4, <1>5 DEF DeletionSteps

\* BillingEvents counts with the same operator.
LEMMA SameCardinality == \A S : B!Cardinality(S) = Cardinality(S)
BY DEF B!Cardinality, Cardinality

\* The events a step emits are numbered and dated as events are, one of a subscription.
LEMMA EmitsTyped ==
    ASSUME BillingInv, B!Emits
    PROVE  events' \subseteq B!Event /\ \A s \in Subs : IsFiniteSet(B!EventsOf(s)')
<1> DEFINE new(s) == [sub |-> s, n |-> Cardinality(B!EventsOf(s)) + 1, at |-> B!Second(clock)]
           moved == {q \in Subs : stripe'[q] # stripe[q]}
<1>1. B!Second(clock) \in 0..MaxClock
  <2>1. clock \in Nat /\ clock <= MaxClock /\ MaxClock \in Nat
    BY LifecycleAssumption DEF BillingInv
  <2>2. /\ clock % TicksPerSecond \in 0..(TicksPerSecond - 1)
        /\ clock = TicksPerSecond * (clock \div TicksPerSecond) + (clock % TicksPerSecond)
        /\ clock \div TicksPerSecond \in Nat
    BY <2>1, LifecycleAssumption
  <2>3. TicksPerSecond * (clock \div TicksPerSecond) \in Nat
    BY <2>2, LifecycleAssumption
  <2> QED BY <2>1, <2>2, <2>3, LifecycleAssumption DEF B!Second
<1>2. ASSUME NEW s \in moved PROVE new(s) \in B!Event
  <2>1. Cardinality(B!EventsOf(s)) \in Nat /\ Cardinality(B!EventsOf(s)) < MaxEvents
    <3>1. Cardinality(B!EventsOf(s)) < MaxEvents
      BY SameCardinality DEF B!Emits
    <3>2. IsFiniteSet(B!EventsOf(s))
      BY DEF BillingInv
    <3> QED BY <3>1, <3>2, FS_CardinalityType
  <2> QED BY <1>1, <2>1, LifecycleAssumption DEF B!Event
<1>3. events' = events \cup {new(s) : s \in moved} /\ \A s \in moved : new(s).sub = s
  <2>1. events' = events \cup {new(s) : s \in moved}
    BY SameCardinality DEF B!Emits
  <2>2. \A s \in moved : new(s).sub = s
    OBVIOUS
  <2> QED BY <2>1, <2>2
<1> HIDE DEF new
<1>4. events' \subseteq B!Event
  BY <1>2, <1>3 DEF BillingInv
<1>5. ASSUME NEW s \in Subs PROVE IsFiniteSet(B!EventsOf(s)')
  <2>1. IsFiniteSet(B!EventsOf(s)) /\ IsFiniteSet(B!EventsOf(s) \cup {new(s)})
    BY FS_AddElement DEF BillingInv
  <2>2. B!EventsOf(s)' = B!EventsOf(s) \/ B!EventsOf(s)' = B!EventsOf(s) \cup {new(s)}
    <3>1. B!EventsOf(s)' = B!EventsOf(s) \cup {new(q) : q \in {r \in moved : r = s}}
      BY <1>3 DEF B!EventsOf
    <3>2. CASE s \in moved
      <4>1. {r \in moved : r = s} = {s}
        BY <3>2
      <4> QED BY <3>1, <4>1
    <3>3. CASE s \notin moved
      <4>1. {r \in moved : r = s} = {}
        BY <3>3
      <4> QED BY <3>1, <4>1
    <3> QED BY <3>2, <3>3
  <2> QED BY <2>1, <2>2
<1> QED
  BY <1>4, <1>5

LEMMA TypedDeletion ==
    ASSUME TypedInv, DeletionStep
    PROVE  TypedInv'
<1>1. DeletionSteps /\ LeavesHistory /\ B!Emits /\ UNCHANGED <<clock, ledger, worker, shares>>
  BY DEF DeletionStep
<1>2. /\ stripe' \in [Subs -> B!StripeStatus]
      /\ \A s \in Subs : stripe'[s] = stripe[s] \/ stripe'[s] \in B!Status
  BY <1>1, StripeWrites DEF TypedInv, BillingInv
<1>3. stored' \in StoredType
  BY <1>1 DEF LeavesHistory, Detached, TypedInv, BillingInv, StoredType
<1>4. reference' \in Subs \cup {NoSub} /\ entitlement' \in {"none", "active", "inactive"}
  BY <1>1, DeletionWrites DEF LeavesHistory, TypedInv, BillingInv
<1>5. BillingInv'
  BY <1>1, <1>2, <1>3, <1>4, EmitsTyped DEF TypedInv, BillingInv
<1>6. WorkersInv'
  BY <1>1, <1>2 DEF TypedInv, WorkersInv, KnowsItsEvent
<1> QED
  BY <1>5, <1>6 DEF TypedInv

LEMMA TypedStep == TypedInv /\ [Next]_vars => TypedInv'
<1>1. ASSUME TypedInv, UNCHANGED vars PROVE TypedInv'
  BY <1>1 DEF vars, deletion, TypedInv, WorkersInv, KnowsItsEvent, BillingInv, B!EventsOf
<1> QED
  BY <1>1, TypedStart, TypedBegin, TypedEnd, TypedDeletion DEF Next

LEMMA TypedInvariance == Spec => []TypedInv
BY TypedInit, TypedStep, PTL DEF Spec

-----------------------------------------------------------------------------
(* Whose subscriptions they are.  The account that claims the one Customer *)
(* is the one Stripe names from then on; before it there is no             *)
(* subscription, hence no event and nobody at work.  Ids are handed out in *)
(* order, so that the account, once removed, is not provisioned again.     *)

CustomerType == [row : {"none", "attached", "detached"}, acct : Nat, gone : BOOLEAN]

NothingYet == /\ \A s \in Subs : stripe[s] = "none" /\ ~stored[s].detached
              /\ events = {}
              /\ \A w \in B!Workers : worker[w].pc = "idle"

PayerInv ==
    /\ minted \in Nat /\ account \in 0..minted /\ payer \in 0..minted
    /\ customer \in CustomerType
    /\ IF customer.row = "attached" THEN customer.acct = payer ELSE customer.acct = D!NoAccount
    /\ payer = D!NoAccount <=> customer.row = "none"
    /\ payer = D!NoAccount => NothingYet

LEMMA PayerInit == Init => PayerInv
BY FreeType DEF Init, D!Init, B!Init, PayerInv, CustomerType, NothingYet, D!NoAccount

LEMMA PayerStart ==
    ASSUME TypedInv, PayerInv, NEW w \in B!Workers, StartEvent(w)
    PROVE  PayerInv'
<1>1. UNCHANGED <<minted, account, customer, payer>>
  BY TypedStart DEF deletion
<1>2. payer # D!NoAccount
  <2>1. ASSUME payer = D!NoAccount PROVE FALSE
    BY <2>1 DEF PayerInv, NothingYet, StartEvent, B!Deliver, B!StartReconciliation, B!Fetch
  <2> QED BY <2>1
<1> QED
  BY <1>1, <1>2 DEF PayerInv

LEMMA PayerWork ==
    ASSUME TypedInv, PayerInv, NEW w \in B!Workers, BeginEvent(w) \/ EndEvent(w)
    PROVE  PayerInv'
<1>1. UNCHANGED <<minted, account, customer, payer>>
  BY BeginWrites, EndWrites DEF deletion
<1>2. worker[w].pc # "idle"
  BY DEF BeginEvent, EndEvent, B!Begin, B!Commit, B!Fails
<1> QED
  BY <1>1, <1>2 DEF PayerInv, NothingYet

\* What a step of the deletion does to the Customer's row.
LEMMA CustomerWrites ==
    ASSUME DeletionSteps, customer \in CustomerType, account \in Nat
    PROVE  /\ customer' \in CustomerType
           /\ \/ customer'.row = customer.row /\ customer'.acct = customer.acct
              \/ /\ account # D!NoAccount /\ customer.row = "none"
                 /\ customer'.row = "attached" /\ customer'.acct = account
                 /\ UNCHANGED <<account, minted>>
              \/ /\ customer.acct # D!NoAccount
                 /\ customer'.row = "detached" /\ customer'.acct = D!NoAccount
<1> USE DEF CustomerType, D!NoAccount
<1>1. ASSUME NEW p \in Requests, D!Attempts(p)
      PROVE  \/ customer' = customer
             \/ /\ customer.acct # D!NoAccount
                /\ customer' = [customer EXCEPT !.row = "detached", !.acct = D!NoAccount]
  BY <1>1 DEF D!Attempts, D!AcquireLease, D!ListSubscriptions, D!CancelOne,
     D!Cancelled, D!RelistVerdict, D!MarkBillingTerminated, D!DetachCustomer, D!RemoveLocalAccount,
     D!DeleteAuthUser, D!MarkAuthDeleted, D!Finish, D!StageFails, D!ReleaseLease, D!Abandon, D!store
<1>2. ASSUME \/ \E p \in Requests : D!Begins(p)
             \/ \E c \in Sweepers : D!Sweeps(c)
             \/ \E r \in D!Records : D!LeaseExpires(r)
             \/ \E s \in Subs : D!StripeMove(s)
      PROVE  customer' = customer
  BY <1>2 DEF D!Begins, D!Arrive, D!ReadInFlight, D!SelectAccount, D!CheckInFlight,
     D!UpsertAccount, D!ReadMapping, D!OpenDeletion, D!Sweeps, D!SweepSelect, D!SweepLease,
     D!SweepErase, D!SweepComplete, D!SweepHolds, D!SweepRelease, D!SweepDies, D!LeaseExpires,
     D!StripeMove, D!store
<1>3. ASSUME D!ClaimCustomer
      PROVE  /\ account # D!NoAccount /\ customer.row = "none"
             /\ customer' = [customer EXCEPT !.row = "attached", !.acct = account]
             /\ UNCHANGED <<account, minted>>
  BY <1>3 DEF D!ClaimCustomer
<1>4. CASE D!CustomerGone
  BY <1>4 DEF D!CustomerGone
<1>5. ASSUME NEW p \in Requests, D!Attempts(p)
      PROVE  /\ customer' \in CustomerType
             /\ \/ customer'.row = customer.row /\ customer'.acct = customer.acct
                \/ /\ customer.acct # D!NoAccount
                   /\ customer'.row = "detached" /\ customer'.acct = D!NoAccount
  <2>1. CASE /\ customer.acct # D!NoAccount
             /\ customer' = [customer EXCEPT !.row = "detached", !.acct = D!NoAccount]
    BY <2>1
  <2> QED BY <1>1, <1>5, <2>1
<1>6. CASE D!ClaimCustomer
  BY <1>3, <1>6
<1> QED
  BY <1>2, <1>4, <1>5, <1>6 DEF DeletionSteps

\* Before a Customer there is no subscription to move.
LEMMA NothingMoves ==
    ASSUME DeletionSteps, stripe \in [Subs -> B!StripeStatus], customer.row = "none",
           \A s \in Subs : stripe[s] = "none"
    PROVE  stripe' = stripe
<1>1. D!Billable = {}
  BY DEF D!Billable, D!IsPotentiallyBillable, D!Status
<1>2. ASSUME NEW p \in Requests, D!Attempts(p)
      PROVE  stripe' = stripe
  BY <1>1, <1>2 DEF D!Attempts, D!AcquireLease, D!ListSubscriptions, D!CancelOne,
     D!Cancelled, D!RelistVerdict, D!MarkBillingTerminated, D!DetachCustomer, D!RemoveLocalAccount,
     D!DeleteAuthUser, D!MarkAuthDeleted, D!Finish, D!StageFails, D!ReleaseLease, D!Abandon
<1>3. ASSUME \/ \E p \in Requests : D!Begins(p)
             \/ \E c \in Sweepers : D!Sweeps(c)
             \/ \E r \in D!Records : D!LeaseExpires(r)
             \/ D!ClaimCustomer
      PROVE  stripe' = stripe
  BY <1>3 DEF D!Begins, D!Arrive, D!ReadInFlight, D!SelectAccount, D!CheckInFlight,
     D!UpsertAccount, D!ReadMapping, D!OpenDeletion, D!Sweeps, D!SweepSelect, D!SweepLease,
     D!SweepErase, D!SweepComplete, D!SweepHolds, D!SweepRelease, D!SweepDies, D!LeaseExpires,
     D!ClaimCustomer
<1>4. ~D!CustomerGone /\ \A s \in Subs : ~D!StripeMove(s)
  BY DEF D!CustomerGone, D!StripeMove
<1> QED
  BY <1>2, <1>3, <1>4 DEF DeletionSteps

\* How a step of the deletion moves the account and the one Stripe names.
LEMMA PayerMoves ==
    ASSUME TypedInv, PayerInv, DeletionStep
    PROVE  /\ PayerInv'
           /\ payer # D!NoAccount => payer' = payer
           /\ payer' # payer => /\ payer = D!NoAccount /\ NothingYet
                                /\ payer' = account /\ account' = account
           /\ account' = account \/ account' = D!NoAccount \/ (~Exists /\ account' > minted)
<1>1. DeletionSteps /\ NamesPayer /\ LeavesHistory /\ B!Emits /\ worker' = worker
  BY DEF DeletionStep
<1>2. /\ minted' \in Nat /\ account' \in 0..minted' /\ minted <= minted'
      /\ account' = account \/ account' = D!NoAccount \/ (~Exists /\ account' > minted)
  BY <1>1, DeletionWrites DEF PayerInv, D!NoAccount, Exists
<1>3. /\ customer' \in CustomerType
      /\ \/ customer'.row = customer.row /\ customer'.acct = customer.acct
         \/ /\ account # D!NoAccount /\ customer.row = "none"
            /\ customer'.row = "attached" /\ customer'.acct = account
            /\ UNCHANGED <<account, minted>>
         \/ /\ customer.acct # D!NoAccount
            /\ customer'.row = "detached" /\ customer'.acct = D!NoAccount
  BY <1>1, CustomerWrites DEF PayerInv
<1>4. /\ payer' \in 0..minted'
      /\ payer # D!NoAccount => payer' = payer
      /\ IF customer'.row = "attached" THEN customer'.acct = payer' ELSE customer'.acct = D!NoAccount
      /\ payer' = D!NoAccount <=> customer'.row = "none"
      /\ payer' # payer => payer = D!NoAccount /\ payer' = account /\ account' = account
  BY <1>1, <1>2, <1>3 DEF PayerInv, NamesPayer, D!NoAccount, CustomerType
<1>5. ASSUME payer = D!NoAccount, payer' = D!NoAccount PROVE NothingYet'
  <2>1. NothingYet /\ customer.row = "none" /\ ~Exists
    BY <1>5 DEF PayerInv, Exists
  <2>2. stripe' = stripe
    BY <1>1, <2>1, NothingMoves DEF NothingYet, TypedInv, BillingInv
  <2>3. events' = {}
    BY <1>1, <2>1, <2>2 DEF B!Emits, NothingYet
  <2>4. stored' = stored
    BY <1>1, <2>1 DEF LeavesHistory
  <2> QED BY <1>1, <2>1, <2>2, <2>3, <2>4 DEF NothingYet
<1> QED
  BY <1>2, <1>3, <1>4, <1>5 DEF PayerInv

\* The account Stripe names, once gone, is gone for ever.
LEMMA GoneForGood ==
    ASSUME TypedInv, PayerInv, DeletionStep, payer # D!NoAccount, ~Exists
    PROVE  payer' = payer /\ ~Exists'
BY PayerMoves DEF PayerInv, Exists, D!NoAccount

-----------------------------------------------------------------------------
(* The transactions' locks.  The account a transaction has found exists    *)
(* still, and one it has not found does not; the row of a deletion it      *)
(* shares is as it found it.                                               *)

LockInv == \A w \in B!Workers : worker[w].pc = "tx" => FoundBy(w, worker[w])

LEMMA LockInit == Init => LockInv
BY FreeType DEF Init, B!Init, LockInv

LEMMA LockStart ==
    ASSUME TypedInv, LockInv, NEW w \in B!Workers, StartEvent(w)
    PROVE  LockInv'
BY TypedStart DEF TypedInv, WorkersInv, LockInv, FoundBy, Exists, deletion

LEMMA LockBegin ==
    ASSUME TypedInv, LockInv, NEW w \in B!Workers, BeginEvent(w)
    PROVE  LockInv'
<1>1. UNCHANGED <<account, payer, rec>> /\ \A v \in B!Workers : v # w => shares'[v] = shares[v]
  BY BeginWrites DEF deletion
<1>2. PICK k \in WorkerType :
        worker' = [worker EXCEPT ![w] = k] /\ (k.pc = "tx" => FoundBy(w, k)')
  BY BeginWrites
<1>3. worker'[w] = k /\ \A v \in B!Workers : v # w => worker'[v] = worker[v]
  BY <1>2 DEF TypedInv, WorkersInv
<1>4. ASSUME NEW v \in B!Workers, worker'[v].pc = "tx" PROVE FoundBy(v, worker[v])' 
  <2>1. CASE v = w
    BY <1>2, <1>3, <1>4, <2>1 DEF FoundBy
  <2>2. CASE v # w
    BY <1>1, <1>3, <1>4, <2>2 DEF LockInv, FoundBy, Exists
  <2> QED BY <2>1, <2>2
<1> QED
  BY <1>4 DEF LockInv

LEMMA LockEnd ==
    ASSUME TypedInv, LockInv, NEW w \in B!Workers, EndEvent(w)
    PROVE  LockInv'
BY EndWrites, FreeType DEF TypedInv, WorkersInv, LockInv, FoundBy, Exists, deletion

\* What a transaction has read stays while the deletion moves: the removal of the
\* account waits for its key, a write of the row for its sharers.
LEMMA LockDeletion ==
    ASSUME TypedInv, PayerInv, LockInv, DeletionStep
    PROVE  LockInv'
<1>1. UNCHANGED <<worker, shares>> /\ WaitsForLocks
  BY DEF DeletionStep
<1>2. ASSUME NEW w \in B!Workers, worker[w].pc = "tx" PROVE FoundBy(w, worker[w])'
  <2> DEFINE k == worker[w]
  <2>1. payer # D!NoAccount
    BY <1>2 DEF PayerInv, NothingYet
  <2>2. FoundBy(w, k) /\ payer' = payer
    BY <1>2, <2>1, PayerMoves DEF LockInv
  <2>3. ASSUME k.exists PROVE Exists' /\ account' = account
    BY <1>1, <1>2, <2>2, <2>3 DEF FoundBy, WaitsForLocks, KeyHeld, Exists
  <2>4. ASSUME ~k.exists PROVE ~Exists'
    BY <2>1, <2>2, <2>4, GoneForGood DEF FoundBy
  <2>5. ASSUME NEW r \in shares[w] PROVE rec'[r] = rec[r]
    BY <1>1, <2>5 DEF TypedInv, WorkersInv, WaitsForLocks
  <2> QED BY <1>1, <2>2, <2>3, <2>4, <2>5 DEF FoundBy
<1> QED
  BY <1>1, <1>2 DEF LockInv

SharedInv == TypedInv /\ PayerInv /\ LockInv

LEMMA SharedStep == SharedInv /\ [Next]_vars => SharedInv'
<1> USE DEF SharedInv
<1>1. ASSUME SharedInv, UNCHANGED vars PROVE PayerInv' /\ LockInv'
  BY <1>1 DEF vars, deletion, PayerInv, NothingYet, LockInv, FoundBy, Exists
<1>2. ASSUME SharedInv, NEW w \in B!Workers, StartEvent(w) \/ BeginEvent(w) \/ EndEvent(w)
      PROVE  PayerInv' /\ LockInv'
  BY <1>2, PayerStart, PayerWork, LockStart, LockBegin, LockEnd
<1>3. ASSUME SharedInv, DeletionStep PROVE PayerInv' /\ LockInv'
  BY <1>3, PayerMoves, LockDeletion
<1> QED
  BY <1>1, <1>2, <1>3, TypedStep DEF Next

LEMMA SharedInvariance == Spec => []SharedInv
BY TypedInit, PayerInit, LockInit, SharedStep, PTL DEF Spec, SharedInv

-----------------------------------------------------------------------------
(* The refinement, and with it the deletion's own invariant. *)

LEMMA RefinesStep == SharedInv /\ [Next]_vars => [D!Next]_(D!vars)
<1> SUFFICES ASSUME TypedInv, LockInv, [Next]_vars PROVE [D!Next]_(D!vars)
  BY DEF SharedInv
<1>1. ASSUME NEW w \in B!Workers, StartEvent(w) \/ BeginEvent(w) PROVE UNCHANGED D!vars
  BY <1>1 DEF StartEvent, BeginEvent, B!Deliver, B!StartReconciliation, B!Fetch, B!Begin, B!billing,
     deletion, D!vars
<1>2. ASSUME NEW w \in B!Workers, EndEvent(w) PROVE [D!Next]_(D!vars)
  <2>1. UNCHANGED <<deletion, stripe>>
    BY <1>2, EndWrites
  <2>2. CASE entitlement' = entitlement
    BY <2>1, <2>2 DEF deletion, D!vars
  <2>3. CASE entitlement' # entitlement
    <3>1. worker[w].pc = "tx" /\ worker[w].grantable /\ entitlement' \in {"active", "inactive"}
      BY <1>2, <2>3, EndWrites DEF B!Commit, B!billing
    <3>2. Exists
      BY <3>1 DEF LockInv, FoundBy
    <3> QED BY <2>1, <2>3, <3>1, <3>2
            DEF deletion, Exists, D!EntitlementWritten, D!Outside, D!Next
  <2> QED BY <2>2, <2>3
<1>3. CASE DeletionStep
  BY <1>3 DEF DeletionStep, DeletionSteps, D!Next, D!Outside
<1>4. CASE UNCHANGED vars
  BY <1>4 DEF vars, deletion, D!vars
<1> QED
  BY <1>1, <1>2, <1>3, <1>4 DEF Next

\* Seen from the deletion, a handler's transaction writes the entitlement of an
\* account that exists, because the removal waits for the key it holds.
THEOREM DeletionImplemented == Spec => ImplementsDeletion
<1>1. Init => D!Init
  BY DEF Init
<1> QED
  BY <1>1, RefinesStep, SharedInvariance, PTL DEF Spec, ImplementsDeletion, D!Spec

-----------------------------------------------------------------------------
(* AccountDeletionProof is about its own instance of AccountDeletion, which *)
(* is the one this module refines.                                          *)

LEMMA SameInit == D!Init <=> DP!Init
BY DEF D!Init, DP!Init, D!Idle, DP!Idle, D!SweeperIdle, DP!SweeperIdle, D!Absent, DP!Absent,
     D!Records, DP!Records, D!NoAccount, DP!NoAccount, D!NoRecord, DP!NoRecord

LEMMA SameBegins == ASSUME NEW p PROVE D!Begins(p) <=> DP!Begins(p)
BY DEF D!Begins, DP!Begins, D!Arrive, DP!Arrive, D!ReadInFlight, DP!ReadInFlight, D!Found,
     DP!Found, D!SelectAccount, DP!SelectAccount, D!CheckInFlight, DP!CheckInFlight,
     D!UpsertAccount, DP!UpsertAccount, D!ReadMapping, DP!ReadMapping, D!OpenDeletion,
     DP!OpenDeletion, D!At, DP!At, D!Goto, DP!Goto, D!Return, DP!Return, D!Idle, DP!Idle,
     D!InFlight, DP!InFlight, D!InFlightStages, DP!InFlightStages, D!Records, DP!Records,
     D!NoAccount, DP!NoAccount, D!NoRecord, DP!NoRecord, D!store, DP!store

LEMMA SameAttempts == ASSUME NEW p PROVE D!Attempts(p) <=> DP!Attempts(p)
BY DEF D!Attempts, DP!Attempts, D!FirstStep, DP!FirstStep, D!AcquireLease, DP!AcquireLease,
     D!ListSubscriptions, DP!ListSubscriptions, D!CancelOne, DP!CancelOne, D!Cancelled,
     DP!Cancelled, D!RelistVerdict, DP!RelistVerdict, D!RevokedForDeletion,
     DP!RevokedForDeletion, D!MarkBillingTerminated, DP!MarkBillingTerminated, D!DetachCustomer,
     DP!DetachCustomer, D!RemoveLocalAccount, DP!RemoveLocalAccount, D!DeleteAuthUser,
     DP!DeleteAuthUser, D!MarkAuthDeleted, DP!MarkAuthDeleted, D!Finish, DP!Finish, D!StageFails,
     DP!StageFails, D!ReleaseLease, DP!ReleaseLease, D!Abandon, DP!Abandon, D!Advanced,
     DP!Advanced, D!Completed, DP!Completed, D!Leasable, DP!Leasable, D!AttemptSteps,
     DP!AttemptSteps, D!Billable, DP!Billable, D!IsPotentiallyBillable, DP!IsPotentiallyBillable,
     D!Status, DP!Status, D!TERMINAL, DP!TERMINAL, D!At, DP!At, D!Goto, DP!Goto, D!Return,
     DP!Return, D!Idle, DP!Idle, D!NoAccount, DP!NoAccount, D!NoRecord, DP!NoRecord, D!store,
     DP!store

LEMMA SameSweeps == ASSUME NEW c PROVE D!Sweeps(c) <=> DP!Sweeps(c)
BY DEF D!Sweeps, DP!Sweeps, D!SweepSelect, DP!SweepSelect, D!SweepLease, DP!SweepLease,
     D!SweepErase, DP!SweepErase, D!SweepComplete, DP!SweepComplete, D!SweepHolds, DP!SweepHolds,
     D!SweepRelease, DP!SweepRelease, D!SweepDies, DP!SweepDies, D!Leasable, DP!Leasable,
     D!Completed, DP!Completed, D!SweeperIdle, DP!SweeperIdle, D!Records, DP!Records,
     D!NoAccount, DP!NoAccount, D!NoRecord, DP!NoRecord, D!store, DP!store

LEMMA SameOutside == D!Outside <=> DP!Outside
BY DEF D!Outside, DP!Outside, D!ClaimCustomer, DP!ClaimCustomer, D!CustomerGone, DP!CustomerGone,
     D!EntitlementWritten, DP!EntitlementWritten, D!StripeMove, DP!StripeMove, D!VerdictGiven,
     DP!VerdictGiven, D!PastRequested, DP!PastRequested, D!Billable, DP!Billable,
     D!IsPotentiallyBillable, DP!IsPotentiallyBillable, D!Status, DP!Status, D!TERMINAL,
     DP!TERMINAL, D!At, DP!At, D!Records, DP!Records, D!NoAccount, DP!NoAccount, D!store, DP!store

LEMMA SameNext == [D!Next]_(D!vars) <=> [DP!Next]_(DP!vars)
<1>1. ASSUME NEW r PROVE D!LeaseExpires(r) <=> DP!LeaseExpires(r)
  BY DEF D!LeaseExpires, DP!LeaseExpires
<1>2. D!vars = DP!vars /\ D!Records = DP!Records
  BY DEF D!vars, DP!vars, D!Records, DP!Records
<1>3. D!Next <=> DP!Next
  BY <1>1, <1>2, SameBegins, SameAttempts, SameSweeps, SameOutside DEF D!Next, DP!Next
<1>4. UNCHANGED D!vars <=> UNCHANGED DP!vars
  BY DEF D!vars, DP!vars
<1> QED
  BY <1>3, <1>4

LEMMA SameAssumptions == DP!DeletionAssumption /\ DP!StripeMovesAssumption
BY LifecycleAssumption
DEF DP!DeletionAssumption, DP!StripeMovesAssumption, DP!StripeStatus, DP!Status, DP!TERMINAL,
    D!StripeStatus, D!Status, D!TERMINAL

LEMMA DeletionInvariance == Spec => [](DP!IInv /\ DP!ErasureInv)
<1>2. Spec => D!Spec
  BY DeletionImplemented DEF ImplementsDeletion
<1>3. D!Spec => DP!Spec
  BY SameInit, SameNext, PTL DEF D!Spec, DP!Spec
<1> QED
  BY <1>2, <1>3, SameAssumptions, DP!ErasureInvariance

-----------------------------------------------------------------------------
(* What a deleted account leaves.  The rows of an account that is there,   *)
(* or has claimed no Customer yet, are its own; once it is gone there is   *)
(* nothing left that gives access.                                         *)

OwnRows == \A s \in Subs : ~stored[s].detached

Nothing == /\ entitlement = "none" /\ reference = NoSub
           /\ \A s \in Subs : stored[s].status # "none" => stored[s].detached

HistoryInv == /\ payer = D!NoAccount \/ Exists => OwnRows
              /\ ~Exists => Nothing

LEMMA HistoryInit == Init => HistoryInv
BY DEF Init, D!Init, B!Init, HistoryInv, OwnRows, Nothing

\* What a commit writes, for a transaction that has found the account or has not.
LEMMA CommitWrites ==
    ASSUME SharedInv, NEW w \in B!Workers, worker[w].pc = "tx", B!Commit(w)
    PROVE  LET k == worker[w]
               s == k.sub
           IN /\ s \in Subs /\ FoundBy(w, k)
              /\ \A q \in Subs : q # s => stored'[q] = stored[q]
              /\ \/ UNCHANGED <<stored, entitlement, reference>>
                 \/ /\ stored'[s].status = k.snap
                    /\ stored'[s].detached <=> stored[s].detached \/ ~k.exists
                    /\ IF k.grantable
                       THEN /\ entitlement' = IF B!StatusEntitles(k.snap) THEN "active" ELSE "inactive"
                            /\ reference' = s
                       ELSE UNCHANGED <<entitlement, reference>>
<1> DEFINE k == worker[w]
           s == k.sub
           row == [status |-> k.snap, at |-> k.at, detached |-> stored[s].detached \/ ~k.exists]
<1>1. s \in Subs /\ FoundBy(w, k) /\ k.grantable \in BOOLEAN
  BY DEF SharedInv, TypedInv, WorkersInv, WorkerType, KnowsItsEvent, LockInv
<1>2. CASE ~B!Applies(w)
  BY <1>1, <1>2 DEF B!Commit
<1>3. CASE B!Applies(w)
  <2>1. /\ stored' = [stored EXCEPT ![s] = row]
        /\ entitlement' = IF ~k.grantable THEN entitlement
                          ELSE IF B!StatusEntitles(k.snap) THEN "active" ELSE "inactive"
        /\ reference' = IF k.grantable THEN s ELSE reference
    BY <1>3 DEF B!Commit
  <2>2. /\ row.status = k.snap
        /\ row.detached <=> stored[s].detached \/ ~k.exists
    OBVIOUS
  <2> HIDE DEF row
  <2>3. stored'[s] = row /\ \A q \in Subs : q # s => stored'[q] = stored[q]
    BY <1>1, <2>1 DEF SharedInv, TypedInv, BillingInv, StoredType
  <2> QED BY <1>1, <2>1, <2>2, <2>3
<1> QED
  BY <1>2, <1>3

\* A handler that finds no account grants nothing and leaves its row detached.
LEMMA HistoryEnd ==
    ASSUME SharedInv, HistoryInv, NEW w \in B!Workers, EndEvent(w)
    PROVE  HistoryInv'
<1>1. UNCHANGED <<account, payer>> /\ Exists' = Exists
  BY EndWrites DEF SharedInv, deletion, Exists
<1>2. CASE UNCHANGED B!billing
  BY <1>1, <1>2 DEF B!billing, HistoryInv, OwnRows, Nothing
<1>3. CASE worker[w].pc = "tx" /\ B!Commit(w)
  <2> DEFINE k == worker[w]
  <2>1. k.exists <=> Exists
    BY <1>3, CommitWrites DEF FoundBy
  <2>2. payer # D!NoAccount
    BY <1>3 DEF SharedInv, PayerInv, NothingYet
  <2>3. CASE k.exists
    BY <1>1, <1>3, <2>1, <2>2, <2>3, CommitWrites DEF HistoryInv, OwnRows
  <2>4. CASE ~k.exists
    <3>1. ~k.grantable
      BY <1>3, <2>4, CommitWrites DEF FoundBy
    <3> QED BY <1>1, <1>3, <2>1, <2>2, <2>4, <3>1, CommitWrites DEF HistoryInv, Nothing
  <2> QED BY <2>3, <2>4
<1> QED
  BY <1>2, <1>3, EndWrites DEF SharedInv

\* The removal takes the entitlement with the account and detaches its rows; an
\* account once removed is not provisioned again, and the one provisioned after
\* it is not the one Stripe names.
LEMMA HistoryDeletion ==
    ASSUME SharedInv, HistoryInv, DeletionStep
    PROVE  HistoryInv'
<1>1. DeletionSteps /\ LeavesHistory
  BY DEF DeletionStep
<1>2. /\ payer # D!NoAccount => payer' = payer
      /\ payer' # payer => /\ payer = D!NoAccount /\ NothingYet
                           /\ payer' = account /\ account' = account
      /\ account' = account \/ account' = D!NoAccount \/ (~Exists /\ account' > minted)
  BY PayerMoves DEF SharedInv
<1>3. CASE Exists /\ account' # account
  <2>1. reference' = NoSub /\ stored' = [s \in Subs |-> Detached(stored[s])]
    BY <1>1, <1>3 DEF LeavesHistory
  <2>2. entitlement' = "none" /\ account' = D!NoAccount
    BY <1>1, <1>3, DeletionWrites DEF Exists
  <2>3. ASSUME NEW s \in Subs PROVE stored'[s].status # "none" => stored'[s].detached
    BY <2>1 DEF Detached, SharedInv, TypedInv, BillingInv, StoredType
  <2>4. payer' # D!NoAccount
    BY <1>2, <1>3 DEF Exists
  <2> QED BY <2>1, <2>2, <2>3, <2>4 DEF HistoryInv, Nothing, Exists
<1>4. CASE Exists /\ account' = account
  BY <1>1, <1>2, <1>4 DEF LeavesHistory, HistoryInv, OwnRows, Exists
<1>5. CASE ~Exists
  <2>1. stored' = stored /\ reference' = reference /\ entitlement' = entitlement
    BY <1>1, <1>5, DeletionWrites DEF LeavesHistory, HistoryInv, Nothing, Exists
  <2>2. CASE payer # D!NoAccount
    <3>1. payer' = payer /\ ~Exists'
      BY <1>5, <2>2, GoneForGood DEF SharedInv
    <3> QED BY <1>5, <2>1, <2>2, <3>1 DEF HistoryInv, Nothing
  <2>3. CASE payer = D!NoAccount
    BY <1>5, <2>1, <2>3 DEF HistoryInv, OwnRows, Nothing
  <2> QED BY <2>2, <2>3
<1> QED
  BY <1>2, <1>3, <1>4, <1>5

LEMMA HistoryStep == SharedInv /\ HistoryInv /\ [Next]_vars => HistoryInv'
<1>1. ASSUME NEW w \in B!Workers, StartEvent(w) \/ BeginEvent(w), SharedInv, HistoryInv
      PROVE  HistoryInv'
  BY <1>1, TypedStart, BeginWrites DEF SharedInv, B!billing, deletion, HistoryInv, OwnRows, Nothing, Exists
<1>2. ASSUME UNCHANGED vars, HistoryInv PROVE HistoryInv'
  BY <1>2 DEF vars, deletion, HistoryInv, OwnRows, Nothing, Exists
<1> QED
  BY <1>1, <1>2, HistoryEnd, HistoryDeletion DEF Next

LEMMA HistoryInvariance == Spec => [](SharedInv /\ HistoryInv)
BY HistoryInit, HistoryStep, SharedInvariance, PTL DEF Spec

\* Once the account Stripe names is gone nothing restores access: no entitlement
\* row, though the reader may have been given another account, and every
\* subscription row detached, those of the events that come later included.
THEOREM DeletedStaysDeleted == Spec => []NothingForDeletedAccount
<1>1. SharedInv /\ HistoryInv => NothingForDeletedAccount
  BY DEF HistoryInv, Nothing, NothingForDeletedAccount, Exists
<1> QED
  BY <1>1, HistoryInvariance, PTL

-----------------------------------------------------------------------------
(* Access until billing is ended.  An event withheld from an account that  *)
(* exists has found its record decided, and a decided record stays so.     *)

Undecided == \A r \in DeletionOf(account) : rec[r].stage = "requested"

Follows == entitlement = "active" <=> B!StatusEntitles(stored[reference].status)

OrdinaryInv == Exists /\ reference # NoSub /\ Undecided => Follows

LEMMA OrdinaryInit == Init => OrdinaryInv
BY DEF Init, D!Init, OrdinaryInv, Exists

LEMMA OrdinaryEnd ==
    ASSUME SharedInv, OrdinaryInv, NEW w \in B!Workers, EndEvent(w)
    PROVE  OrdinaryInv'
<1>1. UNCHANGED <<account, payer, rec>> /\ Exists' = Exists /\ Undecided' = Undecided
  BY EndWrites DEF SharedInv, deletion, Exists, Undecided, DeletionOf
<1>2. CASE UNCHANGED B!billing
  BY <1>1, <1>2 DEF B!billing, OrdinaryInv, Follows
<1>3. CASE worker[w].pc = "tx" /\ B!Commit(w)
  <2> DEFINE k == worker[w]
  <2>1. FoundBy(w, k) /\ k.sub \in Subs
    BY <1>3, CommitWrites
  <2>2. CASE ~k.exists
    BY <1>1, <2>1, <2>2 DEF FoundBy, OrdinaryInv
  <2>3. CASE k.exists /\ ~k.grantable
    <3>1. PICK r \in shares[w] : rec[r].acct = account /\ rec[r].stage \notin {"absent", "requested"}
      BY <2>1, <2>3 DEF FoundBy
    <3>2. ~Undecided
      BY <1>3, <3>1 DEF Undecided, DeletionOf, SharedInv, TypedInv, WorkersInv
    <3> QED BY <1>1, <3>2 DEF OrdinaryInv
  <2>4. CASE k.exists /\ k.grantable
    <3>1. CASE UNCHANGED <<stored, entitlement, reference>>
      BY <1>1, <3>1 DEF OrdinaryInv, Follows
    <3>2. CASE /\ stored'[k.sub].status = k.snap
               /\ entitlement' = IF B!StatusEntitles(k.snap) THEN "active" ELSE "inactive"
               /\ reference' = k.sub
      BY <3>2 DEF OrdinaryInv, Follows, B!StatusEntitles
    <3> QED BY <1>3, <2>4, <3>1, <3>2, CommitWrites
  <2> QED BY <2>2, <2>3, <2>4
<1> QED
  BY <1>2, <1>3, EndWrites DEF SharedInv

\* A step of the deletion revokes only with a record decided, and never takes a decision back.
LEMMA OrdinaryDeletion ==
    ASSUME SharedInv, HistoryInv, DP!IInv, DP!ErasureInv, OrdinaryInv, DeletionStep, [DP!Next]_(DP!vars)
    PROVE  OrdinaryInv'
<1> SUFFICES ASSUME Exists', reference' # NoSub, Undecided' PROVE Follows'
  BY DEF OrdinaryInv
<1>1. DeletionSteps /\ LeavesHistory
  BY DEF DeletionStep
<1>2. Exists /\ account' = account /\ UNCHANGED <<stored, reference>>
  <2>1. CASE ~Exists
    <3>1. reference' = NoSub
      BY <1>1, <2>1 DEF LeavesHistory, HistoryInv, Nothing
    <3> QED BY <3>1
  <2>2. CASE Exists /\ account' # account
    BY <1>1, <2>2 DEF LeavesHistory
  <2> QED BY <1>1, <2>1, <2>2 DEF LeavesHistory
<1>3. ASSUME NEW r \in D!Records, rec[r].acct = account, rec[r].stage \notin {"absent", "requested"}
      PROVE  FALSE
  <2>1. r \in DP!Records /\ account # DP!NoAccount
    BY <1>2 DEF Exists, D!Records, DP!Records, D!NoAccount, DP!NoAccount
  <2>2. rec'[r].acct = account' /\ rec'[r].stage \notin {"absent", "requested"}
    BY <1>2, <1>3, <2>1, SameAssumptions, DP!DecidedStays DEF DP!Decided
  <2> QED BY <2>2 DEF Undecided, DeletionOf, D!Records
<1>4. Undecided
  BY <1>3 DEF Undecided, DeletionOf
<1>5. entitlement' = entitlement
  <2>1. ASSUME NEW p \in Requests, D!MarkBillingTerminated(p), entitlement' # entitlement PROVE FALSE
    <3>1. DP!MarkBillingTerminated(p)
      BY <2>1 DEF D!MarkBillingTerminated, DP!MarkBillingTerminated, D!At, DP!At, D!Goto, DP!Goto,
         D!Advanced, DP!Advanced, D!RevokedForDeletion, DP!RevokedForDeletion, D!NoAccount, DP!NoAccount
    <3>2. PICK r \in DP!Records : rec'[r].acct = account' /\ rec'[r].stage \notin {"absent", "requested"}
      BY <2>1, <3>1, SameAssumptions, DP!RevocationIsDecided DEF DP!Decided
    <3> QED BY <3>2 DEF Undecided, DeletionOf, D!Records, DP!Records
  <2>2. entitlement' # entitlement => \E p \in Requests : D!MarkBillingTerminated(p)
    BY <1>1, <1>2, RevocationWrites DEF Exists
  <2> QED BY <2>1, <2>2
<1> QED
  BY <1>2, <1>4, <1>5 DEF OrdinaryInv, Follows

LEMMA OrdinaryStep ==
    SharedInv /\ HistoryInv /\ DP!IInv /\ DP!ErasureInv /\ OrdinaryInv /\ [Next]_vars => OrdinaryInv'
<1>1. ASSUME NEW w \in B!Workers, StartEvent(w) \/ BeginEvent(w), SharedInv, OrdinaryInv
      PROVE  OrdinaryInv'
  BY <1>1, TypedStart, BeginWrites
  DEF SharedInv, B!billing, deletion, OrdinaryInv, Follows, Undecided, DeletionOf, Exists
<1>2. ASSUME UNCHANGED vars, OrdinaryInv PROVE OrdinaryInv'
  BY <1>2 DEF vars, deletion, OrdinaryInv, Follows, Undecided, DeletionOf, Exists
<1>3. SharedInv /\ [Next]_vars => [DP!Next]_(DP!vars)
  BY RefinesStep, SameNext
<1> QED
  BY <1>1, <1>2, <1>3, OrdinaryEnd, OrdinaryDeletion DEF Next

\* While a deletion is merely requested the account is an ordinary one: access is
\* what the stored status of the subscription it follows gives.
THEOREM AccessIsOrdinary == Spec => []OrdinaryUntilTermination
<1>1. SharedInv /\ HistoryInv /\ OrdinaryInv => OrdinaryUntilTermination
  BY DEF SharedInv, TypedInv, BillingInv, HistoryInv, OwnRows, OrdinaryInv, Follows, Undecided,
     OrdinaryUntilTermination
<1> QED
  BY <1>1, OrdinaryInit, OrdinaryStep, HistoryInvariance, DeletionInvariance, PTL DEF Spec

-----------------------------------------------------------------------------
(* Grants past the end of billing. *)

\* A row a transaction shares is in flight, and so is every record that names the
\* account: they are the same record, which the transaction has found at `requested`.
\* A grant past the termination of billing comes from a transaction that found none.
THEOREM LateGrantsSawNoRecord == Spec => LateGrantSawNoRecord
<1>1. ASSUME SharedInv, DP!IInv, DP!ErasureInv, [Next]_vars,
             entitlement # "active", entitlement' = "active"
      PROVE  \/ \A r \in DeletionOf(account) : rec[r].stage = "requested"
             \/ \E w \in B!Workers : worker[w].pc = "tx" /\ shares[w] = {}
  <2>1. PICK w \in B!Workers : EndEvent(w)
    <3>1. ~DeletionStep
      BY <1>1, DeletionWrites DEF DeletionStep
    <3>2. ASSUME NEW w \in B!Workers, StartEvent(w) \/ BeginEvent(w) PROVE FALSE
      BY <1>1, <3>2 DEF StartEvent, BeginEvent, B!Deliver, B!StartReconciliation, B!Fetch, B!Begin,
         B!billing
    <3>3. ~UNCHANGED vars
      BY <1>1 DEF vars
    <3> QED BY <1>1, <3>1, <3>2, <3>3 DEF Next
  <2>2. worker[w].pc = "tx" /\ worker[w].grantable
    BY <1>1, <2>1, EndWrites DEF SharedInv, B!billing, B!Commit
  <2>3. Exists /\ \A r \in shares[w] : rec[r].stage = "requested"
    BY <1>1, <2>2 DEF SharedInv, LockInv, FoundBy
  <2>4. ASSUME NEW r \in DeletionOf(account), NEW q \in shares[w]
        PROVE  rec[r].stage = "requested"
    <3>1. q \in D!Records /\ rec[q].stage = "requested"
      BY <1>1, <2>3 DEF SharedInv, TypedInv, WorkersInv
    <3>2. /\ r \in DP!Records /\ q \in DP!Records
          /\ rec[r].stage # "absent" /\ rec[r].acct # DP!NoAccount
      BY <2>3, <3>1 DEF DeletionOf, Exists, D!Records, DP!Records, D!NoAccount, DP!NoAccount
    <3>3. rec[r].stage \in DP!InFlightStages
      BY <1>1, <3>2 DEF DP!IInv, DP!TypeOK, DP!RecordRow, DP!StageNames, DP!InFlightStages,
         DP!ErasureInv, DP!NamesNobody
    <3>4. r = q
      BY <1>1, <3>1, <3>2, <3>3 DEF DP!IInv, DP!OneInFlight, DP!InFlight, DP!InFlightStages
    <3> QED BY <3>1, <3>4
  <2> QED BY <2>2, <2>4
<1>2. SharedInv /\ DP!IInv /\ DP!ErasureInv /\ [Next]_vars =>
        [entitlement # "active" /\ entitlement' = "active" =>
           \/ \A r \in DeletionOf(account) : rec[r].stage = "requested"
           \/ \E w \in B!Workers : worker[w].pc = "tx" /\ shares[w] = {}]_vars
  BY <1>1
<1> QED
  BY <1>2, SharedInvariance, DeletionInvariance, PTL DEF Spec, LateGrantSawNoRecord

=============================================================================
