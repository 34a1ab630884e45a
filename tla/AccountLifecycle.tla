-------------------------- MODULE AccountLifecycle --------------------------
(***************************************************************************)
(* Account deletion and billing events on the same rows: what a webhook    *)
(* handler's transaction reads and locks of the account and of its         *)
(* deletion, what the deletion's steps wait for, the events its            *)
(* cancellations cause, and the history an account leaves behind.          *)
(*                                                                         *)
(* Time stands still here, so no event is stale: a stale one would change  *)
(* the ledger and nothing else.  Which events are stale is BillingEvents'. *)
(***************************************************************************)
EXTENDS Naturals, FiniteSets

CONSTANTS
    Requests, Sweepers, Subs, MaxRecords, MaxAccounts, ErasureRequired, StripeMoves,
    NoSub, Handlers, Reconcilers, TicksPerSecond, MaxClock, MaxEvents, Spaced

VARIABLES
    account, minted, authUser, customer, stripe, entitlement, rec, req, swp, late, erased,
    clock, events, ledger, stored, reference, worker,
    payer,    \* the account the metadata of Stripe's subscriptions names
    shares    \* the deletion rows a handler's open transaction holds FOR SHARE

D == INSTANCE AccountDeletion
B == INSTANCE BillingEvents

ASSUME LifecycleAssumption ==
    /\ MaxAccounts \in Nat /\ MaxRecords \in Nat \ {0} /\ ErasureRequired \in BOOLEAN
    /\ NoSub \notin Subs /\ Handlers \cap Reconcilers = {}
    /\ TicksPerSecond \in Nat \ {0} /\ MaxClock \in Nat /\ MaxEvents \in Nat
    /\ Spaced \in BOOLEAN
    /\ StripeMoves \subseteq D!StripeStatus \X D!Status
    /\ \A m \in StripeMoves : m[1] \notin D!TERMINAL

deletion == <<account, minted, authUser, customer, rec, req, swp, late, erased>>
vars == <<deletion, stripe, entitlement, clock, events, ledger, stored, reference, worker, payer,
          shares>>

Init == D!Init /\ B!Init /\ payer = D!NoAccount /\ shares = [w \in B!Workers |-> {}]

-----------------------------------------------------------------------------
(* The transaction's side: applySubscriptionEvent. *)

\* MUTANT of Exists: any account of the identity is taken for the one the event names.
AnyExists == account # D!NoAccount

\* The named account is there.  Another one may be: a request that looked before
\* the deletion provisions it after.
Exists == account # D!NoAccount /\ account = payer
DeletionOf(a) == {r \in D!Records : rec[r].stage # "absent" /\ rec[r].acct = a}

\* MUTANT of BeginEvent: the account the event names is taken to exist.
BeginUnchecked(w) ==
    /\ B!Begin(w, TRUE, TRUE)
    /\ UNCHANGED <<payer, shares, deletion>>

\* MUTANT of BeginEvent: any deletion row withholds, one merely requested included.
BeginWithholds(w) ==
    LET seen == IF Exists THEN DeletionOf(account) ELSE {}
    IN /\ B!Begin(w, Exists, seen = {})
       /\ shares' = [shares EXCEPT ![w] = IF worker'[w].pc = "tx" THEN seen ELSE {}]
       /\ UNCHANGED <<payer, deletion>>

\* select .. for key share on the account, then for share on its deletion row --
\* which locks nothing when there is no such row yet.
BeginEvent(w) ==
    LET seen == IF Exists THEN DeletionOf(account) ELSE {}
    IN /\ B!Begin(w, Exists, \A r \in seen : rec[r].stage = "requested")
       /\ shares' = [shares EXCEPT ![w] = IF worker'[w].pc = "tx" THEN seen ELSE {}]
       /\ UNCHANGED <<payer, deletion>>

EndEvent(w) ==
    /\ B!Commit(w) \/ B!Fails(w)
    /\ shares' = [shares EXCEPT ![w] = {}]
    /\ UNCHANGED <<payer, deletion>>

StartEvent(w) ==
    /\ \/ \E e \in events : B!Deliver(w, e)
       \/ customer.row = "attached" /\ \E s \in Subs : B!StartReconciliation(w, s)
       \/ B!Fetch(w)
    /\ UNCHANGED <<deletion, payer, shares>>

-----------------------------------------------------------------------------
(* The deletion's side.  *)

\* An update of a deletion row waits for the transactions that share it, a
\* deletion of the account for those that hold its key.
KeyHeld == \E w \in B!Workers : worker[w].pc = "tx" /\ worker[w].exists
\* MUTANT of WaitsForLocks: the deletion row is read without `for share`.
WaitsForKeyOnly == Exists /\ account' # account => ~KeyHeld

WaitsForLocks ==
    /\ \A r \in D!Records : rec'[r] # rec[r] => \A w \in B!Workers : r \notin shares[w]
    /\ Exists /\ account' # account => ~KeyHeld

\* ON DELETE SET NULL and its trigger: the account's rows stay, detached.
Detached(row) == IF row.status = "none" THEN row ELSE [row EXCEPT !.detached = TRUE]

LeavesHistory ==
    LET removed == Exists /\ account' # account
    IN /\ stored' = IF removed THEN [s \in Subs |-> Detached(stored[s])] ELSE stored
       /\ reference' = IF removed THEN NoSub ELSE reference

\* createPremiumCheckoutSession writes the id of the account whose Customer it is
\* into the metadata; Stripe keeps it when the account is gone.
NamesPayer == payer' = IF customer'.row = "attached" THEN customer'.acct ELSE payer

DeletionSteps == \/ \E p \in Requests : D!Begins(p) \/ D!Attempts(p)
                 \/ \E c \in Sweepers : D!Sweeps(c)
                 \/ \E r \in D!Records : D!LeaseExpires(r)
                 \/ D!ClaimCustomer \/ D!CustomerGone
                 \/ \E s \in Subs : D!StripeMove(s)

DeletionStep ==
    /\ DeletionSteps
    /\ WaitsForLocks
    /\ LeavesHistory
    /\ NamesPayer
    /\ B!Emits
    /\ UNCHANGED <<clock, ledger, worker, shares>>

Next == \/ \E w \in B!Workers : StartEvent(w) \/ BeginEvent(w) \/ EndEvent(w)
        \/ DeletionStep

Spec == Init /\ [][Next]_vars

-----------------------------------------------------------------------------
(* What they keep together. *)

\* "No later event can restore access to a deleted account" (store.ts): once the
\* account Stripe knows is gone no entitlement row exists, not even of an account
\* provisioned after it, and every subscription row it leaves, or a later event
\* adds, is detached.
NothingForDeletedAccount ==
    account # payer =>
        /\ entitlement = "none" /\ reference = NoSub
        /\ \A s \in Subs : stored[s].status # "none" => stored[s].detached

\* A grant that reaches an account past billing termination comes from a
\* transaction that looked for a deletion row before there was one: a row that
\* was there is locked, and the revocation waits.
LateGrantSawNoRecord ==
    [][entitlement # "active" /\ entitlement' = "active" =>
         \/ \A r \in DeletionOf(account) : rec[r].stage = "requested"
         \/ \E w \in B!Workers : worker[w].pc = "tx" /\ shares[w] = {}]_vars

\* "Before billing termination the account is an ordinary account" (store.ts): a
\* deletion that is merely requested withholds nothing, so access is what the
\* subscription it follows gives, and that one is the account's own still.
OrdinaryUntilTermination ==
    Exists /\ reference # NoSub /\ (\A r \in DeletionOf(account) : rec[r].stage = "requested") =>
        /\ entitlement = "active" <=> B!StatusEntitles(stored[reference].status)
        /\ ~stored[reference].detached

\* Seen from the deletion, the handlers do no more than write the entitlement of
\* an existing account: what AccountDeletion promises holds beside them.
ImplementsDeletion == D!Spec

\* "The revocation commits with billing_terminated. A deletion that stalls later
\* never leaves access active" (account-deletion.md); "a grant can never land
\* after that revocation" (store.ts).
RevocationHolds ==
    Exists => \A r \in DeletionOf(account) : rec[r].stage = "requested" \/ entitlement # "active"
=============================================================================
