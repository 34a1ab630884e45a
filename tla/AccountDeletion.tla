-------------------------- MODULE AccountDeletion --------------------------
(***************************************************************************)
(* Deleting the account of one Supabase identity: the requests the reader  *)
(* makes (viewing a page provisions an account, the deletion form starts   *)
(* or resumes a deletion), the daily analytics-erasure cron, and the rows  *)
(* they share.  Every SQL statement, every transaction that runs no        *)
(* network call, and every call to Stripe, Supabase or the analytics       *)
(* provider is one atomic step; anything may happen between two of them,   *)
(* the death of the process included.                                      *)
(*                                                                         *)
(* An attempt works on the copy of the record its lease returned.  A lease *)
(* lapses after two minutes whether or not its holder is still running, so *)
(* several attempts, old ones included, may be on one record at once.      *)
(***************************************************************************)
EXTENDS Subscriptions, Naturals, FiniteSets

CONSTANTS
    Requests,        \* HTTP requests of the reader that may be in progress at once
    Sweepers,        \* invocations of the analytics-erasure cron
    Subs,            \* Stripe subscription ids
    MaxRecords,      \* bound: account_deletions rows
    MaxAccounts,     \* bound: account rows ever provisioned for the identity
    ErasureRequired  \* analyticsErasureRequired()

ASSUME DeletionAssumption ==
    /\ MaxRecords \in Nat \ {0}
    /\ MaxAccounts \in Nat
    /\ ErasureRequired \in BOOLEAN

Records == 1..MaxRecords
NoRecord == 0
NoAccount == 0
AccountId == 1..MaxAccounts
AccountRef == AccountId \cup {NoAccount}

StageNames == {"absent", "requested", "billing_terminated", "local_cleanup_complete",
               "auth_deleted", "complete"}
Rank(st) == CASE st = "absent"                 -> 0
              [] st = "requested"              -> 1
              [] st = "billing_terminated"     -> 2
              [] st = "local_cleanup_complete" -> 3
              [] st = "auth_deleted"           -> 4
              [] st = "complete"               -> 5

InFlightStages == {"requested", "billing_terminated", "local_cleanup_complete", "auth_deleted"}
PastRequested == {"billing_terminated", "local_cleanup_complete", "auth_deleted", "complete"}

VARIABLES
    account,      \* identity.accounts: the identity's row, or NoAccount
    minted,       \* account ids handed out so far
    authUser,     \* the Supabase Auth user exists
    customer,     \* identity.billing_customers and its Stripe Customer
    stripe,       \* Stripe's own subscriptions
    entitlement,  \* identity.premium_entitlements of the account
    rec,          \* identity.account_deletions
    req,          \* the requests in progress
    swp,          \* the cron invocations in progress
    late,         \* history: subscriptions created after Stripe was verified clear
    erased        \* accounts whose erasure the analytics provider accepted

store == <<account, minted, authUser, customer, entitlement, rec>>
vars == <<account, minted, authUser, customer, stripe, entitlement, rec, req, swp, late, erased>>

Billable == {s \in Subs : IsPotentiallyBillable(stripe[s])}

\* The record that still names this auth subject (at most one: a unique index).
InFlight == {r \in Records : rec[r].stage \in InFlightStages}

RequestSteps == {"inFlight", "select", "check", "upsert", "mapping", "open", "lease"}
AttemptSteps == {"list", "cancel", "relist", "mark", "detach", "cleanup",
                 "auth", "markAuth", "finish", "release"}

Idle == [pc |-> "idle", intent |-> "view", rid |-> NoRecord, acct |-> NoAccount,
         cust |-> FALSE, todo |-> {}]
SweeperIdle == [pc |-> "idle", rid |-> NoRecord, acct |-> NoAccount]
Absent == [stage |-> "absent", acct |-> NoAccount, cust |-> FALSE, lease |-> FALSE]

RecordRow == [stage : StageNames, acct : AccountRef, cust : BOOLEAN, lease : BOOLEAN]
RequestState == [pc : RequestSteps \cup AttemptSteps \cup {"idle"},
                 intent : {"view", "delete", "resume"}, rid : Records \cup {NoRecord},
                 acct : AccountRef, cust : BOOLEAN, todo : SUBSET Subs]
SweeperState == [pc : {"idle", "lease", "erase", "complete", "release"},
                 rid : Records \cup {NoRecord}, acct : AccountRef]

TypeOK ==
    /\ account \in AccountRef
    /\ minted \in 0..MaxAccounts
    /\ authUser \in BOOLEAN
    /\ customer \in [row : {"none", "attached", "detached"}, acct : AccountRef, gone : BOOLEAN]
    /\ stripe \in [Subs -> StripeStatus]
    /\ entitlement \in {"none", "active", "inactive"}
    /\ rec \in [Records -> RecordRow]
    /\ req \in [Requests -> RequestState]
    /\ swp \in [Sweepers -> SweeperState]
    /\ late \subseteq Subs
    /\ erased \subseteq AccountId

Init ==
    /\ account = NoAccount
    /\ minted = 0
    /\ authUser = TRUE
    /\ customer = [row |-> "none", acct |-> NoAccount, gone |-> FALSE]
    /\ stripe = [s \in Subs |-> "none"]
    /\ entitlement = "none"
    /\ rec = [r \in Records |-> Absent]
    /\ req = [p \in Requests |-> Idle]
    /\ swp = [c \in Sweepers |-> SweeperIdle]
    /\ late = {}
    /\ erased = {}

-----------------------------------------------------------------------------
(* A request arrives: resolveSupabaseIdentity asks Supabase, so it needs   *)
(* the Auth user.  "view" is any signed-in page, "delete" the form with    *)
(* the confirmation and a recent sign-in, "resume" the form without them.  *)

At(p, pc) == req[p].pc = pc
Goto(p, pc) == req' = [req EXCEPT ![p].pc = pc]
Return(p) == req' = [req EXCEPT ![p] = Idle]

Arrive(p, intent) ==
    /\ At(p, "idle")
    /\ authUser
    /\ req' = [req EXCEPT ![p] = [Idle EXCEPT !.intent = intent,
                   !.pc = IF intent = "view" THEN "select" ELSE "inFlight"]]
    /\ UNCHANGED <<store, stripe, swp, late, erased>>

\* MUTANT of ReadInFlight: any record in flight may be resumed unconfirmed.
ResumesAnything(p) ==
    /\ At(p, "inFlight")
    /\ \/ InFlight = {} /\ req[p].intent = "delete" /\ Goto(p, "select")
       \/ \E r \in InFlight : req' = [req EXCEPT ![p].pc = "lease", ![p].rid = r]
    /\ UNCHANGED <<store, stripe, swp, late, erased>>

\* readInFlightDeletion.  Starting a deletion, or retrying one before billing has
\* ended, is refused without the confirmation.
ReadInFlight(p) ==
    /\ At(p, "inFlight")
    /\ LET decided == \E r \in InFlight : rec[r].stage # "requested"
       IN \/ ~decided /\ req[p].intent = "resume" /\ Return(p)
          \/ InFlight = {} /\ req[p].intent = "delete" /\ Goto(p, "select")
          \/ /\ decided \/ req[p].intent = "delete"
             /\ \E r \in InFlight : req' = [req EXCEPT ![p].pc = "lease", ![p].rid = r]
    /\ UNCHANGED <<store, stripe, swp, late, erased>>

(* resolveUrdaisAccount: three statements, no transaction around them. *)

Found(p, a) ==
    IF req[p].intent = "view" THEN Return(p)
    ELSE req' = [req EXCEPT ![p].pc = "mapping", ![p].acct = a]

SelectAccount(p) ==
    /\ At(p, "select")
    /\ \/ account # NoAccount /\ Found(p, account)
       \/ account = NoAccount /\ Goto(p, "check")
    /\ UNCHANGED <<store, stripe, swp, late, erased>>

CheckInFlight(p) ==
    /\ At(p, "check")
    /\ \/ InFlight # {} /\ Return(p)          \* AccountDeletionPendingError
       \/ InFlight = {} /\ Goto(p, "upsert")
    /\ UNCHANGED <<store, stripe, swp, late, erased>>

UpsertAccount(p) ==
    /\ At(p, "upsert")
    /\ \/ /\ account # NoAccount
          /\ Found(p, account)
          /\ UNCHANGED <<account, minted>>
       \/ /\ account = NoAccount
          /\ minted < MaxAccounts
          /\ minted' = minted + 1
          /\ account' = minted + 1
          /\ Found(p, minted + 1)
    /\ UNCHANGED <<authUser, customer, entitlement, rec, stripe, swp, late, erased>>

ReadMapping(p) ==
    /\ At(p, "mapping")
    /\ req' = [req EXCEPT ![p].pc = "open",
                  ![p].cust = customer.row = "attached" /\ customer.acct = req[p].acct]
    /\ UNCHANGED <<store, stripe, swp, late, erased>>

\* insert .. on conflict do nothing, then the read of the winner.
OpenDeletion(p) ==
    /\ At(p, "open")
    /\ \/ \E r \in InFlight :
            /\ req' = [req EXCEPT ![p].pc = "lease", ![p].rid = r]
            /\ UNCHANGED rec
       \/ /\ InFlight = {}
          /\ \E r \in Records :
               /\ rec[r].stage = "absent"
               /\ \A q \in Records : q < r => rec[q].stage # "absent"
               /\ rec' = [rec EXCEPT ![r] = [stage |-> "requested", acct |-> req[p].acct,
                                             cust |-> req[p].cust, lease |-> FALSE]]
               /\ req' = [req EXCEPT ![p].pc = "lease", ![p].rid = r]
    /\ UNCHANGED <<account, minted, authUser, customer, entitlement, stripe, swp, late, erased>>

-----------------------------------------------------------------------------
(* One attempt: acquireLease, then advance() from the stage the lease      *)
(* returned, on the copy of the record it returned.                        *)

FirstStep(st, cust) ==
    CASE st = "requested"              -> IF cust THEN "list" ELSE "mark"
      [] st = "billing_terminated"     -> IF cust THEN "detach" ELSE "cleanup"
      [] st = "local_cleanup_complete" -> "auth"
      [] st = "auth_deleted"           -> "finish"

Leasable(r) == rec[r].stage # "complete" /\ ~rec[r].lease

AcquireLease(p) ==
    /\ At(p, "lease")
    /\ LET r == req[p].rid
       IN \/ /\ ~Leasable(r) /\ Return(p)
             /\ UNCHANGED rec
          \/ /\ Leasable(r)
             /\ rec' = [rec EXCEPT ![r].lease = TRUE]
             /\ req' = [req EXCEPT ![p].pc = FirstStep(rec[r].stage, rec[r].cust),
                           ![p].acct = rec[r].acct, ![p].cust = rec[r].cust]
    /\ UNCHANGED <<account, minted, authUser, customer, entitlement, stripe, swp, late, erased>>

\* terminateBilling: retrieve the Customer, list its subscriptions.  The
\* subscriptions of a deleted Customer went with it.
ListSubscriptions(p) ==
    /\ At(p, "list")
    /\ IF customer.gone THEN Goto(p, "mark")
       ELSE req' = [req EXCEPT ![p].pc = "cancel", ![p].todo = Billable]
    /\ UNCHANGED <<store, stripe, swp, late, erased>>

\* One turn of the loop.  A failed cancel is swallowed: the re-list decides.
CancelOne(p, s) ==
    /\ At(p, "cancel")
    /\ s \in req[p].todo
    /\ req' = [req EXCEPT ![p].todo = @ \ {s}]
    /\ \/ s \in Billable /\ stripe' = [stripe EXCEPT ![s] = "canceled"]
       \/ UNCHANGED stripe
    /\ UNCHANGED <<store, swp, late, erased>>

Cancelled(p) ==
    /\ At(p, "cancel")
    /\ req[p].todo = {}
    /\ Goto(p, "relist")
    /\ UNCHANGED <<store, stripe, swp, late, erased>>

\* MUTANT of RelistVerdict: only a subscription that entitles counts as billable.
VerdictOnEntitling(p) ==
    /\ At(p, "relist")
    /\ Goto(p, IF \A s \in Subs : ~StatusEntitles(stripe[s]) THEN "mark" ELSE "release")
    /\ UNCHANGED <<store, stripe, swp, late, erased>>

RelistVerdict(p) ==
    /\ At(p, "relist")
    /\ Goto(p, IF Billable = {} THEN "mark" ELSE "release")
    /\ UNCHANGED <<store, stripe, swp, late, erased>>

\* MUTANT of Advanced: `where state = <previous>` is missing.
AdvancedAnyway(r, from, to) ==
    [rec EXCEPT ![r].stage = to]

\* Advance the record, only from the stage before: `where state = <previous>`.
Advanced(r, from, to) ==
    [rec EXCEPT ![r].stage = IF @ = from THEN to ELSE @]

\* The premium_entitlements row of account a is revoked, if a still has one.
RevokedForDeletion(a) ==
    IF a # NoAccount /\ a = account /\ entitlement = "active" THEN "inactive" ELSE entitlement

MarkBillingTerminated(p) ==
    /\ At(p, "mark")
    /\ rec' = Advanced(req[p].rid, "requested", "billing_terminated")
    /\ entitlement' = RevokedForDeletion(req[p].acct)
    /\ Goto(p, IF req[p].cust THEN "detach" ELSE "cleanup")
    /\ UNCHANGED <<account, minted, authUser, customer, stripe, swp, late, erased>>

\* detachStripeCustomer: Customer metadata at Stripe, which no decision here reads.
DetachCustomer(p) ==
    /\ At(p, "detach")
    /\ Goto(p, "cleanup")
    /\ UNCHANGED <<store, stripe, swp, late, erased>>

\* MUTANT of RemoveLocalAccount: the account goes, the record is not advanced with it.
RemovalUnrecorded(p) ==
    /\ At(p, "cleanup")
    /\ account' = IF req[p].acct = account THEN NoAccount ELSE account
    /\ Goto(p, "auth")
    /\ UNCHANGED <<minted, authUser, customer, entitlement, rec, stripe, swp, late, erased>>

\* Deleting the account row cascades to the entitlement and detaches the
\* Customer row (ON DELETE SET NULL and its trigger).
RemoveLocalAccount(p) ==
    /\ At(p, "cleanup")
    /\ LET a == req[p].acct
           deletes == a # NoAccount /\ a = account
       IN /\ account' = IF deletes THEN NoAccount ELSE account
          /\ entitlement' = IF deletes THEN "none" ELSE entitlement
          /\ customer' = IF deletes /\ customer.acct = a
                         THEN [customer EXCEPT !.row = "detached", !.acct = NoAccount]
                         ELSE customer
    /\ rec' = Advanced(req[p].rid, "billing_terminated", "local_cleanup_complete")
    /\ Goto(p, "auth")
    /\ UNCHANGED <<minted, authUser, stripe, swp, late, erased>>

\* MUTANT of DeleteAuthUser: a refused deletion is taken for a done one.
AuthErrorIgnored(p) ==
    /\ At(p, "auth")
    /\ authUser' \in {authUser, FALSE}
    /\ Goto(p, "markAuth")
    /\ UNCHANGED <<account, minted, customer, entitlement, rec, stripe, swp, late, erased>>

\* deleteAuthUser: "already gone" counts as deleted.
DeleteAuthUser(p) ==
    /\ At(p, "auth")
    /\ authUser' = FALSE
    /\ Goto(p, "markAuth")
    /\ UNCHANGED <<account, minted, customer, entitlement, rec, stripe, swp, late, erased>>

MarkAuthDeleted(p) ==
    /\ At(p, "markAuth")
    /\ rec' = Advanced(req[p].rid, "local_cleanup_complete", "auth_deleted")
    /\ Goto(p, "finish")
    /\ UNCHANGED <<account, minted, authUser, customer, entitlement, stripe, swp, late, erased>>

\* completeDeletion: identifiers and lease go, from auth_deleted only.
Completed(r) ==
    [rec EXCEPT ![r] = IF @.stage = "auth_deleted"
                       THEN [@ EXCEPT !.stage = "complete", !.acct = NoAccount, !.lease = FALSE]
                       ELSE @]

\* MUTANT of Finish: the request completes the record itself, analytics or not.
FinishUnheld(p) ==
    /\ At(p, "finish")
    /\ rec' = Completed(req[p].rid)
    /\ Return(p)
    /\ UNCHANGED <<account, minted, authUser, customer, entitlement, stripe, swp, late, erased>>

Finish(p) ==
    /\ At(p, "finish")
    /\ rec' = IF ErasureRequired THEN [rec EXCEPT ![req[p].rid].lease = FALSE]
              ELSE Completed(req[p].rid)
    /\ Return(p)
    /\ UNCHANGED <<account, minted, authUser, customer, entitlement, stripe, swp, late, erased>>

\* A provider or the database fails: fail() releases the lease.
StageFails(p) ==
    /\ req[p].pc \in AttemptSteps \ {"release"}
    /\ Goto(p, "release")
    /\ UNCHANGED <<store, stripe, swp, late, erased>>

\* releaseLease names the record, not the holder.
ReleaseLease(p) ==
    /\ At(p, "release")
    /\ rec' = [rec EXCEPT ![req[p].rid].lease = FALSE]
    /\ Return(p)
    /\ UNCHANGED <<account, minted, authUser, customer, entitlement, stripe, swp, late, erased>>

\* The process dies, or a statement before the lease throws: "unavailable".
Abandon(p) ==
    /\ ~At(p, "idle")
    /\ Return(p)
    /\ UNCHANGED <<store, stripe, swp, late, erased>>

\* MUTANT of LeaseExpires: a lease is only ever released.
LeaseForever(r) == FALSE /\ rec[r].lease /\ UNCHANGED vars

LeaseExpires(r) ==
    /\ rec[r].lease
    /\ rec' = [rec EXCEPT ![r].lease = FALSE]
    /\ UNCHANGED <<account, minted, authUser, customer, entitlement, stripe, req, swp, late, erased>>

-----------------------------------------------------------------------------
(* The cron: settleHeldDeletions takes the held records one at a time.     *)

SweepSelect(c, r) ==
    /\ swp[c].pc = "idle"
    /\ rec[r].stage = "auth_deleted"
    /\ swp' = [swp EXCEPT ![c].pc = "lease", ![c].rid = r]
    /\ UNCHANGED <<store, stripe, req, late, erased>>

SweepLease(c) ==
    /\ swp[c].pc = "lease"
    /\ LET r == swp[c].rid
       IN \/ /\ ~Leasable(r)
             /\ swp' = [swp EXCEPT ![c] = SweeperIdle]
             /\ UNCHANGED rec
          \/ /\ Leasable(r)
             /\ rec' = [rec EXCEPT ![r].lease = TRUE]
             /\ swp' = [swp EXCEPT ![c].acct = rec[r].acct, ![c].pc =
                           IF rec[r].stage # "auth_deleted" THEN "release"
                           ELSE IF ErasureRequired /\ rec[r].acct # NoAccount THEN "erase"
                           ELSE "complete"]
    /\ UNCHANGED <<account, minted, authUser, customer, entitlement, stripe, req, late, erased>>

SweepErase(c) ==
    /\ swp[c].pc = "erase"
    /\ erased' = erased \cup {swp[c].acct}
    /\ swp' = [swp EXCEPT ![c].pc = "complete"]
    /\ UNCHANGED <<store, stripe, req, late>>

SweepComplete(c) ==
    /\ swp[c].pc = "complete"
    /\ rec' = Completed(swp[c].rid)
    /\ swp' = [swp EXCEPT ![c] = SweeperIdle]
    /\ UNCHANGED <<account, minted, authUser, customer, entitlement, stripe, req, late, erased>>

\* The provider refuses, is not configured, or the database fails: hold().
SweepHolds(c) ==
    /\ swp[c].pc \in {"erase", "complete"}
    /\ swp' = [swp EXCEPT ![c].pc = "release"]
    /\ UNCHANGED <<store, stripe, req, late, erased>>

SweepRelease(c) ==
    /\ swp[c].pc = "release"
    /\ rec' = [rec EXCEPT ![swp[c].rid].lease = FALSE]
    /\ swp' = [swp EXCEPT ![c] = SweeperIdle]
    /\ UNCHANGED <<account, minted, authUser, customer, entitlement, stripe, req, late, erased>>

SweepDies(c) ==
    /\ swp[c].pc # "idle"
    /\ swp' = [swp EXCEPT ![c] = SweeperIdle]
    /\ UNCHANGED <<store, stripe, req, late, erased>>

-----------------------------------------------------------------------------
(* What the rest of the system does to the rows above.                     *)

\* resolveStripeCustomerId at checkout: the claim needs the account row (a
\* foreign key).  Bound: one Stripe Customer.
ClaimCustomer ==
    /\ account # NoAccount
    /\ customer.row = "none"
    /\ customer' = [customer EXCEPT !.row = "attached", !.acct = account]
    /\ UNCHANGED <<account, minted, authUser, stripe, entitlement, rec, req, swp, late, erased>>

\* Past the verdict: some attempt has seen Stripe clear and is about to record
\* it, or a record with a Customer is past `requested`.
VerdictGiven ==
    \/ \E p \in Requests : At(p, "mark") /\ req[p].cust
    \/ \E r \in Records : rec[r].stage \in PastRequested /\ rec[r].cust

\* Stripe moves a subscription by itself, or creates one from a Checkout Session
\* opened earlier (a Session outlives the mapping, and names the Customer).
StripeMove(s) ==
    /\ \E st \in Status :
         /\ <<stripe[s], st>> \in StripeMoves
         /\ stripe' = [stripe EXCEPT ![s] = st]
    /\ stripe[s] = "none" => customer.row # "none" /\ ~customer.gone
    /\ late' = IF stripe[s] = "none" /\ VerdictGiven THEN late \cup {s} ELSE late
    /\ UNCHANGED <<store, req, swp, erased>>

\* The Customer is deleted in Stripe's dashboard; Stripe cancels with it.
CustomerGone ==
    /\ customer.row # "none" /\ ~customer.gone
    /\ customer' = [customer EXCEPT !.gone = TRUE]
    /\ stripe' = [s \in Subs |-> IF s \in Billable THEN "canceled" ELSE stripe[s]]
    /\ UNCHANGED <<account, minted, authUser, entitlement, rec, req, swp, late, erased>>

\* A billing event or a reconciliation grants or revokes.  Which one, and when,
\* is AccountLifecycle's subject; here any write while the account exists.
EntitlementWritten ==
    /\ account # NoAccount
    /\ entitlement' \in {"active", "inactive"} \ {entitlement}
    /\ UNCHANGED <<account, minted, authUser, customer, stripe, rec, req, swp, late, erased>>

Begins(p) == \/ \E intent \in {"view", "delete", "resume"} : Arrive(p, intent)
             \/ ReadInFlight(p) \/ SelectAccount(p) \/ CheckInFlight(p)
             \/ UpsertAccount(p) \/ ReadMapping(p) \/ OpenDeletion(p)

Attempts(p) == \/ AcquireLease(p) \/ ListSubscriptions(p)
               \/ \E s \in Subs : CancelOne(p, s)
               \/ Cancelled(p) \/ RelistVerdict(p) \/ MarkBillingTerminated(p)
               \/ DetachCustomer(p) \/ RemoveLocalAccount(p) \/ DeleteAuthUser(p)
               \/ MarkAuthDeleted(p) \/ Finish(p) \/ StageFails(p)
               \/ ReleaseLease(p) \/ Abandon(p)

Sweeps(c) == \/ \E r \in Records : SweepSelect(c, r)
             \/ SweepLease(c) \/ SweepErase(c) \/ SweepComplete(c)
             \/ SweepHolds(c) \/ SweepRelease(c) \/ SweepDies(c)

Outside == \/ ClaimCustomer \/ CustomerGone \/ EntitlementWritten
           \/ \E s \in Subs : StripeMove(s)

Next == \/ \E p \in Requests : Begins(p) \/ Attempts(p)
        \/ \E c \in Sweepers : Sweeps(c)
        \/ \E r \in Records : LeaseExpires(r)
        \/ Outside

Spec == Init /\ [][Next]_vars

-----------------------------------------------------------------------------
(* What the deletion promises.                                             *)

\* "Never remove the ability to manage billing before billing is terminated: no
\* local or Auth deletion happens before stage 3" (deletion.ts).  Whoever takes
\* the step, a stale attempt included, the account goes only in the step that
\* moves its own record out of billing_terminated, and the sign-in only under a
\* record whose account is already gone.
RemovalFollowsBilling ==
    [][/\ account # NoAccount /\ account' # account =>
            \E r \in Records : /\ rec[r].stage = "billing_terminated"
                               /\ rec[r].acct = account
                               /\ rec'[r].stage = "local_cleanup_complete"
       /\ authUser # authUser' =>
            \E r \in Records : rec[r].stage = "local_cleanup_complete"]_vars

\* "The re-list after cancelling is the verdict" (account-deletion.md): past
\* `requested`, a record with a Customer leaves nothing billable but what was
\* created after Stripe was seen clear.
VerdictBeforeTermination ==
    \A r \in Records : rec[r].stage \in PastRequested /\ rec[r].cust => Billable \subseteq late

\* Every transition is `where state = <previous>` (deletion-store.ts): whatever
\* stale attempt writes, a record moves one stage forward at a time, never back.
StagesNeverRegress ==
    [][\A r \in Records : Rank(rec'[r].stage) \in {Rank(rec[r].stage), Rank(rec[r].stage) + 1}]_vars

\* Where analytics is in use, the account id is dropped "only once PostHog has
\* accepted the erasure" (deletion.ts): no path forgets it earlier.
ForgottenOnlyOnceErased ==
    [][ErasureRequired =>
         \A r \in Records : rec'[r].acct # rec[r].acct /\ rec[r].acct # NoAccount
                              => rec[r].acct \in erased]_vars

\* Ending billing is the destructive decision: it is taken for a request that
\* carried the confirmation and a recent sign-in, never for a mere resumption.
TerminatedOnlyIfConfirmed ==
    [][\A r \in Records : rec[r].stage = "requested" /\ rec'[r].stage # "requested" =>
         \E p \in Requests : req[p].rid = r /\ req[p].intent = "delete"]_vars

\* The first record of the identity goes through the abstract workflow.
Workflow == INSTANCE DeletionWorkflow WITH
    stage <- rec[1].stage,
    account <- minted = 0 \/ account = 1,
    signIn <- authUser,
    erased <- 1 \in erased
ImplementsWorkflow == Workflow!Spec

-----------------------------------------------------------------------------
(* Promises the code does not keep. *)

\* "billing_terminated: Stripe can no longer bill" (deletion-store.ts): the step
\* that records it is taken when no subscription of the reader can bill.
TerminatedMeansNoneBills ==
    [][\A r \in Records : rec[r].stage = "requested" /\ rec'[r].stage # "requested" =>
         Billable = {}]_vars

\* "local_cleanup_complete: the reader finishes" (account-deletion.md): an
\* unfinished record no attempt is working on can be resumed by signing in, or
\* is held for the cron.
UnfinishedCanResume ==
    \A r \in InFlight :
        \/ rec[r].stage = "auth_deleted"
        \/ authUser
        \/ \E p \in Requests : req[p].rid = r

-----------------------------------------------------------------------------
(* Liveness.  The cron runs daily, a lease lasts two minutes, and the        *)
(* provider is assumed to accept an erasure that is asked for again and again. *)

SweepFairness ==
    /\ \A c \in Sweepers :
         /\ \A r \in Records : WF_vars(SweepSelect(c, r))
         /\ SF_vars(SweepLease(c) /\ Leasable(swp[c].rid))
         /\ SF_vars(SweepErase(c))
         /\ SF_vars(SweepComplete(c))
         /\ WF_vars(SweepRelease(c))
    /\ \A r \in Records : WF_vars(LeaseExpires(r))

FairSpec == Spec /\ SweepFairness

\* A deletion held for its erasure is not forgotten: sweeps that fail, die or
\* meet each other's lease still settle it.
HeldIsSettled ==
    \A r \in Records : rec[r].stage = "auth_deleted" ~> rec[r].stage = "complete"
=============================================================================
