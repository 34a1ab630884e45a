------------------------ MODULE AccountDeletionProof ------------------------
(***************************************************************************)
(* Proofs about AccountDeletion, for any requests, cron invocations,       *)
(* subscriptions and bounds.                                               *)
(*                                                                         *)
(* The difficulty is the stale attempt: one whose lease lapsed, working on *)
(* a copy of a record that has moved since.  The inductive invariant IInv  *)
(* says what such a copy is still good for (RequestInv) and what a record  *)
(* at a stage guarantees (RecordInv).  A step disturbs the facts about     *)
(* the others only through the shared rows; WorldMoves says how the rows   *)
(* may move, and KeptRequest and KeptRecord that this keeps those facts,   *)
(* so that each action is left with the facts about its own actor.         *)
(***************************************************************************)
EXTENDS AccountDeletion, TLAPS

-----------------------------------------------------------------------------
(* The inductive invariant. *)

OnRecord == {"lease"} \cup AttemptSteps
PastCleanup == {"local_cleanup_complete", "auth_deleted", "complete"}
PastAuth == {"auth_deleted", "complete"}

\* A request before its lease, and from it on.
RequestInv(p) ==
    LET me == req[p]
        r == rec[me.rid]
    IN /\ me.acct <= minted
       /\ me.pc \in {"select", "check", "upsert"} => me.intent # "resume"
       /\ me.pc \in {"mapping", "open"} => me.intent = "delete"
       /\ me.pc \in OnRecord => /\ me.rid \in Records
                                /\ r.stage # "absent"
                                /\ r.stage = "requested" => me.intent = "delete"
       /\ me.pc \in AttemptSteps => /\ me.cust = r.cust
                                    /\ r.stage \notin PastCleanup => me.acct = r.acct
                                    /\ r.stage \in PastCleanup /\ me.acct # NoAccount
                                         => me.acct # account
       /\ me.pc \in {"detach", "cleanup"} => r.stage \in PastRequested
       /\ me.pc \in {"auth", "markAuth"} => r.stage \in PastCleanup
       /\ me.pc = "finish" => r.stage \in PastAuth
       /\ me.pc = "markAuth" => ~authUser
       /\ me.pc = "mark" /\ me.cust => Billable \subseteq late

RecordInv(r) ==
    /\ rec[r].acct <= minted
    /\ rec[r].stage \in PastRequested /\ rec[r].cust => Billable \subseteq late
    /\ rec[r].stage \in PastCleanup /\ rec[r].acct # NoAccount => rec[r].acct # account
    /\ rec[r].stage \in PastAuth => ~authUser

SweepInv(c) ==
    /\ swp[c].pc # "idle" => swp[c].rid \in Records /\ rec[swp[c].rid].stage # "absent"
    /\ swp[c].pc = "erase" => swp[c].acct # NoAccount

OneInFlight == \A q, r \in InFlight : q = r

IInv ==
    /\ TypeOK
    /\ account <= minted
    /\ customer.gone => Billable = {}
    /\ OneInFlight
    /\ \A p \in Requests : RequestInv(p)
    /\ \A r \in Records : RecordInv(r)
    /\ \A c \in Sweepers : SweepInv(c)

-----------------------------------------------------------------------------
(* Effects, pointwise. *)

\* No request but p is touched.
Alone(p) == /\ req' \in [Requests -> RequestState]
            /\ \A q \in Requests : q # p => req'[q] = req[q]

LEMMA IdleType == /\ Idle \in RequestState
                  /\ SweeperIdle \in SweeperState /\ SweeperIdle.pc = "idle"
                  /\ Absent \in RecordRow
BY DEF Idle, RequestState, SweeperIdle, SweeperState, Absent, RecordRow, StageNames, AccountRef

\* Goto moves the program counter of one request and nothing else.
LEMMA GotoEffect ==
    ASSUME TypeOK, NEW p \in Requests, NEW pc \in RequestSteps \cup AttemptSteps, Goto(p, pc)
    PROVE  /\ Alone(p)
           /\ req'[p].pc = pc /\ req'[p].rid = req[p].rid /\ req'[p].acct = req[p].acct
           /\ req'[p].cust = req[p].cust /\ req'[p].intent = req[p].intent
<1>1. [req[p] EXCEPT !.pc = pc] \in RequestState
  BY DEF TypeOK, RequestState
<1>2. req' = [req EXCEPT ![p] = [req[p] EXCEPT !.pc = pc]]
  BY DEF Goto
<1> QED
  BY <1>1, <1>2 DEF TypeOK, RequestState, Alone

\* Return forgets the request.
LEMMA ReturnEffect ==
    ASSUME TypeOK, NEW p \in Requests, Return(p)
    PROVE  /\ Alone(p)
           /\ req'[p].pc = "idle" /\ req'[p].acct = NoAccount
BY IdleType DEF TypeOK, Return, Alone, Idle

\* The request goes on to the lease of record r.
LEMMA LeaseNextEffect ==
    ASSUME TypeOK, NEW p \in Requests, NEW r \in Records,
           req' = [req EXCEPT ![p].pc = "lease", ![p].rid = r]
    PROVE  /\ Alone(p)
           /\ req'[p].pc = "lease" /\ req'[p].rid = r /\ req'[p].acct = req[p].acct
           /\ req'[p].cust = req[p].cust /\ req'[p].intent = req[p].intent
<1>1. [req[p] EXCEPT !.pc = "lease", !.rid = r] \in RequestState
  BY DEF TypeOK, RequestState, RequestSteps
<1>2. req' = [req EXCEPT ![p] = [req[p] EXCEPT !.pc = "lease", !.rid = r]]
  OBVIOUS
<1> QED
  BY <1>1, <1>2 DEF TypeOK, RequestState, Alone

\* A write of the lease leaves everything else of every record alone.
SameButLease ==
    /\ rec' \in [Records -> RecordRow]
    /\ \A r \in Records : /\ rec'[r].stage = rec[r].stage
                          /\ rec'[r].acct = rec[r].acct
                          /\ rec'[r].cust = rec[r].cust

LEMMA LeaseEffect ==
    ASSUME TypeOK, NEW r \in Records, NEW b \in BOOLEAN, rec' = [rec EXCEPT ![r].lease = b]
    PROVE  SameButLease
<1>1. [rec[r] EXCEPT !.lease = b] \in RecordRow
  BY DEF TypeOK, RecordRow
<1>2. rec' = [rec EXCEPT ![r] = [rec[r] EXCEPT !.lease = b]]
  OBVIOUS
<1> QED
  BY <1>1, <1>2 DEF TypeOK, RecordRow, SameButLease

\* Record r moves from one stage to another if it is at the first; all else stays.
LEMMA AdvancedEffect ==
    ASSUME TypeOK, NEW r \in Records, NEW from \in StageNames, NEW to \in StageNames,
           rec' = Advanced(r, from, to)
    PROVE  /\ rec' \in [Records -> RecordRow]
           /\ rec'[r].stage = IF rec[r].stage = from THEN to ELSE rec[r].stage
           /\ \A q \in Records : /\ q # r => rec'[q] = rec[q]
                                 /\ rec'[q].acct = rec[q].acct
                                 /\ rec'[q].cust = rec[q].cust
<1> DEFINE st == IF rec[r].stage = from THEN to ELSE rec[r].stage
<1>1. [rec[r] EXCEPT !.stage = st] \in RecordRow
  BY DEF TypeOK, RecordRow
<1>2. rec' = [rec EXCEPT ![r] = [rec[r] EXCEPT !.stage = st]]
  BY DEF Advanced
<1> HIDE DEF st
<1>3. /\ rec' \in [Records -> RecordRow]
      /\ rec'[r].stage = st
      /\ \A q \in Records : /\ q # r => rec'[q] = rec[q]
                            /\ rec'[q].acct = rec[q].acct
                            /\ rec'[q].cust = rec[q].cust
  BY <1>1, <1>2 DEF TypeOK, RecordRow
<1> QED
  BY <1>3 DEF st

\* Completion touches a record at auth_deleted only: its account is forgotten.
LEMMA CompletedEffect ==
    ASSUME TypeOK, NEW r \in Records, rec' = Completed(r)
    PROVE  /\ rec' \in [Records -> RecordRow]
           /\ \A q \in Records : q # r => rec'[q] = rec[q]
           /\ rec[r].stage # "auth_deleted" => rec'[r] = rec[r]
           /\ rec[r].stage = "auth_deleted" => /\ rec'[r].stage = "complete"
                                               /\ rec'[r].acct = NoAccount
           /\ rec'[r].cust = rec[r].cust
<1> DEFINE row == [rec[r] EXCEPT !.stage = "complete", !.acct = NoAccount, !.lease = FALSE]
<1>1. row \in RecordRow
  BY DEF TypeOK, RecordRow, StageNames, AccountRef
<1>2. CASE rec[r].stage = "auth_deleted"
  <2>1. rec' = [rec EXCEPT ![r] = row]
    BY <1>2 DEF Completed
  <2> QED BY <1>1, <1>2, <2>1 DEF TypeOK, RecordRow
<1>3. CASE rec[r].stage # "auth_deleted"
  <2>1. rec' = [rec EXCEPT ![r] = rec[r]]
    BY <1>3 DEF Completed
  <2> QED BY <1>3, <2>1 DEF TypeOK, RecordRow
<1> QED
  BY <1>2, <1>3

-----------------------------------------------------------------------------
(* How a step may move the rows without disturbing what others rely on. *)

RecordsMove ==
    \A r \in Records : rec[r].stage # "absent" =>
         /\ rec'[r].stage # "absent"
         /\ rec'[r].cust = rec[r].cust
         /\ rec'[r].stage = "requested" => rec[r].stage = "requested"
         /\ rec[r].stage \in PastRequested => rec'[r].stage \in PastRequested
         /\ rec[r].stage \in PastCleanup => rec'[r].stage \in PastCleanup
         /\ rec[r].stage \in PastAuth => rec'[r].stage \in PastAuth
         /\ rec'[r].stage \notin PastCleanup => rec'[r].acct = rec[r].acct
         /\ rec[r].stage \notin PastCleanup /\ rec'[r].stage \in PastCleanup
              => rec[r].acct = NoAccount \/ rec[r].acct # account'

WorldMoves ==
    /\ RecordsMove
    /\ minted' \in Nat /\ minted <= minted'
    /\ account' \in {account, NoAccount} \/ account' = minted + 1
    /\ authUser' => authUser
    /\ late \subseteq late'
    /\ VerdictGiven => Billable' \subseteq Billable \cup late'

LEMMA KeptRequest ==
    ASSUME IInv, WorldMoves, NEW q \in Requests, req'[q] = req[q]
    PROVE  RequestInv(q)'
<1> DEFINE me == req[q]
           r == rec[me.rid]
<1>1. RequestInv(q) /\ req[q] \in RequestState /\ minted \in Nat /\ account \in AccountRef
  BY DeletionAssumption DEF IInv, TypeOK
<1>2. me.acct \in AccountRef /\ me.acct <= minted'
  BY <1>1 DEF RequestInv, WorldMoves, RecordsMove, RequestState, AccountRef, AccountId, NoAccount
<1>3. me.pc \in OnRecord => /\ me.rid \in Records
                            /\ rec'[me.rid].stage # "absent"
                            /\ rec'[me.rid].stage = "requested" => me.intent = "delete"
  BY <1>1 DEF RequestInv, WorldMoves, RecordsMove
<1>4. ASSUME me.pc \in AttemptSteps
      PROVE  /\ me.cust = rec'[me.rid].cust
             /\ rec'[me.rid].stage \notin PastCleanup => me.acct = rec'[me.rid].acct
             /\ rec'[me.rid].stage \in PastCleanup /\ me.acct # NoAccount => me.acct # account'
  <2>1. me.rid \in Records /\ rec[me.rid].stage # "absent"
    BY <1>1, <1>4 DEF RequestInv, OnRecord
  <2>2. /\ me.cust = rec'[me.rid].cust
        /\ rec'[me.rid].stage \notin PastCleanup => me.acct = rec'[me.rid].acct
    BY <1>1, <1>4, <2>1 DEF RequestInv, WorldMoves, RecordsMove
  <2>3. ASSUME rec[me.rid].stage \in PastCleanup, me.acct # NoAccount
        PROVE  me.acct # account'
    <3>1. me.acct # account /\ me.acct <= minted /\ me.acct \in Nat
      BY <1>1, <1>2, <1>4, <2>3, DeletionAssumption
      DEF RequestInv, AccountRef, AccountId, NoAccount
    <3> QED BY <1>1, <2>3, <3>1 DEF WorldMoves
  <2>4. ASSUME rec[me.rid].stage \notin PastCleanup, rec'[me.rid].stage \in PastCleanup, me.acct # NoAccount
        PROVE  me.acct # account'
    BY <1>1, <1>4, <2>1, <2>4 DEF RequestInv, WorldMoves, RecordsMove
  <2> QED BY <2>2, <2>3, <2>4
<1>5. /\ me.pc \in {"detach", "cleanup"} => rec'[me.rid].stage \in PastRequested
      /\ me.pc \in {"auth", "markAuth"} => rec'[me.rid].stage \in PastCleanup
      /\ me.pc = "finish" => rec'[me.rid].stage \in PastAuth
      /\ me.pc = "markAuth" => ~authUser'
  BY <1>1 DEF RequestInv, WorldMoves, RecordsMove, OnRecord, AttemptSteps
<1>6. me.pc = "mark" /\ me.cust => Billable' \subseteq late'
  BY <1>1 DEF RequestInv, WorldMoves, RecordsMove, VerdictGiven, At
<1> QED
  BY <1>1, <1>2, <1>3, <1>4, <1>5, <1>6 DEF RequestInv

LEMMA KeptRecord ==
    ASSUME IInv, WorldMoves, NEW r \in Records, rec'[r].stage = rec[r].stage,
           rec'[r].acct = rec[r].acct, rec'[r].cust = rec[r].cust
    PROVE  RecordInv(r)'
<1>1. RecordInv(r) /\ rec[r] \in RecordRow /\ minted \in Nat /\ account \in AccountRef
  BY DeletionAssumption DEF IInv, TypeOK
<1>2. rec[r].acct \in Nat /\ rec[r].acct <= minted'
  BY <1>1, DeletionAssumption DEF RecordInv, WorldMoves, RecordsMove, RecordRow, AccountRef, AccountId, NoAccount
<1>3. rec[r].stage \in PastRequested /\ rec[r].cust => Billable' \subseteq late'
  BY <1>1 DEF RecordInv, WorldMoves, RecordsMove, VerdictGiven
<1>4. rec[r].stage \in PastCleanup /\ rec[r].acct # NoAccount => rec[r].acct # account'
  BY <1>1, <1>2 DEF RecordInv, WorldMoves, RecordsMove
<1>5. rec[r].stage \in PastAuth => ~authUser'
  BY <1>1 DEF RecordInv, WorldMoves, RecordsMove
<1> QED
  BY <1>2, <1>3, <1>4, <1>5 DEF RecordInv

-----------------------------------------------------------------------------
(* Steps that touch no row. *)

\* Rewriting a lease, or nothing, moves no record.
LEMMA SameRecordsMove ==
    ASSUME \A r \in Records : /\ rec'[r].stage = rec[r].stage
                              /\ rec'[r].acct = rec[r].acct
                              /\ rec'[r].cust = rec[r].cust
    PROVE  RecordsMove
BY DEF RecordsMove

LEMMA StillMoves ==
    ASSUME IInv, UNCHANGED <<store, stripe, late>>
    PROVE  WorldMoves
<1>1. RecordsMove
  BY SameRecordsMove DEF store
<1>2. Billable' = Billable
  BY DEF Billable
<1>3. minted' = minted /\ account' = account /\ authUser' = authUser /\ minted \in Nat
  BY DeletionAssumption DEF store, IInv, TypeOK
<1> QED
  BY <1>1, <1>2, <1>3 DEF WorldMoves

LEMMA OnlyRequest ==
    ASSUME IInv, NEW p \in Requests, Alone(p), UNCHANGED <<store, stripe, swp, late, erased>>,
           RequestInv(p)'
    PROVE  IInv'
<1>1. WorldMoves
  BY StillMoves
<1>2. TypeOK'
  BY DEF IInv, TypeOK, Alone, store
<1>3. \A q \in Requests : RequestInv(q)'
  BY <1>1, KeptRequest DEF Alone
<1>4. \A r \in Records : RecordInv(r)'
  BY <1>1, KeptRecord DEF store
<1>5. (account <= minted)' /\ (customer.gone => Billable = {})' /\ OneInFlight'
  BY DEF IInv, store, Billable, OneInFlight, InFlight
<1>6. \A c \in Sweepers : SweepInv(c)'
  BY DEF IInv, SweepInv, store
<1> QED
  BY <1>2, <1>3, <1>4, <1>5, <1>6 DEF IInv

LEMMA ReturnedInv ==
    ASSUME IInv, NEW p \in Requests, req'[p].pc = "idle", req'[p].acct = NoAccount, minted' \in Nat
    PROVE  RequestInv(p)'
BY DEF RequestInv, OnRecord, AttemptSteps, NoAccount

\* A request that gives up, at any point.
LEMMA ReturnStep ==
    ASSUME IInv, NEW p \in Requests, Return(p), UNCHANGED <<store, stripe, swp, late, erased>>
    PROVE  IInv'
<1>1. Alone(p) /\ req'[p].pc = "idle" /\ req'[p].acct = NoAccount
  BY ReturnEffect DEF IInv
<1>2. minted' \in Nat
  BY DeletionAssumption DEF IInv, TypeOK, store
<1> QED
  BY <1>1, <1>2, ReturnedInv, OnlyRequest

LEMMA ArriveStep ==
    ASSUME IInv, NEW p \in Requests, NEW intent \in {"view", "delete", "resume"}, Arrive(p, intent)
    PROVE  IInv'
<1> DEFINE st == [Idle EXCEPT !.intent = intent,
                   !.pc = IF intent = "view" THEN "select" ELSE "inFlight"]
<1>1. /\ st \in RequestState
      /\ st.pc \in {"select", "inFlight"} /\ st.acct = NoAccount
      /\ st.pc = "select" => st.intent # "resume"
  BY DEF Idle, RequestState, RequestSteps, AccountRef
<1>2. req' = [req EXCEPT ![p] = st]
  BY DEF Arrive
<1> HIDE DEF st
<1>3. Alone(p) /\ req'[p] = st
  BY <1>1, <1>2 DEF Alone, IInv, TypeOK
<1>4. UNCHANGED <<store, stripe, swp, late, erased>>
  BY DEF Arrive
<1>5. minted' \in Nat
  BY <1>4, DeletionAssumption DEF IInv, TypeOK, store
<1>6. RequestInv(p)'
  BY <1>1, <1>3, <1>5 DEF RequestInv, OnRecord, AttemptSteps, NoAccount
<1> QED
  BY <1>3, <1>4, <1>6, OnlyRequest

LEMMA ReadInFlightStep ==
    ASSUME IInv, NEW p \in Requests, ReadInFlight(p)
    PROVE  IInv'
<1> USE DEF IInv
<1>1. UNCHANGED <<store, stripe, swp, late, erased>> /\ RequestInv(p) /\ req[p] \in RequestState
  BY DEF ReadInFlight, TypeOK
<1>2. CASE Return(p)
  BY <1>1, <1>2, ReturnStep
<1>3. CASE req[p].intent = "delete" /\ Goto(p, "select")
  <2>1. Alone(p) /\ req'[p].pc = "select" /\ req'[p].acct = req[p].acct /\ req'[p].intent = "delete"
    BY <1>3, GotoEffect DEF RequestSteps
  <2>2. RequestInv(p)'
    BY <1>1, <2>1 DEF RequestInv, OnRecord, AttemptSteps, store
  <2> QED BY <1>1, <2>1, <2>2, OnlyRequest
<1>4. ASSUME NEW r \in InFlight, req' = [req EXCEPT ![p].pc = "lease", ![p].rid = r],
             (\E q \in InFlight : rec[q].stage # "requested") \/ req[p].intent = "delete"
      PROVE  IInv'
  <2>1. r \in Records /\ rec[r].stage # "absent"
    BY DEF InFlight, InFlightStages
  <2>2. rec[r].stage = "requested" => req[p].intent = "delete"
    BY <1>4 DEF OneInFlight
  <2>3. /\ Alone(p) /\ req'[p].pc = "lease" /\ req'[p].rid = r
        /\ req'[p].acct = req[p].acct /\ req'[p].intent = req[p].intent
    BY <1>4, <2>1, LeaseNextEffect
  <2>4. RequestInv(p)'
    BY <1>1, <2>1, <2>2, <2>3 DEF RequestInv, OnRecord, AttemptSteps, store
  <2> QED BY <1>1, <2>3, <2>4, OnlyRequest
<1> QED
  BY <1>2, <1>3, <1>4 DEF ReadInFlight

\* An account was found for the request: a view is over, a deletion goes on.
LEMMA FoundEffect ==
    ASSUME IInv, NEW p \in Requests, NEW a \in AccountRef, Found(p, a), minted' \in Nat, a <= minted',
           req[p].intent # "resume"
    PROVE  Alone(p) /\ RequestInv(p)'
<1>1. CASE req[p].intent = "view"
  <2>1. Return(p)
    BY <1>1 DEF Found
  <2> QED BY <2>1, ReturnEffect, ReturnedInv DEF IInv
<1>2. CASE req[p].intent # "view"
  <2>1. req[p] \in RequestState
    BY DEF IInv, TypeOK
  <2>2. [req[p] EXCEPT !.pc = "mapping", !.acct = a] \in RequestState
    BY <2>1 DEF RequestState, RequestSteps
  <2>3. req' = [req EXCEPT ![p] = [req[p] EXCEPT !.pc = "mapping", !.acct = a]]
    BY <1>2 DEF Found
  <2>4. Alone(p) /\ req'[p].pc = "mapping" /\ req'[p].acct = a /\ req'[p].intent = req[p].intent
    BY <2>1, <2>2, <2>3 DEF Alone, IInv, TypeOK, RequestState
  <2>5. req'[p].intent = "delete"
    BY <1>2, <2>1, <2>4 DEF RequestState
  <2> QED BY <2>4, <2>5 DEF RequestInv, OnRecord, AttemptSteps
<1> QED
  BY <1>1, <1>2

LEMMA SelectAccountStep ==
    ASSUME IInv, NEW p \in Requests, SelectAccount(p)
    PROVE  IInv'
<1>1. /\ UNCHANGED <<store, stripe, swp, late, erased>>
      /\ RequestInv(p) /\ req[p].pc = "select" /\ req[p].intent # "resume"
  BY DEF SelectAccount, IInv, At, RequestInv
<1>2. minted' \in Nat /\ account \in AccountRef /\ account <= minted'
  BY <1>1, DeletionAssumption DEF IInv, TypeOK, store
<1>3. CASE Found(p, account)
  BY <1>1, <1>2, <1>3, FoundEffect, OnlyRequest
<1>4. CASE Goto(p, "check")
  <2>1. /\ Alone(p) /\ req'[p].pc = "check" /\ req'[p].acct = req[p].acct
        /\ req'[p].intent = req[p].intent
    BY <1>4, GotoEffect DEF RequestSteps, IInv
  <2>2. RequestInv(p)'
    BY <1>1, <2>1 DEF RequestInv, OnRecord, AttemptSteps, store
  <2> QED BY <1>1, <2>1, <2>2, OnlyRequest
<1> QED
  BY <1>3, <1>4 DEF SelectAccount

LEMMA CheckInFlightStep ==
    ASSUME IInv, NEW p \in Requests, CheckInFlight(p)
    PROVE  IInv'
<1>1. /\ UNCHANGED <<store, stripe, swp, late, erased>>
      /\ RequestInv(p) /\ req[p].pc = "check" /\ req[p].intent # "resume"
  BY DEF CheckInFlight, IInv, At, RequestInv
<1>2. CASE Return(p)
  BY <1>1, <1>2, ReturnStep
<1>3. CASE Goto(p, "upsert")
  <2>1. /\ Alone(p) /\ req'[p].pc = "upsert" /\ req'[p].acct = req[p].acct
        /\ req'[p].intent = req[p].intent
    BY <1>3, GotoEffect DEF RequestSteps, IInv
  <2>2. RequestInv(p)'
    BY <1>1, <2>1 DEF RequestInv, OnRecord, AttemptSteps, store
  <2> QED BY <1>1, <2>1, <2>2, OnlyRequest
<1> QED
  BY <1>2, <1>3 DEF CheckInFlight

LEMMA ReadMappingStep ==
    ASSUME IInv, NEW p \in Requests, ReadMapping(p)
    PROVE  IInv'
<1> DEFINE attached == customer.row = "attached" /\ customer.acct = req[p].acct
           st == [req[p] EXCEPT !.pc = "open", !.cust = attached]
<1>1. /\ UNCHANGED <<store, stripe, swp, late, erased>>
      /\ RequestInv(p) /\ req[p] \in RequestState /\ req[p].intent = "delete"
  BY DEF ReadMapping, IInv, TypeOK, At, RequestInv
<1>2. attached \in BOOLEAN
  OBVIOUS
<1>3. req' = [req EXCEPT ![p] = st]
  BY DEF ReadMapping
<1> HIDE DEF attached
<1>4. st \in RequestState
  BY <1>1, <1>2 DEF RequestState, RequestSteps
<1>5. Alone(p) /\ req'[p].pc = "open" /\ req'[p].acct = req[p].acct /\ req'[p].intent = "delete"
  BY <1>1, <1>3, <1>4 DEF Alone, IInv, TypeOK, RequestState
<1>6. RequestInv(p)'
  BY <1>1, <1>5 DEF RequestInv, OnRecord, AttemptSteps, store
<1> QED
  BY <1>1, <1>5, <1>6, OnlyRequest

\* An attempt moves to a step whose conditions hold already.
LEMMA AttemptGoes ==
    ASSUME IInv, NEW p \in Requests, NEW pc \in AttemptSteps \ {"markAuth"}, Goto(p, pc),
           req[p].pc \in AttemptSteps, UNCHANGED <<store, stripe, swp, late, erased>>,
           pc \in {"detach", "cleanup"} => rec[req[p].rid].stage \in PastRequested,
           pc = "auth" => rec[req[p].rid].stage \in PastCleanup,
           pc = "finish" => rec[req[p].rid].stage \in PastAuth,
           pc = "mark" => Billable \subseteq late
    PROVE  IInv'
<1>1. /\ Alone(p) /\ req'[p].pc = pc /\ req'[p].rid = req[p].rid /\ req'[p].acct = req[p].acct
      /\ req'[p].cust = req[p].cust /\ req'[p].intent = req[p].intent
  BY GotoEffect DEF IInv
<1>2. RequestInv(p) /\ pc \notin {"select", "check", "upsert", "mapping", "open", "markAuth"}
  BY DEF IInv, AttemptSteps
<1>3. Billable' = Billable
  BY DEF Billable
<1>4. RequestInv(p)'
  BY <1>1, <1>2, <1>3 DEF RequestInv, OnRecord, store
<1> QED
  BY <1>1, <1>4, OnlyRequest

\* The subscriptions of the record's Customer, listed for cancelling.
LEMMA ListSubscriptionsStep ==
    ASSUME IInv, NEW p \in Requests, ListSubscriptions(p)
    PROVE  IInv'
<1>1. /\ UNCHANGED <<store, stripe, swp, late, erased>>
      /\ RequestInv(p) /\ req[p] \in RequestState /\ req[p].pc = "list"
  BY DEF ListSubscriptions, IInv, TypeOK, At
<1>2. CASE customer.gone
  <2>1. Goto(p, "mark") /\ Billable = {}
    BY <1>2 DEF ListSubscriptions, IInv
  <2> QED BY <1>1, <2>1, AttemptGoes DEF AttemptSteps
<1>3. CASE ~customer.gone
  <2> DEFINE st == [req[p] EXCEPT !.pc = "cancel", !.todo = Billable]
  <2>1. st \in RequestState /\ req' = [req EXCEPT ![p] = st]
    BY <1>1, <1>3 DEF ListSubscriptions, RequestState, AttemptSteps, Billable
  <2>2. /\ Alone(p) /\ req'[p].pc = "cancel" /\ req'[p].rid = req[p].rid
        /\ req'[p].acct = req[p].acct /\ req'[p].cust = req[p].cust
        /\ req'[p].intent = req[p].intent
    BY <1>1, <2>1 DEF Alone, IInv, TypeOK, RequestState
  <2>3. RequestInv(p)'
    BY <1>1, <2>2 DEF RequestInv, OnRecord, AttemptSteps, store
  <2> QED BY <1>1, <2>2, <2>3, OnlyRequest
<1> QED
  BY <1>2, <1>3

LEMMA CancelledStep ==
    ASSUME IInv, NEW p \in Requests, Cancelled(p)
    PROVE  IInv'
BY AttemptGoes DEF Cancelled, At, AttemptSteps

\* The verdict: what lets an attempt go on to `mark` is what RequestInv says of it there.
LEMMA RelistVerdictStep ==
    ASSUME IInv, NEW p \in Requests, RelistVerdict(p)
    PROVE  IInv'
<1>1. CASE Billable = {}
  BY <1>1, AttemptGoes DEF RelistVerdict, At, AttemptSteps
<1>2. CASE Billable # {}
  BY <1>2, AttemptGoes DEF RelistVerdict, At, AttemptSteps
<1> QED
  BY <1>1, <1>2

LEMMA DetachCustomerStep ==
    ASSUME IInv, NEW p \in Requests, DetachCustomer(p)
    PROVE  IInv'
<1>1. rec[req[p].rid].stage \in PastRequested
  BY DEF IInv, RequestInv, DetachCustomer, At
<1> QED
  BY <1>1, AttemptGoes DEF DetachCustomer, At, AttemptSteps

LEMMA StageFailsStep ==
    ASSUME IInv, NEW p \in Requests, StageFails(p)
    PROVE  IInv'
BY AttemptGoes DEF StageFails, AttemptSteps

LEMMA AbandonStep ==
    ASSUME IInv, NEW p \in Requests, Abandon(p)
    PROVE  IInv'
BY ReturnStep DEF Abandon

-----------------------------------------------------------------------------
(* Steps that touch the rows. *)

\* The part of IInv that speaks of the rows alone.
RowsInv == /\ account <= minted
           /\ customer.gone => Billable = {}
           /\ OneInFlight
           /\ \A r \in Records : RecordInv(r)

LEMMA KeptSweeps ==
    ASSUME IInv, RecordsMove, swp' = swp
    PROVE  \A c \in Sweepers : SweepInv(c)'
BY DEF IInv, SweepInv, RecordsMove

\* A step of one request.
LEMMA RequestStep ==
    ASSUME IInv, NEW p \in Requests, Alone(p), swp' = swp, TypeOK', WorldMoves, RowsInv', RequestInv(p)'
    PROVE  IInv'
<1>1. \A q \in Requests : RequestInv(q)'
  BY KeptRequest DEF Alone
<1>2. \A c \in Sweepers : SweepInv(c)'
  BY KeptSweeps DEF WorldMoves
<1> QED
  BY <1>1, <1>2 DEF IInv, RowsInv

\* A step of no request.
LEMMA OtherStep ==
    ASSUME IInv, req' = req, TypeOK', WorldMoves, RowsInv', \A c \in Sweepers : SweepInv(c)'
    PROVE  IInv'
<1>1. \A q \in Requests : RequestInv(q)'
  BY KeptRequest
<1> QED
  BY <1>1 DEF IInv, RowsInv

\* Taking, dropping or losing a lease disturbs none of it.
LEMMA LeaseKeeps ==
    ASSUME IInv, SameButLease,
           UNCHANGED <<account, minted, authUser, customer, entitlement, stripe, late>>
    PROVE  WorldMoves /\ RowsInv'
<1>1. RecordsMove
  BY SameRecordsMove DEF SameButLease
<1>2. Billable' = Billable
  BY DEF Billable
<1>3. WorldMoves
  BY <1>1, <1>2, DeletionAssumption DEF WorldMoves, IInv, TypeOK
<1>4. \A r \in Records : RecordInv(r)'
  BY <1>3, KeptRecord DEF SameButLease
<1>5. OneInFlight'
  BY DEF OneInFlight, InFlight, SameButLease, IInv
<1> QED
  BY <1>2, <1>3, <1>4, <1>5 DEF RowsInv, IInv

LEMMA AcquireLeaseStep ==
    ASSUME IInv, NEW p \in Requests, AcquireLease(p)
    PROVE  IInv'
<1> DEFINE r == req[p].rid
<1>1. /\ UNCHANGED <<account, minted, authUser, customer, entitlement, stripe, swp, late, erased>>
      /\ RequestInv(p) /\ req[p] \in RequestState /\ req[p].pc = "lease"
  BY DEF AcquireLease, IInv, TypeOK, At
<1>2. r \in Records /\ rec[r].stage # "absent" /\ rec[r] \in RecordRow /\ RecordInv(r)
  BY <1>1 DEF RequestInv, OnRecord, IInv, TypeOK
<1>3. CASE ~Leasable(r) /\ Return(p) /\ UNCHANGED rec
  BY <1>1, <1>3, ReturnStep DEF store
<1>4. CASE Leasable(r) /\ rec' = [rec EXCEPT ![r].lease = TRUE]
  <2> DEFINE pc == FirstStep(rec[r].stage, rec[r].cust)
             st == [req[p] EXCEPT !.pc = pc, !.acct = rec[r].acct, !.cust = rec[r].cust]
  <2>1. SameButLease
    BY <1>2, <1>4, LeaseEffect DEF IInv
  <2>2. WorldMoves /\ RowsInv'
    BY <1>1, <2>1, LeaseKeeps
  <2>3. rec[r].stage \in InFlightStages
    BY <1>2, <1>4 DEF Leasable, RecordRow, StageNames, InFlightStages
  <2>4. /\ pc \in AttemptSteps \ {"cancel", "relist", "markAuth", "release"}
        /\ pc = "mark" => ~rec[r].cust
        /\ pc \in {"detach", "cleanup"} => rec[r].stage = "billing_terminated"
        /\ pc = "auth" => rec[r].stage = "local_cleanup_complete"
        /\ pc = "finish" => rec[r].stage = "auth_deleted"
    BY <2>3 DEF FirstStep, InFlightStages, AttemptSteps
  <2>5. req' = [req EXCEPT ![p] = st]
    BY <1>1, <1>4 DEF AcquireLease
  <2> HIDE DEF pc
  <2>6. st \in RequestState
    BY <1>1, <1>2, <2>4 DEF RequestState, RecordRow
  <2>7. /\ Alone(p) /\ req'[p].pc = pc /\ req'[p].rid = r /\ req'[p].acct = rec[r].acct
        /\ req'[p].cust = rec[r].cust /\ req'[p].intent = req[p].intent
    BY <1>1, <2>5, <2>6 DEF Alone, IInv, TypeOK, RequestState
  <2>8. TypeOK'
    BY <1>1, <2>1, <2>7 DEF IInv, TypeOK, SameButLease, Alone
  <2>9. /\ req'[p].acct <= minted'
        /\ req'[p].pc \notin {"select", "check", "upsert", "mapping", "open", "markAuth"}
    BY <1>1, <1>2, <2>4, <2>7 DEF RecordInv, AttemptSteps
  <2>10. rec'[r].stage = "requested" => req'[p].intent = "delete"
    BY <1>1, <1>2, <2>1, <2>7 DEF RequestInv, OnRecord, SameButLease
  <2>11. rec'[r].stage \in PastCleanup /\ req'[p].acct # NoAccount => req'[p].acct # account'
    BY <1>1, <1>2, <2>1, <2>7 DEF RecordInv, SameButLease
  <2>12. RequestInv(p)'
    BY <1>2, <2>1, <2>4, <2>7, <2>9, <2>10, <2>11
    DEF RequestInv, SameButLease, PastRequested, PastCleanup, PastAuth
  <2> QED
    BY <1>1, <2>2, <2>7, <2>8, <2>12, RequestStep
<1> QED
  BY <1>3, <1>4 DEF AcquireLease

LEMMA ReleaseLeaseStep ==
    ASSUME IInv, NEW p \in Requests, ReleaseLease(p)
    PROVE  IInv'
<1>1. req[p].rid \in Records
  BY DEF ReleaseLease, At, IInv, RequestInv, OnRecord, AttemptSteps
<1>2. SameButLease
  BY <1>1, LeaseEffect DEF ReleaseLease, IInv
<1>3. WorldMoves /\ RowsInv'
  BY <1>2, LeaseKeeps DEF ReleaseLease
<1>4. Alone(p) /\ req'[p].pc = "idle" /\ req'[p].acct = NoAccount
  BY ReturnEffect DEF ReleaseLease, IInv
<1>5. TypeOK'
  BY <1>2, <1>4 DEF ReleaseLease, IInv, TypeOK, SameButLease, Alone
<1>6. RequestInv(p)'
  BY <1>3, <1>4, ReturnedInv DEF WorldMoves
<1> QED
  BY <1>3, <1>4, <1>5, <1>6, RequestStep DEF ReleaseLease

LEMMA LeaseExpiresStep ==
    ASSUME IInv, NEW r \in Records, LeaseExpires(r)
    PROVE  IInv'
<1>1. SameButLease
  BY LeaseEffect DEF LeaseExpires, IInv
<1>2. WorldMoves /\ RowsInv'
  BY <1>1, LeaseKeeps DEF LeaseExpires
<1>3. TypeOK'
  BY <1>1 DEF LeaseExpires, IInv, TypeOK, SameButLease
<1>4. \A c \in Sweepers : SweepInv(c)'
  BY <1>2, KeptSweeps DEF LeaseExpires, WorldMoves
<1> QED
  BY <1>2, <1>3, <1>4, OtherStep DEF LeaseExpires

LEMMA UpsertAccountStep ==
    ASSUME IInv, NEW p \in Requests, UpsertAccount(p)
    PROVE  IInv'
<1>1. /\ UNCHANGED <<authUser, customer, entitlement, rec, stripe, swp, late, erased>>
      /\ RequestInv(p) /\ req[p].pc = "upsert" /\ req[p].intent # "resume"
      /\ TypeOK /\ minted \in Nat /\ MaxAccounts \in Nat
  BY DeletionAssumption DEF UpsertAccount, IInv, TypeOK, At, RequestInv
<1>2. CASE account # NoAccount /\ Found(p, account) /\ UNCHANGED <<account, minted>>
  <2>1. account \in AccountRef /\ account <= minted' /\ UNCHANGED store
    BY <1>1, <1>2 DEF IInv, TypeOK, store
  <2>2. Alone(p) /\ RequestInv(p)'
    BY <1>1, <1>2, <2>1, FoundEffect
  <2> QED BY <1>1, <2>1, <2>2, OnlyRequest
<1>3. CASE /\ account = NoAccount /\ minted < MaxAccounts /\ minted' = minted + 1
           /\ account' = minted + 1 /\ Found(p, minted + 1)
  <2>1. minted + 1 \in AccountRef /\ minted + 1 <= minted' /\ minted' \in 0..MaxAccounts
    BY <1>1, <1>3 DEF AccountRef, AccountId
  <2>2. Alone(p) /\ RequestInv(p)'
    BY <1>1, <1>3, <2>1, FoundEffect
  <2>3. WorldMoves
    <3>1. RecordsMove
      BY <1>1, SameRecordsMove
    <3>2. Billable' = Billable
      BY <1>1 DEF Billable
    <3> QED BY <1>1, <1>3, <3>1, <3>2 DEF WorldMoves
  <2>4. \A r \in Records : RecordInv(r)'
    BY <1>1, <2>3, KeptRecord
  <2>5. OneInFlight' /\ (customer.gone => Billable = {})'
    BY <1>1 DEF OneInFlight, InFlight, IInv, Billable
  <2>6. RowsInv'
    BY <1>1, <1>3, <2>4, <2>5 DEF RowsInv
  <2>7. TypeOK'
    BY <1>1, <1>3, <2>1, <2>2 DEF TypeOK, Alone
  <2> QED BY <1>1, <2>2, <2>3, <2>6, <2>7, RequestStep
<1> QED
  BY <1>2, <1>3 DEF UpsertAccount

LEMMA OpenDeletionStep ==
    ASSUME IInv, NEW p \in Requests, OpenDeletion(p)
    PROVE  IInv'
<1>1. /\ UNCHANGED <<account, minted, authUser, customer, entitlement, stripe, swp, late, erased>>
      /\ RequestInv(p) /\ req[p] \in RequestState /\ req[p].intent = "delete"
      /\ TypeOK /\ minted \in Nat
  BY DeletionAssumption DEF OpenDeletion, IInv, TypeOK, At, RequestInv
<1>2. CASE \E r \in InFlight : /\ req' = [req EXCEPT ![p].pc = "lease", ![p].rid = r]
                             /\ UNCHANGED rec
  <2>1. PICK r \in InFlight : req' = [req EXCEPT ![p].pc = "lease", ![p].rid = r] /\ UNCHANGED rec
    BY <1>2
  <2>2. r \in Records /\ rec'[r].stage # "absent"
    BY <2>1 DEF InFlight, InFlightStages
  <2>3. /\ Alone(p) /\ req'[p].pc = "lease" /\ req'[p].rid = r
        /\ req'[p].acct = req[p].acct /\ req'[p].intent = "delete"
    BY <1>1, <2>1, <2>2, LeaseNextEffect
  <2>4. RequestInv(p)'
    BY <1>1, <2>2, <2>3 DEF RequestInv, OnRecord, AttemptSteps
  <2> QED BY <1>1, <2>1, <2>3, <2>4, OnlyRequest DEF store
<1>3. ASSUME InFlight = {}, NEW r \in Records, rec[r].stage = "absent",
             rec' = [rec EXCEPT ![r] = [stage |-> "requested", acct |-> req[p].acct,
                                        cust |-> req[p].cust, lease |-> FALSE]],
             req' = [req EXCEPT ![p].pc = "lease", ![p].rid = r]
      PROVE  IInv'
  <2> DEFINE row == [stage |-> "requested", acct |-> req[p].acct,
                     cust |-> req[p].cust, lease |-> FALSE]
  <2>0. /\ Alone(p) /\ req'[p].pc = "lease" /\ req'[p].rid = r
        /\ req'[p].acct = req[p].acct /\ req'[p].intent = "delete"
    BY <1>1, <1>3, LeaseNextEffect
  <2>1. row \in RecordRow
    BY <1>1 DEF RecordRow, RequestState, StageNames
  <2>2. /\ rec' \in [Records -> RecordRow]
        /\ rec'[r].stage = "requested" /\ rec'[r].acct = req[p].acct
        /\ \A q \in Records : q # r => rec'[q] = rec[q]
    BY <1>1, <1>3, <2>1 DEF TypeOK
  <2>3. WorldMoves
    <3>1. RecordsMove
      BY <1>3, <2>2 DEF RecordsMove
    <3>2. Billable' = Billable
      BY <1>1 DEF Billable
    <3> QED BY <1>1, <3>1, <3>2 DEF WorldMoves
  <2>4. RecordInv(r)'
    BY <1>1, <2>2 DEF RecordInv, RequestInv, PastRequested, PastCleanup, PastAuth
  <2>5. \A q \in Records : q # r => RecordInv(q)'
    BY <2>2, <2>3, KeptRecord
  <2>6. OneInFlight'
    BY <1>3, <2>2 DEF OneInFlight, InFlight
  <2>7. RowsInv'
    BY <1>1, <2>4, <2>5, <2>6 DEF RowsInv, IInv, Billable
  <2>8. TypeOK'
    BY <1>1, <2>0, <2>2 DEF TypeOK, Alone
  <2>9. RequestInv(p)'
    BY <1>1, <2>0, <2>2 DEF RequestInv, OnRecord, AttemptSteps
  <2> QED BY <1>1, <2>0, <2>3, <2>7, <2>8, <2>9, RequestStep
<1> QED
  BY <1>2, <1>3 DEF OpenDeletion

\* A cancellation at Stripe can only shrink what may bill.
LEMMA CancelOneStep ==
    ASSUME IInv, NEW p \in Requests, NEW s \in Subs, CancelOne(p, s)
    PROVE  IInv'
<1> DEFINE st == [req[p] EXCEPT !.todo = @ \ {s}]
<1>1. /\ UNCHANGED <<store, swp, late, erased>>
      /\ RequestInv(p) /\ req[p] \in RequestState /\ req[p].pc = "cancel"
      /\ TypeOK /\ minted \in Nat
  BY DeletionAssumption DEF CancelOne, IInv, TypeOK, At
<1>2. stripe' \in [Subs -> StripeStatus] /\ Billable' \subseteq Billable
  <2>1. CASE stripe' = [stripe EXCEPT ![s] = "canceled"]
    BY <1>1, <2>1 DEF TypeOK, StripeStatus, Status, Billable, IsPotentiallyBillable, TERMINAL
  <2>2. CASE UNCHANGED stripe
    BY <1>1, <2>2 DEF TypeOK, Billable
  <2> QED BY <2>1, <2>2 DEF CancelOne
<1>3. st \in RequestState /\ req' = [req EXCEPT ![p] = st]
  BY <1>1 DEF CancelOne, RequestState
<1>4. /\ Alone(p) /\ req'[p].pc = "cancel" /\ req'[p].rid = req[p].rid
      /\ req'[p].acct = req[p].acct /\ req'[p].cust = req[p].cust
      /\ req'[p].intent = req[p].intent
  BY <1>1, <1>3 DEF Alone, TypeOK, RequestState
<1>5. WorldMoves
  <2>1. RecordsMove
    BY <1>1, SameRecordsMove DEF store
  <2> QED BY <1>1, <1>2, <2>1 DEF WorldMoves, store
<1>6. \A r \in Records : RecordInv(r)'
  BY <1>1, <1>5, KeptRecord DEF store
<1>7. RowsInv'
  BY <1>1, <1>2, <1>6 DEF RowsInv, IInv, OneInFlight, InFlight, store
<1>8. TypeOK'
  BY <1>1, <1>2, <1>4 DEF TypeOK, Alone, store
<1>9. RequestInv(p)'
  BY <1>1, <1>4 DEF RequestInv, OnRecord, AttemptSteps, store
<1> QED
  BY <1>1, <1>4, <1>5, <1>7, <1>8, <1>9, RequestStep

\* A record that advances, if it was at the stage before, moves as records may;
\* only the step into PastCleanup has to see to the account.
Consecutive == {<<"requested", "billing_terminated">>,
                <<"billing_terminated", "local_cleanup_complete">>,
                <<"local_cleanup_complete", "auth_deleted">>}

LEMMA AdvancedMoves ==
    ASSUME IInv, NEW r \in Records, NEW from, NEW to, <<from, to>> \in Consecutive,
           rec' = Advanced(r, from, to),
           from = rec[r].stage /\ from = "billing_terminated"
               => rec[r].acct = NoAccount \/ rec[r].acct # account'
    PROVE  RecordsMove /\ OneInFlight'
<1>1. from \in StageNames /\ to \in StageNames
  BY DEF Consecutive, StageNames
<1>2. /\ rec'[r].stage = IF rec[r].stage = from THEN to ELSE rec[r].stage
      /\ \A q \in Records : /\ q # r => rec'[q] = rec[q]
                            /\ rec'[q].acct = rec[q].acct
                            /\ rec'[q].cust = rec[q].cust
  BY <1>1, AdvancedEffect DEF IInv
<1>3. RecordsMove
  <2>1. CASE rec[r].stage = from
    BY <1>2, <2>1 DEF RecordsMove, Consecutive, PastRequested, PastCleanup, PastAuth
  <2>2. CASE rec[r].stage # from
    BY <1>2, <2>2, SameRecordsMove
  <2> QED BY <2>1, <2>2
<1>4. InFlight' \subseteq InFlight
  BY <1>2 DEF InFlight, InFlightStages, Consecutive
<1> QED
  BY <1>3, <1>4 DEF OneInFlight, IInv

\* Where billing termination is recorded the attempt's verdict becomes the record's.
LEMMA MarkBillingTerminatedStep ==
    ASSUME IInv, NEW p \in Requests, MarkBillingTerminated(p)
    PROVE  IInv'
<1> DEFINE pc == IF req[p].cust THEN "detach" ELSE "cleanup"
<1>1. /\ UNCHANGED <<account, minted, authUser, customer, stripe, swp, late, erased>>
      /\ RequestInv(p) /\ req[p] \in RequestState /\ req[p].pc = "mark"
      /\ TypeOK /\ minted \in Nat
  BY DeletionAssumption DEF MarkBillingTerminated, IInv, TypeOK, At
<1>2. PICK r \in Records : r = req[p].rid
  BY <1>1 DEF RequestInv, OnRecord, AttemptSteps
<1>3. /\ RecordInv(r) /\ rec[r] \in RecordRow
      /\ rec[r].stage # "absent" /\ req[p].cust = rec[r].cust
      /\ req[p].cust => Billable \subseteq late
  BY <1>1, <1>2 DEF RequestInv, OnRecord, AttemptSteps, IInv, TypeOK
<1>4. /\ rec' \in [Records -> RecordRow]
      /\ rec'[r].stage = IF rec[r].stage = "requested" THEN "billing_terminated" ELSE rec[r].stage
      /\ \A q \in Records : /\ q # r => rec'[q] = rec[q]
                            /\ rec'[q].acct = rec[q].acct
                            /\ rec'[q].cust = rec[q].cust
  BY <1>1, <1>2, AdvancedEffect DEF MarkBillingTerminated, StageNames
<1>5. /\ Alone(p) /\ req'[p].pc = pc /\ req'[p].rid = r /\ req'[p].acct = req[p].acct
      /\ req'[p].cust = req[p].cust /\ req'[p].intent = req[p].intent
  BY <1>1, <1>2, GotoEffect DEF MarkBillingTerminated, AttemptSteps
<1>6. RecordsMove /\ OneInFlight' /\ rec'[r].stage \in PastRequested
  <2>1. rec' = Advanced(r, "requested", "billing_terminated")
    BY <1>2 DEF MarkBillingTerminated
  <2>2. RecordsMove /\ OneInFlight'
    BY <2>1, AdvancedMoves DEF Consecutive
  <2> QED BY <1>3, <1>4, <2>2 DEF PastRequested, RecordRow, StageNames
<1>7. Billable' = Billable
  BY <1>1 DEF Billable
<1>8. WorldMoves
  BY <1>1, <1>6, <1>7 DEF WorldMoves
<1>9. RecordInv(r)'
  <2>1. CASE rec[r].stage = "requested"
    <3>1. /\ rec'[r].stage \notin PastCleanup /\ rec'[r].stage \notin PastAuth
          /\ rec'[r].acct <= minted'
      BY <1>1, <1>3, <1>4, <2>1 DEF RecordInv, PastCleanup, PastAuth
    <3>2. rec'[r].cust => Billable' \subseteq late'
      BY <1>1, <1>3, <1>4, <1>7
    <3> QED BY <3>1, <3>2 DEF RecordInv
  <2>2. CASE rec[r].stage # "requested"
    BY <1>4, <1>8, <2>2, KeptRecord
  <2> QED BY <2>1, <2>2
<1>10. \A q \in Records : q # r => RecordInv(q)'
  BY <1>4, <1>8, KeptRecord
<1>11. RowsInv'
  BY <1>1, <1>6, <1>7, <1>9, <1>10 DEF RowsInv, IInv
<1>12. entitlement' \in {"none", "active", "inactive"}
  BY <1>1 DEF MarkBillingTerminated, RevokedForDeletion, TypeOK
<1>13. TypeOK'
  BY <1>1, <1>4, <1>5, <1>12 DEF TypeOK, Alone
<1>14. RequestInv(p)'
  <2>1. rec'[r].stage \notin PastCleanup => req[p].acct = rec'[r].acct
    BY <1>1, <1>2, <1>3, <1>4 DEF RequestInv, AttemptSteps, PastCleanup
  <2>2. rec'[r].stage \in PastCleanup /\ req[p].acct # NoAccount => req[p].acct # account'
    BY <1>1, <1>2, <1>3, <1>4 DEF RequestInv, AttemptSteps, PastCleanup
  <2> QED
    BY <1>1, <1>2, <1>3, <1>4, <1>5, <1>6, <2>1, <2>2
    DEF RequestInv, OnRecord, AttemptSteps, PastRequested
<1> QED
  BY <1>1, <1>5, <1>8, <1>11, <1>13, <1>14, RequestStep

\* The removal: a stale copy of the account is not the account any more.
LEMMA RemoveLocalAccountStep ==
    ASSUME IInv, NEW p \in Requests, RemoveLocalAccount(p)
    PROVE  IInv'
<1>1. /\ UNCHANGED <<minted, authUser, stripe, swp, late, erased>>
      /\ RequestInv(p) /\ req[p] \in RequestState /\ req[p].pc = "cleanup"
      /\ TypeOK /\ minted \in Nat
  BY DeletionAssumption DEF RemoveLocalAccount, IInv, TypeOK, At
<1>2. PICK r \in Records : r = req[p].rid
  BY <1>1 DEF RequestInv, OnRecord, AttemptSteps
<1> DEFINE a == req[p].acct
<1>3. /\ RecordInv(r) /\ rec[r] \in RecordRow /\ rec[r].stage \in PastRequested
      /\ req[p].cust = rec[r].cust
      /\ rec[r].stage \notin PastCleanup => a = rec[r].acct
      /\ rec[r].stage \in PastCleanup /\ a # NoAccount => a # account
  BY <1>1, <1>2 DEF RequestInv, OnRecord, AttemptSteps, IInv, TypeOK
<1>4. /\ rec' \in [Records -> RecordRow]
      /\ rec'[r].stage = IF rec[r].stage = "billing_terminated" THEN "local_cleanup_complete"
                         ELSE rec[r].stage
      /\ \A q \in Records : /\ q # r => rec'[q] = rec[q]
                            /\ rec'[q].acct = rec[q].acct
                            /\ rec'[q].cust = rec[q].cust
  BY <1>1, <1>2, AdvancedEffect DEF RemoveLocalAccount, StageNames
<1>5. /\ Alone(p) /\ req'[p].pc = "auth" /\ req'[p].rid = r /\ req'[p].acct = a
      /\ req'[p].cust = req[p].cust /\ req'[p].intent = req[p].intent
  BY <1>1, <1>2, GotoEffect DEF RemoveLocalAccount, AttemptSteps
<1>6. account' \in {account, NoAccount} /\ (a = NoAccount \/ a # account')
  BY DEF RemoveLocalAccount
<1>7. RecordsMove /\ OneInFlight'
  <2>1. rec' = Advanced(r, "billing_terminated", "local_cleanup_complete")
    BY <1>2 DEF RemoveLocalAccount
  <2>2. rec[r].stage = "billing_terminated" => rec[r].acct = NoAccount \/ rec[r].acct # account'
    BY <1>3, <1>6 DEF PastCleanup
  <2> QED BY <2>1, <2>2, AdvancedMoves DEF Consecutive
<1>8. Billable' = Billable
  BY <1>1 DEF Billable
<1>9. WorldMoves
  BY <1>1, <1>6, <1>7, <1>8 DEF WorldMoves
<1>10. rec'[r].stage \in PastCleanup
  BY <1>3, <1>4 DEF PastRequested, PastCleanup
<1>11. RecordInv(r)'
  <2>1. CASE rec[r].stage = "billing_terminated"
    BY <1>1, <1>3, <1>4, <1>6, <1>8, <2>1 DEF RecordInv, PastAuth, PastCleanup
  <2>2. CASE rec[r].stage # "billing_terminated"
    BY <1>4, <1>9, <2>2, KeptRecord
  <2> QED BY <2>1, <2>2
<1>12. \A q \in Records : q # r => RecordInv(q)'
  BY <1>4, <1>9, KeptRecord
<1>13. /\ account' \in AccountRef /\ account' <= minted'
       /\ customer' \in [row : {"none", "attached", "detached"}, acct : AccountRef, gone : BOOLEAN]
       /\ customer'.gone = customer.gone
       /\ entitlement' \in {"none", "active", "inactive"}
  <2>1. account \in AccountRef /\ account <= minted /\ NoAccount \in AccountRef /\ NoAccount <= minted
    BY <1>1 DEF TypeOK, IInv, AccountRef, NoAccount
  <2> QED BY <1>1, <1>6, <2>1 DEF RemoveLocalAccount, TypeOK
<1>14. RowsInv'
  BY <1>7, <1>8, <1>11, <1>12, <1>13 DEF RowsInv, IInv
<1>15. TypeOK'
  BY <1>1, <1>4, <1>5, <1>13 DEF TypeOK, Alone
<1>16. RequestInv(p)'
  BY <1>1, <1>2, <1>3, <1>4, <1>5, <1>6, <1>10
  DEF RequestInv, OnRecord, AttemptSteps, PastCleanup
<1> QED
  BY <1>1, <1>5, <1>9, <1>14, <1>15, <1>16, RequestStep

LEMMA DeleteAuthUserStep ==
    ASSUME IInv, NEW p \in Requests, DeleteAuthUser(p)
    PROVE  IInv'
<1>1. /\ UNCHANGED <<account, minted, customer, entitlement, rec, stripe, swp, late, erased>>
      /\ authUser' = FALSE
      /\ RequestInv(p) /\ req[p].pc = "auth" /\ TypeOK /\ minted \in Nat
  BY DeletionAssumption DEF DeleteAuthUser, IInv, TypeOK, At
<1>2. /\ Alone(p) /\ req'[p].pc = "markAuth" /\ req'[p].rid = req[p].rid
      /\ req'[p].acct = req[p].acct /\ req'[p].cust = req[p].cust
      /\ req'[p].intent = req[p].intent
  BY <1>1, GotoEffect DEF DeleteAuthUser, AttemptSteps
<1>3. Billable' = Billable
  BY <1>1 DEF Billable
<1>4. WorldMoves
  <2>1. RecordsMove
    BY <1>1, SameRecordsMove
  <2> QED BY <1>1, <1>3, <2>1 DEF WorldMoves
<1>5. \A r \in Records : RecordInv(r)'
  BY <1>1, <1>4, KeptRecord
<1>6. RowsInv'
  BY <1>1, <1>3, <1>5 DEF RowsInv, IInv, OneInFlight, InFlight
<1>7. TypeOK'
  BY <1>1, <1>2 DEF TypeOK, Alone
<1>8. RequestInv(p)'
  BY <1>1, <1>2 DEF RequestInv, OnRecord, AttemptSteps
<1> QED
  BY <1>1, <1>2, <1>4, <1>6, <1>7, <1>8, RequestStep

LEMMA MarkAuthDeletedStep ==
    ASSUME IInv, NEW p \in Requests, MarkAuthDeleted(p)
    PROVE  IInv'
<1>1. /\ UNCHANGED <<account, minted, authUser, customer, entitlement, stripe, swp, late, erased>>
      /\ RequestInv(p) /\ req[p] \in RequestState /\ req[p].pc = "markAuth"
      /\ TypeOK /\ minted \in Nat
  BY DeletionAssumption DEF MarkAuthDeleted, IInv, TypeOK, At
<1>2. PICK r \in Records : r = req[p].rid
  BY <1>1 DEF RequestInv, OnRecord, AttemptSteps
<1>3. /\ RecordInv(r) /\ rec[r].stage \in PastCleanup /\ ~authUser
      /\ req[p].cust = rec[r].cust
      /\ req[p].acct # NoAccount => req[p].acct # account
  BY <1>1, <1>2 DEF RequestInv, OnRecord, AttemptSteps, IInv, TypeOK
<1>4. /\ rec' \in [Records -> RecordRow]
      /\ rec'[r].stage = IF rec[r].stage = "local_cleanup_complete" THEN "auth_deleted"
                         ELSE rec[r].stage
      /\ \A q \in Records : /\ q # r => rec'[q] = rec[q]
                            /\ rec'[q].acct = rec[q].acct
                            /\ rec'[q].cust = rec[q].cust
  BY <1>1, <1>2, AdvancedEffect DEF MarkAuthDeleted, StageNames
<1>5. /\ Alone(p) /\ req'[p].pc = "finish" /\ req'[p].rid = r /\ req'[p].acct = req[p].acct
      /\ req'[p].cust = req[p].cust /\ req'[p].intent = req[p].intent
  BY <1>1, <1>2, GotoEffect DEF MarkAuthDeleted, AttemptSteps
<1>6. RecordsMove /\ OneInFlight'
  <2>1. rec' = Advanced(r, "local_cleanup_complete", "auth_deleted")
    BY <1>2 DEF MarkAuthDeleted
  <2> QED BY <2>1, AdvancedMoves DEF Consecutive
<1>7. Billable' = Billable
  BY <1>1 DEF Billable
<1>8. WorldMoves
  BY <1>1, <1>6, <1>7 DEF WorldMoves
<1>9. rec'[r].stage \in PastAuth
  BY <1>3, <1>4 DEF PastCleanup, PastAuth
<1>10. RecordInv(r)'
  BY <1>1, <1>3, <1>4, <1>7 DEF RecordInv, PastRequested, PastCleanup, PastAuth
<1>11. \A q \in Records : q # r => RecordInv(q)'
  BY <1>4, <1>8, KeptRecord
<1>12. RowsInv'
  BY <1>1, <1>6, <1>7, <1>10, <1>11 DEF RowsInv, IInv
<1>13. TypeOK'
  BY <1>1, <1>4, <1>5 DEF TypeOK, Alone
<1>14. RequestInv(p)'
  BY <1>1, <1>2, <1>3, <1>4, <1>5, <1>9
  DEF RequestInv, OnRecord, AttemptSteps, PastCleanup, PastAuth
<1> QED
  BY <1>1, <1>5, <1>8, <1>12, <1>13, <1>14, RequestStep

\* Completing a record, which happens at auth_deleted or not at all.
LEMMA CompletedKeeps ==
    ASSUME IInv, NEW r \in Records, rec' = Completed(r),
           UNCHANGED <<account, minted, authUser, customer, entitlement, stripe, late>>
    PROVE  rec' \in [Records -> RecordRow] /\ WorldMoves /\ RowsInv'
<1>1. /\ rec' \in [Records -> RecordRow]
      /\ \A q \in Records : q # r => rec'[q] = rec[q]
      /\ rec[r].stage # "auth_deleted" => rec'[r] = rec[r]
      /\ rec[r].stage = "auth_deleted" => rec'[r].stage = "complete" /\ rec'[r].acct = NoAccount
      /\ rec'[r].cust = rec[r].cust
  BY CompletedEffect DEF IInv
<1>2. minted \in Nat /\ RecordInv(r) /\ Billable' = Billable
  BY DeletionAssumption DEF IInv, TypeOK, Billable
<1>3. WorldMoves
  <2>1. RecordsMove
    BY <1>1 DEF RecordsMove, PastRequested, PastCleanup, PastAuth
  <2> QED BY <1>2, <2>1 DEF WorldMoves
<1>4. RecordInv(r)'
  <2>1. CASE rec[r].stage = "auth_deleted"
    BY <1>1, <1>2, <2>1 DEF RecordInv, PastRequested, PastCleanup, PastAuth, NoAccount
  <2>2. CASE rec[r].stage # "auth_deleted"
    BY <1>1, <1>3, <2>2, KeptRecord
  <2> QED BY <2>1, <2>2
<1>5. \A q \in Records : q # r => RecordInv(q)'
  BY <1>1, <1>3, KeptRecord
<1>6. InFlight' \subseteq InFlight
  BY <1>1 DEF InFlight, InFlightStages
<1>7. RowsInv'
  BY <1>2, <1>4, <1>5, <1>6 DEF RowsInv, IInv, OneInFlight
<1> QED
  BY <1>1, <1>3, <1>7

LEMMA FinishStep ==
    ASSUME IInv, NEW p \in Requests, Finish(p)
    PROVE  IInv'
<1>1. /\ UNCHANGED <<account, minted, authUser, customer, entitlement, stripe, swp, late, erased>>
      /\ req[p].rid \in Records
  BY DEF Finish, At, IInv, RequestInv, OnRecord, AttemptSteps
<1>2. rec' \in [Records -> RecordRow] /\ WorldMoves /\ RowsInv'
  <2>1. CASE ErasureRequired
    <3>1. SameButLease
      BY <1>1, <2>1, LeaseEffect DEF Finish, IInv
    <3> QED BY <1>1, <3>1, LeaseKeeps DEF SameButLease
  <2>2. CASE ~ErasureRequired
    BY <1>1, <2>2, CompletedKeeps DEF Finish
  <2> QED BY <2>1, <2>2
<1>3. Alone(p) /\ req'[p].pc = "idle" /\ req'[p].acct = NoAccount
  BY ReturnEffect DEF Finish, IInv
<1>4. TypeOK'
  BY <1>1, <1>2, <1>3 DEF IInv, TypeOK, Alone
<1>5. RequestInv(p)'
  BY <1>2, <1>3, ReturnedInv DEF WorldMoves
<1> QED
  BY <1>1, <1>2, <1>3, <1>4, <1>5, RequestStep

-----------------------------------------------------------------------------
(* The sweeps. *)

LEMMA SweepGoes ==
    ASSUME IInv, NEW c \in Sweepers, NEW st \in SweeperState, swp' = [swp EXCEPT ![c] = st],
           RecordsMove, st.pc = "idle" \/ (st.rid \in Records /\ rec[st.rid].stage # "absent"),
           st.pc = "erase" => st.acct # NoAccount
    PROVE  /\ swp' \in [Sweepers -> SweeperState]
           /\ \A d \in Sweepers : SweepInv(d)'
BY DEF IInv, TypeOK, SweepInv, RecordsMove

\* A step of a sweep that leaves the rows alone.
LEMMA SweepOnly ==
    ASSUME IInv, NEW c \in Sweepers, NEW st \in SweeperState, swp' = [swp EXCEPT ![c] = st],
           UNCHANGED <<store, stripe, req, late>>, erased' \subseteq AccountId,
           st.pc = "idle" \/ (st.rid \in Records /\ rec[st.rid].stage # "absent"),
           st.pc = "erase" => st.acct # NoAccount
    PROVE  IInv'
<1>1. WorldMoves
  BY StillMoves
<1>2. swp' \in [Sweepers -> SweeperState] /\ \A d \in Sweepers : SweepInv(d)'
  BY <1>1, SweepGoes DEF WorldMoves
<1>3. TypeOK'
  BY <1>2 DEF IInv, TypeOK, store
<1>4. \A r \in Records : RecordInv(r)'
  BY <1>1, KeptRecord DEF store
<1>5. RowsInv'
  BY <1>4 DEF RowsInv, IInv, store, Billable, OneInFlight, InFlight
<1> QED
  BY <1>1, <1>2, <1>3, <1>5, OtherStep

LEMMA SweepSelectStep ==
    ASSUME IInv, NEW c \in Sweepers, NEW r \in Records, SweepSelect(c, r)
    PROVE  IInv'
<1> DEFINE st == [swp[c] EXCEPT !.pc = "lease", !.rid = r]
<1>1. st \in SweeperState /\ st.rid = r /\ st.pc = "lease" /\ swp' = [swp EXCEPT ![c] = st]
  BY DEF SweepSelect, IInv, TypeOK, SweeperState
<1>2. UNCHANGED <<store, stripe, req, late>> /\ erased' \subseteq AccountId
  BY DEF SweepSelect, IInv, TypeOK
<1>3. rec[r].stage # "absent"
  BY DEF SweepSelect
<1> HIDE DEF st
<1> QED
  BY <1>1, <1>2, <1>3, SweepOnly

\* A sweep of a record that was opened, with the record's facts.
LEMMA SweepFacts ==
    ASSUME IInv, NEW c \in Sweepers, swp[c].pc # "idle"
    PROVE  /\ swp[c].rid \in Records /\ rec[swp[c].rid].stage # "absent"
           /\ swp[c] \in SweeperState /\ rec[swp[c].rid] \in RecordRow
           /\ swp[c].pc = "erase" => swp[c].acct \in AccountId
BY DEF IInv, SweepInv, TypeOK, SweeperState, AccountRef

LEMMA SweepLeaseStep ==
    ASSUME IInv, NEW c \in Sweepers, SweepLease(c)
    PROVE  IInv'
<1>1. /\ UNCHANGED <<account, minted, authUser, customer, entitlement, stripe, req, late, erased>>
      /\ TypeOK
  BY DEF SweepLease, IInv
<1>2. PICK r \in Records : r = swp[c].rid
  BY SweepFacts DEF SweepLease
<1>3. rec[r].stage # "absent" /\ swp[c] \in SweeperState /\ rec[r] \in RecordRow
  BY <1>2, SweepFacts DEF SweepLease
<1>4. CASE swp' = [swp EXCEPT ![c] = SweeperIdle] /\ UNCHANGED rec
  BY <1>1, <1>4, IdleType, SweepOnly DEF store, TypeOK
<1>5. CASE Leasable(r) /\ rec' = [rec EXCEPT ![r].lease = TRUE]
  <2> DEFINE pc == IF rec[r].stage # "auth_deleted" THEN "release"
                   ELSE IF ErasureRequired /\ rec[r].acct # NoAccount THEN "erase"
                   ELSE "complete"
             st == [swp[c] EXCEPT !.acct = rec[r].acct, !.pc = pc]
  <2>1. swp' = [swp EXCEPT ![c] = st]
    BY <1>2, <1>5 DEF SweepLease
  <2>2. pc \in {"release", "erase", "complete"} /\ (pc = "erase" => rec[r].acct # NoAccount)
    OBVIOUS
  <2> HIDE DEF pc
  <2>3. st \in SweeperState /\ st.rid = r /\ (st.pc = "erase" => st.acct # NoAccount)
    BY <1>2, <1>3, <2>2 DEF SweeperState, RecordRow
  <2> HIDE DEF st
  <2>4. SameButLease
    BY <1>1, <1>5, LeaseEffect
  <2>5. WorldMoves /\ RowsInv'
    BY <1>1, <2>4, LeaseKeeps
  <2>6. swp' \in [Sweepers -> SweeperState] /\ \A d \in Sweepers : SweepInv(d)'
    BY <1>3, <2>1, <2>3, <2>5, SweepGoes DEF WorldMoves
  <2>7. TypeOK'
    BY <1>1, <2>4, <2>6 DEF TypeOK, SameButLease
  <2> QED BY <1>1, <2>5, <2>6, <2>7, OtherStep
<1> QED
  BY <1>2, <1>4, <1>5 DEF SweepLease

LEMMA SweepEraseStep ==
    ASSUME IInv, NEW c \in Sweepers, SweepErase(c)
    PROVE  IInv'
<1> DEFINE st == [swp[c] EXCEPT !.pc = "complete"]
<1>1. /\ swp[c].rid \in Records /\ rec[swp[c].rid].stage # "absent"
      /\ swp[c] \in SweeperState /\ swp[c].acct \in AccountId
  BY SweepFacts DEF SweepErase
<1>2. st \in SweeperState /\ st.rid = swp[c].rid /\ st.pc = "complete" /\ swp' = [swp EXCEPT ![c] = st]
  BY <1>1 DEF SweepErase, SweeperState
<1> HIDE DEF st
<1>3. UNCHANGED <<store, stripe, req, late>> /\ erased' \subseteq AccountId
  BY <1>1 DEF SweepErase, IInv, TypeOK
<1> QED
  BY <1>1, <1>2, <1>3, SweepOnly

LEMMA SweepHoldsStep ==
    ASSUME IInv, NEW c \in Sweepers, SweepHolds(c)
    PROVE  IInv'
<1> DEFINE st == [swp[c] EXCEPT !.pc = "release"]
<1>1. /\ swp[c].rid \in Records /\ rec[swp[c].rid].stage # "absent" /\ swp[c] \in SweeperState
  BY SweepFacts DEF SweepHolds
<1>2. st \in SweeperState /\ st.rid = swp[c].rid /\ st.pc = "release" /\ swp' = [swp EXCEPT ![c] = st]
  BY <1>1 DEF SweepHolds, SweeperState
<1> HIDE DEF st
<1>3. UNCHANGED <<store, stripe, req, late>> /\ erased' \subseteq AccountId
  BY DEF SweepHolds, IInv, TypeOK
<1> QED
  BY <1>1, <1>2, <1>3, SweepOnly

LEMMA SweepDiesStep ==
    ASSUME IInv, NEW c \in Sweepers, SweepDies(c)
    PROVE  IInv'
<1>1. UNCHANGED <<store, stripe, req, late>> /\ erased' \subseteq AccountId
  BY DEF SweepDies, IInv, TypeOK
<1> QED
  BY <1>1, IdleType, SweepOnly DEF SweepDies

\* The last write of a sweep: the record completed, or its lease dropped.
LEMMA SweepEnds ==
    ASSUME IInv, NEW c \in Sweepers, swp' = [swp EXCEPT ![c] = SweeperIdle],
           rec' \in [Records -> RecordRow], WorldMoves, RowsInv',
           UNCHANGED <<account, minted, authUser, customer, entitlement, stripe, req, late, erased>>
    PROVE  IInv'
<1>1. swp' \in [Sweepers -> SweeperState] /\ \A d \in Sweepers : SweepInv(d)'
  BY IdleType, SweepGoes DEF WorldMoves
<1>2. TypeOK'
  BY <1>1 DEF IInv, TypeOK
<1> QED
  BY <1>1, <1>2, OtherStep

LEMMA SweepCompleteStep ==
    ASSUME IInv, NEW c \in Sweepers, SweepComplete(c)
    PROVE  IInv'
<1>1. PICK r \in Records : r = swp[c].rid
  BY SweepFacts DEF SweepComplete
<1>2. rec' \in [Records -> RecordRow] /\ WorldMoves /\ RowsInv'
  BY <1>1, CompletedKeeps DEF SweepComplete
<1> QED
  BY <1>2, SweepEnds DEF SweepComplete

LEMMA SweepReleaseStep ==
    ASSUME IInv, NEW c \in Sweepers, SweepRelease(c)
    PROVE  IInv'
<1>1. PICK r \in Records : r = swp[c].rid
  BY SweepFacts DEF SweepRelease
<1>2. SameButLease
  BY <1>1, LeaseEffect DEF SweepRelease, IInv
<1>3. WorldMoves /\ RowsInv'
  BY <1>2, LeaseKeeps DEF SweepRelease
<1> QED
  BY <1>2, <1>3, SweepEnds DEF SweepRelease, SameButLease

-----------------------------------------------------------------------------
(* The rest of the system. *)

\* A step of nobody that leaves the records, the account and the sign-in alone.
LEMMA OutsideStep ==
    ASSUME IInv, UNCHANGED <<account, minted, authUser, rec, req, swp, erased>>, TypeOK',
           late \subseteq late', VerdictGiven => Billable' \subseteq Billable \cup late',
           customer'.gone => Billable' = {}
    PROVE  IInv'
<1>1. WorldMoves
  <2>1. RecordsMove /\ minted \in Nat
    BY SameRecordsMove, DeletionAssumption DEF IInv, TypeOK
  <2> QED BY <2>1 DEF WorldMoves
<1>2. \A r \in Records : RecordInv(r)'
  BY <1>1, KeptRecord
<1>3. RowsInv'
  BY <1>2 DEF RowsInv, IInv, OneInFlight, InFlight
<1>4. \A c \in Sweepers : SweepInv(c)'
  BY <1>1, KeptSweeps DEF WorldMoves
<1> QED
  BY <1>1, <1>3, <1>4, OtherStep

LEMMA ClaimCustomerStep ==
    ASSUME IInv, ClaimCustomer
    PROVE  IInv'
<1>1. Billable' = Billable /\ customer'.gone = customer.gone
  BY DEF ClaimCustomer, Billable, IInv, TypeOK
<1>2. TypeOK'
  BY DEF ClaimCustomer, IInv, TypeOK
<1> QED
  BY <1>1, <1>2, OutsideStep DEF ClaimCustomer, IInv

LEMMA EntitlementWrittenStep ==
    ASSUME IInv, EntitlementWritten
    PROVE  IInv'
<1>1. Billable' = Billable
  BY DEF EntitlementWritten, Billable
<1>2. TypeOK'
  BY DEF EntitlementWritten, IInv, TypeOK
<1> QED
  BY <1>1, <1>2, OutsideStep DEF EntitlementWritten, IInv

LEMMA CustomerGoneStep ==
    ASSUME IInv, CustomerGone
    PROVE  IInv'
<1>1. stripe' \in [Subs -> StripeStatus] /\ Billable' = {}
  BY DEF CustomerGone, IInv, TypeOK, StripeStatus, Status, Billable, IsPotentiallyBillable, TERMINAL
<1>2. TypeOK'
  BY <1>1 DEF CustomerGone, IInv, TypeOK
<1> QED
  BY <1>1, <1>2, OutsideStep DEF CustomerGone

\* A subscription that starts to bill unasked is a new one: it is late once the
\* verdict is given, and there is none while the Customer is gone.
LEMMA StripeMoveStep ==
    ASSUME IInv, NEW s \in Subs, StripeMove(s)
    PROVE  IInv'
<1>1. PICK st \in Status : <<stripe[s], st>> \in StripeMoves /\ stripe' = [stripe EXCEPT ![s] = st]
  BY DEF StripeMove
<1>2. UNCHANGED <<account, minted, authUser, customer, entitlement, rec, req, swp, erased>>
  BY DEF StripeMove, store
<1>3. late \subseteq late' /\ late' \subseteq Subs /\ Billable' \subseteq Billable \cup {s}
  BY <1>1 DEF StripeMove, IInv, TypeOK, Billable
<1>4. stripe[s] # "none" => s \in Billable
  BY <1>1, StripeMovesAssumption
  DEF Billable, IsPotentiallyBillable, IInv, TypeOK, StripeStatus
<1>5. customer.gone => Billable' = {}
  BY <1>3, <1>4 DEF StripeMove, IInv
<1>6. VerdictGiven => Billable' \subseteq Billable \cup late'
  BY <1>3, <1>4 DEF StripeMove
<1>7. TypeOK'
  BY <1>1, <1>2, <1>3 DEF IInv, TypeOK, StripeStatus
<1> QED
  BY <1>2, <1>3, <1>5, <1>6, <1>7, OutsideStep

-----------------------------------------------------------------------------
(* The invariant holds. *)

LEMMA InitInv == Init => IInv
<1> SUFFICES ASSUME Init PROVE IInv
  OBVIOUS
<1>1. account \in AccountRef /\ minted \in 0..MaxAccounts /\ account <= minted
  BY DeletionAssumption DEF Init, AccountRef, NoAccount
<1>2. customer \in [row : {"none", "attached", "detached"}, acct : AccountRef, gone : BOOLEAN]
  BY DEF Init, AccountRef
<1>3. TypeOK
  BY <1>1, <1>2, IdleType DEF Init, TypeOK, StripeStatus
<1>4. \A p \in Requests : RequestInv(p)
  BY <1>1 DEF Init, RequestInv, Idle, OnRecord, AttemptSteps, NoAccount
<1>5. \A r \in Records : RecordInv(r)
  BY <1>1 DEF Init, RecordInv, Absent, PastRequested, PastCleanup, PastAuth, NoAccount
<1>6. InFlight = {} /\ \A c \in Sweepers : SweepInv(c)
  BY DEF Init, InFlight, InFlightStages, Absent, SweepInv, SweeperIdle
<1> QED
  BY <1>1, <1>3, <1>4, <1>5, <1>6 DEF IInv, OneInFlight, Init

LEMMA StepInv == IInv /\ [Next]_vars => IInv'
<1> SUFFICES ASSUME IInv, [Next]_vars PROVE IInv'
  OBVIOUS
<1>1. ASSUME NEW p \in Requests, Begins(p) PROVE IInv'
  BY <1>1, ArriveStep, ReadInFlightStep, SelectAccountStep, CheckInFlightStep, UpsertAccountStep,
     ReadMappingStep, OpenDeletionStep DEF Begins
<1>2. ASSUME NEW p \in Requests, Attempts(p) PROVE IInv'
  BY <1>2, AcquireLeaseStep, ListSubscriptionsStep, CancelOneStep, CancelledStep,
     RelistVerdictStep, MarkBillingTerminatedStep, DetachCustomerStep, RemoveLocalAccountStep,
     DeleteAuthUserStep, MarkAuthDeletedStep, FinishStep, StageFailsStep, ReleaseLeaseStep,
     AbandonStep DEF Attempts
<1>3. ASSUME NEW c \in Sweepers, Sweeps(c) PROVE IInv'
  BY <1>3, SweepSelectStep, SweepLeaseStep, SweepEraseStep, SweepCompleteStep, SweepHoldsStep,
     SweepReleaseStep, SweepDiesStep DEF Sweeps
<1>4. ASSUME NEW r \in Records, LeaseExpires(r) PROVE IInv'
  BY <1>4, LeaseExpiresStep
<1>5. CASE Outside
  BY <1>5, ClaimCustomerStep, CustomerGoneStep, EntitlementWrittenStep, StripeMoveStep DEF Outside
<1>6. CASE UNCHANGED vars
  <2>1. UNCHANGED <<store, stripe, req, late>> /\ TypeOK'
    BY <1>6 DEF vars, store, IInv, TypeOK
  <2>2. WorldMoves
    BY <2>1, StillMoves
  <2>3. \A r \in Records : RecordInv(r)'
    BY <2>1, <2>2, KeptRecord DEF store
  <2>4. RowsInv'
    BY <2>1, <2>3 DEF RowsInv, IInv, store, Billable, OneInFlight, InFlight
  <2>5. \A c \in Sweepers : SweepInv(c)'
    BY <1>6, <2>2, KeptSweeps DEF WorldMoves, vars
  <2> QED BY <2>1, <2>2, <2>4, <2>5, OtherStep
<1> QED
  BY <1>1, <1>2, <1>3, <1>4, <1>5, <1>6 DEF Next

LEMMA Invariance == Spec => []IInv
BY InitInv, StepInv, PTL DEF Spec

-----------------------------------------------------------------------------
(* What follows from it. *)

\* Every row, request and sweep keeps its type, in whatever order they run.
THEOREM TypeCorrect == Spec => []TypeOK
<1>1. IInv => TypeOK
  BY DEF IInv
<1> QED
  BY <1>1, Invariance, PTL

\* The verdict on billing outlives the attempt that gave it: past `requested` a
\* record with a Customer leaves nothing billable but later subscriptions.
THEOREM VerdictHolds == Spec => []VerdictBeforeTermination
<1>1. IInv => VerdictBeforeTermination
  BY DEF IInv, RecordInv, VerdictBeforeTermination
<1> QED
  BY <1>1, Invariance, PTL

-----------------------------------------------------------------------------
(* What a step may do to the stages, the account and the sign-in. *)

QuietStep == /\ \A r \in Records : rec'[r].stage = rec[r].stage /\ rec'[r].acct = rec[r].acct
             /\ account = NoAccount \/ account' = account
             /\ authUser' = authUser

\* Where erasure is required it is a sweep that completes a record.
Completes(r) == /\ rec' = Completed(r)
                /\ ErasureRequired => \E c \in Sweepers : SweepComplete(c) /\ swp[c].rid = r

CompletionStep == /\ \E r \in Records : Completes(r)
                  /\ UNCHANGED <<account, minted, authUser, erased>>

LoudStep == \/ CompletionStep
            \/ \E p \in Requests : \/ OpenDeletion(p) \/ MarkBillingTerminated(p)
                                   \/ RemoveLocalAccount(p) \/ DeleteAuthUser(p)
                                   \/ MarkAuthDeleted(p)

LEMMA LeaseIsQuiet ==
    ASSUME IInv, NEW r \in Records, NEW b \in BOOLEAN, rec' = [rec EXCEPT ![r].lease = b],
           UNCHANGED <<account, authUser>>
    PROVE  QuietStep
BY LeaseEffect DEF QuietStep, SameButLease, IInv

LEMMA StepKinds == IInv /\ [Next]_vars => QuietStep \/ LoudStep
<1> SUFFICES ASSUME IInv, [Next]_vars PROVE QuietStep \/ LoudStep
  OBVIOUS
<1>1. CASE UNCHANGED <<account, authUser, rec>>
  BY <1>1 DEF QuietStep
<1>2. ASSUME NEW p \in Requests, Begins(p) PROVE QuietStep \/ LoudStep
  <2>1. CASE UpsertAccount(p)
    BY <2>1 DEF UpsertAccount, QuietStep
  <2>2. CASE OpenDeletion(p)
    BY <2>2 DEF LoudStep
  <2>3. CASE ~UpsertAccount(p) /\ ~OpenDeletion(p)
    BY <1>1, <1>2, <2>3 DEF Begins, Arrive, ReadInFlight, SelectAccount, CheckInFlight,
       ReadMapping, store
  <2> QED BY <2>1, <2>2, <2>3
<1>3. ASSUME NEW p \in Requests, Attempts(p) PROVE QuietStep \/ LoudStep
  <2>1. CASE AcquireLease(p) \/ ReleaseLease(p) \/ Finish(p)
    <3>1. PICK r \in Records : r = req[p].rid
      BY <2>1 DEF AcquireLease, ReleaseLease, Finish, At, IInv, RequestInv, OnRecord, AttemptSteps
    <3>2. UNCHANGED <<account, minted, authUser, erased>>
      BY <2>1 DEF AcquireLease, ReleaseLease, Finish
    <3>3. \/ rec' = rec \/ Completes(r)
          \/ rec' = [rec EXCEPT ![r].lease = TRUE] \/ rec' = [rec EXCEPT ![r].lease = FALSE]
      BY <2>1, <3>1 DEF AcquireLease, ReleaseLease, Finish, Completes
    <3> QED BY <1>1, <3>2, <3>3, LeaseIsQuiet DEF LoudStep, CompletionStep
  <2>2. CASE \/ MarkBillingTerminated(p) \/ RemoveLocalAccount(p) \/ DeleteAuthUser(p)
             \/ MarkAuthDeleted(p)
    BY <2>2 DEF LoudStep
  <2>3. CASE \/ ListSubscriptions(p) \/ Cancelled(p) \/ RelistVerdict(p) \/ DetachCustomer(p)
             \/ StageFails(p) \/ Abandon(p) \/ \E s \in Subs : CancelOne(p, s)
    BY <1>1, <2>3 DEF ListSubscriptions, Cancelled, RelistVerdict, DetachCustomer, StageFails,
       Abandon, CancelOne, store
  <2> QED BY <1>3, <2>1, <2>2, <2>3 DEF Attempts
<1>4. ASSUME NEW c \in Sweepers, Sweeps(c) PROVE QuietStep \/ LoudStep
  <2>1. CASE SweepLease(c) \/ SweepComplete(c) \/ SweepRelease(c)
    <3>1. PICK r \in Records : r = swp[c].rid
      BY <2>1, SweepFacts DEF SweepLease, SweepComplete, SweepRelease
    <3>2. UNCHANGED <<account, minted, authUser, erased>>
      BY <2>1 DEF SweepLease, SweepComplete, SweepRelease
    <3>3. \/ rec' = rec \/ Completes(r)
          \/ rec' = [rec EXCEPT ![r].lease = TRUE] \/ rec' = [rec EXCEPT ![r].lease = FALSE]
      BY <2>1, <3>1 DEF SweepLease, SweepComplete, SweepRelease, Completes
    <3> QED BY <1>1, <3>2, <3>3, LeaseIsQuiet DEF LoudStep, CompletionStep
  <2>2. CASE \/ SweepErase(c) \/ SweepHolds(c) \/ SweepDies(c)
             \/ \E r \in Records : SweepSelect(c, r)
    BY <1>1, <2>2 DEF SweepErase, SweepHolds, SweepDies, SweepSelect, store
  <2> QED BY <1>4, <2>1, <2>2 DEF Sweeps
<1>5. ASSUME NEW r \in Records, LeaseExpires(r) PROVE QuietStep
  BY <1>5, LeaseIsQuiet DEF LeaseExpires
<1>6. CASE Outside
  BY <1>1, <1>6 DEF Outside, ClaimCustomer, CustomerGone, EntitlementWritten, StripeMove, store
<1>7. CASE UNCHANGED vars
  BY <1>1, <1>7 DEF vars
<1> QED
  BY <1>2, <1>3, <1>4, <1>5, <1>6, <1>7 DEF Next

\* Where the stages go in a step that moves one.
LEMMA StageMoves ==
    ASSUME IInv, LoudStep, NEW r \in Records, rec'[r].stage # rec[r].stage
    PROVE  \/ /\ <<rec[r].stage, rec'[r].stage>> = <<"absent", "requested">>
              /\ \E p \in Requests : OpenDeletion(p)
           \/ /\ <<rec[r].stage, rec'[r].stage>> = <<"requested", "billing_terminated">>
              /\ \E p \in Requests : MarkBillingTerminated(p) /\ req[p].rid = r
           \/ /\ <<rec[r].stage, rec'[r].stage>> = <<"billing_terminated", "local_cleanup_complete">>
              /\ \E p \in Requests : RemoveLocalAccount(p) /\ req[p].rid = r
           \/ /\ <<rec[r].stage, rec'[r].stage>> = <<"local_cleanup_complete", "auth_deleted">>
              /\ \E p \in Requests : MarkAuthDeleted(p)
           \/ <<rec[r].stage, rec'[r].stage>> = <<"auth_deleted", "complete">> /\ CompletionStep
<1>1. CASE CompletionStep
  <2>1. rec[r].stage = "auth_deleted" /\ rec'[r].stage = "complete"
    BY <1>1, CompletedEffect DEF CompletionStep, Completes, IInv
  <2> QED BY <1>1, <2>1
<1>2. ASSUME NEW p \in Requests, OpenDeletion(p)
      PROVE  rec[r].stage = "absent" /\ rec'[r].stage = "requested"
  BY <1>2 DEF OpenDeletion, IInv, TypeOK
<1>3. ASSUME NEW p \in Requests, MarkBillingTerminated(p)
      PROVE  <<rec[r].stage, rec'[r].stage>> = <<"requested", "billing_terminated">> /\ req[p].rid = r
  <2>1. req[p].rid \in Records
    BY <1>3 DEF MarkBillingTerminated, At, IInv, RequestInv, OnRecord, AttemptSteps
  <2> QED BY <1>3, <2>1, AdvancedEffect DEF MarkBillingTerminated, IInv, StageNames
<1>4. ASSUME NEW p \in Requests, RemoveLocalAccount(p)
      PROVE  <<rec[r].stage, rec'[r].stage>> = <<"billing_terminated", "local_cleanup_complete">> /\ req[p].rid = r
  <2>1. req[p].rid \in Records
    BY <1>4 DEF RemoveLocalAccount, At, IInv, RequestInv, OnRecord, AttemptSteps
  <2>2. rec' = Advanced(req[p].rid, "billing_terminated", "local_cleanup_complete")
    BY <1>4 DEF RemoveLocalAccount
  <2> QED BY <2>1, <2>2, AdvancedEffect DEF IInv, StageNames
<1>5. ASSUME NEW p \in Requests, DeleteAuthUser(p)
      PROVE  FALSE
  BY <1>5 DEF DeleteAuthUser
<1>6. ASSUME NEW p \in Requests, MarkAuthDeleted(p)
      PROVE  rec[r].stage = "local_cleanup_complete" /\ rec'[r].stage = "auth_deleted"
  <2>1. req[p].rid \in Records
    BY <1>6 DEF MarkAuthDeleted, At, IInv, RequestInv, OnRecord, AttemptSteps
  <2> QED BY <1>6, <2>1, AdvancedEffect DEF MarkAuthDeleted, IInv, StageNames
<1> QED
  BY <1>1, <1>2, <1>3, <1>4, <1>5, <1>6 DEF LoudStep

\* However many attempts, stale ones included, write a record, it moves one stage
\* forward at a time.
THEOREM StagesAdvance == Spec => StagesNeverRegress
<1>1. ASSUME IInv, [Next]_vars, NEW r \in Records
      PROVE  Rank(rec'[r].stage) \in {Rank(rec[r].stage), Rank(rec[r].stage) + 1}
  <2>1. CASE rec'[r].stage = rec[r].stage
    BY <2>1
  <2>2. CASE rec'[r].stage # rec[r].stage
    <3>1. LoudStep
      BY <1>1, <2>2, StepKinds DEF QuietStep
    <3> QED BY <1>1, <2>2, <3>1, StageMoves DEF Rank
  <2> QED BY <2>1, <2>2
<1>2. IInv /\ [Next]_vars =>
        [\A r \in Records : Rank(rec'[r].stage) \in {Rank(rec[r].stage), Rank(rec[r].stage) + 1}]_vars
  BY <1>1
<1> QED
  BY <1>2, Invariance, PTL DEF Spec, StagesNeverRegress

\* Billing is ended only by an attempt of a request that carried the confirmation
\* and the recent sign-in, also when it resumes a record another request opened.
THEOREM ConfirmedOnly == Spec => TerminatedOnlyIfConfirmed
<1>1. ASSUME IInv, [Next]_vars, NEW r \in Records,
             rec[r].stage = "requested", rec'[r].stage # "requested"
      PROVE  \E p \in Requests : req[p].rid = r /\ req[p].intent = "delete"
  <2>1. LoudStep
    BY <1>1, StepKinds DEF QuietStep
  <2>2. PICK p \in Requests : MarkBillingTerminated(p) /\ req[p].rid = r
    BY <1>1, <2>1, StageMoves
  <2>3. RequestInv(p) /\ req[p].pc = "mark"
    BY <1>1, <2>2 DEF IInv, MarkBillingTerminated, At
  <2> QED BY <1>1, <2>2, <2>3 DEF RequestInv, OnRecord, AttemptSteps
<1>2. IInv /\ [Next]_vars =>
        [\A r \in Records : rec[r].stage = "requested" /\ rec'[r].stage # "requested" =>
           \E p \in Requests : req[p].rid = r /\ req[p].intent = "delete"]_vars
  BY <1>1
<1> QED
  BY <1>2, Invariance, PTL DEF Spec, TerminatedOnlyIfConfirmed

\* No stale attempt deletes an account or a sign-in before billing has ended: the
\* account goes in the step that records it, the sign-in after that step only.
THEOREM RemovalAfterBilling == Spec => RemovalFollowsBilling
<1>1. ASSUME IInv, [Next]_vars, account # NoAccount, account' # account
      PROVE  \E r \in Records : /\ rec[r].stage = "billing_terminated"
                                /\ rec[r].acct = account
                                /\ rec'[r].stage = "local_cleanup_complete"
  <2>1. PICK p \in Requests : RemoveLocalAccount(p)
    BY <1>1, StepKinds DEF QuietStep, LoudStep, CompletionStep, OpenDeletion,
       MarkBillingTerminated, DeleteAuthUser, MarkAuthDeleted
  <2>2. RequestInv(p) /\ req[p].pc = "cleanup" /\ req[p].acct = account
    BY <1>1, <2>1 DEF IInv, RemoveLocalAccount, At
  <2>3. PICK r \in Records : r = req[p].rid
    BY <2>2 DEF RequestInv, OnRecord, AttemptSteps
  <2>4. rec[r].stage = "billing_terminated" /\ rec[r].acct = account
    BY <1>1, <2>2, <2>3 DEF RequestInv, AttemptSteps, PastRequested, PastCleanup
  <2>5. rec'[r].stage = "local_cleanup_complete"
    BY <1>1, <2>1, <2>3, <2>4, AdvancedEffect DEF RemoveLocalAccount, IInv, StageNames
  <2> QED BY <2>4, <2>5
<1>2. ASSUME IInv, [Next]_vars, authUser # authUser'
      PROVE  \E r \in Records : rec[r].stage = "local_cleanup_complete"
  <2>1. PICK p \in Requests : DeleteAuthUser(p)
    BY <1>2, StepKinds DEF QuietStep, LoudStep, CompletionStep, OpenDeletion,
       MarkBillingTerminated, RemoveLocalAccount, MarkAuthDeleted
  <2>2. RequestInv(p) /\ req[p].pc = "auth" /\ authUser
    BY <1>2, <2>1 DEF IInv, TypeOK, DeleteAuthUser, At
  <2>3. PICK r \in Records : r = req[p].rid
    BY <2>2 DEF RequestInv, OnRecord, AttemptSteps
  <2>4. RecordInv(r)
    BY <1>2 DEF IInv
  <2>5. rec[r].stage = "local_cleanup_complete"
    BY <2>2, <2>3, <2>4 DEF RequestInv, RecordInv, PastCleanup, PastAuth
  <2> QED BY <2>5
<1>3. IInv /\ [Next]_vars =>
        [/\ account # NoAccount /\ account' # account =>
              \E r \in Records : /\ rec[r].stage = "billing_terminated"
                                 /\ rec[r].acct = account
                                 /\ rec'[r].stage = "local_cleanup_complete"
         /\ authUser # authUser' =>
              \E r \in Records : rec[r].stage = "local_cleanup_complete"]_vars
  BY <1>1, <1>2
<1> QED
  BY <1>3, Invariance, PTL DEF Spec, RemovalFollowsBilling

-----------------------------------------------------------------------------
(* What a stranded deletion has behind it.  UnfinishedCanResume fails: a   *)
(* process that dies between the two writes of the Auth stage leaves a     *)
(* record nobody may resume.  The loss is bounded by what follows.         *)

\* The sign-in outlives the local data of the first deletion.
SignInInv == authUser \/ \E r \in Records : rec[r].stage \in PastCleanup

LEMMA SignInStep == IInv /\ SignInInv /\ [Next]_vars => SignInInv'
<1> SUFFICES ASSUME IInv, SignInInv, [Next]_vars PROVE SignInInv'
  OBVIOUS
<1>1. QuietStep \/ LoudStep
  BY StepKinds
<1>2. ASSUME NEW r \in Records, rec[r].stage \in PastCleanup
      PROVE  rec'[r].stage \in PastCleanup
  <2>1. CASE rec'[r].stage = rec[r].stage
    BY <1>2, <2>1
  <2>2. CASE rec'[r].stage # rec[r].stage
    <3>1. LoudStep
      BY <1>1, <2>2 DEF QuietStep
    <3> QED BY <1>2, <2>2, <3>1, StageMoves DEF PastCleanup
  <2> QED BY <2>1, <2>2
<1>3. ASSUME authUser, ~authUser'
      PROVE  \E r \in Records : rec[r].stage \in PastCleanup
  <2>1. PICK p \in Requests : DeleteAuthUser(p)
    BY <1>1, <1>3 DEF QuietStep, LoudStep, CompletionStep, OpenDeletion,
       MarkBillingTerminated, RemoveLocalAccount, MarkAuthDeleted
  <2> QED BY <2>1 DEF IInv, RequestInv, OnRecord, AttemptSteps, DeleteAuthUser, At
<1> QED
  BY <1>2, <1>3 DEF SignInInv

\* A deletion still open without a sign-in, and so without a session to resume it, has
\* its billing ended and its account removed: what is left of it is the erasure and the
\* bookkeeping.  (Once one deletion is complete, an attempt begun before may open another.)
StrandedIsCleaned ==
    \/ authUser
    \/ \E r \in Records : rec[r].stage = "complete"
    \/ \A r \in InFlight : /\ rec[r].stage \in {"local_cleanup_complete", "auth_deleted"}
                           /\ rec[r].cust => Billable \subseteq late
                           /\ rec[r].acct # NoAccount => rec[r].acct # account

THEOREM StrandedHarmless == Spec => []StrandedIsCleaned
<1>1. Init => SignInInv
  BY DEF Init, SignInInv
<1>2. IInv /\ SignInInv => StrandedIsCleaned
  <2> SUFFICES ASSUME IInv, SignInInv, ~authUser,
                      \A r \in Records : rec[r].stage # "complete", NEW r \in InFlight
               PROVE  /\ rec[r].stage \in {"local_cleanup_complete", "auth_deleted"}
                      /\ rec[r].cust => Billable \subseteq late
                      /\ rec[r].acct # NoAccount => rec[r].acct # account
    BY DEF StrandedIsCleaned
  <2>1. PICK q \in Records : rec[q].stage \in {"local_cleanup_complete", "auth_deleted"}
    BY DEF SignInInv, PastCleanup
  <2>2. q = r
    BY <2>1 DEF IInv, OneInFlight, InFlight, InFlightStages
  <2>3. r \in Records /\ RecordInv(r)
    BY DEF IInv, InFlight
  <2> QED BY <2>1, <2>2, <2>3 DEF RecordInv, PastRequested, PastCleanup
<1> QED
  BY <1>1, <1>2, SignInStep, Invariance, PTL DEF Spec

-----------------------------------------------------------------------------
(* The erasure.  A sweep works on the account its lease returned: what it  *)
(* is about to erase, or has had erased, is its record's account still, or *)
(* another sweep has completed the record since.                           *)

SweepCopyInv(c) ==
    LET me == swp[c]
        r == rec[me.rid]
    IN /\ me.pc = "erase" => /\ ErasureRequired
                             /\ \/ r.stage = "auth_deleted" /\ r.acct = me.acct
                                \/ r.stage = "complete" /\ me.acct \in erased
       /\ me.pc = "complete" /\ ErasureRequired => r.acct \in erased \cup {NoAccount}

NamesNobody == \A r \in Records : rec[r].stage \in {"absent", "complete"} => rec[r].acct = NoAccount

ErasureInv == NamesNobody /\ \A c \in Sweepers : SweepCopyInv(c)

\* An account is written into a record when it is opened, and taken out when it completes.
LEMMA AcctMoves ==
    ASSUME IInv, QuietStep \/ LoudStep, NEW r \in Records, rec'[r].acct # rec[r].acct
    PROVE  \/ rec[r].stage = "absent" /\ rec'[r].stage = "requested"
           \/ rec[r].stage = "auth_deleted" /\ rec'[r].stage = "complete"
<1>1. LoudStep
  BY DEF QuietStep
<1>2. CASE CompletionStep
  BY <1>2, CompletedEffect DEF CompletionStep, Completes, IInv
<1>3. ASSUME NEW p \in Requests, OpenDeletion(p)
      PROVE  rec[r].stage = "absent" /\ rec'[r].stage = "requested"
  BY <1>3 DEF OpenDeletion, IInv, TypeOK
<1>4. ASSUME NEW p \in Requests, MarkBillingTerminated(p) \/ RemoveLocalAccount(p) \/ MarkAuthDeleted(p)
      PROVE  FALSE
  <2>1. req[p].rid \in Records
    BY <1>4 DEF MarkBillingTerminated, RemoveLocalAccount, MarkAuthDeleted, At, IInv, RequestInv,
       OnRecord, AttemptSteps
  <2> QED BY <1>4, <2>1, AdvancedEffect
          DEF MarkBillingTerminated, RemoveLocalAccount, MarkAuthDeleted, IInv, StageNames
<1>5. ASSUME NEW p \in Requests, DeleteAuthUser(p)
      PROVE  FALSE
  BY <1>5 DEF DeleteAuthUser
<1> QED
  BY <1>1, <1>2, <1>3, <1>4, <1>5 DEF LoudStep

\* A record completes with its account forgotten, after a sweep had it erased if it must be.
LEMMA CompletesErased ==
    ASSUME IInv, ErasureInv, QuietStep \/ LoudStep, NEW r \in Records,
           rec[r].stage = "auth_deleted", rec'[r].stage = "complete"
    PROVE  /\ rec'[r].acct = NoAccount
           /\ ErasureRequired => rec[r].acct \in erased \cup {NoAccount}
<1>1. LoudStep
  BY DEF QuietStep
<1>2. CompletionStep
  BY <1>1, StageMoves
<1>3. PICK q \in Records : Completes(q)
  BY <1>2 DEF CompletionStep
<1>4. q = r /\ rec'[r].acct = NoAccount
  BY <1>3, CompletedEffect DEF Completes, IInv
<1>5. ASSUME ErasureRequired PROVE rec[r].acct \in erased \cup {NoAccount}
  <2>1. PICK c \in Sweepers : SweepComplete(c) /\ swp[c].rid = r
    BY <1>3, <1>4, <1>5 DEF Completes
  <2> QED BY <1>5, <2>1 DEF SweepComplete, ErasureInv, SweepCopyInv
<1> QED
  BY <1>4, <1>5

\* A sweep not touched by a step, its record wherever the step has taken it.
LEMMA CopyKept ==
    ASSUME IInv, ErasureInv, QuietStep \/ LoudStep, NEW c \in Sweepers, swp'[c] = swp[c],
           erased \subseteq erased'
    PROVE  SweepCopyInv(c)'
<1> DEFINE me == swp[c]
           r == me.rid
<1>1. SweepCopyInv(c)
  BY DEF ErasureInv
<1>2. me.pc # "idle" => r \in Records /\ rec[r].stage # "absent"
  BY SweepFacts
<1>3. ASSUME me.pc = "erase"
      PROVE  /\ ErasureRequired
             /\ \/ rec'[r].stage = "auth_deleted" /\ rec'[r].acct = me.acct
                \/ rec'[r].stage = "complete" /\ me.acct \in erased'
  <2>1. r \in Records /\ ErasureRequired /\ me.acct # NoAccount
    BY <1>1, <1>2, <1>3 DEF SweepCopyInv, IInv, SweepInv
  <2>2. CASE rec[r].stage = "auth_deleted" /\ rec[r].acct = me.acct /\ rec'[r].stage = rec[r].stage
    BY <2>1, <2>2, AcctMoves
  <2>3. CASE rec[r].stage = "auth_deleted" /\ rec[r].acct = me.acct /\ rec'[r].stage # rec[r].stage
    <3>1. LoudStep
      BY <2>1, <2>3 DEF QuietStep
    <3>2. rec'[r].stage = "complete"
      BY <2>1, <2>3, <3>1, StageMoves
    <3> QED BY <2>1, <2>3, <3>2, CompletesErased
  <2>4. CASE rec[r].stage = "complete" /\ me.acct \in erased
    <3>1. rec'[r].stage = "complete"
      BY <2>1, <2>4, StageMoves DEF QuietStep
    <3> QED BY <2>1, <2>4, <3>1
  <2> QED BY <1>1, <1>3, <2>2, <2>3, <2>4 DEF SweepCopyInv
<1>4. ASSUME me.pc = "complete", ErasureRequired
      PROVE  rec'[r].acct \in erased' \cup {NoAccount}
  <2>1. r \in Records /\ rec[r].stage # "absent" /\ rec[r].acct \in erased \cup {NoAccount}
    BY <1>1, <1>2, <1>4 DEF SweepCopyInv
  <2>2. CASE rec'[r].acct = rec[r].acct
    BY <2>1, <2>2
  <2>3. CASE rec'[r].acct # rec[r].acct
    <3>1. rec[r].stage = "auth_deleted" /\ rec'[r].stage = "complete"
      BY <2>1, <2>3, AcctMoves
    <3> QED BY <2>1, <3>1, CompletesErased
  <2> QED BY <2>2, <2>3
<1> QED
  BY <1>3, <1>4 DEF SweepCopyInv

\* What a step may do to a sweep, and to what has been erased.
LEMMA SweepMoves ==
    ASSUME IInv, [Next]_vars
    PROVE  /\ erased \subseteq erased'
           /\ erased' = erased \/ \E c \in Sweepers : SweepErase(c)
           /\ \A c \in Sweepers : \/ swp'[c] = swp[c]
                                  \/ swp'[c].pc \in {"idle", "lease", "release"}
                                  \/ SweepLease(c) \/ SweepErase(c)
<1>1. CASE UNCHANGED <<swp, erased>>
  BY <1>1
<1>2. ASSUME NEW p \in Requests, Begins(p) \/ Attempts(p)
      PROVE  UNCHANGED <<swp, erased>>
  BY <1>2 DEF Begins, Attempts, Arrive, ReadInFlight, SelectAccount, CheckInFlight, UpsertAccount,
     ReadMapping, OpenDeletion, AcquireLease, ListSubscriptions, CancelOne, Cancelled, RelistVerdict,
     MarkBillingTerminated, DetachCustomer, RemoveLocalAccount, DeleteAuthUser, MarkAuthDeleted,
     Finish, StageFails, ReleaseLease, Abandon
<1>3. ASSUME NEW d \in Sweepers, Sweeps(d)
      PROVE  /\ erased \subseteq erased'
             /\ erased' = erased \/ \E c \in Sweepers : SweepErase(c)
             /\ \A c \in Sweepers : \/ swp'[c] = swp[c]
                                    \/ swp'[c].pc \in {"idle", "lease", "release"}
                                    \/ SweepLease(c) \/ SweepErase(c)
  <2>1. swp \in [Sweepers -> SweeperState]
    BY DEF IInv, TypeOK
  <2>2. CASE SweepLease(d)
    <3>1. \A c \in Sweepers : c # d => swp'[c] = swp[c]
      BY <2>1, <2>2 DEF SweepLease
    <3> QED BY <2>2, <3>1 DEF SweepLease
  <2>3. CASE SweepErase(d)
    BY <2>1, <2>3 DEF SweepErase
  <2>4. CASE SweepComplete(d) \/ SweepRelease(d) \/ SweepDies(d)
    BY <2>1, <2>4 DEF SweepComplete, SweepRelease, SweepDies, SweeperIdle
  <2>5. CASE SweepHolds(d)
    BY <2>1, <2>5 DEF SweepHolds, SweeperState
  <2>6. ASSUME NEW r \in Records, SweepSelect(d, r)
        PROVE  /\ erased' = erased
               /\ \A c \in Sweepers : swp'[c] = swp[c] \/ swp'[c].pc = "lease"
    BY <2>1, <2>6 DEF SweepSelect, SweeperState
  <2> QED BY <1>3, <2>2, <2>3, <2>4, <2>5, <2>6 DEF Sweeps
<1>4. ASSUME NEW r \in Records, LeaseExpires(r)
      PROVE  UNCHANGED <<swp, erased>>
  BY <1>4 DEF LeaseExpires
<1>5. CASE Outside
  BY <1>1, <1>5 DEF Outside, ClaimCustomer, CustomerGone, EntitlementWritten, StripeMove
<1>6. CASE UNCHANGED vars
  BY <1>1, <1>6 DEF vars
<1> QED
  BY <1>1, <1>2, <1>3, <1>4, <1>5, <1>6 DEF Next

LEMMA SweepLeaseCopies ==
    ASSUME IInv, NEW c \in Sweepers, SweepLease(c)
    PROVE  SweepCopyInv(c)'
<1>1. PICK r \in Records : r = swp[c].rid
  BY SweepFacts DEF SweepLease
<1>2. swp[c] \in SweeperState /\ rec[r] \in RecordRow
  BY <1>1, SweepFacts DEF SweepLease
<1>3. CASE swp' = [swp EXCEPT ![c] = SweeperIdle]
  BY <1>3 DEF SweepCopyInv, SweeperIdle, IInv, TypeOK
<1>4. CASE Leasable(r) /\ rec' = [rec EXCEPT ![r].lease = TRUE]
  <2> DEFINE pc == IF rec[r].stage # "auth_deleted" THEN "release"
                   ELSE IF ErasureRequired /\ rec[r].acct # NoAccount THEN "erase"
                   ELSE "complete"
  <2>1. swp'[c].rid = r /\ swp'[c].acct = rec[r].acct /\ swp'[c].pc = pc
    BY <1>1, <1>2, <1>4 DEF SweepLease, IInv, TypeOK, SweeperState
  <2>2. rec'[r].stage = rec[r].stage /\ rec'[r].acct = rec[r].acct
    BY <1>4, LeaseEffect DEF SameButLease, IInv
  <2> QED BY <2>1, <2>2 DEF SweepCopyInv
<1> QED
  BY <1>1, <1>3, <1>4 DEF SweepLease

LEMMA SweepEraseCopies ==
    ASSUME IInv, ErasureInv, NEW c \in Sweepers, SweepErase(c)
    PROVE  SweepCopyInv(c)'
<1>1. swp[c].rid \in Records /\ SweepCopyInv(c)
  BY SweepFacts DEF SweepErase, ErasureInv
<1>2. /\ swp'[c].pc = "complete" /\ swp'[c].rid = swp[c].rid
      /\ rec' = rec /\ erased' = erased \cup {swp[c].acct}
  BY DEF SweepErase, store, IInv, TypeOK, SweeperState
<1>3. rec[swp[c].rid].acct \in {swp[c].acct, NoAccount}
  BY <1>1 DEF SweepErase, SweepCopyInv, ErasureInv, NamesNobody
<1> QED
  BY <1>2, <1>3 DEF SweepCopyInv

LEMMA ErasureInit == Init => ErasureInv
BY DEF Init, ErasureInv, NamesNobody, SweepCopyInv, Absent, SweeperIdle

LEMMA ErasureStep == IInv /\ ErasureInv /\ [Next]_vars => ErasureInv'
<1> SUFFICES ASSUME IInv, ErasureInv, [Next]_vars PROVE ErasureInv'
  OBVIOUS
<1>1. QuietStep \/ LoudStep
  BY StepKinds
<1>2. ASSUME NEW r \in Records, rec'[r].stage \in {"absent", "complete"}
      PROVE  rec'[r].acct = NoAccount
  <2>1. CASE rec'[r].stage = rec[r].stage
    BY <1>1, <1>2, <2>1, AcctMoves DEF ErasureInv, NamesNobody
  <2>2. CASE rec'[r].stage # rec[r].stage
    <3>1. LoudStep
      BY <1>1, <2>2 DEF QuietStep
    <3>2. rec[r].stage = "auth_deleted" /\ rec'[r].stage = "complete"
      BY <1>2, <2>2, <3>1, StageMoves
    <3> QED BY <1>1, <3>2, CompletesErased
  <2> QED BY <2>1, <2>2
<1>3. ASSUME NEW c \in Sweepers
      PROVE  SweepCopyInv(c)'
  <2>1. CASE swp'[c] = swp[c]
    BY <1>1, <2>1, CopyKept, SweepMoves
  <2>2. CASE swp'[c].pc \in {"idle", "lease", "release"}
    BY <2>2 DEF SweepCopyInv
  <2> QED BY <2>1, <2>2, SweepMoves, SweepLeaseCopies, SweepEraseCopies
<1> QED
  BY <1>2, <1>3 DEF ErasureInv, NamesNobody

LEMMA ErasureInvariance == Spec => [](IInv /\ ErasureInv)
BY InitInv, StepInv, ErasureInit, ErasureStep, PTL DEF Spec

\* Whichever sweep completes a record, and however many work on it, where analytics is in
\* use the account it forgets is one whose erasure has been accepted.
THEOREM ForgottenIsErased == Spec => ForgottenOnlyOnceErased
<1>1. ASSUME IInv, ErasureInv, [Next]_vars, ErasureRequired, NEW r \in Records,
             rec'[r].acct # rec[r].acct, rec[r].acct # NoAccount
      PROVE  rec[r].acct \in erased
  <2>1. QuietStep \/ LoudStep
    BY <1>1, StepKinds
  <2>2. rec[r].stage = "auth_deleted" /\ rec'[r].stage = "complete"
    BY <1>1, <2>1, AcctMoves DEF ErasureInv, NamesNobody
  <2> QED BY <1>1, <2>1, <2>2, CompletesErased
<1>2. IInv /\ ErasureInv /\ [Next]_vars =>
        [ErasureRequired =>
           \A r \in Records : rec'[r].acct # rec[r].acct /\ rec[r].acct # NoAccount
                                => rec[r].acct \in erased]_vars
  BY <1>1
<1> QED
  BY <1>2, ErasureInvariance, PTL DEF Spec, ForgottenOnlyOnceErased

-----------------------------------------------------------------------------
(* What a record says of the account that exists, for the modules that run  *)
(* beside the deletion.                                                     *)

Decided(r) == rec[r].acct = account /\ rec[r].stage \notin {"absent", "requested"}

\* A record of the account past `requested` stays one as long as the account does.
LEMMA DecidedStays ==
    ASSUME IInv, ErasureInv, [Next]_vars, NEW r \in Records, Decided(r), account # NoAccount,
           account' = account
    PROVE  Decided(r)'
<1>1. rec[r].stage = "billing_terminated"
  BY DEF Decided, IInv, TypeOK, RecordInv, RecordRow, StageNames, PastCleanup
<1>2. QuietStep \/ LoudStep
  BY StepKinds
<1>3. rec'[r].acct = rec[r].acct
  BY <1>1, <1>2, AcctMoves
<1>4. rec'[r].stage \notin {"absent", "requested"}
  <2>1. CASE QuietStep
    BY <1>1, <2>1 DEF QuietStep
  <2>2. CASE LoudStep /\ rec'[r].stage # rec[r].stage
    BY <1>1, <2>2, StageMoves
  <2> QED BY <1>1, <1>2, <2>1, <2>2
<1> QED
  BY <1>3, <1>4 DEF Decided

\* The revocation of the account's access is recorded with it.
LEMMA RevocationIsDecided ==
    ASSUME IInv, NEW p \in Requests, MarkBillingTerminated(p), entitlement' # entitlement
    PROVE  account' = account /\ \E r \in Records : Decided(r)'
<1> DEFINE r == req[p].rid
<1>1. RequestInv(p) /\ req[p].pc = "mark"
  BY DEF IInv, MarkBillingTerminated, At
<1>2. req[p].acct # NoAccount /\ req[p].acct = account
  BY DEF MarkBillingTerminated, RevokedForDeletion
<1>3. /\ r \in Records /\ rec[r].stage \notin PastCleanup /\ rec[r].stage # "absent"
      /\ rec[r].acct = account
  BY <1>1, <1>2 DEF RequestInv, OnRecord, AttemptSteps
<1>4. rec[r].stage \in {"requested", "billing_terminated"}
  BY <1>3 DEF IInv, TypeOK, RecordRow, StageNames, PastCleanup
<1>5. rec'[r].stage = "billing_terminated" /\ rec'[r].acct = rec[r].acct /\ account' = account
  BY <1>3, <1>4, AdvancedEffect DEF MarkBillingTerminated, IInv, StageNames
<1> QED
  BY <1>3, <1>5 DEF Decided

-----------------------------------------------------------------------------
(* The first record and the abstract workflow.  Until it is opened no      *)
(* account has been deleted, so that it is of the first account; a record  *)
(* opened later for the same account, by a request that had found it       *)
(* before it was deleted, finds that account deleted and erased already.   *)

FirstRecordInv ==
    /\ rec[1].stage = "absent" => /\ \A r \in Records : rec[r].stage = "absent"
                                  /\ minted <= 1 /\ account = minted
    /\ rec[1].stage # "absent" => minted # 0
    /\ rec[1].stage \notin {"absent", "complete"} => rec[1].acct = 1
    /\ rec[1].stage \in PastCleanup => account # 1
    /\ rec[1].stage = "complete" /\ ErasureRequired => 1 \in erased
    /\ \A p \in Requests : req[p].pc \in {"mapping", "open"} => req[p].acct # NoAccount

LEMMA FirstIsRecord == 1 \in Records
BY DeletionAssumption DEF Records

\* An account is minted once, and goes only as it is removed.
LEMMA AccountMoves ==
    ASSUME [Next]_vars
    PROVE  \/ UNCHANGED <<account, minted>>
           \/ /\ account = NoAccount /\ minted' = minted + 1 /\ account' = minted + 1
              /\ rec' = rec
           \/ /\ account' = NoAccount /\ minted' = minted
              /\ \E p \in Requests : RemoveLocalAccount(p) /\ req[p].acct = account
<1>1. ASSUME NEW p \in Requests, Begins(p)
      PROVE  \/ UNCHANGED <<account, minted>>
             \/ /\ account = NoAccount /\ minted' = minted + 1 /\ account' = minted + 1
                /\ rec' = rec
  BY <1>1 DEF Begins, Arrive, ReadInFlight, SelectAccount, CheckInFlight, UpsertAccount,
     ReadMapping, OpenDeletion, store
<1>2. ASSUME NEW p \in Requests, Attempts(p)
      PROVE  \/ UNCHANGED <<account, minted>>
             \/ /\ account' = NoAccount /\ minted' = minted
                /\ RemoveLocalAccount(p) /\ req[p].acct = account
  BY <1>2 DEF Attempts, AcquireLease, ListSubscriptions, CancelOne, Cancelled, RelistVerdict,
     MarkBillingTerminated, DetachCustomer, RemoveLocalAccount, DeleteAuthUser, MarkAuthDeleted,
     Finish, StageFails, ReleaseLease, Abandon, store
<1>3. ASSUME NEW c \in Sweepers, Sweeps(c)
      PROVE  UNCHANGED <<account, minted>>
  BY <1>3 DEF Sweeps, SweepSelect, SweepLease, SweepErase, SweepComplete, SweepHolds, SweepRelease,
     SweepDies, store
<1>4. ASSUME NEW r \in Records, LeaseExpires(r)
      PROVE  UNCHANGED <<account, minted>>
  BY <1>4 DEF LeaseExpires
<1>5. CASE Outside
  BY <1>5 DEF Outside, ClaimCustomer, CustomerGone, EntitlementWritten, StripeMove, store
<1>6. CASE UNCHANGED vars
  BY <1>6 DEF vars
<1> QED
  BY <1>1, <1>2, <1>3, <1>4, <1>5, <1>6 DEF Next

\* A request that is to open a deletion has found an account.
LEMMA FoundAccount ==
    ASSUME IInv, [Next]_vars, NEW q \in Requests, req'[q].pc \in {"mapping", "open"}, req'[q] # req[q]
    PROVE  req'[q].acct # NoAccount \/ (req[q].pc = "mapping" /\ req'[q].acct = req[q].acct)
<1> USE DEF NoAccount
<1>1. req \in [Requests -> RequestState] /\ minted \in Nat
  BY DeletionAssumption DEF IInv, TypeOK
<1>2. ASSUME NEW p \in Requests, Begins(p)
      PROVE  req'[q].acct # NoAccount \/ (req[q].pc = "mapping" /\ req'[q].acct = req[q].acct)
  <2>1. ASSUME NEW intent \in {"view", "delete", "resume"}, Arrive(p, intent) PROVE FALSE
    BY <1>1, <2>1 DEF Arrive, Idle
  <2>2. CASE ReadInFlight(p) \/ CheckInFlight(p)
    BY <1>1, <2>2, ReturnEffect, GotoEffect, LeaseNextEffect
    DEF ReadInFlight, CheckInFlight, RequestSteps, Alone, InFlight, IInv
  <2>3. CASE OpenDeletion(p)
    BY <1>1, <2>3, LeaseNextEffect DEF OpenDeletion, Alone, InFlight, IInv
  <2>4. CASE SelectAccount(p) \/ UpsertAccount(p)
    BY <1>1, <2>4 DEF SelectAccount, UpsertAccount, Found, Goto, Return, Idle, RequestState
  <2>5. CASE ReadMapping(p)
    BY <1>1, <2>5 DEF ReadMapping, At, RequestState
  <2> QED BY <1>2, <2>1, <2>2, <2>3, <2>4, <2>5 DEF Begins
<1>3. ASSUME NEW p \in Requests, Attempts(p)
      PROVE  FALSE
  <2>1. CASE AcquireLease(p)
    <3>1. req[p].pc = "lease" /\ req[p].rid \in Records /\ rec[req[p].rid] \in RecordRow
      BY <2>1 DEF AcquireLease, At, IInv, TypeOK, RequestInv, OnRecord
    <3>2. rec[req[p].rid].stage # "absent"
      BY <3>1 DEF IInv, RequestInv, OnRecord
    <3>3. Leasable(req[p].rid) => FirstStep(rec[req[p].rid].stage, rec[req[p].rid].cust)
                                    \in {"list", "mark", "detach", "cleanup", "auth", "finish"}
      BY <3>1, <3>2 DEF Leasable, FirstStep, RecordRow, StageNames
    <3> QED BY <1>1, <2>1, <3>3 DEF AcquireLease, Return, Idle, RequestState
  <2>2. CASE \/ ListSubscriptions(p) \/ Cancelled(p) \/ RelistVerdict(p) \/ MarkBillingTerminated(p)
             \/ DetachCustomer(p) \/ RemoveLocalAccount(p) \/ DeleteAuthUser(p) \/ MarkAuthDeleted(p)
             \/ Finish(p) \/ StageFails(p) \/ ReleaseLease(p) \/ Abandon(p)
    BY <1>1, <2>2 DEF ListSubscriptions, Cancelled, RelistVerdict, MarkBillingTerminated,
       DetachCustomer, RemoveLocalAccount, DeleteAuthUser, MarkAuthDeleted, Finish, StageFails,
       ReleaseLease, Abandon, Goto, Return, Idle, RequestState
  <2>3. ASSUME NEW s \in Subs, CancelOne(p, s) PROVE FALSE
    BY <1>1, <2>3 DEF CancelOne, At, RequestState
  <2> QED BY <1>3, <2>1, <2>2, <2>3 DEF Attempts
<1>4. ASSUME NEW c \in Sweepers, Sweeps(c)
      PROVE  FALSE
  BY <1>4 DEF Sweeps, SweepSelect, SweepLease, SweepErase, SweepComplete, SweepHolds, SweepRelease,
     SweepDies
<1>5. ASSUME NEW r \in Records, LeaseExpires(r)
      PROVE  FALSE
  BY <1>5 DEF LeaseExpires
<1>6. CASE Outside
  BY <1>6 DEF Outside, ClaimCustomer, CustomerGone, EntitlementWritten, StripeMove
<1>7. CASE UNCHANGED vars
  BY <1>7 DEF vars
<1> QED
  BY <1>2, <1>3, <1>4, <1>5, <1>6, <1>7 DEF Next

\* The first record is opened first, and for the first account.
LEMMA FirstOpened ==
    ASSUME IInv, FirstRecordInv, NEW p \in Requests, OpenDeletion(p),
           rec[1].stage = "absent"
    PROVE  rec'[1].stage = "requested" /\ rec'[1].acct = 1 /\ minted = 1
<1>1. 1 \in Records /\ \A r \in Records : rec[r].stage = "absent"
  BY FirstIsRecord DEF FirstRecordInv
<1>2. InFlight = {}
  BY <1>1 DEF InFlight, InFlightStages
<1>3. rec' = [rec EXCEPT ![1] = [stage |-> "requested", acct |-> req[p].acct,
                                 cust |-> req[p].cust, lease |-> FALSE]]
  <2>1. PICK r \in Records :
          /\ \A q \in Records : q < r => rec[q].stage # "absent"
          /\ rec' = [rec EXCEPT ![r] = [stage |-> "requested", acct |-> req[p].acct,
                                        cust |-> req[p].cust, lease |-> FALSE]]
    BY <1>2 DEF OpenDeletion
  <2>2. r = 1
    BY <1>1, <2>1, DeletionAssumption DEF Records
  <2> QED BY <2>1, <2>2
<1>4. req[p].acct # NoAccount /\ req[p].acct <= minted /\ req[p].acct \in AccountRef
  BY DEF OpenDeletion, At, FirstRecordInv, IInv, RequestInv, TypeOK, RequestState
<1>5. minted <= 1 /\ minted \in Nat
  BY DeletionAssumption DEF FirstRecordInv, IInv, TypeOK
<1>6. req[p].acct = 1 /\ minted = 1
  BY <1>4, <1>5, DeletionAssumption DEF AccountRef, AccountId, NoAccount
<1> QED
  BY <1>1, <1>3, <1>6 DEF IInv, TypeOK

LEMMA FirstRecordInit == Init => FirstRecordInv
BY FirstIsRecord DEF Init, FirstRecordInv, Absent, NoAccount, Idle, PastCleanup

\* Where the first record goes, by the actor that takes it there.
LEMMA FirstMoves ==
    ASSUME IInv, FirstRecordInv, [Next]_vars
    PROVE  \/ rec'[1].stage = rec[1].stage /\ rec'[1].acct = rec[1].acct
           \/ /\ rec[1].stage = "absent" /\ rec'[1].stage = "requested" /\ rec'[1].acct = 1
              /\ minted = 1 /\ UNCHANGED <<account, minted, authUser, erased>>
           \/ /\ LoudStep /\ rec'[1].stage # rec[1].stage /\ rec[1].stage # "absent"
              /\ rec'[1].stage # "absent" /\ rec[1].stage # "complete"
              /\ rec'[1].stage # "complete" => rec'[1].acct = rec[1].acct
<1>1. 1 \in Records /\ (QuietStep \/ LoudStep)
  BY FirstIsRecord, StepKinds
<1>2. CASE rec'[1].stage = rec[1].stage
  BY <1>1, <1>2, AcctMoves
<1>3. CASE rec'[1].stage # rec[1].stage /\ rec[1].stage = "absent"
  <2>1. PICK p \in Requests : OpenDeletion(p)
    BY <1>1, <1>3, StageMoves DEF QuietStep
  <2> QED BY <1>3, <2>1, FirstOpened DEF OpenDeletion
<1>4. CASE rec'[1].stage # rec[1].stage /\ rec[1].stage # "absent"
  <2>1. LoudStep
    BY <1>1, <1>4 DEF QuietStep
  <2>2. rec'[1].stage # "absent" /\ rec[1].stage # "complete"
    BY <1>1, <1>4, <2>1, StageMoves
  <2>3. rec'[1].stage # "complete" => rec'[1].acct = rec[1].acct
    BY <1>1, <1>4, AcctMoves
  <2> QED BY <1>4, <2>1, <2>2, <2>3
<1> QED
  BY <1>2, <1>3, <1>4

LEMMA FirstRecordStep == IInv /\ ErasureInv /\ FirstRecordInv /\ [Next]_vars => FirstRecordInv'
<1> SUFFICES ASSUME IInv, ErasureInv, FirstRecordInv, [Next]_vars
             PROVE  FirstRecordInv'
  OBVIOUS
<1> USE DEF NoAccount
<1>1. /\ 1 \in Records /\ (QuietStep \/ LoudStep) /\ erased \subseteq erased'
      /\ minted \in Nat /\ account \in Nat /\ account <= minted
  BY FirstIsRecord, StepKinds, SweepMoves, DeletionAssumption DEF IInv, TypeOK, AccountRef, AccountId
<1>2. IInv'
  BY StepInv
<1>3. /\ account' \in {account, 0} \/ (account' = minted + 1 /\ account = 0)
      /\ minted' \in {minted, minted + 1}
  BY AccountMoves
<1>4. ASSUME rec'[1].stage = "absent"
      PROVE  (\A r \in Records : rec'[r].stage = "absent") /\ minted' <= 1 /\ account' = minted'
  <2>1. rec[1].stage = "absent" /\ (\A r \in Records : rec[r].stage = "absent")
    BY <1>4, FirstMoves DEF FirstRecordInv
  <2>2. minted <= 1 /\ account = minted
    BY <2>1 DEF FirstRecordInv
  <2>3. \A p \in Requests : ~OpenDeletion(p)
    BY <1>4, <2>1, FirstOpened
  <2>4. \A r \in Records : rec'[r].stage = "absent"
    BY <1>1, <2>1, <2>3, StageMoves DEF QuietStep
  <2>5. \A p \in Requests : req[p].pc \notin OnRecord
    BY <2>1 DEF IInv, RequestInv
  <2>6. \A p \in Requests : ~RemoveLocalAccount(p)
    BY <2>5 DEF RemoveLocalAccount, At, OnRecord, AttemptSteps
  <2>7. minted' <= 1 /\ account' = minted'
    BY <1>1, <2>2, <2>6, AccountMoves
  <2> QED BY <2>4, <2>7
<1>5. ASSUME rec'[1].stage # "absent"
      PROVE  minted' # 0
  <2>1. minted # 0
    BY <1>5, FirstMoves DEF FirstRecordInv
  <2> QED BY <1>1, <1>3, <2>1
<1>6. ASSUME rec'[1].stage \notin {"absent", "complete"}
      PROVE  rec'[1].acct = 1
  BY <1>6, FirstMoves DEF FirstRecordInv
<1>7. ASSUME rec'[1].stage \in PastCleanup
      PROVE  account' # 1
  <2>1. CASE rec'[1].stage = "complete"
    <3>1. rec[1].stage \in PastCleanup
      BY <1>1, <2>1, StageMoves DEF QuietStep, PastCleanup
    <3>2. account # 1 /\ minted # 0
      BY <3>1 DEF FirstRecordInv, PastCleanup
    <3> QED BY <1>1, <1>3, <3>2
  <2>2. CASE rec'[1].stage # "complete"
    <3>1. rec'[1].acct = 1
      BY <1>6, <1>7, <2>2 DEF PastCleanup
    <3> QED BY <1>1, <1>2, <1>7, <3>1 DEF IInv, RecordInv
  <2> QED BY <2>1, <2>2
<1>8. ASSUME rec'[1].stage = "complete", ErasureRequired
      PROVE  1 \in erased'
  <2>1. CASE rec[1].stage = "complete"
    BY <1>1, <1>8, <2>1 DEF FirstRecordInv
  <2>2. CASE rec[1].stage # "complete"
    <3>1. rec[1].stage = "auth_deleted"
      BY <1>1, <1>8, <2>2, StageMoves DEF QuietStep
    <3>2. rec[1].acct \in erased /\ rec[1].acct = 1
      BY <1>1, <1>8, <3>1, CompletesErased DEF FirstRecordInv
    <3> QED BY <1>1, <3>2
  <2> QED BY <2>1, <2>2
<1>9. ASSUME NEW q \in Requests, req'[q].pc \in {"mapping", "open"}
      PROVE  req'[q].acct # 0
  BY <1>9, FoundAccount DEF FirstRecordInv
<1> QED
  BY <1>4, <1>5, <1>6, <1>7, <1>8, <1>9 DEF FirstRecordInv

LEMMA FirstRecordInvariance == Spec => [](IInv /\ ErasureInv /\ FirstRecordInv)
BY InitInv, StepInv, ErasureInit, ErasureStep, FirstRecordInit, FirstRecordStep, PTL DEF Spec

LEMMA WorkflowInit == Init => Workflow!Init
BY FirstIsRecord DEF Init, Absent, Workflow!Init

\* Of two records the first is complete unless it is the one in flight.
LEMMA OthersAfterFirst ==
    ASSUME IInv, FirstRecordInv, NEW r \in Records, r # 1, rec[r].stage \in InFlightStages
    PROVE  rec[1].stage = "complete"
<1>1. 1 \in Records /\ rec[1].stage \in StageNames
  BY FirstIsRecord DEF IInv, TypeOK, RecordRow
<1>2. rec[1].stage \notin InFlightStages
  BY <1>1 DEF IInv, OneInFlight, InFlight
<1>3. rec[1].stage # "absent"
  BY DEF FirstRecordInv, InFlightStages
<1> QED
  BY <1>1, <1>2, <1>3 DEF StageNames, InFlightStages

\* The first account is gone in the abstract sense exactly when it is, and goes
\* only with the removal of the first record.
LEMMA FirstAccountGoes ==
    ASSUME IInv, ErasureInv, FirstRecordInv, [Next]_vars
    PROVE  \/ (minted' = 0 \/ account' = 1) = (minted = 0 \/ account = 1)
           \/ \E p \in Requests : RemoveLocalAccount(p) /\ req[p].rid = 1
                                  /\ rec[1].stage = "billing_terminated"
<1> USE DEF NoAccount
<1>1. minted \in Nat /\ account \in Nat /\ account <= minted
  BY DeletionAssumption DEF IInv, TypeOK, AccountRef, AccountId
<1>2. CASE UNCHANGED <<account, minted>>
  BY <1>2
<1>3. CASE account = NoAccount /\ minted' = minted + 1 /\ account' = minted + 1
  BY <1>1, <1>3
<1>4. CASE /\ account' = NoAccount /\ minted' = minted
           /\ \E p \in Requests : RemoveLocalAccount(p) /\ req[p].acct = account
  <2>1. PICK p \in Requests : RemoveLocalAccount(p) /\ req[p].acct = account
    BY <1>4
  <2>2. CASE account # 1
    BY <1>1, <1>4, <2>2
  <2>3. CASE account = 1
    <3>1. PICK r \in Records : r = req[p].rid
      BY <2>1 DEF IInv, RequestInv, RemoveLocalAccount, At, OnRecord, AttemptSteps
    <3>2. rec[r].stage = "billing_terminated"
      BY <2>1, <2>3, <3>1 DEF IInv, RequestInv, RemoveLocalAccount, At, AttemptSteps, PastRequested,
         PastCleanup
    <3>3. r = 1
      BY <2>3, <3>2, OthersAfterFirst DEF FirstRecordInv, PastCleanup, InFlightStages
    <3> QED BY <2>1, <3>1, <3>2, <3>3
  <2> QED BY <2>2, <2>3
<1> QED
  BY <1>2, <1>3, <1>4, AccountMoves

\* The sign-in goes under the first record, unless it is gone already.
LEMMA SignInGoes ==
    ASSUME IInv, FirstRecordInv, [Next]_vars, authUser' # authUser
    PROVE  /\ \E p \in Requests : DeleteAuthUser(p)
           /\ rec[1].stage = "local_cleanup_complete" /\ authUser /\ ~authUser'
<1>1. PICK p \in Requests : DeleteAuthUser(p)
  BY StepKinds DEF QuietStep, LoudStep, CompletionStep, OpenDeletion,
     MarkBillingTerminated, RemoveLocalAccount, MarkAuthDeleted
<1>2. authUser /\ ~authUser'
  BY <1>1 DEF IInv, TypeOK, DeleteAuthUser
<1>3. PICK r \in Records : r = req[p].rid
  BY <1>1 DEF IInv, RequestInv, DeleteAuthUser, At, OnRecord, AttemptSteps
<1>4. rec[r].stage = "local_cleanup_complete"
  BY <1>1, <1>2, <1>3 DEF IInv, RequestInv, RecordInv, DeleteAuthUser, At, PastCleanup, PastAuth
<1>5. 1 \in Records /\ rec[1].stage # "complete"
  BY <1>2, FirstIsRecord DEF IInv, RecordInv, PastAuth
<1> QED
  BY <1>1, <1>2, <1>4, <1>5, OthersAfterFirst DEF InFlightStages

\* The first account is erased under the first record, unless it is erased already.
LEMMA FirstErased ==
    ASSUME IInv, ErasureInv, FirstRecordInv, [Next]_vars, (1 \in erased') # (1 \in erased)
    PROVE  /\ UNCHANGED store
           /\ rec[1].stage = "auth_deleted" /\ ErasureRequired
           /\ 1 \notin erased /\ 1 \in erased'
<1>1. PICK c \in Sweepers : SweepErase(c)
  BY SweepMoves
<1>2. UNCHANGED store /\ erased' = erased \cup {swp[c].acct} /\ SweepCopyInv(c)
  BY <1>1 DEF SweepErase, ErasureInv
<1>3. swp[c].acct = 1 /\ 1 \notin erased /\ 1 \in erased'
  BY <1>2
<1>4. PICK r \in Records : r = swp[c].rid
  BY <1>1, SweepFacts DEF SweepErase
<1>5. ErasureRequired /\ rec[r].stage = "auth_deleted"
  BY <1>1, <1>2, <1>3, <1>4 DEF SweepCopyInv, SweepErase
<1>6. rec[1].stage # "complete"
  BY <1>3, <1>5 DEF FirstRecordInv
<1> QED
  BY <1>2, <1>3, <1>5, <1>6, OthersAfterFirst DEF InFlightStages

LEMMA LoudKeepsErased == ASSUME LoudStep PROVE erased' = erased
BY DEF LoudStep, CompletionStep, OpenDeletion, MarkBillingTerminated, RemoveLocalAccount,
   DeleteAuthUser, MarkAuthDeleted

\* A step that leaves the first record's stage: stutters, or loses the sign-in or
\* the analytics data.
LEMMA WorkflowStays ==
    ASSUME IInv, ErasureInv, FirstRecordInv, [Next]_vars, rec'[1].stage = rec[1].stage
    PROVE  [Workflow!Next]_(Workflow!workflow)
<1>1. (minted' = 0 \/ account' = 1) = (minted = 0 \/ account = 1)
  <2>1. ASSUME NEW p \in Requests, RemoveLocalAccount(p), req[p].rid = 1,
               rec[1].stage = "billing_terminated"
        PROVE  FALSE
    BY <2>1, FirstIsRecord, AdvancedEffect DEF RemoveLocalAccount, IInv, StageNames
  <2> QED BY <2>1, FirstAccountGoes
<1>2. CASE authUser' # authUser
  <2>1. erased' = erased
    BY <1>2, SignInGoes DEF DeleteAuthUser
  <2> QED BY <1>1, <1>2, <2>1, SignInGoes DEF Workflow!Next, Workflow!DeleteSignIn
<1>3. CASE authUser' = authUser /\ (1 \in erased') # (1 \in erased)
  BY <1>1, <1>3, FirstErased DEF Workflow!Next, Workflow!Erase
<1>4. CASE authUser' = authUser /\ (1 \in erased') = (1 \in erased)
  BY <1>1, <1>4 DEF Workflow!workflow
<1> QED
  BY <1>2, <1>3, <1>4

\* A step that moves the first record's stage is that stage's step of the workflow.
LEMMA WorkflowAdvances ==
    ASSUME IInv, ErasureInv, FirstRecordInv, [Next]_vars, rec'[1].stage # rec[1].stage
    PROVE  Workflow!Next
<1>1. 1 \in Records /\ LoudStep
  BY FirstIsRecord, StepKinds DEF QuietStep
<1>2. erased' = erased
  BY <1>1, LoudKeepsErased
<1>3. CASE /\ <<rec[1].stage, rec'[1].stage>> = <<"absent", "requested">>
           /\ \E p \in Requests : OpenDeletion(p)
  BY <1>2, <1>3 DEF OpenDeletion, Workflow!Next, Workflow!Open, Workflow!Advance
<1>4. CASE /\ <<rec[1].stage, rec'[1].stage>> = <<"requested", "billing_terminated">>
           /\ \E p \in Requests : MarkBillingTerminated(p) /\ req[p].rid = 1
  BY <1>2, <1>4 DEF MarkBillingTerminated, Workflow!Next, Workflow!TerminateBilling, Workflow!Advance
<1>5. CASE /\ <<rec[1].stage, rec'[1].stage>> = <<"billing_terminated", "local_cleanup_complete">>
           /\ \E p \in Requests : RemoveLocalAccount(p) /\ req[p].rid = 1
  <2>1. minted' = minted /\ authUser' = authUser
    BY <1>5 DEF RemoveLocalAccount
  <2>2. FirstRecordInv'
    BY FirstRecordStep
  <2>3. minted # 0 /\ account' # 1
    BY <1>5, <2>2 DEF FirstRecordInv, PastCleanup
  <2> QED BY <1>2, <1>5, <2>1, <2>3 DEF Workflow!Next, Workflow!RemoveAccount, Workflow!Advance
<1>6. CASE /\ <<rec[1].stage, rec'[1].stage>> = <<"local_cleanup_complete", "auth_deleted">>
           /\ \E p \in Requests : MarkAuthDeleted(p)
  <2>1. UNCHANGED <<account, minted, authUser>> /\ ~authUser
    BY <1>6 DEF MarkAuthDeleted, IInv, RequestInv, At
  <2> QED BY <1>2, <1>6, <2>1 DEF Workflow!Next, Workflow!RecordSignInGone, Workflow!Advance
<1>7. CASE <<rec[1].stage, rec'[1].stage>> = <<"auth_deleted", "complete">> /\ CompletionStep
  <2>1. ErasureRequired => 1 \in erased
    BY <1>1, <1>7, CompletesErased DEF FirstRecordInv, NoAccount
  <2> QED BY <1>2, <1>7, <2>1 DEF CompletionStep, Workflow!Next, Workflow!Finish, Workflow!Advance
<1> QED
  BY <1>1, <1>3, <1>4, <1>5, <1>6, <1>7, StageMoves

\* Through crashes, stale attempts and concurrent sweeps, the first record of the identity
\* goes through the stages of the workflow, each with the effect it records.
THEOREM FollowsWorkflow == Spec => ImplementsWorkflow
<1>1. IInv /\ ErasureInv /\ FirstRecordInv /\ [Next]_vars => [Workflow!Next]_(Workflow!workflow)
  BY WorkflowStays, WorkflowAdvances
<1> QED
  BY <1>1, WorkflowInit, FirstRecordInvariance, PTL DEF Spec, ImplementsWorkflow, Workflow!Spec

=============================================================================
