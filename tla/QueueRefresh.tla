---------------------------- MODULE QueueRefresh ----------------------------
(***************************************************************************)
(* The interconnection queues: each source's newest artifacts are read,    *)
(* the earliest report period first, each in one transaction that files    *)
(* the artifact as a snapshot and gives the request it lists a new         *)
(* observation if what it says of it has changed.  After the sources the   *)
(* metrics are calculated, unless a published market is not current.       *)
(*                                                                         *)
(* A market is current while something is no older than its limit: the     *)
(* last contact with a publisher that regenerates its queue continuously,  *)
(* the date of the latest snapshot of any other.  Time passes only in that *)
(* something grows old.                                                    *)
(*                                                                         *)
(* One request per source is followed; an artifact is the period it is     *)
(* about and what it says of the request.                                  *)
(***************************************************************************)
EXTENDS Naturals, Sequences, FiniteSets

CONSTANTS
    QueueRuns, NoQueueRun,
    Sources,         \* QUEUE_SOURCE_KEYS, a sequence: the order they are read in
    Publishable,     \* the sources whose markets are published; all are calculated over
    Continuous,      \* the sources whose expected_cadence is 'continuous'
    Archives,        \* the sources that keep an archive, of artifacts with a key of their own
    Limit,           \* how many of its newest artifacts a run reads, by source
    Statements,      \* what an artifact may say of the request
    MaxArtifacts,    \* bound: artifacts per source
    MaxDeferrals     \* bound: artifacts that could not be read, and runs that died

Source == DOMAIN Sources

ASSUME QueueAssumption ==
    /\ NoQueueRun \notin QueueRuns
    /\ Sources \in Seq({Sources[k] : k \in DOMAIN Sources}) /\ Sources # <<>>
    /\ Archives \subseteq Source /\ Publishable \subseteq Source /\ Continuous \subseteq Source
    /\ Limit \in [Source -> Nat \ {0}]
    /\ MaxArtifacts \in Nat /\ MaxDeferrals \in Nat

VARIABLES
    archive,       \* the artifacts each source has published, in that order
    filed,         \* pipeline.interconnection_queue_snapshots, as artifact numbers, in the order written
    observations,  \* the request's interconnection_request_observations, the last is_latest
    checks,        \* interconnection_source_checks, the last: was the source reached
    recent,        \* is what the source's stale_after_hours is about no older than that
    metrics,       \* the snapshots of each source the metrics were last calculated over
    queueLock,     \* the session's advisory lock
    queueRun,      \* the runs in progress
    deferrals

queueVars == <<archive, filed, observations, checks, recent, metrics, queueLock, queueRun, deferrals>>

Numbers == 1..MaxArtifacts
Artifact == [period : Numbers, says : Statements]
\* An observation and the snapshots it was first and last seen in.
Observation == [says : Statements, first : Numbers, last : Numbers]
\* Of a source in a run: nothing came back, something did, or a snapshot was stored or matched.
Contact == {"none", "answered", "matched"}
QueueIdle == [pc |-> "idle", source |-> 1, todo |-> {}, reached |-> "none"]

QueueTypeOK ==
    /\ archive \in [Source -> Seq(Artifact)]
    /\ filed \in [Source -> Seq(Numbers)]
    /\ \A s \in Source : \A k \in DOMAIN filed[s] : filed[s][k] \in DOMAIN archive[s]
    /\ observations \in [Source -> Seq(Observation)]
    /\ checks \in [Source -> BOOLEAN] /\ recent \in [Source -> BOOLEAN]
    /\ metrics \in [Source -> Nat]
    /\ queueLock \in QueueRuns \cup {NoQueueRun}
    /\ queueRun \in [QueueRuns -> [pc : {"idle", "discover", "walk", "gate"}, source : Source,
                                    todo : SUBSET Numbers, reached : Contact]]
    /\ deferrals \in 0..MaxDeferrals

QueueInit ==
    /\ archive = [s \in Source |-> <<>>]
    /\ filed = [s \in Source |-> <<>>]
    /\ observations = [s \in Source |-> <<>>]
    /\ checks = [s \in Source |-> FALSE] /\ recent = [s \in Source |-> FALSE]
    /\ metrics = [s \in Source |-> 0]
    /\ queueLock = NoQueueRun
    /\ queueRun = [r \in QueueRuns |-> QueueIdle]
    /\ deferrals = 0

-----------------------------------------------------------------------------
(* The publishers. *)

NewestPeriod(s) == IF archive[s] = <<>> THEN 0
                   ELSE CHOOSE m \in Numbers : /\ \E a \in DOMAIN archive[s] : archive[s][a].period = m
                                               /\ \A a \in DOMAIN archive[s] : archive[s][a].period <= m

\* The next period's artifact, or in an archive a correction of a period.
ArtifactAppears(s) ==
    /\ Len(archive[s]) < MaxArtifacts
    /\ \E m \in Numbers, c \in Statements :
         /\ m = NewestPeriod(s) + 1 \/ (s \in Archives /\ m <= NewestPeriod(s))
         /\ archive' = [archive EXCEPT ![s] = Append(@, [period |-> m, says |-> c])]
    /\ UNCHANGED <<filed, observations, checks, recent, metrics, queueLock, queueRun, deferrals>>

\* The limit passes: of the last contact, or of the latest snapshot's date.  It is read only
\* at the gate, and is far longer than a run: growing old before a run is growing old in it.
GrowsOld(s) ==
    /\ queueLock = NoQueueRun
    /\ recent[s] /\ recent' = [recent EXCEPT ![s] = FALSE]
    /\ UNCHANGED <<archive, filed, observations, checks, metrics, queueLock, queueRun, deferrals>>

-----------------------------------------------------------------------------
(* One run. *)

\* The identity of a snapshot is the artifact's content, and the key it bears if any.
SameSnapshot(s, a, b) ==
    a = b \/ (s \notin Archives /\ archive[s][a].says = archive[s][b].says)

Filed(s, a) == \E k \in DOMAIN filed[s] : SameSnapshot(s, filed[s][k], a)

\* The order artifacts are read in: by period, a correction after what it corrects.
Before(s, a, b) == \/ archive[s][a].period < archive[s][b].period
                   \/ archive[s][a].period = archive[s][b].period /\ a < b

\* The newest artifacts in that order, as many as a run reads.
Selected(s) == {a \in DOMAIN archive[s] :
                  Cardinality({b \in DOMAIN archive[s] : Before(s, a, b)}) < Limit[s]}

At(r) == queueRun[r].source
Earliest(r) == CHOOSE a \in queueRun[r].todo : \A b \in queueRun[r].todo : a = b \/ Before(At(r), a, b)

\* pg_try_advisory_lock; without it the run is skipped.
QueueTakesLock(r) ==
    /\ queueRun[r].pc = "idle"
    /\ queueLock = NoQueueRun
    /\ queueLock' = r
    /\ queueRun' = [queueRun EXCEPT ![r].pc = "discover"]
    /\ UNCHANGED <<archive, filed, observations, checks, recent, metrics, deferrals>>

Discover(r) ==
    /\ queueRun[r].pc = "discover"
    /\ queueRun' = [queueRun EXCEPT ![r].pc = "walk", ![r].todo = Selected(At(r)),
                                    ![r].reached = IF Selected(At(r)) = {} THEN "answered" ELSE "none"]
    /\ UNCHANGED <<archive, filed, observations, checks, recent, metrics, queueLock, deferrals>>

LatestObservation(s) == observations[s][Len(observations[s])]

\* The request is seen again as it was, or has changed.
Observe(s, a) ==
    observations' = [observations EXCEPT ![s] =
        IF @ # <<>> /\ LatestObservation(s).says = archive[s][a].says
        THEN [@ EXCEPT ![Len(@)].last = a]
        ELSE Append(@, [says |-> archive[s][a].says, first |-> a, last |-> a])]

Took(r) == queueRun' = [queueRun EXCEPT ![r].todo = @ \ {Earliest(r)}, ![r].reached = "matched"]

\* A snapshot becomes the latest by its publisher's date, or by the time it was observed at if
\* the publisher gives none: it may be old already, and never makes the latest older.
DatedOf(s) == \/ s \in Continuous /\ recent' = [recent EXCEPT ![s] = TRUE]
              \/ s \notin Continuous /\ \E fresh \in BOOLEAN : recent' = [recent EXCEPT ![s] = @ \/ fresh]

\* MUTANT of Persist: an artifact seen before is gone through again.
PersistReplaying(r) ==
    LET s == At(r)  a == Earliest(r)
    IN /\ queueRun[r].pc = "walk" /\ queueRun[r].todo # {}
       /\ IF Filed(s, a) THEN UNCHANGED <<filed, recent>>
          ELSE filed' = [filed EXCEPT ![s] = Append(@, a)] /\ DatedOf(s)
       /\ Observe(s, a)
       /\ Took(r)
       /\ UNCHANGED <<archive, checks, metrics, queueLock, deferrals>>

\* persistQueueExtraction: at an artifact seen before, "an exact rerun stops".
Persist(r) ==
    LET s == At(r)  a == Earliest(r)
    IN /\ queueRun[r].pc = "walk" /\ queueRun[r].todo # {}
       /\ IF Filed(s, a) THEN UNCHANGED <<filed, observations, recent>>
          ELSE filed' = [filed EXCEPT ![s] = Append(@, a)] /\ Observe(s, a) /\ DatedOf(s)
       /\ Took(r)
       /\ UNCHANGED <<archive, checks, metrics, queueLock, deferrals>>

\* An artifact that is unavailable or does not parse is passed over; a write that fails
\* ends the source's walk, and so does an index or a sole document that cannot be had.
Defer(r) ==
    /\ deferrals < MaxDeferrals
    /\ deferrals' = deferrals + 1
    /\ \/ /\ queueRun[r].pc = "walk" /\ queueRun[r].todo # {}
          /\ \E back \in BOOLEAN :
               queueRun' = [queueRun EXCEPT ![r].todo = @ \ {Earliest(r)},
                                            ![r].reached = IF @ = "none" /\ back THEN "answered" ELSE @]
       \/ /\ queueRun[r].pc = "walk" /\ queueRun[r].todo # {}
          /\ queueRun' = [queueRun EXCEPT ![r].todo = {}, ![r].reached = "answered"]
       \/ /\ queueRun[r].pc = "discover"
          /\ queueRun' = [queueRun EXCEPT ![r].pc = "walk", ![r].reached = "none"]
    /\ UNCHANGED <<archive, filed, observations, checks, recent, metrics, queueLock>>

ToNext(r) == queueRun' = [queueRun EXCEPT ![r] =
    IF At(r) < Len(Sources) THEN [QueueIdle EXCEPT !.pc = "discover", !.source = At(r) + 1]
    ELSE [QueueIdle EXCEPT !.pc = "gate", !.source = At(r)]]

\* MUTANT of RecordSourceCheck: content that has not changed is taken for a source that has
\* gone quiet.
RecordSourceCheckByContent(r) ==
    /\ queueRun[r].pc = "walk" /\ queueRun[r].todo = {}
    /\ checks' = [checks EXCEPT ![At(r)] = queueRun[r].reached # "none"]
    /\ ToNext(r)
    /\ UNCHANGED <<archive, filed, observations, recent, metrics, queueLock, deferrals>>

\* recordSourceCheck, after each source whatever became of it.  A check that stored or matched
\* a snapshot is a contact.
RecordSourceCheck(r) ==
    /\ queueRun[r].pc = "walk" /\ queueRun[r].todo = {}
    /\ checks' = [checks EXCEPT ![At(r)] = queueRun[r].reached # "none"]
    /\ recent' = [recent EXCEPT ![At(r)] = @ \/ (At(r) \in Continuous /\ queueRun[r].reached = "matched")]
    /\ ToNext(r)
    /\ UNCHANGED <<archive, filed, observations, metrics, queueLock, deferrals>>

\* assessFreshness: there is a snapshot, the last check reached the source, and neither the
\* contact nor the data is past the limit.  The date of a snapshot is never later than the
\* contact that stored it, so that the data's age is the greater where it counts.
IsCurrent(s) == filed[s] # <<>> /\ checks[s] /\ recent[s]

\* Fail closed: "recalculating over stale inputs would stamp old snapshots with a new
\* date".  Then the lock is released.
Calculate(r) ==
    /\ queueRun[r].pc = "gate"
    /\ metrics' = IF \A s \in Publishable : IsCurrent(s)
                  THEN [s \in Source |-> Len(filed[s])] ELSE metrics
    /\ queueRun' = [queueRun EXCEPT ![r] = QueueIdle]
    /\ queueLock' = NoQueueRun
    /\ UNCHANGED <<archive, filed, observations, checks, recent, deferrals>>

\* The process dies, and its session's lock with it; a transaction open is undone.
QueueRunDies(r) ==
    /\ queueRun[r].pc # "idle"
    /\ deferrals < MaxDeferrals
    /\ deferrals' = deferrals + 1
    /\ queueRun' = [queueRun EXCEPT ![r] = QueueIdle]
    /\ queueLock' = NoQueueRun
    /\ UNCHANGED <<archive, filed, observations, checks, recent, metrics>>

QueueStep(r) == \/ QueueTakesLock(r) \/ Discover(r) \/ Persist(r) \/ Defer(r)
                \/ RecordSourceCheck(r) \/ Calculate(r)

QueueNext == \/ \E s \in Source : ArtifactAppears(s) \/ GrowsOld(s)
             \/ \E r \in QueueRuns : QueueStep(r) \/ QueueRunDies(r)

QueueSpec == QueueInit /\ [][QueueNext]_queueVars

-----------------------------------------------------------------------------
(* What the refresh promises. *)

\* The history of a request follows the periods it was reported for.
FollowsPeriods(s) ==
    \A j, k \in DOMAIN observations[s] :
        j < k => archive[s][observations[s][j].last].period <= archive[s][observations[s][k].first].period

\* No period earlier than the newest is corrected.
NoLateCorrection(s) ==
    \A a, b \in DOMAIN archive[s] : a < b => archive[s][a].period <= archive[s][b].period

\* Runs that read every artifact at their first try, in whatever batches they come,
\* keep the history in the order of its periods and end on the newest artifact filed:
\* a walk over artifacts seen before does not disturb it.  A late correction of an
\* earlier period does: it is newly filed after the period that followed it, so "a
\* request's current state" is compared with it, and what it says becomes the latest.
ReadInOrderStaysInOrder ==
    deferrals = 0 =>
        \A s \in Source : NoLateCorrection(s) =>
            /\ FollowsPeriods(s)
            /\ filed[s] # <<>> => LatestObservation(s).last = filed[s][Len(filed[s])]

\* A run in progress makes progress, and the schedule starts another.
QueueFairness == \A r \in QueueRuns : WF_queueVars(QueueStep(r))
QueueFairSpec == QueueSpec /\ QueueFairness

Covered(s, a) == \E k \in 1..metrics[s] : SameSnapshot(s, filed[s][k], a)

\* A dated source whose latest snapshot is past its limit and whose publisher has put out
\* nothing since: "recalculating over stale inputs would stamp old snapshots with a new date".
Lapsed(s) == s \notin Continuous /\ ~recent[s] /\ \A a \in Selected(s) : Filed(s, a)

\* "One publisher failing leaves every other source to run": what a source has in reach
\* of a run gets into the metrics, put off by deferrals and deaths but not for ever, unless
\* a published market's source has lapsed.  A source that only answers with what it said
\* before does not hold them back if it is continuous, and one that is not published does
\* not in any state.  Artifacts being bounded, all of it gets there once there is none still
\* to come.
SelectedIsCovered ==
    []<>((\A t \in Publishable : archive[t] # <<>> /\ ~Lapsed(t)) =>
            \A s \in Source : \A a \in Selected(s) : Covered(s, a))
=============================================================================
