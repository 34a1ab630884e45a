-------------------------- MODULE UmpiOperations --------------------------
(***************************************************************************)
(* The scheduled check of the memory price series: once a day, under an    *)
(* advisory lock, each series' recent months are read from its agency; a   *)
(* figure not seen before becomes the next vintage of its month, and only  *)
(* if one did are the public points derived again.  The check then records *)
(* how current the series is, by comparing months.                         *)
(*                                                                         *)
(* A month's vintages and its publications are append-only, the last of    *)
(* each being the current one.  A run may die between any two statements;  *)
(* its session ends with it, and the lock goes with the session.           *)
(***************************************************************************)
EXTENDS Naturals, Sequences, FiniteSets

CONSTANTS
    UmpiRuns, NoRun,     \* processes that may run the check; none of them
    UmpiSeries,          \* the published series
    Figures, NoFigure,   \* what an agency may state for a month; nothing stated
    Levelless,           \* figures admitted as evidence that give no level to publish
    MaxMonth,            \* bound: months followed
    Lookback,            \* how many months a check reads
    MaxRevisions,        \* bound: revisions by the agencies
    MaxMishaps           \* bound: runs that die and derivations that fail

ASSUME UmpiAssumption ==
    /\ NoRun \notin UmpiRuns /\ UmpiSeries # {}
    /\ NoFigure \notin Figures /\ Levelless \subseteq Figures
    /\ MaxMonth \in Nat \ {0} /\ Lookback \in Nat \ {0}
    /\ MaxRevisions \in Nat /\ MaxMishaps \in Nat

Months == 1..MaxMonth

VARIABLES
    based,       \* whether a series has what its levels are measured against
    agency,      \* the agencies' own tables
    revisions,   \* how many figures they have revised
    due,         \* the newest month that should be out by now
    overdue,     \* and its grace has passed
    observed,    \* pipeline.umpi_observations: the vintages of each month
    published,   \* pipeline.umpi_publications: what each point of a month rests on
    opsLock,     \* the advisory lock
    check,       \* pipeline.umpi_source_checks: the last state recorded
    umpiRun,     \* the runs in progress
    mishaps      \* how many died or failed to derive

umpiVars == <<based, agency, revisions, due, overdue, observed, published, opsLock, check, umpiRun, mishaps>>
world == <<based, agency, revisions, due, overdue>>

FreshnessState == {"fresh", "awaiting_release", "stale", "source_unavailable", "derivation_failed"}
Healthy == {"fresh", "awaiting_release"}

\* A point rests on a vintage of its month and, for the change, of the month before.
Basis == [vintage : Nat \ {0}, prior : Nat]
Waiting == [pc |-> "idle", todo |-> {}, due |-> 1, overdue |-> FALSE, reachable |-> TRUE, moved |-> FALSE]

UmpiTypeOK ==
    /\ based \in [UmpiSeries -> BOOLEAN]
    /\ agency \in [UmpiSeries -> [Months -> Figures \cup {NoFigure}]]
    /\ revisions \in 0..MaxRevisions
    /\ due \in Months
    /\ overdue \in BOOLEAN
    /\ observed \in [UmpiSeries -> [Months -> Seq(Figures)]]
    /\ published \in [UmpiSeries -> [Months -> Seq(Basis)]]
    /\ opsLock \in UmpiRuns \cup {NoRun}
    /\ check \in [UmpiSeries -> FreshnessState \cup {"none"}]
    /\ umpiRun \in [UmpiRuns -> [pc : {"idle", "source", "derive", "record"}, todo : SUBSET UmpiSeries,
                                 due : Months, overdue : BOOLEAN, reachable : BOOLEAN, moved : BOOLEAN]]
    /\ mishaps \in 0..MaxMishaps

\* The months of the base year lie before those followed, and no check reads them again:
\* whether they are complete does not change.
UmpiInit ==
    /\ based \in [UmpiSeries -> BOOLEAN]
    /\ agency = [s \in UmpiSeries |-> [m \in Months |-> NoFigure]]
    /\ revisions = 0
    /\ due = 1
    /\ overdue = FALSE
    /\ observed = [s \in UmpiSeries |-> [m \in Months |-> <<>>]]
    /\ published = [s \in UmpiSeries |-> [m \in Months |-> <<>>]]
    /\ opsLock = NoRun
    /\ check = [s \in UmpiSeries |-> "none"]
    /\ umpiRun = [r \in UmpiRuns |-> Waiting]
    /\ mishaps = 0

-----------------------------------------------------------------------------
(* The agencies and the calendar. *)

AgencyPublishes(s, m) ==
    /\ agency[s][m] = NoFigure
    /\ \A k \in 1..(m - 1) : agency[s][k] # NoFigure
    /\ \E f \in Figures : agency' = [agency EXCEPT ![s][m] = f]
    /\ UNCHANGED <<based, revisions, due, overdue, observed, published, opsLock, check, umpiRun, mishaps>>

AgencyRevises(s, m) ==
    /\ revisions < MaxRevisions
    /\ agency[s][m] # NoFigure
    /\ \E f \in Figures \ {agency[s][m]} : agency' = [agency EXCEPT ![s][m] = f]
    /\ revisions' = revisions + 1
    /\ UNCHANGED <<based, due, overdue, observed, published, opsLock, check, umpiRun, mishaps>>

\* expectedReferenceMonth and overdueAt: the release day of the next month, and the
\* end of the grace of the newest.
CalendarMoves ==
    /\ \/ overdue' = TRUE /\ ~overdue /\ UNCHANGED due
       \/ due < MaxMonth /\ due' = due + 1 /\ overdue' = FALSE
    /\ UNCHANGED <<based, agency, revisions, observed, published, opsLock, check, umpiRun, mishaps>>

-----------------------------------------------------------------------------
(* One run. *)

\* pg_try_advisory_lock.  A run that does not get it records that it was skipped, and
\* does nothing else.
TakeLock(r) ==
    /\ umpiRun[r].pc = "idle"
    /\ opsLock = NoRun
    /\ opsLock' = r
    /\ umpiRun' = [umpiRun EXCEPT ![r] = [Waiting EXCEPT !.pc = "source", !.todo = UmpiSeries,
                                                         !.due = due, !.overdue = overdue]]
    /\ UNCHANGED <<world, observed, published, check, mishaps>>

\* checkWindow: the months a check reads, as of its start.
CheckWindow(r) == {m \in Months : m <= umpiRun[r].due /\ m + Lookback > umpiRun[r].due}

\* The series a run is at.
SeriesAt(r) == CHOOSE s \in umpiRun[r].todo : TRUE

Vintages(seq) == {seq[k] : k \in DOMAIN seq}

\* writeObservation: evidence already stored, as any vintage, is not written again.
IsNew(s, m) == agency[s][m] # NoFigure /\ agency[s][m] \notin Vintages(observed[s][m])

\* MUTANT of RunSource: only a month's first figure counts as a change.
RunSourceCountingInserts(r) ==
    /\ umpiRun[r].pc = "source"
    /\ LET s == SeriesAt(r)
           new == {m \in CheckWindow(r) : IsNew(s, m)}
       IN /\ observed' = [observed EXCEPT ![s] =
               [m \in Months |-> IF m \in new THEN Append(@[m], agency[s][m]) ELSE @[m]]]
          /\ umpiRun' = [umpiRun EXCEPT ![r].pc = "derive", ![r].reachable = TRUE,
                                        ![r].moved = \E m \in new : observed[s][m] = <<>>]
    /\ UNCHANGED <<world, published, opsLock, check, mishaps>>

\* MUTANT of RunSource: a month of which the agency states nothing is stored as a row.
RunSourceWithGaps(r) ==
    /\ umpiRun[r].pc = "source"
    /\ LET s == SeriesAt(r)
           new == {m \in CheckWindow(r) : agency[s][m] \notin Vintages(observed[s][m])}
       IN /\ observed' = [observed EXCEPT ![s] =
               [m \in Months |-> IF m \in new THEN Append(@[m], agency[s][m]) ELSE @[m]]]
          /\ umpiRun' = [umpiRun EXCEPT ![r].pc = "derive", ![r].reachable = TRUE,
                                        ![r].moved = new # {}]
    /\ UNCHANGED <<world, published, opsLock, check, mishaps>>

\* runUmpiSource: one transaction for all the rows of the reply.  INFO-200, nothing out
\* yet, is a reply without rows.
RunSource(r) ==
    /\ umpiRun[r].pc = "source"
    /\ LET s == SeriesAt(r)
           new == {m \in CheckWindow(r) : IsNew(s, m)}
       IN /\ observed' = [observed EXCEPT ![s] =
               [m \in Months |-> IF m \in new THEN Append(@[m], agency[s][m]) ELSE @[m]]]
          /\ umpiRun' = [umpiRun EXCEPT ![r].pc = "derive", ![r].reachable = TRUE,
                                        ![r].moved = new # {}]
    /\ UNCHANGED <<world, published, opsLock, check, mishaps>>

\* No answer, a reply that does not parse, or a transaction rolled back.
SourceFails(r) ==
    /\ umpiRun[r].pc = "source"
    /\ umpiRun' = [umpiRun EXCEPT ![r].pc = "record", ![r].reachable = FALSE, ![r].moved = FALSE]
    /\ UNCHANGED <<world, observed, published, opsLock, check, mishaps>>

\* A month has a level if its newest vintage gives one: an export value of zero is stored
\* as evidence, and nothing is measured by it.
HasLevel(s, m) == observed[s][m] # <<>> /\ observed[s][m][Len(observed[s][m])] \notin Levelless

\* A month before that has no level is no month to measure a change against.
NewestVintage(s, m) == IF m \in Months /\ HasLevel(s, m) THEN Len(observed[s][m]) ELSE 0
BasisNow(s, m) == [vintage |-> NewestVintage(s, m), prior |-> NewestVintage(s, m - 1)]

RestsOn(s, m, basis) ==
    published[s][m] # <<>> /\ published[s][m][Len(published[s][m])] = basis

\* derivePoints and publishPoints, in one transaction: every month with a level whose
\* inputs are not those of its live point gets a new one.  A month that has none is passed
\* over, whatever point it has.
Publishes(s) ==
    published' = [published EXCEPT ![s] =
        [m \in Months |-> IF ~HasLevel(s, m) \/ RestsOn(s, m, BasisNow(s, m)) THEN @[m]
                          ELSE Append(@[m], BasisNow(s, m))]]

\* deriveSeries, only when the observations moved.  Without a base it is blocked: it
\* writes nothing, and the check goes on as if it had.
Derive(r) ==
    /\ umpiRun[r].pc = "derive"
    /\ IF umpiRun[r].moved /\ based[SeriesAt(r)] THEN Publishes(SeriesAt(r)) ELSE UNCHANGED published
    /\ umpiRun' = [umpiRun EXCEPT ![r].pc = "record"]
    /\ UNCHANGED <<world, observed, opsLock, check, mishaps>>

\* The transaction is rolled back, or a statement before it fails: the check reports
\* the failure, and the observations stay.
DeriveFails(r) ==
    /\ umpiRun[r].pc = "derive"
    /\ umpiRun[r].moved
    /\ mishaps < MaxMishaps
    /\ mishaps' = mishaps + 1
    /\ umpiRun' = [umpiRun EXCEPT ![r].pc = "record"]
    /\ UNCHANGED <<world, observed, published, opsLock, check>>

NewestMonth(rows) == CHOOSE m \in 0..MaxMonth :
                        /\ m > 0 => rows[m] # <<>>
                        /\ \A k \in (m + 1)..MaxMonth : rows[k] = <<>>

\* MUTANT of Freshness: what is stored is taken for what is served.
FreshnessOfStored(s, r) ==
    IF ~umpiRun[r].reachable THEN "source_unavailable"
    ELSE IF NewestMonth(observed[s]) >= umpiRun[r].due THEN "fresh"
    ELSE IF ~umpiRun[r].overdue THEN "awaiting_release"
    ELSE "stale"

\* evaluateFreshness, of a check that has just run.
Freshness(s, r) ==
    IF ~umpiRun[r].reachable THEN "source_unavailable"
    ELSE IF NewestMonth(observed[s]) > NewestMonth(published[s]) THEN "derivation_failed"
    ELSE IF NewestMonth(published[s]) >= umpiRun[r].due THEN "fresh"
    ELSE IF ~umpiRun[r].overdue THEN "awaiting_release"
    ELSE "stale"

\* The check is recorded; after the last one the run closes and unlocks.
RecordCheck(r) ==
    /\ umpiRun[r].pc = "record"
    /\ check' = [check EXCEPT ![SeriesAt(r)] = Freshness(SeriesAt(r), r)]
    /\ LET left == umpiRun[r].todo \ {SeriesAt(r)}
       IN IF left = {}
          THEN opsLock' = NoRun /\ umpiRun' = [umpiRun EXCEPT ![r] = Waiting]
          ELSE /\ umpiRun' = [umpiRun EXCEPT ![r].pc = "source", ![r].todo = left]
               /\ UNCHANGED opsLock
    /\ UNCHANGED <<world, observed, published, mishaps>>

\* MUTANT of UmpiRunDies: the lock is a row, and outlives the session.
UmpiRunDiesLocked(r) ==
    /\ umpiRun[r].pc # "idle"
    /\ mishaps < MaxMishaps
    /\ mishaps' = mishaps + 1
    /\ umpiRun' = [umpiRun EXCEPT ![r] = Waiting]
    /\ UNCHANGED <<world, observed, published, opsLock, check>>

\* The process dies, or the orchestration throws: the session's lock goes.
UmpiRunDies(r) ==
    /\ umpiRun[r].pc # "idle"
    /\ mishaps < MaxMishaps
    /\ mishaps' = mishaps + 1
    /\ umpiRun' = [umpiRun EXCEPT ![r] = Waiting]
    /\ opsLock' = NoRun
    /\ UNCHANGED <<world, observed, published, check>>

UmpiStep(r) == TakeLock(r) \/ RunSource(r) \/ SourceFails(r) \/ Derive(r) \/ DeriveFails(r) \/ RecordCheck(r)

UmpiNext == \/ \E s \in UmpiSeries, m \in Months : AgencyPublishes(s, m) \/ AgencyRevises(s, m)
            \/ CalendarMoves
            \/ \E r \in UmpiRuns : UmpiStep(r) \/ UmpiRunDies(r)

UmpiSpec == UmpiInit /\ [][UmpiNext]_umpiVars

-----------------------------------------------------------------------------
(* What the check promises. *)

Current(s) == based[s] => \A m \in Months : HasLevel(s, m) => RestsOn(s, m, BasisNow(s, m))

\* "The affected publication is regenerated, and the following month's MoM recomputed"
\* (umpi-operations.md): between runs the point of every month that has a level rests on
\* the current vintages, its own and the prior month's, unless a run died or a derivation
\* failed.
PointsRestOnCurrentVintages ==
    opsLock = NoRun /\ mishaps = 0 => \A s \in UmpiSeries : Current(s)

\* Every vintage of the month, the superseded ones too, gives a level.
AlwaysLevel(s, m) == observed[s][m] # <<>> /\ Vintages(observed[s][m]) \cap Levelless = {}

\* A month that was ingested with a level and never published is reported, whatever run
\* failed to publish it and however long ago, and so is a series without a base: no check
\* calls it healthy.  A month that had no level is the exception: by the time a revision
\* gives it one, later months may be served, and only the newest is compared.
HealthyMeansServed ==
    [][\A r \in UmpiRuns, s \in UmpiSeries :
         RecordCheck(r) /\ s = SeriesAt(r) /\ check'[s] \in Healthy =>
            \A m \in Months : AlwaysLevel(s, m) => published[s][m] # <<>>]_umpiVars

\* Only the holder of the lock has work in progress, so two runs never supersede each
\* other's observations.
OnlyHolderWorks == \A r \in UmpiRuns : umpiRun[r].pc # "idle" => opsLock = r

\* The schedule; a run in progress makes progress.
UmpiFairness == \A r \in UmpiRuns : WF_umpiVars(UmpiStep(r))
UmpiFairSpec == UmpiSpec /\ UmpiFairness

\* No run that dies keeps later runs out.
LockIsFreed == []<>(opsLock = NoRun)
=============================================================================
