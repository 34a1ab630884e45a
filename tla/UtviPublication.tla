-------------------------- MODULE UtviPublication --------------------------
(***************************************************************************)
(* One date of the observed token volume index: the snapshot of what the   *)
(* source served, the calculation on it and the publication of that, each  *)
(* an append-only table.  A run (the daily cron, or an operator's backfill) *)
(* takes no lock: it reads, decides and writes in separate statements, may *)
(* die between any two, and may overlap another run.                       *)
(*                                                                         *)
(* Rows are numbered in the order they are written.  A partial unique      *)
(* index keeps one snapshot and one publication of a date live, and a      *)
(* trigger lets only the live one be superseded, so the live row is the    *)
(* last; a transaction that would supersede another row is refused.        *)
(***************************************************************************)
EXTENDS Naturals, SequencesExt

CONSTANTS
    UtviRuns,          \* runs in progress at once
    Contents,          \* what the source may serve for the date, by content hash
    NoRows,            \* the source serves the date empty
    Total,             \* the day's tokens, by content
    NoTotal,           \* nothing published yet
    MaxSourceMoves,    \* bound: how often the source changes its mind
    MaxDeaths          \* bound: how many runs do not get to their end

ASSUME UtviAssumption ==
    /\ NoRows \notin Contents
    /\ NoTotal \notin {Total[c] : c \in Contents}
    /\ MaxSourceMoves \in Nat /\ MaxDeaths \in Nat

VARIABLES
    served,        \* what the source serves now: [content, moves]
    closed,        \* the settlement lag has passed: a read is final
    snapshots,     \* pipeline.utvi_daily_snapshots of the date
    calculations,  \* pipeline.utvi_calculations
    publications,  \* pipeline.utvi_publications
    utviRun,       \* the runs in progress
    deaths         \* how many have died

tables == <<snapshots, calculations, publications>>
utviVars == <<served, closed, tables, utviRun, deaths>>

Snapshot == [content : Contents, final : BOOLEAN, complete : BOOLEAN]
Calculation == [snapshot : Nat \ {0}, final : BOOLEAN]
Publication == [calculation : Nat \ {0}, final : BOOLEAN]
UtviPc == {"idle", "read", "apply", "evidence", "lookup", "record", "standing", "publish"}

Resting == [pc |-> "idle", content |-> NoRows, final |-> FALSE, snapshot |-> 0, sawFinal |-> FALSE,
            sawComplete |-> TRUE, evidence |-> TRUE, calculation |-> 0, publication |-> 0]

UtviTypeOK ==
    /\ served \in [content : Contents \cup {NoRows}, moves : 0..MaxSourceMoves]
    /\ closed \in BOOLEAN
    /\ snapshots \in Seq(Snapshot)
    /\ calculations \in Seq(Calculation)
    /\ publications \in Seq(Publication)
    /\ \A k \in DOMAIN calculations : calculations[k].snapshot \in DOMAIN snapshots
    /\ \A k \in DOMAIN publications : publications[k].calculation \in DOMAIN calculations
    /\ utviRun \in [UtviRuns ->
         [pc : UtviPc, content : Contents \cup {NoRows}, final : BOOLEAN, snapshot : Nat,
          sawFinal : BOOLEAN, sawComplete : BOOLEAN, evidence : BOOLEAN, calculation : Nat,
          publication : Nat]]
    /\ deaths \in 0..MaxDeaths

\* A date nothing is held of, or one whose rows were cut short by a crash of an
\* earlier build, with the calculation and the publication made of it.
UtviInit ==
    /\ \/ /\ snapshots = <<>> /\ calculations = <<>> /\ publications = <<>>
          /\ served \in [content : Contents \cup {NoRows}, moves : {0}]
          /\ closed \in BOOLEAN
       \/ \E c \in Contents :
            /\ snapshots = <<[content |-> c, final |-> TRUE, complete |-> FALSE]>>
            /\ calculations = <<[snapshot |-> 1, final |-> TRUE]>>
            /\ publications = <<[calculation |-> 1, final |-> TRUE]>>
            /\ served = [content |-> c, moves |-> 0]
            /\ closed = TRUE
    /\ utviRun = [r \in UtviRuns |-> Resting]
    /\ deaths = 0

-----------------------------------------------------------------------------
(* The rows. *)

SnapshotOf(p) == calculations[p.calculation].snapshot

\* publicationEvidenceIsLive: nothing published counts as live.
EvidenceIsLive == publications # <<>> => SnapshotOf(Last(publications)) = Len(snapshots)

Published == IF publications = <<>> THEN NoTotal
             ELSE Total[snapshots[SnapshotOf(Last(publications))].content]

-----------------------------------------------------------------------------
(* The world. *)

SourceMoves ==
    /\ served.moves < MaxSourceMoves
    /\ \E c \in Contents : served' = [content |-> c, moves |-> served.moves + 1]
    /\ UNCHANGED <<closed, tables, utviRun, deaths>>

DayCloses == ~closed /\ closed' = TRUE /\ UNCHANGED <<served, tables, utviRun, deaths>>

-----------------------------------------------------------------------------
(* One run over the date: ingestWindow, then ingestDate. *)

\* The run goes on to `pc` with what it now knows.
GoesOn(r, pc, known) == utviRun' = [utviRun EXCEPT ![r] = [known EXCEPT !.pc = pc]]
Ends(r) == utviRun' = [utviRun EXCEPT ![r] = Resting]

\* The read of the source; its settlement state is by the clock of the run.  A read
\* that fails, or finds no rows, writes nothing to these tables.
FetchRankings(r) ==
    /\ utviRun[r].pc = "idle"
    /\ served.content # NoRows
    /\ GoesOn(r, "read", [Resting EXCEPT !.content = served.content, !.final = closed])
    /\ UNCHANGED <<served, closed, tables, deaths>>

\* applySnapshot: the live snapshot, with the count and sum of its rows.
ActiveSnapshot(r) ==
    /\ utviRun[r].pc = "read"
    /\ GoesOn(r, "apply", [utviRun[r] EXCEPT
         !.snapshot = Len(snapshots),
         !.sawFinal = snapshots # <<>> /\ Last(snapshots).final,
         !.sawComplete = snapshots # <<>> => Last(snapshots).complete])
    /\ UNCHANGED <<served, closed, tables, deaths>>

\* What the run read is what the source serves, and is stored whole.
Unchanged(r) ==
    /\ utviRun[r].snapshot # 0
    /\ snapshots[utviRun[r].snapshot].content = utviRun[r].content
    /\ utviRun[r].sawComplete

Settles(r) == utviRun[r].final /\ ~utviRun[r].sawFinal

\* confirmed: nothing to write.
Confirm(r) ==
    /\ utviRun[r].pc = "apply"
    /\ Unchanged(r) /\ ~Settles(r)
    /\ GoesOn(r, "evidence", utviRun[r])
    /\ UNCHANGED <<served, closed, tables, deaths>>

\* The trigger lets only a live provisional snapshot become final; the error of any
\* other write ends the run.
Settle(r) ==
    /\ utviRun[r].pc = "apply"
    /\ Unchanged(r) /\ Settles(r)
    /\ IF utviRun[r].snapshot = Len(snapshots) /\ ~Last(snapshots).final
       THEN /\ snapshots' = [snapshots EXCEPT ![utviRun[r].snapshot].final = TRUE]
            /\ GoesOn(r, "evidence", utviRun[r])
       ELSE Ends(r) /\ UNCHANGED snapshots
    /\ UNCHANGED <<served, closed, calculations, publications, deaths>>

\* created, revised or repaired: one transaction supersedes what the run saw live, if
\* anything, and inserts the snapshot with all its rows.
Supersede(r) ==
    /\ utviRun[r].pc = "apply"
    /\ ~Unchanged(r)
    /\ IF utviRun[r].snapshot = Len(snapshots)
       THEN /\ snapshots' = Append(snapshots, [content |-> utviRun[r].content,
                                               final |-> utviRun[r].final, complete |-> TRUE])
            /\ GoesOn(r, "evidence", [utviRun[r] EXCEPT !.snapshot = Len(snapshots) + 1,
                                                        !.sawComplete = FALSE])
       ELSE Ends(r) /\ UNCHANGED snapshots
    /\ UNCHANGED <<served, closed, calculations, publications, deaths>>

\* Only a snapshot confirmed or settled may already have its calculation.
ReadEvidence(r) ==
    /\ utviRun[r].pc = "evidence"
    /\ GoesOn(r, IF utviRun[r].sawComplete THEN "lookup" ELSE "record",
              [utviRun[r] EXCEPT !.evidence = EvidenceIsLive])
    /\ UNCHANGED <<served, closed, tables, deaths>>

CalculationsOf(s) == {k \in DOMAIN calculations : calculations[k].snapshot = s}

\* MUTANT of LookUp: "the rows are unchanged" is taken for "the value exists".
LookUpTrusting(r) ==
    /\ utviRun[r].pc = "lookup"
    /\ Ends(r)
    /\ UNCHANGED <<served, closed, tables, deaths>>

\* calculationIdForSnapshot: a calculation recorded earlier is reused, and if the
\* publication does not need to move the run is done.
LookUp(r) ==
    /\ utviRun[r].pc = "lookup"
    /\ LET known == CalculationsOf(utviRun[r].snapshot)
       IN IF known = {} THEN GoesOn(r, "record", utviRun[r])
          ELSE IF utviRun[r].evidence THEN Ends(r)
          ELSE GoesOn(r, "standing", [utviRun[r] EXCEPT
                 !.calculation = CHOOSE k \in known : \A j \in known : j <= k])
    /\ UNCHANGED <<served, closed, tables, deaths>>

\* check_utvi_calculation refuses a superseded snapshot, and a settlement state that
\* is not the snapshot's.
RecordCalculation(r) ==
    /\ utviRun[r].pc = "record"
    /\ IF utviRun[r].snapshot = Len(snapshots) /\ Last(snapshots).final = utviRun[r].final
       THEN /\ calculations' = Append(calculations, [snapshot |-> utviRun[r].snapshot,
                                                     final |-> utviRun[r].final])
            /\ GoesOn(r, "standing", [utviRun[r] EXCEPT !.calculation = Len(calculations) + 1])
       ELSE Ends(r) /\ UNCHANGED calculations
    /\ UNCHANGED <<served, closed, snapshots, publications, deaths>>

\* MUTANT of ReadStanding: every calculation is published.
ReadStandingAlways(r) ==
    /\ utviRun[r].pc = "standing"
    /\ GoesOn(r, "publish", [utviRun[r] EXCEPT !.publication = Len(publications)])
    /\ UNCHANGED <<served, closed, tables, deaths>>

\* publishCalculation: the standing publication.  The same value on live evidence is
\* not published again.
ReadStanding(r) ==
    /\ utviRun[r].pc = "standing"
    /\ IF publications # <<>> /\ EvidenceIsLive /\ Published = Total[utviRun[r].content]
       THEN Ends(r)
       ELSE GoesOn(r, "publish", [utviRun[r] EXCEPT !.publication = Len(publications)])
    /\ UNCHANGED <<served, closed, tables, deaths>>

\* MUTANT of Publish: the trigger is missing.
PublishUnchecked(r) ==
    /\ utviRun[r].pc = "publish"
    /\ publications' = IF utviRun[r].publication = Len(publications)
                       THEN Append(publications, [calculation |-> utviRun[r].calculation,
                                                  final |-> utviRun[r].final])
                       ELSE publications
    /\ Ends(r)
    /\ UNCHANGED <<served, closed, snapshots, calculations, deaths>>

\* The first point, or the supersession of the standing one.  check_utvi_publication
\* refuses a settlement state that is not the calculation's.
Publish(r) ==
    /\ utviRun[r].pc = "publish"
    /\ IF /\ utviRun[r].publication = Len(publications)
          /\ calculations[utviRun[r].calculation].final = utviRun[r].final
       THEN publications' = Append(publications, [calculation |-> utviRun[r].calculation,
                                                  final |-> utviRun[r].final])
       ELSE UNCHANGED publications
    /\ Ends(r)
    /\ UNCHANGED <<served, closed, snapshots, calculations, deaths>>

\* The process dies or a statement fails: what is committed stays.
RunDies(r) ==
    /\ utviRun[r].pc # "idle"
    /\ deaths < MaxDeaths
    /\ deaths' = deaths + 1
    /\ Ends(r)
    /\ UNCHANGED <<served, closed, tables>>

IngestDate(r) == \/ FetchRankings(r) \/ ActiveSnapshot(r)
                 \/ Confirm(r) \/ Settle(r) \/ Supersede(r)
                 \/ ReadEvidence(r) \/ LookUp(r) \/ RecordCalculation(r)
                 \/ ReadStanding(r) \/ Publish(r)

UtviNext == \/ SourceMoves \/ DayCloses
            \/ \E r \in UtviRuns : IngestDate(r) \/ RunDies(r)

UtviSpec == UtviInit /\ [][UtviNext]_utviVars

-----------------------------------------------------------------------------
(* What the tables promise. *)

\* A reader's view of the date is a PublishedSeries, whatever runs overlap or die:
\* no point disappears, and none is published that says nothing.
Reader == INSTANCE PublishedSeries WITH
    Values <- {Total[c] : c \in Contents}, NoValue <- NoTotal,
    value <- Published, revision <- Len(publications), anchored <- EvidenceIsLive

ImplementsSeries == [][Reader!Next]_(Reader!series)

\* Every point rests on a calculation of a snapshot that was recorded, of the
\* settlement state both agree on, unless the snapshot has settled since.
SettlementAgrees ==
    \A k \in DOMAIN publications :
        LET c == calculations[publications[k].calculation]
        IN publications[k].final = c.final /\ (c.final => snapshots[c.snapshot].final)

\* Runs keep coming, and one that does not die gets through its statements.
UtviFairness == \A r \in UtviRuns : WF_utviVars(IngestDate(r))

UtviFairSpec == UtviSpec /\ UtviFairness

\* "A confirmation asks whether the value actually exists rather than inferring it from
\* the rows being unchanged" (run.ts), since an interrupted run leaves "a date with
\* coverage and no value": the runs that follow publish a settled snapshot of which no
\* provisional calculation was recorded.
CoveredIsPublished ==
    /\ snapshots # <<>> /\ Last(snapshots).final
    /\ \A k \in CalculationsOf(Len(snapshots)) : calculations[k].final
    ~> publications # <<>>

\* "The value is already computed against the live snapshot; only the publication is
\* stranded. Reuse the calculation" (run.ts): a point left on superseded evidence is
\* moved onto the live snapshot by the runs that follow, so that once the source and the
\* deaths are over none is left there for good -- unless the live snapshot is provisional
\* or was calculated while it was: such a calculation is reused too, and the trigger
\* refuses its publication each time.
SettledOrphanIsRepointed ==
    <>[](~EvidenceIsLive => \/ ~Last(snapshots).final
                            \/ \E k \in CalculationsOf(Len(snapshots)) : ~calculations[k].final)
=============================================================================
