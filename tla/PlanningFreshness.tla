------------------------- MODULE PlanningFreshness -------------------------
(***************************************************************************)
(* Whether the planning forecast that is served is the publisher's latest. *)
(* Releases come when the publisher likes and are ingested when an         *)
(* operator gets to it; checks of what the publisher lists are recorded,   *)
(* and a reader's answer is derived from the records alone.  One source,   *)
(* with an active monitor.  Three publishers list their releases on a      *)
(* page; of the fourth, ISO New England, each candidate year's workbook is *)
(* probed, and a probe that is refused counts as a workbook that is not    *)
(* there.                                                                  *)
(***************************************************************************)
EXTENDS Naturals, Sequences

CONSTANTS
    Checkers,        \* checks in progress at once
    Probed,          \* the releases are probed for one by one (ISO New England), not listed
    Qualities,       \* what an extraction may call itself (today's adapters: accepted)
    CheckInterval,   \* how long a successful check supports a claim
    LastMoment,      \* bound: the last moment
    MaxReleases,     \* bound: releases published
    MaxChecks        \* bound: checks recorded

ASSUME FreshnessAssumption ==
    /\ Probed \in BOOLEAN
    /\ Qualities \subseteq {"provisional", "accepted", "suspect"}
    /\ CheckInterval \in Nat \ {0} /\ LastMoment \in Nat \ {0}
    /\ MaxReleases \in Nat \ {0} /\ MaxChecks \in Nat

VARIABLES
    moment,
    releasedAt,      \* the publisher: the moment of each release
    held,            \* pipeline.planning_forecast_vintages: the quality of each release ingested
    sourceChecks,    \* pipeline.planning_source_checks: when, the release found (0: failed), and (in
                     \* its evidence, which no reader consults) whether every document was answered
    looks            \* the checks in progress

freshnessVars == <<moment, releasedAt, held, sourceChecks, looks>>

Unstarted == [pc |-> "idle", now |-> 0, found |-> 0, whole |-> TRUE]

FreshnessTypeOK ==
    /\ moment \in 1..LastMoment
    /\ releasedAt \in Seq(1..LastMoment)
    /\ held \in [1..MaxReleases -> {"none"} \cup Qualities]
    /\ sourceChecks \in Seq([at : 1..LastMoment, found : 0..Len(releasedAt), whole : BOOLEAN])
    /\ looks \in [Checkers -> [pc : {"idle", "fetch", "record"}, now : 0..LastMoment,
                              found : 0..Len(releasedAt), whole : BOOLEAN]]

FreshnessInit ==
    /\ moment = 1 /\ releasedAt = <<1>>
    /\ held = [v \in 1..MaxReleases |-> "none"]
    /\ sourceChecks = <<>>
    /\ looks = [c \in Checkers |-> Unstarted]

-----------------------------------------------------------------------------

MomentPasses ==
    /\ moment < LastMoment
    /\ moment' = moment + 1
    /\ UNCHANGED <<releasedAt, held, sourceChecks, looks>>

PublisherReleases ==
    /\ Len(releasedAt) < MaxReleases
    /\ releasedAt' = Append(releasedAt, moment)
    /\ UNCHANGED <<moment, held, sourceChecks, looks>>

\* An adapter's release, read by the operator's command.  What it is worth is fixed with it.
IngestRelease ==
    /\ \E v \in DOMAIN releasedAt, quality \in Qualities :
         held[v] = "none" /\ held' = [held EXCEPT ![v] = quality]
    /\ UNCHANGED <<moment, releasedAt, sourceChecks, looks>>

\* The check is dated when it starts.
StartCheck(c) ==
    /\ looks[c].pc = "idle"
    /\ looks' = [looks EXCEPT ![c] = [Unstarted EXCEPT !.pc = "fetch", !.now = moment]]
    /\ UNCHANGED <<moment, releasedAt, held, sourceChecks>>

Newest(found) == CHOOSE v \in found : \A w \in found : w <= v

\* The documents are read one after another: what they list is between what was there at the
\* start and what is there now.  A listing that cannot be read, or a connection that fails,
\* fails the check.  A probe answered with anything but 200 (a 503 or a 429 no less than a 404)
\* is a release that is not there: the newest of the others is found, and the check succeeds.
FetchDocuments(c) ==
    /\ looks[c].pc = "fetch"
    /\ \E v \in DOMAIN releasedAt \cup {0}, whole \in BOOLEAN :
         /\ ~whole => Probed /\ v # 0
         /\ v # 0 /\ whole => \A w \in DOMAIN releasedAt : releasedAt[w] < looks[c].now => w <= v
         /\ looks' = [looks EXCEPT ![c] = [@ EXCEPT !.pc = "record", !.found = v, !.whole = whole]]
    /\ UNCHANGED <<moment, releasedAt, held, sourceChecks>>

\* MUTANT of RecordPlanningCheck: the check is dated when it is written down.
RecordPlanningCheckNow(c) ==
    /\ looks[c].pc = "record" /\ Len(sourceChecks) < MaxChecks
    /\ sourceChecks' = Append(sourceChecks, [at |-> moment, found |-> looks[c].found, whole |-> looks[c].whole])
    /\ looks' = [looks EXCEPT ![c] = Unstarted]
    /\ UNCHANGED <<moment, releasedAt, held>>

\* Success and failure are both written down.
RecordPlanningCheck(c) ==
    /\ looks[c].pc = "record" /\ Len(sourceChecks) < MaxChecks
    /\ sourceChecks' = Append(sourceChecks, [at |-> looks[c].now, found |-> looks[c].found, whole |-> looks[c].whole])
    /\ looks' = [looks EXCEPT ![c] = Unstarted]
    /\ UNCHANGED <<moment, releasedAt, held>>

CheckDies(c) ==
    /\ looks[c].pc # "idle"
    /\ looks' = [looks EXCEPT ![c] = Unstarted]
    /\ UNCHANGED <<moment, releasedAt, held, sourceChecks>>

FreshnessNext ==
    \/ MomentPasses \/ PublisherReleases \/ IngestRelease
    \/ \E c \in Checkers : StartCheck(c) \/ FetchDocuments(c) \/ RecordPlanningCheck(c) \/ CheckDies(c)

FreshnessSpec == FreshnessInit /\ [][FreshnessNext]_freshnessVars

-----------------------------------------------------------------------------
(* What a reader is told, loadPlanningFreshness and resolvePlanningCurrentness. *)

\* Of some checks the latest: by the date it carries, then by the order of recording.
Latest(some) == CHOOSE k \in some :
    \A j \in some : sourceChecks[j].at < sourceChecks[k].at \/ (sourceChecks[j].at = sourceChecks[k].at /\ j <= k)

Succeeded == {k \in DOMAIN sourceChecks : sourceChecks[k].found # 0}
Holding == {v \in DOMAIN held : held[v] # "none"}

Currentness ==
    IF sourceChecks = <<>> THEN "unknown"
    ELSE IF sourceChecks[Latest(DOMAIN sourceChecks)].found = 0 THEN "source_check_failed"
    ELSE LET success == sourceChecks[Latest(Succeeded)]
             served == Newest(Holding)
         IN IF moment - success.at > CheckInterval THEN "source_check_overdue"
            ELSE IF Holding = {} THEN "new_vintage_available"
            ELSE IF served # success.found THEN
              (CASE held[success.found] = "none" -> "new_vintage_available"
                 [] held[success.found] = "suspect" -> "validation_failed"
                 [] OTHER -> "ingestion_pending")
            ELSE (CASE held[served] = "suspect" -> "validation_failed"
                    [] held[served] = "provisional" -> "ingestion_pending"
                    [] OTHER -> "current")

\* "Is the vintage served the latest vintage the publisher has released, as of the last time
\* it was successfully looked at?": what is called current is accepted and the newest held,
\* and, when none of the latest success's documents was refused, it was the publisher's latest
\* at some moment of the interval a check supports -- however long the checks took, in whatever
\* order they were written down, and whichever died.  After a refused probe it need not be.
CurrentIsTheLatest ==
    Currentness = "current" =>
      LET served == Newest(Holding)
      IN /\ held[served] = "accepted"
         /\ sourceChecks[Latest(Succeeded)].whole =>
              served = Len(releasedAt) \/ releasedAt[served + 1] + CheckInterval >= moment
=============================================================================
