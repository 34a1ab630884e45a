------------------------ MODULE FrontierCapability ------------------------
(***************************************************************************)
(* The capability run of Model Frontier: once a day by the schedule, or by *)
(* an operator, it fetches one bundle of benchmark results, compares its   *)
(* bytes with the last ones ingested, and when they moved files the        *)
(* retrieval, applies each result in a transaction of its own, re-links    *)
(* the models and re-selects their prices.  Nothing stops two runs at      *)
(* once, and a run may end after any statement.                            *)
(***************************************************************************)
EXTENDS Naturals

CONSTANTS
    FrontierRuns,        \* runs in progress at once: the cron's and an operator's
    Results,             \* a benchmark and a model identifier of the source
    Bundles,             \* what may be published: [score, eligible]
    NoBundle,
    MaxBundles,          \* bound: bundles published after the first
    MaxFrontierFailures  \* bound: runs that die, or whose statement fails

ASSUME FrontierAssumption ==
    /\ MaxBundles \in Nat /\ MaxFrontierFailures \in Nat
    /\ NoBundle \notin Bundles
    /\ \A b \in Bundles : /\ DOMAIN b = {"score", "eligible"}
                          /\ b.score \in [Results -> Nat] /\ b.eligible \in BOOLEAN

VARIABLES
    sourceBundle,   \* the bundle at the source's address: 0 is a result it does not list, and
                    \* an eligible one states the licence and holds every benchmark's file
    bundleMoves,
    lastBundle,     \* of pipeline.capability_retrievals, the one retrieved latest
    liveScore,      \* pipeline.capability_observations: each result's live row, 0 for none
    linkedTo,       \* reference.capability_model_links
    catalogue,      \* pairs of price rows that match the model's standard product
    selection,      \* the model is in reference.model_price_selections
    heartbeat,      \* the latest of pipeline.capability_check_runs
    capability,
    lostRuns,
    appliedAlone    \* history: lastBundle was applied to its last row by a run that met no other

bundleAtSource == <<sourceBundle, bundleMoves>>
frontierPrices == <<catalogue, selection>>
frontierVars == <<bundleAtSource, lastBundle, liveScore, linkedTo, frontierPrices, heartbeat, capability,
                  lostRuns, appliedAlone>>

NotChecking == [pc |-> "idle", force |-> FALSE, bundle |-> NoBundle, before |-> {}, overtaken |-> FALSE,
                existing |-> [k \in Results |-> 0], replaced |-> {}, left |-> {}, alone |-> TRUE, seen |-> 0]

CapabilitySteps == {"idle", "fetch", "compare", "record", "load", "apply", "link", "prices", "select"}

FrontierTypeOK ==
    /\ sourceBundle \in Bundles /\ bundleMoves \in 0..MaxBundles
    /\ lastBundle \in Bundles \cup {NoBundle}
    /\ liveScore \in [Results -> Nat]
    /\ linkedTo \in [Results -> {"none", "unmapped", "evidenced"}]
    /\ catalogue \in 0..2 /\ selection \in BOOLEAN
    /\ heartbeat \in {"none", "unchanged", "ingested", "failed"}
    /\ capability \in [FrontierRuns ->
         [pc : CapabilitySteps, force : BOOLEAN, bundle : Bundles \cup {NoBundle}, before : SUBSET FrontierRuns,
          overtaken : BOOLEAN, existing : [Results -> Nat], replaced : SUBSET Results,
          left : SUBSET Results, alone : BOOLEAN, seen : 0..2]]
    /\ \A r \in FrontierRuns : capability[r].pc \notin {"idle", "fetch"} => capability[r].bundle \in Bundles
    /\ lostRuns \in 0..MaxFrontierFailures /\ appliedAlone \in BOOLEAN

FrontierInit ==
    /\ sourceBundle \in Bundles /\ bundleMoves = 0
    /\ lastBundle = NoBundle
    /\ liveScore = [k \in Results |-> 0] /\ linkedTo = [k \in Results |-> "none"]
    /\ catalogue = 0 /\ selection = FALSE /\ heartbeat = "none"
    /\ capability = [r \in FrontierRuns |-> NotChecking]
    /\ lostRuns = 0 /\ appliedAlone = TRUE

ResultsOf(bundle) == {k \in Results : bundle.score[k] > 0}
Checking == {r \in FrontierRuns : capability[r].pc # "idle"}
AtCheck(r, pc) == capability[r].pc = pc
CheckGoes(r, run) == capability' = [capability EXCEPT ![r] = run]

\* The run's last statement: its heartbeat.  Nobody started before it any more.
Reports(r, outcome) ==
    /\ heartbeat' = outcome
    /\ capability' = [q \in FrontierRuns |-> IF q = r THEN NotChecking
                                       ELSE [capability[q] EXCEPT !.before = @ \ {r}]]

-----------------------------------------------------------------------------

\* The source publishes another bundle at the same address, or an earlier one again.
BundleMoves ==
    /\ bundleMoves < MaxBundles
    /\ bundleMoves' = bundleMoves + 1
    /\ sourceBundle' \in Bundles \ {sourceBundle}
    /\ UNCHANGED <<lastBundle, liveScore, linkedTo, frontierPrices, heartbeat, capability,
                   lostRuns, appliedAlone>>

\* Token Price moves on its own schedule: the model's first price, then another row of the
\* same standard product.
PriceRecorded ==
    /\ catalogue < 2
    /\ catalogue' = catalogue + 1
    /\ UNCHANGED <<bundleAtSource, lastBundle, liveScore, linkedTo, selection, heartbeat,
                   capability, lostRuns, appliedAlone>>

\* The run's date is taken here, and is its retrieval's.
BeginCheck(r, force) ==
    /\ AtCheck(r, "idle")
    /\ CheckGoes(r, [NotChecking EXCEPT !.pc = "fetch", !.force = force, !.before = Checking])
    /\ UNCHANGED <<bundleAtSource, lastBundle, liveScore, linkedTo, frontierPrices, heartbeat,
                   lostRuns, appliedAlone>>

\* MUTANT of FetchBundle: the fetch is answered from a cache once there is a retrieval.
FetchBundleCached(r) ==
    /\ AtCheck(r, "fetch")
    /\ CheckGoes(r, [capability[r] EXCEPT !.pc = "compare",
                       !.bundle = IF lastBundle = NoBundle THEN sourceBundle ELSE lastBundle])
    /\ UNCHANGED <<bundleAtSource, lastBundle, liveScore, linkedTo, frontierPrices, heartbeat,
                   lostRuns, appliedAlone>>

FetchBundle(r) ==
    /\ AtCheck(r, "fetch")
    /\ CheckGoes(r, [capability[r] EXCEPT !.pc = "compare", !.bundle = sourceBundle])
    /\ UNCHANGED <<bundleAtSource, lastBundle, liveScore, linkedTo, frontierPrices, heartbeat,
                   lostRuns, appliedAlone>>

\* The licence and the files are checked; bytes equal to the last retrieval's end the run.
CompareBundle(r) ==
    /\ AtCheck(r, "compare")
    /\ IF ~capability[r].bundle.eligible THEN Reports(r, "failed")
       ELSE IF lastBundle = capability[r].bundle /\ ~capability[r].force THEN Reports(r, "unchanged")
       ELSE CheckGoes(r, [capability[r] EXCEPT !.pc = "record"]) /\ UNCHANGED heartbeat
    /\ UNCHANGED <<bundleAtSource, lastBundle, liveScore, linkedTo, frontierPrices, lostRuns,
                   appliedAlone>>

\* The retrieval is filed `succeeded` before anything of it is applied.  It is the last one
\* unless a run that began later has filed its own.
RecordRetrieval(r) ==
    /\ AtCheck(r, "record")
    /\ lastBundle' = IF capability[r].overtaken THEN lastBundle ELSE capability[r].bundle
    /\ capability' = [q \in FrontierRuns |->
                  IF q = r THEN [capability[r] EXCEPT !.pc = "load"]
                  ELSE IF q \in capability[r].before THEN [capability[q] EXCEPT !.overtaken = TRUE] ELSE capability[q]]
    /\ appliedAlone' = FALSE
    /\ UNCHANGED <<bundleAtSource, liveScore, linkedTo, frontierPrices, heartbeat, lostRuns>>

\* applyObservations: the live rows, read once.
LoadObservations(r) ==
    /\ AtCheck(r, "load")
    /\ LET beside == {q \in FrontierRuns : AtCheck(q, "apply")}
       IN capability' = [q \in FrontierRuns |->
                     IF q = r THEN [capability[r] EXCEPT !.pc = "apply", !.existing = liveScore, !.replaced = {},
                                                   !.left = ResultsOf(capability[r].bundle), !.alone = beside = {}]
                     ELSE IF q \in beside THEN [capability[q] EXCEPT !.alone = FALSE] ELSE capability[q]]
    /\ appliedAlone' = FALSE
    /\ UNCHANGED <<bundleAtSource, lastBundle, liveScore, linkedTo, frontierPrices, heartbeat, lostRuns>>

\* Row k was replaced by r, since the others at their rows read what was live.
Replaces(r, k, rest) ==
    capability' = [q \in FrontierRuns |-> IF q = r THEN rest
                                     ELSE IF AtCheck(q, "apply") THEN [capability[q] EXCEPT !.replaced = @ \cup {k}]
                                     ELSE capability[q]]

\* MUTANT of ApplyObservation: a result that already has a live row is never revised.
ApplyObservationFirst(r, k) ==
    /\ AtCheck(r, "apply") /\ k \in capability[r].left
    /\ LET score == capability[r].bundle.score[k]
           rest == [capability[r] EXCEPT !.left = @ \ {k}]
       IN IF capability[r].existing[k] # 0
          THEN CheckGoes(r, rest) /\ UNCHANGED <<liveScore, heartbeat>>
          ELSE IF k \in capability[r].replaced
          THEN Reports(r, "failed") /\ UNCHANGED liveScore
          ELSE /\ liveScore' = [liveScore EXCEPT ![k] = score]
               /\ Replaces(r, k, rest)
               /\ UNCHANGED heartbeat
    /\ UNCHANGED <<bundleAtSource, lastBundle, linkedTo, frontierPrices, lostRuns, appliedAlone>>

\* A live row the run has read equal is kept; another is superseded and replaced in one
\* transaction.  The index on live rows refuses it when another run has replaced the row
\* (or made the first one) since it was read, and the run ends there.
ApplyObservation(r, k) ==
    /\ AtCheck(r, "apply") /\ k \in capability[r].left
    /\ LET score == capability[r].bundle.score[k]
           rest == [capability[r] EXCEPT !.left = @ \ {k}]
       IN IF capability[r].existing[k] = score
          THEN CheckGoes(r, rest) /\ UNCHANGED <<liveScore, heartbeat>>
          ELSE IF k \in capability[r].replaced
          THEN Reports(r, "failed") /\ UNCHANGED liveScore
          ELSE /\ liveScore' = [liveScore EXCEPT ![k] = score]
               /\ Replaces(r, k, rest)
               /\ UNCHANGED heartbeat
    /\ UNCHANGED <<bundleAtSource, lastBundle, linkedTo, frontierPrices, lostRuns, appliedAlone>>

\* The last row done, the catalogue of priced models is read.
AllApplied(r) ==
    /\ AtCheck(r, "apply") /\ capability[r].left = {}
    /\ CheckGoes(r, [NotChecking EXCEPT !.pc = "link", !.bundle = capability[r].bundle, !.seen = catalogue])
    /\ appliedAlone' = (capability[r].alone /\ ~capability[r].overtaken)
    /\ UNCHANGED <<bundleAtSource, lastBundle, liveScore, linkedTo, frontierPrices, heartbeat, lostRuns>>

\* Every identifier of the bundle is linked again, with what the catalogue said: one upsert
\* after another, of which only the last is told apart.
UpsertLinks(r) ==
    /\ AtCheck(r, "link")
    /\ linkedTo' = [k \in Results |-> IF k \notin ResultsOf(capability[r].bundle) THEN linkedTo[k]
                                      ELSE IF capability[r].seen > 0 THEN "evidenced" ELSE "unmapped"]
    /\ CheckGoes(r, [capability[r] EXCEPT !.pc = "prices"])
    /\ UNCHANGED <<bundleAtSource, lastBundle, liveScore, frontierPrices, heartbeat, lostRuns,
                   appliedAlone>>

ReadPrices(r) ==
    /\ AtCheck(r, "prices")
    /\ CheckGoes(r, [capability[r] EXCEPT !.pc = "select", !.seen = catalogue])
    /\ UNCHANGED <<bundleAtSource, lastBundle, liveScore, linkedTo, frontierPrices, heartbeat,
                   lostRuns, appliedAlone>>

\* selectPrice: the price of a model is the one pair of rows that match its standard product.
OnePair(rows) == rows = 1

\* A model with one pair is upserted, which the table's trigger checks again; any other is
\* passed over, and an earlier selection of it stays.
RefreshPriceSelections(r) ==
    /\ AtCheck(r, "select")
    /\ selection' = (selection \/ (OnePair(capability[r].seen) /\ OnePair(catalogue)))
    /\ Reports(r, IF OnePair(capability[r].seen) /\ ~OnePair(catalogue) THEN "failed" ELSE "ingested")
    /\ UNCHANGED <<bundleAtSource, lastBundle, liveScore, linkedTo, catalogue, lostRuns, appliedAlone>>

\* A statement or the fetch fails, or the function is killed: what is committed stays, and
\* the heartbeat is written if it can be.
FrontierRunFails(r) ==
    /\ lostRuns < MaxFrontierFailures
    /\ r \in Checking
    /\ lostRuns' = lostRuns + 1
    /\ \E outcome \in {"failed", heartbeat} : Reports(r, outcome)
    /\ UNCHANGED <<bundleAtSource, lastBundle, liveScore, linkedTo, frontierPrices, appliedAlone>>

FrontierStep(r) ==
    \/ \E force \in BOOLEAN : BeginCheck(r, force)
    \/ FetchBundle(r)
    \/ CompareBundle(r)
    \/ RecordRetrieval(r)
    \/ LoadObservations(r)
    \/ \E k \in Results : ApplyObservation(r, k)
    \/ AllApplied(r)
    \/ UpsertLinks(r)
    \/ ReadPrices(r)
    \/ RefreshPriceSelections(r)

FrontierNext ==
    \/ BundleMoves
    \/ PriceRecorded
    \/ \E r \in FrontierRuns : FrontierStep(r) \/ FrontierRunFails(r)

FrontierSpec ==
    FrontierInit /\ [][FrontierNext]_frontierVars /\ \A r \in FrontierRuns : WF_frontierVars(FrontierStep(r))

-----------------------------------------------------------------------------

Agrees(bundle) == \A k \in ResultsOf(bundle) : liveScore[k] = bundle.score[k]

\* run.ts compares bytes with those of the last retrieval filed, not with what is live, so
\* "unchanged" is true of the chart only if the retrieval was applied.  Whatever runs
\* overlapped, died or met a reverted source before, a run that answers so finds every result
\* of its bundle live as the bundle states it, unless the last retrieval's own run did not
\* apply its last row or met another at it.
UnchangedIsServed ==
    [][\A r \in FrontierRuns :
         (/\ AtCheck(r, "compare") /\ capability'[r].pc = "idle" /\ heartbeat' = "unchanged"
          /\ lostRuns' = lostRuns /\ appliedAlone)
           => Agrees(capability[r].bundle)]_frontierVars

\* The daily run brings the chart to the bundle the source settles on, with the same
\* exception, and unless the bundle lost its licence or a file: failures before the retrieval is
\* filed, and after the last row, cost a day and no result.
SettledBundleIsLive ==
    <>[](sourceBundle.eligible /\ appliedAlone => Agrees(sourceBundle))
=============================================================================
