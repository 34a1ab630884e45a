----------------------------- MODULE IngestProof ----------------------------
(***************************************************************************)
(* What is read from outside into the tables of the site, for any number   *)
(* of runs at once and any failures.  The model frontier: a capability run *)
(* that answers "unchanged" finds its bundle live, unless the last         *)
(* retrieval was not applied to its end or not applied alone.  The token   *)
(* prices: an attestation names a value that is its page's own, unless the *)
(* page is not read again or another command wrote beside.  The            *)
(* publishers' reports: a commit restates what its artifact changes and    *)
(* nothing else.                                                           *)
(***************************************************************************)
EXTENDS FrontierCapability, TokenVerification, PublisherIngest, SequenceTheorems, FiniteSetTheorems,
        WellFoundedInduction, TLAPS

-----------------------------------------------------------------------------
(* The capability run. *)

FrontierRunRecord == [pc : CapabilitySteps, force : BOOLEAN, bundle : Bundles \cup {NoBundle},
              before : SUBSET FrontierRuns, overtaken : BOOLEAN, existing : [Results -> Nat],
              replaced : SUBSET Results, left : SUBSET Results, alone : BOOLEAN, seen : 0..2]

\* A run whose retrieval may still be filed, or is being applied.
Early == {"fetch", "compare", "record", "load", "apply"}
FiledSteps == {"load", "apply"}

\* Of two such runs one began before the other, and knows no run that has ended.
BegunInOrder ==
    /\ \A q, r \in FrontierRuns :
         q # r /\ capability[q].pc \in Early /\ capability[r].pc \in Early
           => q \in capability[r].before \/ r \in capability[q].before
    /\ \A q, r \in FrontierRuns : q \in capability[r].before => capability[q].pc # "idle"

\* A filed retrieval overtakes the runs begun before its own, and the one not overtaken is last.
FiledInOrder ==
    /\ \A q, r \in FrontierRuns :
         q # r /\ capability[r].pc \in FiledSteps /\ capability[q].pc \in Early /\ q \in capability[r].before
           => capability[q].overtaken
    /\ \A r \in FrontierRuns : capability[r].pc \in FiledSteps /\ ~capability[r].overtaken
                                 => lastBundle = capability[r].bundle

\* A run at its rows beside nobody has what it left as it read it, and the rest as its bundle has it.
AppliesAlone ==
    /\ \A q, r \in FrontierRuns : q # r /\ AtCheck(q, "apply") /\ AtCheck(r, "apply") => ~capability[r].alone
    /\ \A r \in FrontierRuns : AtCheck(r, "apply") /\ capability[r].alone =>
         /\ \A k \in capability[r].left : liveScore[k] = capability[r].existing[k]
         /\ \A k \in ResultsOf(capability[r].bundle) \ capability[r].left :
              liveScore[k] = capability[r].bundle.score[k]

\* What was applied alone is what the last retrieval states, and nobody is at it.
LastIsServed ==
    appliedAlone => /\ \A r \in FrontierRuns : ~AtCheck(r, "apply")
                    /\ lastBundle # NoBundle => Agrees(lastBundle)

FrontierInv == FrontierTypeOK /\ BegunInOrder /\ FiledInOrder /\ AppliesAlone /\ LastIsServed

LEMMA FrontierShapes ==
    ASSUME FrontierTypeOK
    PROVE  /\ sourceBundle \in Bundles /\ lastBundle \in Bundles \cup {NoBundle}
           /\ liveScore \in [Results -> Nat] /\ capability \in [FrontierRuns -> FrontierRunRecord]
           /\ appliedAlone \in BOOLEAN
BY DEF FrontierTypeOK, FrontierRunRecord

LEMMA BundleShape ==
    ASSUME NEW b \in Bundles
    PROVE  /\ \A k \in Results : b.score[k] \in Nat
           /\ b.eligible \in BOOLEAN
           /\ ResultsOf(b) \subseteq Results
BY FrontierAssumption DEF ResultsOf

LEMMA NotCheckingShape == NotChecking \in FrontierRunRecord /\ NotChecking.pc = "idle" /\ NotChecking.before = {}
<1>1. [k \in Results |-> 0] \in [Results -> Nat]
  OBVIOUS
<1> QED BY <1>1 DEF NotChecking, FrontierRunRecord, CapabilitySteps

LEMMA FrontierInitially == FrontierInit => FrontierInv
<1> SUFFICES ASSUME FrontierInit PROVE FrontierInv
  OBVIOUS
<1>1. FrontierTypeOK
  <2>1. capability \in [FrontierRuns -> FrontierRunRecord] /\ \A r \in FrontierRuns : capability[r].pc = "idle"
    BY NotCheckingShape DEF FrontierInit
  <2>2. \A r \in FrontierRuns : capability[r].pc \notin {"idle", "fetch"} => capability[r].bundle \in Bundles
    BY <2>1
  <2>3. /\ bundleMoves \in 0..MaxBundles /\ lostRuns \in 0..MaxFrontierFailures /\ catalogue \in 0..2
    BY FrontierAssumption DEF FrontierInit, FrontierAssumption
  <2>4. /\ selection \in BOOLEAN /\ appliedAlone \in BOOLEAN
        /\ sourceBundle \in Bundles /\ lastBundle \in Bundles \cup {NoBundle}
        /\ heartbeat \in {"none", "unchanged", "ingested", "failed"}
    BY DEF FrontierInit
  <2>5. liveScore \in [Results -> Nat] /\ linkedTo \in [Results -> {"none", "unmapped", "evidenced"}]
    BY DEF FrontierInit
  <2> QED BY <2>1, <2>2, <2>3, <2>4, <2>5 DEF FrontierTypeOK, FrontierRunRecord
<1>2. \A r \in FrontierRuns : capability[r].pc = "idle" /\ capability[r].before = {}
  BY NotCheckingShape DEF FrontierInit
<1> QED
  BY <1>1, <1>2 DEF FrontierInit, FrontierInv, BegunInOrder, FiledInOrder, AppliesAlone, LastIsServed,
                    Early, FiledSteps, AtCheck

-----------------------------------------------------------------------------
(* A step of one run that files and applies nothing. *)

\* The step keeps what the others rely on: it forgets no run begun before while it may still
\* file, and does not come to a filed retrieval by it.
Along(r, run) ==
    /\ run \in FrontierRunRecord
    /\ capability[r].pc # "idle" /\ run.pc # "idle"
    /\ run.pc \notin FiledSteps
    /\ run.before \subseteq capability[r].before
    /\ run.pc \in Early => /\ capability[r].pc \in Early
                           /\ run.before = capability[r].before /\ run.overtaken = capability[r].overtaken

LEMMA GoesAlong ==
    ASSUME FrontierTypeOK, BegunInOrder, FiledInOrder, AppliesAlone,
           NEW r \in FrontierRuns, NEW run, Along(r, run), CheckGoes(r, run),
           UNCHANGED <<lastBundle, liveScore>>
    PROVE  /\ BegunInOrder' /\ FiledInOrder' /\ AppliesAlone'
           /\ \A q \in FrontierRuns : AtCheck(q, "apply")' => AtCheck(q, "apply")
<1>1. /\ capability'[r] = run
      /\ \A q \in FrontierRuns \ {r} : capability'[q] = capability[q]
  BY FrontierShapes DEF CheckGoes
<1>2. BegunInOrder'
  BY <1>1 DEF BegunInOrder, Along
<1>3. FiledInOrder'
  BY <1>1 DEF FiledInOrder, Along
<1>4. \A q \in FrontierRuns : AtCheck(q, "apply")' => q # r /\ AtCheck(q, "apply")
  BY <1>1 DEF AtCheck, Along, FiledSteps
<1>5. AppliesAlone'
  BY <1>1, <1>4 DEF AppliesAlone
<1> QED BY <1>2, <1>3, <1>4, <1>5

\* A run that ends is nobody's predecessor any more.
LEMMA EndsAlong ==
    ASSUME FrontierTypeOK, BegunInOrder, FiledInOrder, AppliesAlone,
           NEW r \in FrontierRuns, NEW outcome, Reports(r, outcome),
           UNCHANGED <<lastBundle, liveScore>>
    PROVE  /\ BegunInOrder' /\ FiledInOrder' /\ AppliesAlone'
           /\ capability' \in [FrontierRuns -> FrontierRunRecord]
           /\ \A q \in FrontierRuns : AtCheck(q, "apply")' => AtCheck(q, "apply")
           /\ \A q \in FrontierRuns :
                \/ capability'[q].bundle = capability[q].bundle /\ capability'[q].pc = capability[q].pc
                \/ capability'[q].pc = "idle"
<1>1. /\ capability'[r] = NotChecking
      /\ \A q \in FrontierRuns \ {r} : capability'[q] = [capability[q] EXCEPT !.before = @ \ {r}]
  BY DEF Reports
<1>2. \A q \in FrontierRuns \ {r} :
        /\ capability'[q] \in FrontierRunRecord
        /\ capability'[q].pc = capability[q].pc /\ capability'[q].bundle = capability[q].bundle
        /\ capability'[q].before = capability[q].before \ {r}
        /\ capability'[q].overtaken = capability[q].overtaken /\ capability'[q].alone = capability[q].alone
        /\ capability'[q].left = capability[q].left /\ capability'[q].existing = capability[q].existing
  <2> SUFFICES ASSUME NEW q \in FrontierRuns \ {r}
               PROVE  /\ capability'[q] \in FrontierRunRecord
                      /\ capability'[q].pc = capability[q].pc /\ capability'[q].bundle = capability[q].bundle
                      /\ capability'[q].before = capability[q].before \ {r}
                      /\ capability'[q].overtaken = capability[q].overtaken
                      /\ capability'[q].alone = capability[q].alone
                      /\ capability'[q].left = capability[q].left /\ capability'[q].existing = capability[q].existing
    OBVIOUS
  <2>1. capability[q] \in FrontierRunRecord
    BY FrontierShapes
  <2>2. capability'[q] = [capability[q] EXCEPT !.before = capability[q].before \ {r}]
    BY <1>1
  <2> QED BY <2>1, <2>2 DEF FrontierRunRecord
<1>3. capability' \in [FrontierRuns -> FrontierRunRecord]
  BY <1>1, <1>2, NotCheckingShape DEF Reports
<1>4. capability'[r].pc = "idle" /\ capability'[r].before = {}
  BY <1>1, NotCheckingShape
<1>5. BegunInOrder'
  BY <1>2, <1>4 DEF BegunInOrder, Early
<1>6. FiledInOrder'
  BY <1>2, <1>4 DEF FiledInOrder, Early, FiledSteps
<1>7. \A q \in FrontierRuns : AtCheck(q, "apply")' => q # r /\ AtCheck(q, "apply")
  BY <1>2, <1>4 DEF AtCheck
<1>8. AppliesAlone'
  BY <1>2, <1>7 DEF AppliesAlone
<1> QED BY <1>2, <1>3, <1>4, <1>5, <1>6, <1>7, <1>8
LEMMA KeptServed ==
    ASSUME LastIsServed, UNCHANGED <<lastBundle, liveScore, appliedAlone>>,
           \A q \in FrontierRuns : AtCheck(q, "apply")' => AtCheck(q, "apply")
    PROVE  LastIsServed'
BY DEF LastIsServed, Agrees, ResultsOf

\* The types of a step that changes only one run's record.
LEMMA GoesTyped ==
    ASSUME FrontierTypeOK, NEW r \in FrontierRuns, NEW run \in FrontierRunRecord, CheckGoes(r, run),
           run.pc \notin {"idle", "fetch"} => run.bundle \in Bundles
    PROVE  /\ capability' \in [FrontierRuns -> FrontierRunRecord]
           /\ \A q \in FrontierRuns : capability'[q].pc \notin {"idle", "fetch"} => capability'[q].bundle \in Bundles
<1>1. capability \in [FrontierRuns -> FrontierRunRecord]
  BY FrontierShapes
<1>2. \A q \in FrontierRuns : capability[q].pc \notin {"idle", "fetch"} => capability[q].bundle \in Bundles
  BY DEF FrontierTypeOK
<1> QED BY <1>1, <1>2 DEF CheckGoes

LEMMA TypedAgain ==
    ASSUME FrontierTypeOK, UNCHANGED <<bundleAtSource, linkedTo, catalogue, lostRuns>>,
           selection' \in BOOLEAN, heartbeat' \in {"none", "unchanged", "ingested", "failed"},
           lastBundle' \in Bundles \cup {NoBundle}, liveScore' \in [Results -> Nat], appliedAlone' \in BOOLEAN,
           capability' \in [FrontierRuns -> FrontierRunRecord],
           \A q \in FrontierRuns : capability'[q].pc \notin {"idle", "fetch"} => capability'[q].bundle \in Bundles
    PROVE  FrontierTypeOK'
BY DEF FrontierTypeOK, FrontierRunRecord, bundleAtSource

-----------------------------------------------------------------------------
(* One lemma for each action. *)

LEMMA MovesKeep == FrontierInv /\ (BundleMoves \/ PriceRecorded) => FrontierInv'
<1> SUFFICES ASSUME FrontierInv, BundleMoves \/ PriceRecorded PROVE FrontierInv'
  OBVIOUS
<1>1. UNCHANGED <<capability, lastBundle, liveScore, appliedAlone>>
  BY DEF BundleMoves, PriceRecorded
<1>2. BegunInOrder' /\ FiledInOrder' /\ AppliesAlone' /\ LastIsServed'
  BY <1>1 DEF FrontierInv, BegunInOrder, FiledInOrder, AppliesAlone, LastIsServed, AtCheck, Agrees, ResultsOf
<1>3. CASE BundleMoves
  <2>1. bundleMoves' \in 0..MaxBundles
    BY <1>3, FrontierAssumption DEF BundleMoves, FrontierInv, FrontierTypeOK, FrontierAssumption
  <2>2. FrontierTypeOK'
    BY <1>3, <2>1 DEF BundleMoves, FrontierInv, FrontierTypeOK, frontierPrices
  <2> QED BY <1>2, <2>2 DEF FrontierInv
<1>4. CASE PriceRecorded
  <2>1. catalogue' \in 0..2
    BY <1>4 DEF PriceRecorded, FrontierInv, FrontierTypeOK
  <2>2. FrontierTypeOK'
    BY <1>4, <2>1 DEF PriceRecorded, FrontierInv, FrontierTypeOK, bundleAtSource
  <2> QED BY <1>2, <2>2 DEF FrontierInv
<1> QED BY <1>3, <1>4

\* The new run knows everyone begun before it, and is idle itself: nobody knows it.
LEMMA BeginKeeps ==
    ASSUME FrontierInv, NEW r \in FrontierRuns, NEW force \in BOOLEAN, BeginCheck(r, force)
    PROVE  FrontierInv'
<1> DEFINE run == [NotChecking EXCEPT !.pc = "fetch", !.force = force, !.before = Checking]
<1>1. /\ run \in FrontierRunRecord /\ run.pc = "fetch" /\ run.before = Checking /\ CheckGoes(r, run)
      /\ capability[r].pc = "idle"
  <2>1. Checking \subseteq FrontierRuns
    BY DEF Checking
  <2> QED BY <2>1, NotCheckingShape DEF BeginCheck, AtCheck, FrontierRunRecord, CapabilitySteps
<1> HIDE DEF run
<1>2. /\ capability'[r] = run
      /\ \A q \in FrontierRuns \ {r} : capability'[q] = capability[q]
  BY <1>1, FrontierShapes DEF CheckGoes, FrontierInv
<1>3. FrontierTypeOK'
  <2>1. UNCHANGED <<bundleAtSource, linkedTo, catalogue, lostRuns, selection, heartbeat, lastBundle,
                    liveScore, appliedAlone>>
    BY DEF BeginCheck, frontierPrices
  <2> QED BY <1>1, <2>1, GoesTyped, TypedAgain, FrontierShapes DEF FrontierInv, FrontierTypeOK
<1>4. BegunInOrder'
  BY <1>1, <1>2 DEF FrontierInv, BegunInOrder, Checking, Early
<1>5. FiledInOrder'
  <2>1. \A q \in FrontierRuns : r \notin capability[q].before
    BY <1>1 DEF FrontierInv, BegunInOrder
  <2>2. lastBundle' = lastBundle
    BY DEF BeginCheck
  <2> QED BY <1>1, <1>2, <2>1, <2>2 DEF FrontierInv, FiledInOrder, FiledSteps, Early
<1>6. \A q \in FrontierRuns : AtCheck(q, "apply")' => q # r /\ AtCheck(q, "apply")
  BY <1>1, <1>2 DEF AtCheck
<1>7. AppliesAlone' /\ LastIsServed'
  <2>1. UNCHANGED <<lastBundle, liveScore, appliedAlone>>
    BY DEF BeginCheck
  <2> QED BY <1>2, <1>6, <2>1, KeptServed DEF FrontierInv, AppliesAlone
<1> QED BY <1>3, <1>4, <1>5, <1>7 DEF FrontierInv
\* The steps of one run that keep its place among the others.
LEMMA AlongKeeps ==
    ASSUME FrontierInv, NEW r \in FrontierRuns, NEW run, Along(r, run), CheckGoes(r, run),
           run.pc \notin {"idle", "fetch"} => run.bundle \in Bundles,
           UNCHANGED <<bundleAtSource, catalogue, selection, heartbeat, lostRuns, lastBundle, liveScore, appliedAlone>>,
           linkedTo' \in [Results -> {"none", "unmapped", "evidenced"}]
    PROVE  FrontierInv'
<1>1. run \in FrontierRunRecord
  BY DEF Along
<1>2. /\ capability' \in [FrontierRuns -> FrontierRunRecord]
      /\ \A q \in FrontierRuns : capability'[q].pc \notin {"idle", "fetch"} => capability'[q].bundle \in Bundles
  BY <1>1, GoesTyped DEF FrontierInv
<1>3. FrontierTypeOK'
  BY <1>2 DEF FrontierInv, FrontierTypeOK, FrontierRunRecord, bundleAtSource
<1>4. /\ BegunInOrder' /\ FiledInOrder' /\ AppliesAlone'
      /\ \A q \in FrontierRuns : AtCheck(q, "apply")' => AtCheck(q, "apply")
  BY GoesAlong DEF FrontierInv
<1>5. LastIsServed'
  BY <1>4, KeptServed DEF FrontierInv
<1> QED BY <1>3, <1>4, <1>5 DEF FrontierInv

LEMMA EndsKeeps ==
    ASSUME FrontierInv, NEW r \in FrontierRuns,
           NEW outcome \in {"none", "unchanged", "ingested", "failed"}, Reports(r, outcome),
           UNCHANGED <<bundleAtSource, linkedTo, catalogue, lastBundle, liveScore, appliedAlone>>,
           selection' \in BOOLEAN, lostRuns' \in 0..MaxFrontierFailures
    PROVE  FrontierInv'
<1>1. /\ BegunInOrder' /\ FiledInOrder' /\ AppliesAlone'
      /\ capability' \in [FrontierRuns -> FrontierRunRecord]
      /\ \A q \in FrontierRuns : AtCheck(q, "apply")' => AtCheck(q, "apply")
      /\ \A q \in FrontierRuns :
           \/ capability'[q].bundle = capability[q].bundle /\ capability'[q].pc = capability[q].pc
           \/ capability'[q].pc = "idle"
  BY EndsAlong DEF FrontierInv
<1>2. \A q \in FrontierRuns : capability'[q].pc \notin {"idle", "fetch"} => capability'[q].bundle \in Bundles
  BY <1>1 DEF FrontierInv, FrontierTypeOK
<1>3. heartbeat' = outcome
  BY DEF Reports
<1>4. FrontierTypeOK'
  BY <1>1, <1>2, <1>3 DEF FrontierInv, FrontierTypeOK, FrontierRunRecord, bundleAtSource
<1>5. LastIsServed'
  BY <1>1, KeptServed DEF FrontierInv
<1> QED BY <1>1, <1>4, <1>5 DEF FrontierInv

LEMMA FetchBundleKeeps == ASSUME FrontierInv, NEW r \in FrontierRuns, FetchBundle(r) PROVE FrontierInv'
<1> DEFINE run == [capability[r] EXCEPT !.pc = "compare", !.bundle = sourceBundle]
<1>1. /\ capability[r] \in FrontierRunRecord /\ sourceBundle \in Bundles /\ capability[r].pc = "fetch"
      /\ linkedTo \in [Results -> {"none", "unmapped", "evidenced"}]
  BY FrontierShapes DEF FetchBundle, AtCheck, FrontierInv, FrontierTypeOK
<1>2. Along(r, run) /\ run.bundle \in Bundles
  BY <1>1 DEF Along, FrontierRunRecord, CapabilitySteps, Early, FiledSteps
<1>3. CheckGoes(r, run)
  BY DEF FetchBundle
<1> HIDE DEF run
<1> QED BY <1>1, <1>2, <1>3, AlongKeeps DEF FetchBundle, frontierPrices

LEMMA CompareKeeps == ASSUME FrontierInv, NEW r \in FrontierRuns, CompareBundle(r) PROVE FrontierInv'
<1> DEFINE run == [capability[r] EXCEPT !.pc = "record"]
<1>1. /\ capability[r] \in FrontierRunRecord /\ capability[r].bundle \in Bundles /\ capability[r].pc = "compare"
      /\ linkedTo \in [Results -> {"none", "unmapped", "evidenced"}]
      /\ selection \in BOOLEAN /\ lostRuns \in 0..MaxFrontierFailures
  BY FrontierShapes DEF CompareBundle, AtCheck, FrontierInv, FrontierTypeOK
<1>2. UNCHANGED <<bundleAtSource, lastBundle, liveScore, linkedTo, catalogue, selection, lostRuns, appliedAlone>>
  BY DEF CompareBundle, frontierPrices
<1>3. CASE CheckGoes(r, run) /\ UNCHANGED heartbeat
  <2>1. Along(r, run) /\ run.bundle \in Bundles
    BY <1>1 DEF Along, FrontierRunRecord, CapabilitySteps, Early, FiledSteps
  <2> HIDE DEF run
  <2> QED BY <1>1, <1>2, <1>3, <2>1, AlongKeeps
<1>4. CASE Reports(r, "failed")
  BY <1>1, <1>2, <1>4, EndsKeeps
<1>5. CASE Reports(r, "unchanged")
  BY <1>1, <1>2, <1>5, EndsKeeps
<1> QED BY <1>3, <1>4, <1>5 DEF CompareBundle

LEMMA LinksKeep == ASSUME FrontierInv, NEW r \in FrontierRuns, UpsertLinks(r) PROVE FrontierInv'
<1> DEFINE run == [capability[r] EXCEPT !.pc = "prices"]
<1>1. /\ capability[r] \in FrontierRunRecord /\ capability[r].bundle \in Bundles /\ capability[r].pc = "link"
      /\ linkedTo \in [Results -> {"none", "unmapped", "evidenced"}]
  BY FrontierShapes DEF UpsertLinks, AtCheck, FrontierInv, FrontierTypeOK
<1>2. Along(r, run) /\ run.bundle \in Bundles
  BY <1>1 DEF Along, FrontierRunRecord, CapabilitySteps, Early, FiledSteps
<1>3. CheckGoes(r, run)
  BY DEF UpsertLinks
<1>4. linkedTo' \in [Results -> {"none", "unmapped", "evidenced"}]
  BY <1>1 DEF UpsertLinks
<1> HIDE DEF run
<1> QED BY <1>2, <1>3, <1>4, AlongKeeps DEF UpsertLinks, frontierPrices

LEMMA PricesKeep == ASSUME FrontierInv, NEW r \in FrontierRuns, ReadPrices(r) PROVE FrontierInv'
<1> DEFINE run == [capability[r] EXCEPT !.pc = "select", !.seen = catalogue]
<1>1. /\ capability[r] \in FrontierRunRecord /\ capability[r].bundle \in Bundles /\ capability[r].pc = "prices"
      /\ linkedTo \in [Results -> {"none", "unmapped", "evidenced"}] /\ catalogue \in 0..2
  BY FrontierShapes DEF ReadPrices, AtCheck, FrontierInv, FrontierTypeOK
<1>2. Along(r, run) /\ run.bundle \in Bundles
  BY <1>1 DEF Along, FrontierRunRecord, CapabilitySteps, Early, FiledSteps
<1>3. CheckGoes(r, run)
  BY DEF ReadPrices
<1> HIDE DEF run
<1> QED BY <1>1, <1>2, <1>3, AlongKeeps DEF ReadPrices, frontierPrices

LEMMA SelectionsKeep == ASSUME FrontierInv, NEW r \in FrontierRuns, RefreshPriceSelections(r) PROVE FrontierInv'
<1>1. selection \in BOOLEAN /\ lostRuns \in 0..MaxFrontierFailures
  BY DEF FrontierInv, FrontierTypeOK
<1>2. /\ UNCHANGED <<bundleAtSource, linkedTo, catalogue, lastBundle, liveScore, appliedAlone>>
      /\ selection' \in BOOLEAN /\ lostRuns' = lostRuns
  BY <1>1 DEF RefreshPriceSelections
<1>3. Reports(r, "failed") \/ Reports(r, "ingested")
  BY DEF RefreshPriceSelections
<1> QED BY <1>1, <1>2, <1>3, EndsKeeps

LEMMA FailureKeeps == ASSUME FrontierInv, NEW r \in FrontierRuns, FrontierRunFails(r) PROVE FrontierInv'
<1>1. /\ selection \in BOOLEAN /\ lostRuns' \in 0..MaxFrontierFailures
      /\ heartbeat \in {"none", "unchanged", "ingested", "failed"}
  BY FrontierAssumption DEF FrontierInv, FrontierTypeOK, FrontierRunFails, FrontierAssumption
<1>2. UNCHANGED <<bundleAtSource, linkedTo, catalogue, selection, lastBundle, liveScore, appliedAlone>>
  BY DEF FrontierRunFails, frontierPrices
<1>3. PICK outcome \in {"failed", heartbeat} : Reports(r, outcome)
  BY DEF FrontierRunFails
<1> QED BY <1>1, <1>2, <1>3, EndsKeeps
\* A run filed and not overtaken began after the one that files now, which is therefore
\* overtaken itself and leaves the last retrieval as it was.
LEMMA RecordRetrievalKeeps == ASSUME FrontierInv, NEW r \in FrontierRuns, RecordRetrieval(r) PROVE FrontierInv'
<1>1. /\ \A q \in FrontierRuns : capability[q] \in FrontierRunRecord
      /\ capability[r].bundle \in Bundles /\ capability[r].pc = "record"
      /\ lastBundle \in Bundles \cup {NoBundle}
  BY FrontierShapes DEF RecordRetrieval, AtCheck, FrontierInv, FrontierTypeOK
<1>2. capability'[r] = [capability[r] EXCEPT !.pc = "load"]
  BY DEF RecordRetrieval
<1>3. \A q \in FrontierRuns \ {r} :
        capability'[q] = IF q \in capability[r].before THEN [capability[q] EXCEPT !.overtaken = TRUE] ELSE capability[q]
  BY DEF RecordRetrieval
<1>4. /\ capability'[r] \in FrontierRunRecord /\ capability'[r].pc = "load"
      /\ capability'[r].before = capability[r].before /\ capability'[r].bundle = capability[r].bundle
      /\ capability'[r].overtaken = capability[r].overtaken
  BY <1>1, <1>2 DEF FrontierRunRecord, CapabilitySteps
<1>5. \A q \in FrontierRuns \ {r} :
        /\ capability'[q] \in FrontierRunRecord
        /\ capability'[q].pc = capability[q].pc /\ capability'[q].bundle = capability[q].bundle
        /\ capability'[q].before = capability[q].before
        /\ capability'[q].alone = capability[q].alone /\ capability'[q].left = capability[q].left
        /\ capability'[q].existing = capability[q].existing
        /\ capability'[q].overtaken = (capability[q].overtaken \/ q \in capability[r].before)
  <2> SUFFICES ASSUME NEW q \in FrontierRuns \ {r}
               PROVE  /\ capability'[q] \in FrontierRunRecord
                      /\ capability'[q].pc = capability[q].pc /\ capability'[q].bundle = capability[q].bundle
                      /\ capability'[q].before = capability[q].before
                      /\ capability'[q].alone = capability[q].alone /\ capability'[q].left = capability[q].left
                      /\ capability'[q].existing = capability[q].existing
                      /\ capability'[q].overtaken = (capability[q].overtaken \/ q \in capability[r].before)
    OBVIOUS
  <2>1. CASE q \in capability[r].before
    <3> DEFINE c == capability[q]
    <3>1. c \in FrontierRunRecord /\ capability'[q] = [c EXCEPT !.overtaken = TRUE]
      BY <1>1, <1>3, <2>1
    <3> HIDE DEF c
    <3>2. /\ capability'[q] \in FrontierRunRecord
          /\ capability'[q].pc = c.pc /\ capability'[q].bundle = c.bundle
          /\ capability'[q].before = c.before
          /\ capability'[q].alone = c.alone /\ capability'[q].left = c.left
          /\ capability'[q].existing = c.existing /\ capability'[q].overtaken
      BY <3>1 DEF FrontierRunRecord
    <3>3. c.overtaken \in BOOLEAN
      BY <3>1 DEF FrontierRunRecord
    <3> QED BY <2>1, <3>2, <3>3 DEF c
  <2>2. CASE q \notin capability[r].before
    <3>1. capability'[q] = capability[q]
      BY <1>3, <2>2
    <3>2. capability[q] \in FrontierRunRecord /\ capability[q].overtaken \in BOOLEAN
      BY <1>1 DEF FrontierRunRecord
    <3> QED BY <2>2, <3>1, <3>2
  <2> QED BY <2>1, <2>2
<1>6. FrontierTypeOK'
  <2>1. capability' \in [FrontierRuns -> FrontierRunRecord]
    BY <1>4, <1>5 DEF RecordRetrieval
  <2>2. \A q \in FrontierRuns : capability'[q].pc \notin {"idle", "fetch"} => capability'[q].bundle \in Bundles
    BY <1>1, <1>4, <1>5 DEF FrontierInv, FrontierTypeOK
  <2>3. lastBundle' \in Bundles \cup {NoBundle} /\ appliedAlone' \in BOOLEAN
    BY <1>1 DEF RecordRetrieval
  <2> QED BY <2>1, <2>2, <2>3 DEF RecordRetrieval, FrontierInv, FrontierTypeOK, FrontierRunRecord, bundleAtSource,
                                  frontierPrices
<1>7. BegunInOrder'
  BY <1>1, <1>4, <1>5 DEF FrontierInv, BegunInOrder, Early
<1>8. FiledInOrder'
  <2>1. ASSUME NEW q \in FrontierRuns, NEW p \in FrontierRuns, q # p, capability'[p].pc \in FiledSteps,
               capability'[q].pc \in Early, q \in capability'[p].before
        PROVE  capability'[q].overtaken
    <3>1. CASE p = r
      BY <1>4, <1>5, <2>1, <3>1
    <3>2. CASE p # r
      <4>1. capability[p].pc \in FiledSteps /\ q \in capability[p].before /\ capability[q].pc \in Early
        BY <1>1, <1>4, <1>5, <2>1, <3>2 DEF Early
      <4>2. capability[q].overtaken
        BY <2>1, <4>1 DEF FrontierInv, FiledInOrder
      <4> QED BY <1>4, <1>5, <4>2
    <3> QED BY <3>1, <3>2
  <2>2. ASSUME NEW p \in FrontierRuns, capability'[p].pc \in FiledSteps, ~capability'[p].overtaken
        PROVE  lastBundle' = capability'[p].bundle
    <3>1. CASE p = r
      BY <1>4, <2>2, <3>1 DEF RecordRetrieval
    <3>2. CASE p # r
      <4>1. /\ capability[p].pc \in FiledSteps /\ ~capability[p].overtaken /\ p \notin capability[r].before
            /\ capability'[p].bundle = capability[p].bundle
        BY <1>5, <2>2, <3>2
      <4>2. r \in capability[p].before
        BY <1>1, <3>2, <4>1 DEF FrontierInv, BegunInOrder, Early, FiledSteps
      <4>3. capability[r].overtaken
        BY <1>1, <3>2, <4>1, <4>2 DEF FrontierInv, FiledInOrder, Early
      <4>4. lastBundle' = lastBundle
        BY <4>3 DEF RecordRetrieval
      <4> QED BY <4>1, <4>4 DEF FrontierInv, FiledInOrder
    <3> QED BY <3>1, <3>2
  <2> QED BY <2>1, <2>2 DEF FiledInOrder
<1>9. \A q \in FrontierRuns : AtCheck(q, "apply")' => q # r /\ AtCheck(q, "apply")
  BY <1>4, <1>5 DEF AtCheck
<1>10. AppliesAlone' /\ LastIsServed'
  <2>1. liveScore' = liveScore /\ appliedAlone' = FALSE
    BY DEF RecordRetrieval
  <2>2. AppliesAlone'
    BY <1>5, <1>9, <2>1 DEF FrontierInv, AppliesAlone, ResultsOf
  <2> QED BY <2>1, <2>2 DEF LastIsServed
<1> QED BY <1>6, <1>7, <1>8, <1>10 DEF FrontierInv

\* A run comes to its rows: it is alone there if nobody was, and nobody there is alone now.
LEMMA LoadKeeps == ASSUME FrontierInv, NEW r \in FrontierRuns, LoadObservations(r) PROVE FrontierInv'
<1> DEFINE beside == {q \in FrontierRuns : AtCheck(q, "apply")}
<1>1. /\ \A q \in FrontierRuns : capability[q] \in FrontierRunRecord
      /\ capability[r].bundle \in Bundles /\ capability[r].pc = "load"
      /\ liveScore \in [Results -> Nat]
  BY FrontierShapes DEF LoadObservations, AtCheck, FrontierInv, FrontierTypeOK
<1>2. capability'[r] = [capability[r] EXCEPT !.pc = "apply", !.existing = liveScore, !.replaced = {},
                                       !.left = ResultsOf(capability[r].bundle), !.alone = beside = {}]
  BY DEF LoadObservations
<1>3. \A q \in FrontierRuns \ {r} :
        capability'[q] = IF AtCheck(q, "apply") THEN [capability[q] EXCEPT !.alone = FALSE] ELSE capability[q]
  BY DEF LoadObservations
<1>4. /\ capability'[r] \in FrontierRunRecord /\ capability'[r].pc = "apply"
      /\ capability'[r].before = capability[r].before /\ capability'[r].bundle = capability[r].bundle
      /\ capability'[r].overtaken = capability[r].overtaken /\ capability'[r].existing = liveScore
      /\ capability'[r].left = ResultsOf(capability[r].bundle) /\ capability'[r].alone = (beside = {})
  <2>1. ResultsOf(capability[r].bundle) \in SUBSET Results
    BY <1>1, BundleShape
  <2>2. (beside = {}) \in BOOLEAN
    OBVIOUS
  <2> HIDE DEF beside
  <2> QED BY <1>1, <1>2, <2>1, <2>2 DEF FrontierRunRecord, CapabilitySteps
<1>5. \A q \in FrontierRuns \ {r} :
        /\ capability'[q] \in FrontierRunRecord
        /\ capability'[q].pc = capability[q].pc /\ capability'[q].bundle = capability[q].bundle
        /\ capability'[q].before = capability[q].before /\ capability'[q].overtaken = capability[q].overtaken
        /\ AtCheck(q, "apply") => ~capability'[q].alone
  <2> SUFFICES ASSUME NEW q \in FrontierRuns \ {r}
               PROVE  /\ capability'[q] \in FrontierRunRecord
                      /\ capability'[q].pc = capability[q].pc /\ capability'[q].bundle = capability[q].bundle
                      /\ capability'[q].before = capability[q].before
                      /\ capability'[q].overtaken = capability[q].overtaken
                      /\ AtCheck(q, "apply") => ~capability'[q].alone
    OBVIOUS
  <2>1. CASE AtCheck(q, "apply")
    <3>1. capability'[q] = [capability[q] EXCEPT !.alone = FALSE] /\ capability[q] \in FrontierRunRecord
      BY <1>1, <1>3, <2>1
    <3> QED BY <3>1 DEF FrontierRunRecord
  <2>2. CASE ~AtCheck(q, "apply")
    <3>1. capability'[q] = capability[q] /\ capability[q] \in FrontierRunRecord
      BY <1>1, <1>3, <2>2
    <3> QED BY <2>2, <3>1
  <2> QED BY <2>1, <2>2
<1>6. /\ UNCHANGED <<bundleAtSource, lastBundle, liveScore, linkedTo, catalogue, selection, heartbeat, lostRuns>>
      /\ appliedAlone' = FALSE
  BY DEF LoadObservations, frontierPrices
<1>7. FrontierTypeOK'
  <2>1. capability' \in [FrontierRuns -> FrontierRunRecord]
    BY <1>4, <1>5 DEF LoadObservations
  <2>2. \A q \in FrontierRuns : capability'[q].pc \notin {"idle", "fetch"} => capability'[q].bundle \in Bundles
    BY <1>1, <1>4, <1>5 DEF FrontierInv, FrontierTypeOK
  <2>3. /\ selection' \in BOOLEAN /\ heartbeat' \in {"none", "unchanged", "ingested", "failed"}
        /\ lastBundle' \in Bundles \cup {NoBundle} /\ liveScore' \in [Results -> Nat] /\ appliedAlone' \in BOOLEAN
    BY <1>6 DEF FrontierInv, FrontierTypeOK
  <2> QED BY <1>6, <2>1, <2>2, <2>3, TypedAgain DEF FrontierInv
<1>8. BegunInOrder'
  BY <1>1, <1>4, <1>5 DEF FrontierInv, BegunInOrder, Early
<1>9. FiledInOrder'
  BY <1>1, <1>4, <1>5, <1>6 DEF FrontierInv, FiledInOrder, Early, FiledSteps
<1>10. AppliesAlone'
  <2>1. ASSUME NEW q \in FrontierRuns, NEW p \in FrontierRuns, q # p, AtCheck(q, "apply")', AtCheck(p, "apply")'
        PROVE  ~capability'[p].alone
    <3>1. CASE p = r
      <4>1. q \in beside
        BY <1>5, <2>1, <3>1 DEF AtCheck
      <4> QED BY <1>4, <3>1, <4>1
    <3>2. CASE p # r
      BY <1>5, <2>1, <3>2 DEF AtCheck
    <3> QED BY <3>1, <3>2
  <2>2. ASSUME NEW p \in FrontierRuns, AtCheck(p, "apply")', capability'[p].alone
        PROVE  /\ \A k \in capability'[p].left : liveScore'[k] = capability'[p].existing[k]
               /\ \A k \in ResultsOf(capability'[p].bundle) \ capability'[p].left :
                    liveScore'[k] = capability'[p].bundle.score[k]
    <3>1. p = r
      BY <1>5, <2>2 DEF AtCheck
    <3> QED BY <1>4, <1>6, <3>1
  <2>3. \A p \in FrontierRuns : ResultsOf(capability[p].bundle)' = ResultsOf(capability'[p].bundle)
    BY DEF ResultsOf
  <2> HIDE DEF beside
  <2> QED BY <2>1, <2>2, <2>3 DEF AppliesAlone
<1>11. LastIsServed'
  BY <1>6 DEF LastIsServed
<1> QED BY <1>7, <1>8, <1>9, <1>10, <1>11 DEF FrontierInv
\* Either the row is as it was read, or another took it, or it becomes what the bundle says;
\* the last disturbs whoever else is at its rows, and such a one is not alone.
LEMMA ApplyKeeps ==
    ASSUME FrontierInv, NEW r \in FrontierRuns, NEW k \in Results, ApplyObservation(r, k)
    PROVE  FrontierInv'
<1> DEFINE score == capability[r].bundle.score[k]
           rest == [capability[r] EXCEPT !.left = @ \ {k}]
<1>1. /\ \A q \in FrontierRuns : capability[q] \in FrontierRunRecord
      /\ capability[r].bundle \in Bundles /\ capability[r].pc = "apply" /\ k \in capability[r].left
      /\ liveScore \in [Results -> Nat] /\ score \in Nat
  BY FrontierShapes, BundleShape DEF ApplyObservation, AtCheck, FrontierInv, FrontierTypeOK
<1>2. /\ rest \in FrontierRunRecord /\ rest.pc = "apply" /\ rest.bundle = capability[r].bundle
      /\ rest.before = capability[r].before /\ rest.overtaken = capability[r].overtaken
      /\ rest.alone = capability[r].alone /\ rest.existing = capability[r].existing
      /\ rest.left = capability[r].left \ {k}
  BY <1>1 DEF FrontierRunRecord
<1>3. UNCHANGED <<bundleAtSource, linkedTo, catalogue, selection, lastBundle, lostRuns, appliedAlone>>
  BY DEF ApplyObservation, frontierPrices
<1>4. /\ selection \in BOOLEAN /\ lostRuns \in 0..MaxFrontierFailures
      /\ heartbeat \in {"none", "unchanged", "ingested", "failed"}
      /\ lastBundle \in Bundles \cup {NoBundle} /\ appliedAlone = FALSE
  <2>1. AtCheck(r, "apply")
    BY DEF ApplyObservation
  <2>2. appliedAlone = FALSE
    BY <2>1 DEF FrontierInv, LastIsServed, FrontierTypeOK
  <2> QED BY <2>2 DEF FrontierInv, FrontierTypeOK
<1>5. CASE Reports(r, "failed") /\ UNCHANGED liveScore
  BY <1>3, <1>4, <1>5, EndsKeeps
<1>6. ASSUME capability' \in [FrontierRuns -> FrontierRunRecord], capability'[r] = rest, UNCHANGED heartbeat,
             liveScore' \in [Results -> Nat],
             \A q \in FrontierRuns \ {r} :
               /\ capability'[q].pc = capability[q].pc /\ capability'[q].bundle = capability[q].bundle
               /\ capability'[q].before = capability[q].before /\ capability'[q].overtaken = capability[q].overtaken
               /\ capability'[q].alone = capability[q].alone
               /\ capability'[q].left = capability[q].left /\ capability'[q].existing = capability[q].existing,
             \A j \in Results : j # k => liveScore'[j] = liveScore[j],
             (liveScore'[k] = liveScore[k] /\ capability[r].existing[k] = score) \/ liveScore'[k] = score,
             liveScore' = liveScore \/ \A q \in FrontierRuns \ {r} : AtCheck(q, "apply") => ~capability[q].alone
      PROVE  FrontierInv'
  <2>1. FrontierTypeOK'
    <3>1. \A q \in FrontierRuns : capability'[q].pc \notin {"idle", "fetch"} => capability'[q].bundle \in Bundles
      BY <1>1, <1>2, <1>6 DEF FrontierInv, FrontierTypeOK
    <3> HIDE DEF rest
    <3> QED BY <1>3, <1>4, <1>6, <3>1, TypedAgain DEF FrontierInv
  <2> HIDE DEF rest
  <2>2. BegunInOrder'
    BY <1>1, <1>2, <1>6 DEF FrontierInv, BegunInOrder, Early
  <2>3. FiledInOrder'
    BY <1>1, <1>2, <1>3, <1>6 DEF FrontierInv, FiledInOrder, Early, FiledSteps
  <2>4. \A q \in FrontierRuns : /\ AtCheck(q, "apply")' = AtCheck(q, "apply")
                                /\ capability'[q].alone = capability[q].alone
    BY <1>1, <1>2, <1>6 DEF AtCheck
  <2>5. \A q, p \in FrontierRuns : q # p /\ AtCheck(q, "apply")' /\ AtCheck(p, "apply")' => ~capability'[p].alone
    BY <2>4 DEF FrontierInv, AppliesAlone
  <2>6. ASSUME NEW p \in FrontierRuns, AtCheck(p, "apply")', capability'[p].alone
        PROVE  /\ \A j \in capability'[p].left : liveScore'[j] = capability'[p].existing[j]
               /\ \A j \in ResultsOf(capability'[p].bundle) \ capability'[p].left :
                    liveScore'[j] = capability'[p].bundle.score[j]
    <3>1. /\ \A j \in capability[p].left : liveScore[j] = capability[p].existing[j]
          /\ \A j \in ResultsOf(capability[p].bundle) \ capability[p].left :
               liveScore[j] = capability[p].bundle.score[j]
      BY <2>4, <2>6 DEF FrontierInv, AppliesAlone
    <3>2. capability[p].left \subseteq Results /\ ResultsOf(capability[p].bundle) \subseteq Results
      BY <1>1 DEF FrontierRunRecord, ResultsOf
    <3>3. CASE p = r
      <4>1. \A j \in capability'[p].left : liveScore'[j] = capability'[p].existing[j]
        BY <1>2, <1>6, <3>1, <3>2, <3>3
      <4>2. liveScore'[k] = score
        BY <1>1, <1>6, <3>1, <3>3
      <4>3. \A j \in ResultsOf(capability'[p].bundle) \ capability'[p].left :
              liveScore'[j] = capability'[p].bundle.score[j]
        BY <1>2, <1>6, <3>1, <3>2, <3>3, <4>2
      <4> QED BY <4>1, <4>3
    <3>4. CASE p # r
      <4>1. liveScore' = liveScore
        BY <1>6, <2>4, <2>6, <3>4
      <4> QED BY <1>6, <3>1, <3>4, <4>1
    <3> QED BY <3>3, <3>4
  <2>7. \A p \in FrontierRuns : ResultsOf(capability[p].bundle)' = ResultsOf(capability'[p].bundle)
    BY DEF ResultsOf
  <2>8. AppliesAlone'
    BY <2>5, <2>6, <2>7 DEF AppliesAlone
  <2>9. LastIsServed'
    BY <1>3, <1>4 DEF LastIsServed
  <2> QED BY <2>1, <2>2, <2>3, <2>8, <2>9 DEF FrontierInv
<1>7. CASE capability[r].existing[k] = score /\ CheckGoes(r, rest) /\ UNCHANGED <<liveScore, heartbeat>>
  <2>1. /\ capability' \in [FrontierRuns -> FrontierRunRecord] /\ capability'[r] = rest
        /\ \A q \in FrontierRuns \ {r} : capability'[q] = capability[q]
    <3>1. capability \in [FrontierRuns -> FrontierRunRecord] /\ rest \in FrontierRunRecord
      BY <1>2, FrontierShapes DEF FrontierInv
    <3> HIDE DEF rest
    <3> QED BY <1>7, <3>1 DEF CheckGoes
  <2> HIDE DEF rest, score
  <2> QED BY <1>1, <1>6, <1>7, <2>1
<1>8. CASE liveScore' = [liveScore EXCEPT ![k] = score] /\ Replaces(r, k, rest) /\ UNCHANGED heartbeat
  <2>1. capability'[r] = rest /\ DOMAIN capability' = FrontierRuns
        /\ \A q \in FrontierRuns \ {r} :
             capability'[q] = IF AtCheck(q, "apply") THEN [capability[q] EXCEPT !.replaced = @ \cup {k}]
                              ELSE capability[q]
    BY <1>8 DEF Replaces
  <2>2. ASSUME NEW q \in FrontierRuns \ {r}
        PROVE  /\ capability'[q] \in FrontierRunRecord
               /\ capability'[q].pc = capability[q].pc /\ capability'[q].bundle = capability[q].bundle
               /\ capability'[q].before = capability[q].before /\ capability'[q].overtaken = capability[q].overtaken
               /\ capability'[q].alone = capability[q].alone
               /\ capability'[q].left = capability[q].left /\ capability'[q].existing = capability[q].existing
    <3>1. CASE AtCheck(q, "apply")
      <4>1. capability'[q] = [capability[q] EXCEPT !.replaced = @ \cup {k}] /\ capability[q] \in FrontierRunRecord
        BY <1>1, <2>1, <3>1
      <4> QED BY <4>1 DEF FrontierRunRecord
    <3>2. CASE ~AtCheck(q, "apply")
      <4>1. capability'[q] = capability[q] /\ capability[q] \in FrontierRunRecord
        BY <1>1, <2>1, <3>2
      <4> QED BY <4>1
    <3> QED BY <3>1, <3>2
  <2>3. capability' \in [FrontierRuns -> FrontierRunRecord]
    <3> HIDE DEF rest
    <3>1. \A q \in FrontierRuns : capability'[q] \in FrontierRunRecord
      BY <1>2, <2>1, <2>2
    <3> QED BY <2>1, <3>1, <1>8 DEF Replaces
  <2>4. /\ liveScore' \in [Results -> Nat] /\ liveScore'[k] = score
        /\ \A j \in Results : j # k => liveScore'[j] = liveScore[j]
    BY <1>1, <1>8
  <2>5. \A q \in FrontierRuns \ {r} : AtCheck(q, "apply") => ~capability[q].alone
    BY <1>1 DEF FrontierInv, AppliesAlone, AtCheck
  <2> HIDE DEF rest, score
  <2> QED BY <1>6, <1>8, <2>1, <2>2, <2>3, <2>4, <2>5
<1> QED BY <1>5, <1>7, <1>8 DEF ApplyObservation

\* The last row done by a run alone and not overtaken, the last retrieval is live.
LEMMA AppliedKeeps == ASSUME FrontierInv, NEW r \in FrontierRuns, AllApplied(r) PROVE FrontierInv'
<1> DEFINE run == [NotChecking EXCEPT !.pc = "link", !.bundle = capability[r].bundle, !.seen = catalogue]
<1>1. /\ capability[r] \in FrontierRunRecord /\ capability[r].bundle \in Bundles
      /\ capability[r].pc = "apply" /\ capability[r].left = {}
      /\ linkedTo \in [Results -> {"none", "unmapped", "evidenced"}] /\ catalogue \in 0..2
  BY FrontierShapes DEF AllApplied, AtCheck, FrontierInv, FrontierTypeOK
<1>2. Along(r, run) /\ run.bundle \in Bundles /\ run.pc = "link"
  BY <1>1, NotCheckingShape DEF Along, FrontierRunRecord, CapabilitySteps, Early, FiledSteps
<1>3. CheckGoes(r, run)
  BY DEF AllApplied
<1>4. /\ UNCHANGED <<bundleAtSource, lastBundle, liveScore, linkedTo, catalogue, selection, heartbeat, lostRuns>>
      /\ appliedAlone' = (capability[r].alone /\ ~capability[r].overtaken)
  BY DEF AllApplied, frontierPrices
<1> HIDE DEF run
<1>5. /\ BegunInOrder' /\ FiledInOrder' /\ AppliesAlone'
      /\ \A q \in FrontierRuns : AtCheck(q, "apply")' => AtCheck(q, "apply")
  BY <1>2, <1>3, <1>4, GoesAlong DEF FrontierInv
<1>6. FrontierTypeOK'
  <2>1. run \in FrontierRunRecord
    BY <1>2 DEF Along
  <2>2. appliedAlone' \in BOOLEAN
    BY <1>1, <1>4 DEF FrontierRunRecord
  <2>3. /\ selection' \in BOOLEAN /\ heartbeat' \in {"none", "unchanged", "ingested", "failed"}
        /\ lastBundle' \in Bundles \cup {NoBundle} /\ liveScore' \in [Results -> Nat]
    BY <1>4 DEF FrontierInv, FrontierTypeOK
  <2> QED BY <1>2, <1>3, <1>4, <2>1, <2>2, <2>3, GoesTyped, TypedAgain DEF FrontierInv
<1>7. LastIsServed'
  <2>1. SUFFICES ASSUME appliedAlone'
                 PROVE  /\ \A q \in FrontierRuns : ~AtCheck(q, "apply")'
                        /\ (lastBundle # NoBundle => Agrees(lastBundle))'
    BY DEF LastIsServed
  <2>2. capability[r].alone /\ ~capability[r].overtaken
    BY <1>4, <2>1
  <2>3. \A q \in FrontierRuns \ {r} : ~AtCheck(q, "apply")
    BY <1>1, <2>2 DEF FrontierInv, AppliesAlone, AtCheck
  <2>4. ~AtCheck(r, "apply")'
    BY <1>2, <1>3, FrontierShapes DEF AtCheck, CheckGoes, FrontierInv
  <2>5. lastBundle = capability[r].bundle
    BY <1>1, <2>2 DEF FrontierInv, FiledInOrder, FiledSteps
  <2>6. \A k \in ResultsOf(capability[r].bundle) : liveScore[k] = capability[r].bundle.score[k]
    BY <1>1, <2>2 DEF FrontierInv, AppliesAlone, AtCheck
  <2>7. Agrees(lastBundle)'
    BY <1>4, <2>5, <2>6 DEF Agrees, ResultsOf
  <2> QED BY <1>5, <2>3, <2>4, <2>7
<1> QED BY <1>5, <1>6, <1>7 DEF FrontierInv

-----------------------------------------------------------------------------

LEMMA FrontierKept == FrontierInv /\ [FrontierNext]_frontierVars => FrontierInv'
<1> SUFFICES ASSUME FrontierInv, [FrontierNext]_frontierVars PROVE FrontierInv'
  OBVIOUS
<1>1. CASE BundleMoves \/ PriceRecorded
  BY <1>1, MovesKeep
<1>2. ASSUME NEW r \in FrontierRuns, FrontierStep(r) PROVE FrontierInv'
  BY <1>2, BeginKeeps, FetchBundleKeeps, CompareKeeps, RecordRetrievalKeeps, LoadKeeps, ApplyKeeps, AppliedKeeps, LinksKeep,
     PricesKeep, SelectionsKeep DEF FrontierStep
<1>3. ASSUME NEW r \in FrontierRuns, FrontierRunFails(r) PROVE FrontierInv'
  BY <1>3, FailureKeeps
<1>4. CASE UNCHANGED frontierVars
  BY <1>4 DEF frontierVars, bundleAtSource, frontierPrices, FrontierInv, FrontierTypeOK, BegunInOrder, FiledInOrder,
              AppliesAlone, LastIsServed, AtCheck, Agrees, ResultsOf
<1> QED BY <1>1, <1>2, <1>3, <1>4 DEF FrontierNext

\* A step of one run leaves the others where they are.
LEMMA OthersKeepPlace ==
    ASSUME FrontierInv, NEW q \in FrontierRuns, FrontierStep(q)
    PROVE  \A r \in FrontierRuns \ {q} : capability'[r].pc = capability[r].pc
<1> SUFFICES ASSUME NEW r \in FrontierRuns, r # q PROVE capability'[r].pc = capability[r].pc
  OBVIOUS
<1>1. capability \in [FrontierRuns -> FrontierRunRecord] /\ capability[r] \in FrontierRunRecord
  BY FrontierShapes DEF FrontierInv
<1>2. ASSUME NEW run, CheckGoes(q, run) PROVE capability'[r].pc = capability[r].pc
  BY <1>1, <1>2 DEF CheckGoes
<1>3. ASSUME NEW outcome, Reports(q, outcome) PROVE capability'[r].pc = capability[r].pc
  <2>1. capability'[r] = [capability[r] EXCEPT !.before = @ \ {q}]
    BY <1>3 DEF Reports
  <2> QED BY <1>1, <2>1 DEF FrontierRunRecord
<1>4. CASE RecordRetrieval(q)
  <2>1. capability'[r] = [capability[r] EXCEPT !.overtaken = TRUE] \/ capability'[r] = capability[r]
    BY <1>4 DEF RecordRetrieval
  <2> QED BY <1>1, <2>1 DEF FrontierRunRecord
<1>5. CASE LoadObservations(q)
  <2>1. capability'[r] = [capability[r] EXCEPT !.alone = FALSE] \/ capability'[r] = capability[r]
    BY <1>5 DEF LoadObservations
  <2> QED BY <1>1, <2>1 DEF FrontierRunRecord
<1>6. ASSUME NEW k \in Results, NEW rest, Replaces(q, k, rest) PROVE capability'[r].pc = capability[r].pc
  <2>1. capability'[r] = [capability[r] EXCEPT !.replaced = @ \cup {k}] \/ capability'[r] = capability[r]
    BY <1>6 DEF Replaces
  <2> QED BY <1>1, <2>1 DEF FrontierRunRecord
<1>7. ASSUME NEW k \in Results, ApplyObservation(q, k) PROVE capability'[r].pc = capability[r].pc
  BY <1>2, <1>3, <1>6, <1>7 DEF ApplyObservation
<1>8. ASSUME NEW force, BeginCheck(q, force) PROVE capability'[r].pc = capability[r].pc
  BY <1>2, <1>8 DEF BeginCheck
<1>9. FetchBundle(q) \/ AllApplied(q) \/ UpsertLinks(q) \/ ReadPrices(q) => capability'[r].pc = capability[r].pc
  BY <1>2 DEF FetchBundle, AllApplied, UpsertLinks, ReadPrices
<1>10. CompareBundle(q) => capability'[r].pc = capability[r].pc
  BY <1>2, <1>3 DEF CompareBundle
<1>11. RefreshPriceSelections(q) => capability'[r].pc = capability[r].pc
  BY <1>3 DEF RefreshPriceSelections
<1> QED BY <1>4, <1>5, <1>7, <1>8, <1>9, <1>10, <1>11 DEF FrontierStep

LEMMA FrontierAlways == FrontierSpec => []FrontierInv
<1> QED BY FrontierInitially, FrontierKept, PTL DEF FrontierSpec

\* Every run's record, the retrievals, the live rows, the links and the selection keep the
\* shape the tables give them, whatever overlaps or dies.
THEOREM FrontierTypeCorrect == FrontierSpec => []FrontierTypeOK
<1>1. FrontierInv => FrontierTypeOK
  BY DEF FrontierInv
<1> QED BY <1>1, FrontierAlways, PTL

\* A run answers "unchanged" from the bytes of the last retrieval (run.ts): its bundle is live,
\* unless the last retrieval's run did not apply it to its end or met another at its rows.
THEOREM UnchangedMeansServed == FrontierSpec => UnchangedIsServed
<1>1. ASSUME FrontierInv, [FrontierNext]_frontierVars, NEW r \in FrontierRuns,
             AtCheck(r, "compare"), capability'[r].pc = "idle", heartbeat' = "unchanged", lostRuns' = lostRuns,
             appliedAlone
      PROVE  Agrees(capability[r].bundle)
  <2>1. capability[r].pc = "compare" /\ capability[r].bundle \in Bundles /\ lostRuns \in Nat
    BY <1>1 DEF AtCheck, FrontierInv, FrontierTypeOK
  <2>2. capability' # capability
    BY <1>1, <2>1
  <2>3. PICK q \in FrontierRuns : FrontierStep(q) \/ FrontierRunFails(q)
    BY <1>1, <2>2 DEF FrontierNext, frontierVars, BundleMoves, PriceRecorded
  <2>4. FrontierStep(q)
    <3>1. FrontierRunFails(q) => lostRuns' = lostRuns + 1
      BY DEF FrontierRunFails
    <3> QED BY <1>1, <2>1, <2>3, <3>1
  <2>5. FrontierStep(r)
    BY <1>1, <2>1, <2>4, OthersKeepPlace
  <2>6. CompareBundle(r)
    BY <2>1, <2>5 DEF FrontierStep, BeginCheck, FetchBundle, RecordRetrieval, LoadObservations, ApplyObservation,
                      AllApplied, UpsertLinks, ReadPrices, RefreshPriceSelections, AtCheck
  <2>7. ~Reports(r, "failed")
    BY <1>1 DEF Reports
  <2>8. ~CheckGoes(r, [capability[r] EXCEPT !.pc = "record"])
    <3>1. SUFFICES ASSUME CheckGoes(r, [capability[r] EXCEPT !.pc = "record"]) PROVE FALSE
      OBVIOUS
    <3>2. capability \in [FrontierRuns -> FrontierRunRecord]
      BY <1>1, FrontierShapes DEF FrontierInv
    <3>3. capability'[r] = [capability[r] EXCEPT !.pc = "record"] /\ capability[r] \in FrontierRunRecord
      BY <3>1, <3>2 DEF CheckGoes
    <3>4. capability'[r].pc = "record"
      BY <3>3 DEF FrontierRunRecord
    <3> QED BY <1>1, <3>4
  <2>9. lastBundle = capability[r].bundle
    BY <2>6, <2>7, <2>8 DEF CompareBundle
  <2> QED BY <1>1, <2>1, <2>9, FrontierAssumption DEF FrontierInv, LastIsServed, FrontierAssumption
<1>2. FrontierInv /\ [FrontierNext]_frontierVars =>
        [\A r \in FrontierRuns :
           (/\ AtCheck(r, "compare") /\ capability'[r].pc = "idle" /\ heartbeat' = "unchanged"
            /\ lostRuns' = lostRuns /\ appliedAlone)
             => Agrees(capability[r].bundle)]_frontierVars
  BY <1>1
<1> QED BY <1>2, FrontierAlways, PTL DEF UnchangedIsServed, FrontierSpec

-----------------------------------------------------------------------------
(* The verification of token prices. *)

\* A nonempty set of naturals has a least.
LEMMA LeastIn ==
    ASSUME NEW K, K \subseteq Nat, K # {}
    PROVE  \E j \in K : \A i \in K : j <= i
<1>1. PICK j \in K : \A i \in K : ~(<<i, j>> \in OpToRel(<, Nat))
  BY NatLessThanWellFounded, WFMin
<1>2. \A i \in K : ~(i < j)
  BY <1>1 DEF OpToRel
<1> QED BY <1>2

\* A nonempty set of naturals that some number bounds has a greatest.
LEMMA GreatestIn ==
    ASSUME NEW n \in Nat, NEW K, K \subseteq 0..n, K # {}
    PROVE  \E j \in K : \A i \in K : i <= j
<1> DEFINE T == {n - j : j \in K}
<1>0. \A i \in K : i \in Nat /\ n - i \in Nat
  OBVIOUS
<1>1. T \subseteq Nat /\ T # {}
  BY <1>0
<1>2. PICK x \in T : \A y \in T : x <= y
  <2> HIDE DEF T
  <2> QED BY <1>1, LeastIn
<1>3. PICK j \in K : x = n - j
  OBVIOUS
<1>4. ASSUME NEW i \in K PROVE i <= j
  BY <1>2, <1>3
<1> QED BY <1>4

\* What Max gives.
LEMMA MaxIs ==
    ASSUME NEW n \in Nat, NEW K, K \subseteq 0..n, K # {}
    PROVE  Max(K) \in K /\ \A i \in K : i <= Max(K)
<1>1. \E j \in K : \A i \in K : j >= i
  BY GreatestIn
<1> QED BY <1>1 DEF Max

\* What SetToSeq gives: each member once.
LEMMA SetToSeqIs ==
    ASSUME NEW S, IsFiniteSet(S)
    PROVE  /\ Cardinality(S) \in Nat
           /\ SetToSeq(S) \in [1..Cardinality(S) -> S]
           /\ \A i, j \in 1..Cardinality(S) : SetToSeq(S)[i] = SetToSeq(S)[j] => i = j
           /\ \A x \in S : \E i \in 1..Cardinality(S) : SetToSeq(S)[i] = x
<1>1. Cardinality(S) \in Nat
  BY FS_CardinalityType
<1>2. \E f \in [1..Cardinality(S) -> S] : IsInjective(f)
  BY FS_CardinalityType DEF ExistsBijection, Bijection, Injection
<1> DEFINE f == SetToSeq(S)
<1>3. f \in [1..Cardinality(S) -> S] /\ IsInjective(f)
  BY <1>2 DEF SetToSeq
<1> HIDE DEF f
<1>4. \A i, j \in 1..Cardinality(S) : f[i] = f[j] => i = j
  BY <1>3 DEF IsInjective
<1>5. f \in Injection(1..Cardinality(S), S)
  BY <1>3 DEF Injection
<1>6. f \in Surjection(1..Cardinality(S), S)
  BY <1>5, <1>1, FS_Interval, FS_Injection
<1>7. \A x \in S : \E i \in 1..Cardinality(S) : f[i] = x
  BY <1>6 DEF Surjection
<1> QED BY <1>1, <1>3, <1>4, <1>7 DEF f

-----------------------------------------------------------------------------

PriceRow == [leg : Legs, price : Nat, page : Pages, at : Nat, beside : BOOLEAN]
FrozenState == [kind : {"value", "withheld"}, legs : [Legs -> Nat], at : Nat]
Command == [pc : {"idle", "persist", "freeze", "attest"}, page : Pages \cup {NoPage}, at : Nat,
            inserts : SUBSET Legs, catalog : SUBSET Nat, again : BOOLEAN, beside : BOOLEAN]

\* The types, and that everything names what there is.
TokenShapes ==
    /\ page \in Pages /\ designated \in BOOLEAN
    /\ reviews \in 0..MaxReviews /\ tokenDeaths \in 0..MaxTokenDeaths
    /\ retained \subseteq Pages
    /\ priceRows \in Seq(PriceRow)
    /\ benchmarks \in Seq(FrozenState)
    /\ attested \subseteq [page : Pages, at : 1..reviews, benchmark : DOMAIN benchmarks,
                           again : BOOLEAN, beside : BOOLEAN]
    /\ verifier \in [Verifiers -> Command]

TokenNames ==
    /\ \A k \in DOMAIN priceRows :
         priceRows[k].price > 0 /\ priceRows[k].page \in retained /\ priceRows[k].at \in 1..reviews
    /\ \A k \in DOMAIN benchmarks :
         /\ benchmarks[k].at \in 1..reviews
         /\ benchmarks[k].kind = "withheld" => benchmarks[k].legs = NoLegs
         /\ benchmarks[k].kind = "value" => designated /\ benchmarks[k].legs \in [Legs -> DOMAIN priceRows]
    /\ \A r \in Verifiers :
         /\ verifier[r].catalog \subseteq DOMAIN priceRows
         /\ verifier[r].pc # "idle" => verifier[r].page \in Pages /\ verifier[r].at \in 1..reviews
         /\ \A l \in verifier[r].inserts : verifier[r].page \in Pages /\ verifier[r].page.rate[l] > 0

\* The rows, their order and what was read, of any sequence of rows.
Clean(rows) == \A k \in DOMAIN rows : ~rows[k].beside

IsLegNow(rows, C, l, k) ==
    /\ k \in C /\ rows[k].leg = l
    /\ \A m \in C : rows[m].leg = l => rows[m].at <= rows[k].at

IsLegAt(rows, C, l, t, k) ==
    /\ k \in C /\ rows[k].leg = l /\ rows[k].at <= t
    /\ \A m \in C : rows[m].leg = l /\ rows[m].at <= t => rows[m].at <= rows[k].at

\* A command beside which nothing was written has all the rows, and they are older than its own.
Alone ==
    \A r \in Verifiers :
      verifier[r].pc # "idle" /\ ~verifier[r].beside =>
        /\ verifier[r].catalog = DOMAIN priceRows
        /\ verifier[r].pc = "persist" => \A k \in DOMAIN priceRows : priceRows[k].at < verifier[r].at

\* Where no row was written beside another command's, rows come in the order of their dates.
RatesInOrder ==
    Clean(priceRows) =>
      /\ \A k, m \in DOMAIN priceRows :
           priceRows[k].leg = priceRows[m].leg /\ priceRows[k].at = priceRows[m].at => k = m
      /\ \A r \in Verifiers : verifier[r].pc # "idle" =>
           \A m \in verifier[r].catalog : \A k \in DOMAIN priceRows \ verifier[r].catalog :
             priceRows[m].at < priceRows[k].at

\* A value is of the rows that were the latest at its moment, one of which is of that moment.
ValuesAreOfRows ==
    Clean(priceRows) =>
      \A k \in DOMAIN benchmarks : benchmarks[k].kind = "value" =>
        /\ \A l \in Legs : IsLegAt(priceRows, DOMAIN priceRows, l, benchmarks[k].at, benchmarks[k].legs[l])
        /\ \E l \in Legs : priceRows[benchmarks[k].legs[l]].at = benchmarks[k].at

\* What a command has read is filed, or is among what it will file.
ReadIsFiled ==
    Clean(priceRows) =>
      \A r \in Verifiers :
        verifier[r].pc # "idle" /\ ~verifier[r].beside /\ ~verifier[r].again /\ ListsBoth(verifier[r].page) =>
          \A l \in Legs :
            \/ verifier[r].pc = "persist" /\ l \in verifier[r].inserts
            \/ \E k \in verifier[r].catalog :
                 IsLegNow(priceRows, verifier[r].catalog, l, k) /\ priceRows[k].price = verifier[r].page.rate[l]

\* The benchmark's points, of any sequence of rows.
LegsOf(rows, C, t) ==
    [l \in Legs |->
       CHOOSE k \in {j \in {i \in C : rows[i].leg = l} : rows[j].at <= t} :
         \A m \in {j \in {i \in C : rows[i].leg = l} : rows[j].at <= t} : rows[m].at <= rows[k].at]
BlendOf(rows, legs) == rows[legs["input"]].price + rows[legs["output"]].price
EventsOf(rows, C) ==
    {t \in {rows[k].at : k \in C} :
       \A l \in Legs : {j \in {i \in C : rows[i].leg = l} : rows[j].at <= t} # {}}
MovedOf(rows, C, t) ==
    \/ {e \in EventsOf(rows, C) : e < t} = {}
    \/ BlendOf(rows, LegsOf(rows, C, Max({e \in EventsOf(rows, C) : e < t}))) # BlendOf(rows, LegsOf(rows, C, t))
PointsOf(rows, C) == {t \in EventsOf(rows, C) : MovedOf(rows, C, t)}

\* What a command beside which nothing was written attests to, it has frozen.
PointsAreFrozen ==
    \A r \in Verifiers :
      verifier[r].pc = "attest" /\ ~verifier[r].beside /\ designated =>
        \A t \in PointsOf(priceRows, verifier[r].catalog) :
          \E k \in DOMAIN benchmarks : benchmarks[k].legs = LegsOf(priceRows, verifier[r].catalog, t)

TokenInv ==
    /\ TokenShapes /\ TokenNames
    /\ Alone /\ RatesInOrder /\ ValuesAreOfRows /\ ReadIsFiled /\ PointsAreFrozen
    /\ AttestedAsRead

LEMMA SameLegs == \A C, t : LegsAt(C, t) = LegsOf(priceRows, C, t)
BY DEF LegsAt, LegsOf, LatestOf, KnownAt, OfLeg

LEMMA SameEvents == \A C : Events(C) = EventsOf(priceRows, C)
BY DEF Events, EventsOf, KnownAt, OfLeg

LEMMA SamePoints == \A C : Points(C) = PointsOf(priceRows, C)
<1> SUFFICES ASSUME NEW C PROVE Points(C) = PointsOf(priceRows, C)
  OBVIOUS
<1>1. ASSUME NEW t PROVE MovedAt(C, t) <=> MovedOf(priceRows, C, t)
  BY SameLegs, SameEvents DEF MovedAt, MovedOf, Blend, BlendOf
<1> QED BY <1>1, SameEvents DEF Points, PointsOf

\* Among some of the rows of a sequence, one is the latest.
LEMMA HasLatest ==
    ASSUME NEW n \in Nat, NEW rows, NEW ks, ks # {}, \A k \in ks : rows[k].at \in 0..n
    PROVE  \E k \in ks : \A m \in ks : rows[m].at <= rows[k].at
<1> DEFINE K == {rows[k].at : k \in ks}
<1>1. K \subseteq 0..n /\ K # {}
  OBVIOUS
<1>2. PICK j \in K : \A i \in K : i <= j
  <2> HIDE DEF K
  <2> QED BY <1>1, GreatestIn
<1> QED BY <1>2

\* What the legs at a moment are.
LEMMA LegsAreLatest ==
    ASSUME NEW n \in Nat, NEW rows, NEW C, \A k \in C : rows[k].at \in 0..n,
           NEW t \in EventsOf(rows, C)
    PROVE  /\ \A l \in Legs : IsLegAt(rows, C, l, t, LegsOf(rows, C, t)[l])
           /\ t \in 0..n
<1>1. t \in 0..n
  BY DEF EventsOf
<1>2. ASSUME NEW l \in Legs PROVE IsLegAt(rows, C, l, t, LegsOf(rows, C, t)[l])
  <2> DEFINE ks == {j \in {i \in C : rows[i].leg = l} : rows[j].at <= t}
             legs == LegsOf(rows, C, t)
  <2>1. ks # {} /\ \A k \in ks : rows[k].at \in 0..n
    BY DEF EventsOf
  <2>2. \E k \in ks : \A m \in ks : rows[m].at <= rows[k].at
    <3> HIDE DEF ks
    <3> QED BY <2>1, HasLatest
  <2>3. legs[l] = CHOOSE k \in ks : \A m \in ks : rows[m].at <= rows[k].at
    BY DEF LegsOf
  <2>4. legs[l] \in ks /\ \A m \in ks : rows[m].at <= rows[legs[l]].at
    <3> HIDE DEF ks, legs
    <3> QED BY <2>2, <2>3
  <2> HIDE DEF legs
  <2>5. IsLegAt(rows, C, l, t, legs[l])
    BY <2>4 DEF IsLegAt
  <2> QED BY <2>5 DEF legs
<1> QED BY <1>1, <1>2

\* One of the legs at a moment is of that moment.
LEMMA LegOfTheMoment ==
    ASSUME NEW n \in Nat, NEW rows, NEW C, \A k \in C : rows[k].at \in 0..n /\ rows[k].leg \in Legs,
           NEW t \in EventsOf(rows, C)
    PROVE  \E l \in Legs : rows[LegsOf(rows, C, t)[l]].at = t
<1>1. PICK k \in C : rows[k].at = t
  BY DEF EventsOf
<1> DEFINE l == rows[k].leg
           j == LegsOf(rows, C, t)[l]
<1>2. IsLegAt(rows, C, l, t, j)
  BY LegsAreLatest
<1>3. rows[j].at <= t /\ t <= rows[j].at /\ j \in C
  BY <1>1, <1>2 DEF IsLegAt
<1>4. rows[j].at = t
  <2> HIDE DEF j
  <2> QED BY <1>3, <1>1
<1> QED BY <1>4

\* Of the rows of a leg up to a moment one is the latest, where no two are of one date.
LEMMA OneLegAt ==
    ASSUME NEW n \in Nat, NEW rows, NEW C, \A k \in C : rows[k].at \in 0..n,
           \A k, m \in C : rows[k].leg = rows[m].leg /\ rows[k].at = rows[m].at => k = m,
           NEW l, NEW t, NEW k, IsLegAt(rows, C, l, t, k), NEW m, IsLegAt(rows, C, l, t, m)
    PROVE  k = m
<1>1. k \in C /\ m \in C /\ rows[k].leg = rows[m].leg
  BY DEF IsLegAt
<1>2. rows[k].at <= rows[m].at /\ rows[m].at <= rows[k].at
  BY DEF IsLegAt
<1>3. rows[k].at = rows[m].at
  BY <1>1, <1>2
<1> QED BY <1>1, <1>3

\* The moments are the dates of rows at which each leg has one.
LEMMA MomentIs ==
    ASSUME NEW rows, NEW C, NEW t, \E k \in C : rows[k].at = t,
           \A l \in Legs : \E k \in C : rows[k].leg = l /\ rows[k].at <= t
    PROVE  t \in EventsOf(rows, C)
BY DEF EventsOf

\* The legs at a moment are those that are the latest.
LEMMA LegsDecided ==
    ASSUME NEW n \in Nat, NEW rows, NEW C, \A k \in C : rows[k].at \in 0..n,
           \A k, m \in C : rows[k].leg = rows[m].leg /\ rows[k].at = rows[m].at => k = m,
           NEW t \in EventsOf(rows, C), NEW legs \in [Legs -> C],
           \A l \in Legs : IsLegAt(rows, C, l, t, legs[l])
    PROVE  legs = LegsOf(rows, C, t)
<1>1. ASSUME NEW l \in Legs PROVE legs[l] = LegsOf(rows, C, t)[l]
  BY LegsAreLatest, OneLegAt
<1>2. DOMAIN LegsOf(rows, C, t) = Legs
  BY DEF LegsOf
<1>3. LegsOf(rows, C, t) = [l \in Legs |-> LegsOf(rows, C, t)[l]]
  BY DEF LegsOf
<1> QED BY <1>1, <1>3

\* Between two moments of different prices there is a point.
LEMMA PointBetween ==
    ASSUME NEW n \in Nat, NEW rows, NEW C, \A k \in C : rows[k].at \in 0..n,
           NEW t \in EventsOf(rows, C), NEW u \in EventsOf(rows, C), t <= u,
           BlendOf(rows, LegsOf(rows, C, t)) # BlendOf(rows, LegsOf(rows, C, u))
    PROVE  \E e \in PointsOf(rows, C) : t < e
<1> DEFINE E == EventsOf(rows, C)
           B(e) == BlendOf(rows, LegsOf(rows, C, e))
           Moved == {e \in E : t < e /\ B(e) # B(t)}
<1>1. \A e \in E : e \in 0..n
  BY LegsAreLatest
<1>2. u \in Moved
  BY <1>1
<1>3. Moved \subseteq Nat /\ Moved # {}
  BY <1>1, <1>2
<1>4. PICK e \in Moved : \A f \in Moved : e <= f
  <2> HIDE DEF Moved
  <2> QED BY <1>3, LeastIn
<1> DEFINE Earlier == {f \in E : f < e}
           m == Max(Earlier)
<1>5. Earlier \subseteq 0..n /\ t \in Earlier
  BY <1>1, <1>4
<1>6. m \in Earlier /\ \A f \in Earlier : f <= m
  <2> HIDE DEF Earlier
  <2> QED BY <1>5, MaxIs
<1> HIDE DEF m
<1>7. m \in E /\ m < e /\ t <= m /\ m \in Nat /\ e \in Nat /\ t \in Nat
  BY <1>1, <1>5, <1>6
<1>8. B(m) = B(t)
  <2>1. CASE m = t
    BY <2>1
  <2>2. CASE t < m
    <3> HIDE DEF B
    <3>1. m \notin Moved
      BY <1>4, <1>7
    <3> QED BY <3>1, <2>2, <1>7
  <2> QED BY <2>1, <2>2, <1>7
<1>9. B(m) # B(e)
  BY <1>4, <1>8
<1>10. MovedOf(rows, C, e)
  BY <1>9 DEF MovedOf, m
<1> QED BY <1>4, <1>10 DEF PointsOf

-----------------------------------------------------------------------------

\* What TokenShapes and TokenNames say of rows and values.
LEMMA RowsShaped ==
    ASSUME TokenShapes, TokenNames
    PROVE  /\ reviews \in Nat
           /\ \A k \in DOMAIN priceRows : /\ priceRows[k] \in PriceRow /\ priceRows[k].leg \in Legs
                                          /\ priceRows[k].at \in 0..reviews /\ k \in Nat /\ k # 0
           /\ \A k \in DOMAIN benchmarks : benchmarks[k] \in FrozenState /\ benchmarks[k].at \in Nat
<1>1. reviews \in Nat
  BY TokenAssumption DEF TokenShapes
<1>2. \A k \in DOMAIN priceRows : priceRows[k] \in PriceRow /\ k \in Nat /\ k # 0
  BY DEF TokenShapes
<1>3. \A k \in DOMAIN priceRows : priceRows[k].at \in 0..reviews
  BY <1>1 DEF TokenNames
<1>4. \A k \in DOMAIN benchmarks : benchmarks[k] \in FrozenState
  BY DEF TokenShapes
<1> QED BY <1>1, <1>2, <1>3, <1>4 DEF PriceRow, FrozenState

\* What stands when a command attests, nothing having been written beside it or beside what it
\* has read, is the page's own.
LEMMA StandingAsRead ==
    ASSUME TokenInv, NEW r \in Verifiers, verifier[r].pc = "attest", ~verifier[r].beside,
           ~verifier[r].again, ListsBoth(verifier[r].page),
           \A m \in verifier[r].catalog : ~priceRows[m].beside,
           NEW k \in Standing, benchmarks[k].kind = "value"
    PROVE  Blend(benchmarks[k].legs) = PageBlend(verifier[r].page)
<1> DEFINE C == DOMAIN priceRows
           t == benchmarks[k].at
           rate == verifier[r].page.rate
<1>1. verifier[r].catalog = C /\ Clean(priceRows)
  BY DEF TokenInv, Alone, Clean
<1>2. /\ reviews \in Nat
      /\ \A j \in C : priceRows[j].at \in 0..reviews /\ priceRows[j].leg \in Legs
  BY RowsShaped DEF TokenInv
<1>3. \A j, m \in C : priceRows[j].leg = priceRows[m].leg /\ priceRows[j].at = priceRows[m].at => j = m
  BY <1>1 DEF TokenInv, RatesInOrder
<1>4. k \in DOMAIN benchmarks /\ \A m \in DOMAIN benchmarks : benchmarks[m].at <= t
  BY DEF Standing
<1>5. /\ designated /\ benchmarks[k].legs \in [Legs -> C]
      /\ \A l \in Legs : IsLegAt(priceRows, C, l, t, benchmarks[k].legs[l])
      /\ \E l \in Legs : priceRows[benchmarks[k].legs[l]].at = t
  BY <1>1, <1>4 DEF TokenInv, TokenNames, ValuesAreOfRows
<1>6. \A l \in Legs : \E j \in C : IsLegNow(priceRows, C, l, j) /\ priceRows[j].price = rate[l]
  BY <1>1 DEF TokenInv, ReadIsFiled
<1>7. PICK a \in C : IsLegNow(priceRows, C, "input", a) /\ priceRows[a].price = rate["input"]
  BY <1>6 DEF Legs
<1>8. PICK b \in C : IsLegNow(priceRows, C, "output", b) /\ priceRows[b].price = rate["output"]
  BY <1>6 DEF Legs
<1>9. PICK u \in {priceRows[a].at, priceRows[b].at} : priceRows[a].at <= u /\ priceRows[b].at <= u
  BY <1>2, <1>7, <1>8
<1> DEFINE now == [l \in Legs |-> IF l = "input" THEN a ELSE b]
<1>10. \A l \in Legs : IsLegAt(priceRows, C, l, u, now[l])
  BY <1>7, <1>8, <1>9 DEF IsLegAt, IsLegNow, Legs
<1>11. u \in EventsOf(priceRows, C)
  <2>1. \A l \in Legs : now[l] \in C /\ priceRows[now[l]].leg = l /\ priceRows[now[l]].at <= u
    BY <1>10 DEF IsLegAt
  <2>2. \E j \in C : priceRows[j].at = u
    BY <1>7, <1>8, <1>9
  <2> HIDE DEF now
  <2> QED BY <2>1, <2>2, MomentIs
<1>12. now = LegsOf(priceRows, C, u)
  <2>1. now \in [Legs -> C]
    OBVIOUS
  <2> HIDE DEF now
  <2>2. \A j \in C : priceRows[j].at \in 0..reviews
    BY <1>2
  <2> HIDE DEF C
  <2> QED BY <2>1, <2>2, <1>2, <1>3, <1>10, <1>11, LegsDecided
<1>13. BlendOf(priceRows, LegsOf(priceRows, C, u)) = PageBlend(verifier[r].page)
  BY <1>12, <1>7, <1>8 DEF BlendOf, PageBlend, Legs
<1>14. t \in EventsOf(priceRows, C) /\ t <= u
  <2>1. \A l \in Legs : LET j == benchmarks[k].legs[l] IN
                          j \in C /\ priceRows[j].leg = l /\ priceRows[j].at <= t
    BY <1>5 DEF IsLegAt
  <2>2. PICK l \in Legs : priceRows[benchmarks[k].legs[l]].at = t
    BY <1>5
  <2>3. t \in EventsOf(priceRows, C)
    BY <2>1, <2>2, MomentIs
  <2>4. IsLegAt(priceRows, C, l, u, now[l]) /\ IsLegNow(priceRows, C, l, now[l])
    BY <1>10, <1>7, <1>8 DEF Legs
  <2>5. t <= priceRows[now[l]].at /\ priceRows[now[l]].at <= u /\ now[l] \in C
    BY <2>1, <2>2, <2>4 DEF IsLegAt, IsLegNow
  <2>6. t \in Nat /\ u \in Nat /\ priceRows[now[l]].at \in Nat
    BY <2>5, <1>2, <1>4, <1>7, <1>8, <1>9, RowsShaped DEF TokenInv
  <2> HIDE DEF now, t
  <2>7. t <= u
    BY <2>5, <2>6
  <2> QED BY <2>3, <2>7
<1>15. benchmarks[k].legs = LegsOf(priceRows, C, t)
  <2>1. \A j \in C : priceRows[j].at \in 0..reviews
    BY <1>2
  <2> HIDE DEF C, t
  <2> QED BY <2>1, <1>2, <1>3, <1>5, <1>14, LegsDecided
<1>16. BlendOf(priceRows, LegsOf(priceRows, C, t)) = BlendOf(priceRows, LegsOf(priceRows, C, u))
  <2> SUFFICES ASSUME BlendOf(priceRows, LegsOf(priceRows, C, t)) # BlendOf(priceRows, LegsOf(priceRows, C, u))
               PROVE  FALSE
    OBVIOUS
  <2>1. PICK e \in PointsOf(priceRows, C) : t < e
    BY <1>2, <1>11, <1>14, PointBetween
  <2>2. PICK m \in DOMAIN benchmarks : benchmarks[m].legs = LegsOf(priceRows, C, e)
    BY <1>1, <1>5 DEF TokenInv, PointsAreFrozen
  <2>3. e \in EventsOf(priceRows, C)
    BY DEF PointsOf
  <2>4. \A l \in Legs : IsLegAt(priceRows, C, l, e, benchmarks[m].legs[l])
    BY <1>2, <2>2, <2>3, LegsAreLatest
  <2>5. PICK l \in Legs : priceRows[benchmarks[m].legs[l]].at = e
    BY <1>2, <2>2, <2>3, LegOfTheMoment
  <2>6. benchmarks[m].kind = "value"
    <3>1. benchmarks[m].legs["input"] # 0
      BY <2>4, RowsShaped DEF TokenInv, IsLegAt, Legs
    <3>2. benchmarks[m].legs # NoLegs
      BY <3>1 DEF NoLegs, Legs
    <3>3. benchmarks[m].kind \in {"value", "withheld"}
      BY RowsShaped DEF TokenInv, FrozenState
    <3> QED BY <3>2, <3>3 DEF TokenInv, TokenNames
  <2>7. \A q \in Legs : IsLegAt(priceRows, C, q, benchmarks[m].at, benchmarks[m].legs[q])
    BY <1>1, <2>6 DEF TokenInv, ValuesAreOfRows
  <2>8. e <= benchmarks[m].at
    BY <2>5, <2>7 DEF IsLegAt
  <2>9. benchmarks[m].at \in Nat /\ t \in Nat /\ e \in 0..reviews
    BY <1>2, <1>4, <2>3, RowsShaped, LegsAreLatest DEF TokenInv
  <2> QED BY <1>4, <2>1, <2>8, <2>9
<1>17. Blend(benchmarks[k].legs) = BlendOf(priceRows, LegsOf(priceRows, C, t))
  BY <1>15 DEF Blend, BlendOf
<1> QED BY <1>13, <1>16, <1>17

-----------------------------------------------------------------------------

\* What a command's own step leaves of the others.
LEMMA TurnsShape ==
    ASSUME TokenShapes, NEW r \in Verifiers, NEW run \in Command, Turns(r, run)
    PROVE  /\ verifier' \in [Verifiers -> Command] /\ verifier'[r] = run
           /\ \A q \in Verifiers : q # r => verifier'[q] = verifier[q]
BY DEF TokenShapes, Turns

\* What a commit makes of the others.
LEMMA CommitsShape ==
    ASSUME TokenShapes, NEW r \in Verifiers, NEW run \in Command, Commits(r, run)
    PROVE  /\ verifier' \in [Verifiers -> Command] /\ verifier'[r] = run
           /\ \A q \in Verifiers : q # r =>
                /\ verifier'[q].pc = verifier[q].pc /\ verifier'[q].page = verifier[q].page
                /\ verifier'[q].at = verifier[q].at /\ verifier'[q].inserts = verifier[q].inserts
                /\ verifier'[q].catalog = verifier[q].catalog
                /\ verifier'[q].again = verifier[q].again
                /\ verifier'[q].pc # "idle" => verifier'[q].beside
<1>1. ASSUME NEW q \in Verifiers, q # r
      PROVE  /\ verifier'[q] \in Command
             /\ verifier'[q].pc = verifier[q].pc /\ verifier'[q].page = verifier[q].page
             /\ verifier'[q].at = verifier[q].at /\ verifier'[q].inserts = verifier[q].inserts
             /\ verifier'[q].catalog = verifier[q].catalog
             /\ verifier'[q].again = verifier[q].again
             /\ verifier'[q].pc # "idle" => verifier'[q].beside
  <2> DEFINE v == verifier[q]
  <2>1. v \in Command
    BY DEF TokenShapes
  <2>2. verifier'[q] = IF v.pc = "idle" THEN v ELSE [v EXCEPT !.beside = TRUE]
    BY <1>1 DEF Commits, AtToken
  <2> HIDE DEF v
  <2>3. verifier'[q] \in Command
    BY <2>1, <2>2 DEF Command
  <2>4. /\ verifier'[q].pc = v.pc /\ verifier'[q].page = v.page
        /\ verifier'[q].at = v.at /\ verifier'[q].inserts = v.inserts
        /\ verifier'[q].catalog = v.catalog
        /\ verifier'[q].again = v.again
        /\ verifier'[q].pc # "idle" => verifier'[q].beside
    BY <2>1, <2>2 DEF Command
  <2> QED BY <2>3, <2>4 DEF v
<1>2. verifier'[r] = run
  BY DEF Commits
<1>3. \E f : verifier' = [q \in Verifiers |-> f[q]]
  <2>1. verifier' = [q \in Verifiers |-> verifier'[q]]
    BY DEF Commits
  <2> QED BY <2>1
<1> QED BY <1>1, <1>2, <1>3

\* A command that ends, or that a page moves past, disturbs nothing.
LEMMA NothingWritten ==
    ASSUME TokenInv, UNCHANGED <<designated, retained, priceRows, benchmarks>>,
           page' \in Pages, reviews' = reviews, tokenDeaths' \in 0..MaxTokenDeaths,
           attested' = attested,
           verifier' \in [Verifiers -> Command],
           \A q \in Verifiers : verifier'[q] = verifier[q]
                                \/ verifier'[q] = Unread
    PROVE  TokenInv'
<1>0. /\ Unread.pc = "idle" /\ Unread.catalog = {} /\ Unread.inserts = {}
  BY DEF Unread
<1>1. TokenShapes'
  BY DEF TokenInv, TokenShapes
<1>2. TokenNames'
  BY <1>0, SMTT(30) DEF TokenInv, TokenNames
<1>3. Alone'
  BY <1>0 DEF TokenInv, Alone
<1>4. RatesInOrder'
  BY <1>0 DEF TokenInv, RatesInOrder
<1>5. ValuesAreOfRows'
  BY DEF TokenInv, ValuesAreOfRows
<1>6. ReadIsFiled'
  BY <1>0 DEF TokenInv, ReadIsFiled
<1>7. PointsAreFrozen'
  BY <1>0 DEF TokenInv, PointsAreFrozen
<1>8. AttestedAsRead'
  BY DEF TokenInv, AttestedAsRead, Blend
<1> QED BY <1>1, <1>2, <1>3, <1>4, <1>5, <1>6, <1>7, <1>8 DEF TokenInv

LEMMA UnreadShape == Unread \in Command
BY DEF Unread, Command

LEMMA PageMovesKeep == TokenInv /\ PageMoves => TokenInv'
<1> SUFFICES ASSUME TokenInv, PageMoves PROVE TokenInv'
  OBVIOUS
<1> QED BY NothingWritten DEF TokenInv, TokenShapes, PageMoves

LEMMA DeathKeeps == ASSUME TokenInv, NEW r \in Verifiers, VerifierDies(r) PROVE TokenInv'
<1>1. /\ verifier' \in [Verifiers -> Command] /\ verifier'[r] = Unread
      /\ \A q \in Verifiers : q # r => verifier'[q] = verifier[q]
  BY UnreadShape, TurnsShape DEF TokenInv, VerifierDies
<1>2. tokenDeaths' \in 0..MaxTokenDeaths
  BY TokenAssumption DEF VerifierDies, TokenInv, TokenShapes
<1> QED BY <1>1, <1>2, NothingWritten DEF VerifierDies, TokenInv, TokenShapes

\* The rates that have not changed are those of the latest rows.
LEMMA UnchangedIsNow ==
    ASSUME TokenInv, NEW l \in Legs, NEW p, p.rate[l] > 0, l \notin Changed(DOMAIN priceRows, p)
    PROVE  \E k \in DOMAIN priceRows :
             IsLegNow(priceRows, DOMAIN priceRows, l, k) /\ priceRows[k].price = p.rate[l]
<1> DEFINE C == DOMAIN priceRows
           ks == {i \in C : priceRows[i].leg = l}
           k == CHOOSE i \in ks : \A m \in ks : priceRows[m].at <= priceRows[i].at
<1>1. ks # {} /\ priceRows[k].price = p.rate[l]
  BY DEF Changed, OfLeg, LatestOf
<1>2. reviews \in Nat /\ \A i \in ks : priceRows[i].at \in 0..reviews
  BY RowsShaped DEF TokenInv
<1>3. \E i \in ks : \A m \in ks : priceRows[m].at <= priceRows[i].at
  <2> HIDE DEF ks
  <2> QED BY <1>1, <1>2, HasLatest
<1>4. k \in ks /\ \A m \in ks : priceRows[m].at <= priceRows[k].at
  <2> HIDE DEF ks
  <2> QED BY <1>3
<1> HIDE DEF k
<1> QED BY <1>1, <1>4 DEF IsLegNow

LEMMA VerifyKeeps == ASSUME TokenInv, NEW r \in Verifiers, Verify(r) PROVE TokenInv'
<1> DEFINE C == DOMAIN priceRows
           inserts == NewRates(C, page)
           again == Observed(C, page) /\ Changed(C, page) # {}
           run == [Unread EXCEPT !.pc = "persist", !.page = page, !.at = reviews + 1,
                                 !.inserts = inserts, !.catalog = C, !.again = again]
<1>1. /\ page' = page /\ UNCHANGED <<designated, retained, priceRows, benchmarks, attested, tokenDeaths>>
      /\ reviews' = reviews + 1 /\ reviews < MaxReviews
      /\ page \in Pages /\ reviews \in Nat /\ MaxReviews \in Nat
  BY TokenAssumption DEF Verify, TokenInv, TokenShapes
<1>2. inserts \subseteq Legs /\ \A l \in inserts : page.rate[l] > 0
  BY DEF NewRates, Changed
<1>3. /\ run \in Command
      /\ run.pc = "persist" /\ run.page = page /\ run.at = reviews + 1 /\ run.inserts = inserts
      /\ run.catalog = C /\ run.again = again /\ ~run.beside
  <2>1. C \subseteq Nat /\ again \in BOOLEAN
    BY DEF TokenInv, TokenShapes
  <2>2. Unread \in Command /\ ~Unread.beside
    BY DEF Unread, Command
  <2> HIDE DEF inserts, C, again
  <2>3. page \in Pages \cup {NoPage} /\ reviews + 1 \in Nat /\ inserts \in SUBSET Legs /\ C \in SUBSET Nat
    BY <1>1, <1>2, <2>1
  <2> DEFINE at == reviews + 1
  <2> HIDE DEF at
  <2>4. run \in Command
    BY <2>1, <2>2, <2>3 DEF Command, at
  <2>5. /\ run.pc = "persist" /\ run.page = page /\ run.at = reviews + 1 /\ run.inserts = inserts
        /\ run.catalog = C /\ run.again = again /\ ~run.beside
    BY <2>1, <2>2, <2>3 DEF Command
  <2> QED BY <2>4, <2>5
<1>4. /\ verifier' \in [Verifiers -> Command]
      /\ \A q \in Verifiers : q # r => verifier'[q] = verifier[q]
      /\ verifier'[r] = verifier[r] \/ verifier'[r] = run
  <2>1. CASE verifier' = verifier
    BY <2>1 DEF TokenInv, TokenShapes
  <2>2. CASE verifier' # verifier
    <3>1. Turns(r, run)
      BY <2>2, Zenon DEF Verify
    <3> HIDE DEF run
    <3> QED BY <3>1, <1>3, TurnsShape DEF TokenInv
  <2> QED BY <2>1, <2>2
<1>5. \A k \in C : priceRows[k].at \in 1..reviews
  BY DEF TokenInv, TokenNames
<1>6. Clean(priceRows) /\ ~again /\ ListsBoth(page) =>
        \A l \in Legs : \/ l \in inserts
                        \/ \E k \in C : IsLegNow(priceRows, C, l, k) /\ priceRows[k].price = page.rate[l]
  <2> SUFFICES ASSUME ~again, ListsBoth(page), NEW l \in Legs, l \notin inserts
               PROVE  \E k \in C : IsLegNow(priceRows, C, l, k) /\ priceRows[k].price = page.rate[l]
    OBVIOUS
  <2>1. l \notin Changed(C, page)
    BY DEF NewRates
  <2> QED BY <2>1, UnchangedIsNow DEF ListsBoth
<1> HIDE DEF inserts, run, again
<1>7. TokenShapes'
  BY <1>1, <1>4 DEF TokenInv, TokenShapes
<1>8. TokenNames'
  <2>1. \A k \in DOMAIN priceRows : priceRows[k].at \in 1..reviews'
    BY <1>1, <1>5
  <2>2. \A k \in DOMAIN benchmarks : benchmarks[k].at \in 1..reviews'
    BY <1>1 DEF TokenInv, TokenNames
  <2>3. ASSUME NEW q \in Verifiers
        PROVE  /\ verifier'[q].catalog \subseteq DOMAIN priceRows
               /\ verifier'[q].pc # "idle" => verifier'[q].page \in Pages /\ verifier'[q].at \in 1..reviews'
               /\ \A l \in verifier'[q].inserts : verifier'[q].page \in Pages /\ verifier'[q].page.rate[l] > 0
    <3>1. CASE verifier'[q] = verifier[q]
      BY <1>1, <3>1 DEF TokenInv, TokenNames
    <3>2. CASE verifier'[q] = run
      BY <1>1, <1>2, <1>3, <3>2
    <3> QED BY <3>1, <3>2, <1>4
  <2> QED BY <1>1, <2>1, <2>2, <2>3 DEF TokenInv, TokenNames
<1>9. Alone'
  <2> SUFFICES ASSUME NEW q \in Verifiers, verifier'[q].pc # "idle", ~verifier'[q].beside
               PROVE  /\ verifier'[q].catalog = C
                      /\ verifier'[q].pc = "persist" => \A k \in C : priceRows[k].at < verifier'[q].at
    BY <1>1 DEF Alone
  <2>1. CASE verifier'[q] = verifier[q]
    BY <2>1 DEF TokenInv, Alone
  <2>2. CASE verifier'[q] = run
    BY <1>1, <1>3, <1>5, <2>2
  <2> QED BY <2>1, <2>2, <1>4
<1>10. RatesInOrder'
  <2> SUFFICES ASSUME Clean(priceRows), NEW q \in Verifiers, verifier'[q].pc # "idle"
               PROVE  \A m \in verifier'[q].catalog : \A k \in C \ verifier'[q].catalog :
                        priceRows[m].at < priceRows[k].at
    BY <1>1 DEF TokenInv, RatesInOrder
  <2>1. CASE verifier'[q] = verifier[q]
    BY <2>1 DEF TokenInv, RatesInOrder
  <2>2. CASE verifier'[q] = run
    BY <1>3, <2>2
  <2> QED BY <2>1, <2>2, <1>4
<1>11. ValuesAreOfRows'
  BY <1>1 DEF TokenInv, ValuesAreOfRows
<1>12. ReadIsFiled'
  <2> SUFFICES ASSUME Clean(priceRows), NEW q \in Verifiers, verifier'[q].pc # "idle",
                      ~verifier'[q].beside, ~verifier'[q].again, ListsBoth(verifier'[q].page),
                      NEW l \in Legs
               PROVE  \/ verifier'[q].pc = "persist" /\ l \in verifier'[q].inserts
                      \/ \E k \in verifier'[q].catalog :
                           /\ IsLegNow(priceRows, verifier'[q].catalog, l, k)
                           /\ priceRows[k].price = verifier'[q].page.rate[l]
    BY <1>1 DEF ReadIsFiled, ListsBoth
  <2>1. CASE verifier'[q] = verifier[q]
    BY <2>1 DEF TokenInv, ReadIsFiled
  <2>2. CASE verifier'[q] = run
    BY <1>3, <1>6, <2>2
  <2> QED BY <2>1, <2>2, <1>4
<1>13. PointsAreFrozen'
  <2> SUFFICES ASSUME NEW q \in Verifiers, verifier'[q].pc = "attest", ~verifier'[q].beside, designated,
                      NEW t \in PointsOf(priceRows, verifier'[q].catalog)
               PROVE  \E k \in DOMAIN benchmarks :
                        benchmarks[k].legs = LegsOf(priceRows, verifier'[q].catalog, t)
    BY <1>1 DEF PointsAreFrozen
  <2>1. verifier'[q] = verifier[q]
    BY <1>3, <1>4
  <2> QED BY <2>1 DEF TokenInv, PointsAreFrozen
<1>14. AttestedAsRead'
  BY <1>1 DEF TokenInv, AttestedAsRead, Blend
<1> QED BY <1>7, <1>8, <1>9, <1>10, <1>11, <1>12, <1>13, <1>14 DEF TokenInv

LEMMA LegsFinite == \A S \in SUBSET Legs : IsFiniteSet(S)
<1>1. IsFiniteSet({"input"}) /\ IsFiniteSet({"output"})
  BY FS_Singleton
<1>2. IsFiniteSet({"input"} \cup {"output"})
  BY <1>1, FS_Union
<1>3. Legs = {"input"} \cup {"output"}
  BY DEF Legs
<1> QED BY <1>2, <1>3, FS_Subset

\* What the first transaction files.
LEMMA PersistFiles ==
    ASSUME TokenShapes, TokenNames, NEW r \in Verifiers, PersistCatalog(r),
           ~(verifier[r].inserts # {} /\ verifier[r].page \in retained)
    PROVE  LET run == verifier[r]
               added == DOMAIN priceRows' \ DOMAIN priceRows
           IN /\ priceRows' \in Seq(PriceRow) /\ DOMAIN priceRows \subseteq DOMAIN priceRows'
              /\ \A k \in DOMAIN priceRows : priceRows'[k] = priceRows[k]
              /\ \A k \in added :
                   /\ priceRows'[k].leg \in run.inserts
                   /\ priceRows'[k].price = run.page.rate[priceRows'[k].leg]
                   /\ priceRows'[k].page = run.page /\ priceRows'[k].at = run.at
                   /\ priceRows'[k].beside = run.beside
              /\ \A l \in run.inserts : \E k \in added : priceRows'[k].leg = l
              /\ \A k, m \in added : priceRows'[k].leg = priceRows'[m].leg => k = m
              /\ retained' = retained \cup {run.page}
              /\ Commits(r, [run EXCEPT !.pc = "freeze", !.catalog = @ \cup added])
<1> DEFINE run == verifier[r]
           I == run.inserts
           n == Cardinality(I)
           legs == SetToSeq(I)
           rows == [k \in 1..n |-> [leg |-> legs[k], price |-> run.page.rate[legs[k]], page |-> run.page,
                                    at |-> run.at, beside |-> run.beside]]
           p == priceRows
           added == (Len(p) + 1)..(Len(p) + Len(rows))
<1>1. run \in Command /\ I \in SUBSET Legs
  BY DEF TokenShapes, Command
<1>2. /\ n \in Nat /\ legs \in [1..n -> I]
      /\ \A i, j \in 1..n : legs[i] = legs[j] => i = j
      /\ \A x \in I : \E i \in 1..n : legs[i] = x
  <2> HIDE DEF I
  <2> QED BY <1>1, LegsFinite, SetToSeqIs
<1> HIDE DEF n, legs
<1>3. \A l \in I : run.page \in Pages /\ run.page.rate[l] \in Nat
  BY <1>1, TokenAssumption DEF TokenNames
<1>4. rows \in Seq(PriceRow) /\ Len(rows) = n
  <2>1. \A k \in 1..n : rows[k] \in PriceRow
    BY <1>1, <1>2, <1>3 DEF PriceRow, Command
  <2> QED BY <2>1, <1>2
<1>5. \A k \in 1..n : /\ rows[k].leg = legs[k] /\ rows[k].price = run.page.rate[legs[k]]
                      /\ rows[k].page = run.page /\ rows[k].at = run.at
                      /\ rows[k].beside = run.beside
  OBVIOUS
<1>6. /\ priceRows' = p \o rows /\ retained' = retained \cup {run.page}
      /\ Commits(r, [run EXCEPT !.pc = "freeze", !.catalog = @ \cup added])
  BY Zenon DEF PersistCatalog, n, legs
<1>7. p \in Seq(PriceRow) /\ Len(p) \in Nat /\ DOMAIN p = 1..Len(p)
  BY DEF TokenShapes
<1> HIDE DEF rows, p
<1>8. priceRows' \in Seq(PriceRow) /\ Len(priceRows') = Len(p) + n /\ DOMAIN priceRows' = 1..(Len(p) + n)
  BY <1>2, <1>4, <1>6, <1>7
<1>9. added = DOMAIN priceRows' \ DOMAIN p
  BY <1>2, <1>4, <1>7, <1>8
<1>10. DOMAIN p \subseteq DOMAIN priceRows' /\ \A k \in DOMAIN p : priceRows'[k] = p[k]
  BY <1>2, <1>4, <1>6, <1>7, <1>8
<1>11. \A k \in added : k - Len(p) \in 1..n /\ priceRows'[k] = rows[k - Len(p)]
  BY <1>2, <1>4, <1>6, <1>7, <1>8
<1>12. \A i \in 1..n : Len(p) + i \in added /\ priceRows'[Len(p) + i] = rows[i]
  BY <1>2, <1>4, <1>6, <1>7, <1>8
<1>13. \A k \in added : k \in Nat
  BY <1>4, <1>7, <1>2
<1> HIDE DEF added, run
<1>14. ASSUME NEW k \in added
       PROVE  /\ priceRows'[k].leg \in I
              /\ priceRows'[k].price = run.page.rate[priceRows'[k].leg]
              /\ priceRows'[k].page = run.page /\ priceRows'[k].at = run.at
              /\ priceRows'[k].beside = run.beside
  BY <1>2, <1>5, <1>11
<1>15. ASSUME NEW l \in I PROVE \E k \in added : priceRows'[k].leg = l
  BY <1>2, <1>5, <1>12
<1>16. ASSUME NEW k \in added, NEW m \in added, priceRows'[k].leg = priceRows'[m].leg PROVE k = m
  <2>1. legs[k - Len(p)] = legs[m - Len(p)]
    BY <1>5, <1>11, <1>16
  <2>2. k - Len(p) = m - Len(p)
    BY <2>1, <1>2, <1>11
  <2> QED BY <2>2, <1>7, <1>13
<1> QED BY <1>6, <1>8, <1>9, <1>10, <1>14, <1>15, <1>16 DEF run, p

\* Values stay what they are while rows are appended.
LEMMA ValuesStay ==
    ASSUME TokenInv, \A k \in DOMAIN priceRows : priceRows'[k] = priceRows[k],
           NEW k \in DOMAIN benchmarks, benchmarks[k].kind = "value"
    PROVE  BlendOf(priceRows', benchmarks[k].legs) = Blend(benchmarks[k].legs)
<1>1. benchmarks[k].legs \in [Legs -> DOMAIN priceRows]
  BY DEF TokenInv, TokenNames
<1>2. benchmarks[k].legs["input"] \in DOMAIN priceRows /\ benchmarks[k].legs["output"] \in DOMAIN priceRows
  BY <1>1 DEF Legs
<1> QED BY <1>2 DEF Blend, BlendOf

\* An attestation stays what it is while rows and values are appended.
LEMMA AttestedStays ==
    ASSUME TokenInv, \A k \in DOMAIN priceRows : priceRows'[k] = priceRows[k],
           DOMAIN benchmarks \subseteq DOMAIN benchmarks',
           \A k \in DOMAIN benchmarks : benchmarks'[k] = benchmarks[k], attested' = attested
    PROVE  AttestedAsRead'
<1> SUFFICES ASSUME NEW a \in attested, benchmarks'[a.benchmark].kind = "value", ListsBoth(a.page),
                    ~a.again, ~a.beside
             PROVE  BlendOf(priceRows', benchmarks'[a.benchmark].legs) = PageBlend(a.page)
  BY DEF AttestedAsRead, Blend, BlendOf, ListsBoth, PageBlend
<1>1. a.benchmark \in DOMAIN benchmarks
  BY DEF TokenInv, TokenShapes
<1>2. benchmarks'[a.benchmark] = benchmarks[a.benchmark]
  BY <1>1
<1>3. Blend(benchmarks[a.benchmark].legs) = PageBlend(a.page)
  BY <1>2 DEF TokenInv, AttestedAsRead
<1> QED BY <1>1, <1>2, <1>3, ValuesStay

LEMMA PersistCatalogKeeps == ASSUME TokenInv, NEW r \in Verifiers, PersistCatalog(r) PROVE TokenInv'
<1> DEFINE run == verifier[r]
           C == DOMAIN priceRows
           added == DOMAIN priceRows' \ DOMAIN priceRows
           filed == [run EXCEPT !.pc = "freeze", !.catalog = @ \cup added]
<1>0. UNCHANGED <<page, designated, reviews, benchmarks, attested, tokenDeaths>> /\ run.pc = "persist"
  BY DEF PersistCatalog, AtToken
<1>1. CASE run.inserts # {} /\ run.page \in retained
  <2>1. Turns(r, Unread) /\ UNCHANGED <<retained, priceRows>>
    BY <1>1 DEF PersistCatalog
  <2>2. /\ verifier' \in [Verifiers -> Command] /\ verifier'[r] = Unread
        /\ \A q \in Verifiers : q # r => verifier'[q] = verifier[q]
    BY <2>1, UnreadShape, TurnsShape DEF TokenInv
  <2> QED BY <1>0, <2>1, <2>2, NothingWritten DEF TokenInv, TokenShapes
<1>2. CASE ~(run.inserts # {} /\ run.page \in retained)
  <2>1. /\ priceRows' \in Seq(PriceRow) /\ C \subseteq DOMAIN priceRows'
        /\ \A k \in C : priceRows'[k] = priceRows[k]
        /\ \A k \in added :
             /\ priceRows'[k].leg \in run.inserts
             /\ priceRows'[k].price = run.page.rate[priceRows'[k].leg]
             /\ priceRows'[k].page = run.page /\ priceRows'[k].at = run.at
             /\ priceRows'[k].beside = run.beside
        /\ \A l \in run.inserts : \E k \in added : priceRows'[k].leg = l
        /\ \A k, m \in added : priceRows'[k].leg = priceRows'[m].leg => k = m
        /\ retained' = retained \cup {run.page}
        /\ Commits(r, filed)
    BY <1>2, PersistFiles DEF TokenInv
  <2>2. /\ run \in Command /\ run.page \in Pages /\ run.at \in 1..reviews /\ run.catalog \subseteq C
        /\ \A l \in run.inserts : run.page.rate[l] > 0
    BY <1>0 DEF TokenInv, TokenShapes, TokenNames
  <2>3. /\ filed \in Command
        /\ filed.pc = "freeze" /\ filed.page = run.page /\ filed.at = run.at /\ filed.inserts = run.inserts
        /\ filed.catalog = run.catalog \cup added /\ filed.again = run.again /\ filed.beside = run.beside
    <3>1. added \in SUBSET Nat /\ run \in Command
      BY <2>1, <2>2
    <3> HIDE DEF run, added
    <3> QED BY <3>1 DEF Command
  <2>4. /\ verifier' \in [Verifiers -> Command] /\ verifier'[r] = filed
        /\ \A q \in Verifiers : q # r =>
             /\ verifier'[q].pc = verifier[q].pc /\ verifier'[q].page = verifier[q].page
             /\ verifier'[q].at = verifier[q].at /\ verifier'[q].inserts = verifier[q].inserts
             /\ verifier'[q].catalog = verifier[q].catalog
             /\ verifier'[q].again = verifier[q].again
             /\ verifier'[q].pc # "idle" => verifier'[q].beside
    <3> HIDE DEF filed
    <3> QED BY <2>1, <2>3, CommitsShape DEF TokenInv
  <2> HIDE DEF filed, added, run
  <2>5. \A k \in DOMAIN priceRows' : k \in C \/ k \in added
    BY DEF added
  <2>6. \A k \in C : priceRows'[k].at \in Nat
    BY <2>1, RowsShaped DEF TokenInv
  <2>7. ~run.beside => run.catalog = C /\ \A k \in C : priceRows'[k].at < run.at
    BY <1>0, <2>1 DEF TokenInv, Alone, run
  <2>8. Clean(priceRows') => Clean(priceRows) /\ (added # {} => ~run.beside)
    BY <2>1, <2>5 DEF Clean, added
  <2>9. TokenShapes'
    BY <1>0, <2>1, <2>2, <2>4 DEF TokenInv, TokenShapes
  <2>10. TokenNames'
    <3>1. ASSUME NEW k \in DOMAIN priceRows'
          PROVE  priceRows'[k].price > 0 /\ priceRows'[k].page \in retained' /\ priceRows'[k].at \in 1..reviews
      <4>1. CASE k \in C
        BY <2>1, <4>1 DEF TokenInv, TokenNames
      <4>2. CASE k \in added
        BY <2>1, <2>2, <4>2
      <4> QED BY <4>1, <4>2, <2>5
    <3>2. ASSUME NEW q \in Verifiers
          PROVE  /\ verifier'[q].catalog \subseteq DOMAIN priceRows'
                 /\ verifier'[q].pc # "idle" => verifier'[q].page \in Pages /\ verifier'[q].at \in 1..reviews
                 /\ \A l \in verifier'[q].inserts : verifier'[q].page \in Pages /\ verifier'[q].page.rate[l] > 0
      <4>1. CASE q = r
        BY <2>1, <2>2, <2>3, <2>4, <4>1 DEF added
      <4>2. CASE q # r
        BY <2>1, <2>4, <4>2 DEF TokenInv, TokenNames
      <4> QED BY <4>1, <4>2
    <3>3. ASSUME NEW k \in DOMAIN benchmarks
          PROVE  /\ benchmarks[k].at \in 1..reviews
                 /\ benchmarks[k].kind = "withheld" => benchmarks[k].legs = NoLegs
                 /\ benchmarks[k].kind = "value" =>
                      designated /\ benchmarks[k].legs \in [Legs -> DOMAIN priceRows']
      BY <2>1 DEF TokenInv, TokenNames
    <3> QED BY <1>0, <3>1, <3>2, <3>3 DEF TokenNames, NoLegs
  <2>11. Alone'
    <3> SUFFICES ASSUME NEW q \in Verifiers, verifier'[q].pc # "idle", ~verifier'[q].beside
                 PROVE  /\ verifier'[q].catalog = DOMAIN priceRows'
                        /\ verifier'[q].pc # "persist"
      BY DEF Alone
    <3>1. q = r
      BY <2>4
    <3> QED BY <2>1, <2>3, <2>4, <2>7, <3>1 DEF added
  <2>12. RatesInOrder'
    <3> SUFFICES ASSUME Clean(priceRows')
                 PROVE  /\ \A k, m \in DOMAIN priceRows' :
                             priceRows'[k].leg = priceRows'[m].leg /\ priceRows'[k].at = priceRows'[m].at => k = m
                        /\ \A q \in Verifiers : verifier'[q].pc # "idle" =>
                             \A m \in verifier'[q].catalog : \A k \in DOMAIN priceRows' \ verifier'[q].catalog :
                               priceRows'[m].at < priceRows'[k].at
      BY DEF RatesInOrder
    <3>1. ASSUME NEW k \in DOMAIN priceRows', NEW m \in DOMAIN priceRows',
                 priceRows'[k].leg = priceRows'[m].leg, priceRows'[k].at = priceRows'[m].at
          PROVE  k = m
      <4>1. CASE k \in C /\ m \in C
        BY <2>1, <2>8, <3>1, <4>1 DEF TokenInv, RatesInOrder
      <4>2. CASE k \in added /\ m \in added
        BY <2>1, <3>1, <4>2
      <4>3. CASE (k \in C /\ m \in added) \/ (m \in C /\ k \in added)
        BY <2>1, <2>6, <2>7, <2>8, <3>1, <4>3
      <4> QED BY <4>1, <4>2, <4>3, <2>5
    <3>2. ASSUME NEW q \in Verifiers, verifier'[q].pc # "idle", NEW m \in verifier'[q].catalog,
                 NEW k \in DOMAIN priceRows' \ verifier'[q].catalog
          PROVE  priceRows'[m].at < priceRows'[k].at
      <4>1. ASSUME NEW j \in Verifiers, verifier[j].pc # "idle", m \in verifier[j].catalog,
                   k \in C \ verifier[j].catalog
            PROVE  priceRows'[m].at < priceRows'[k].at
        BY <2>1, <2>8, <4>1 DEF TokenInv, RatesInOrder, TokenNames
      <4>2. CASE q = r
        <5>1. k \in C \ run.catalog
          BY <2>3, <2>4, <2>5, <4>2
        <5>2. m \notin added
          BY <2>7, <2>8, <5>1
        <5> QED BY <1>0, <2>3, <2>4, <4>1, <4>2, <5>1, <5>2 DEF run
      <4>3. CASE q # r /\ k \in C
        BY <2>4, <3>2, <4>1, <4>3
      <4>4. CASE q # r /\ k \in added
        <5>1. m \in C
          BY <2>4, <4>4 DEF TokenInv, TokenNames
        <5> QED BY <2>1, <2>7, <2>8, <4>4, <5>1
      <4> QED BY <4>2, <4>3, <4>4, <2>5
    <3> QED BY <3>1, <3>2
  <2>13. ValuesAreOfRows'
    <3> SUFFICES ASSUME Clean(priceRows'), NEW k \in DOMAIN benchmarks, benchmarks[k].kind = "value"
                 PROVE  /\ \A l \in Legs : IsLegAt(priceRows', DOMAIN priceRows', l, benchmarks[k].at,
                                                   benchmarks[k].legs[l])
                        /\ \E l \in Legs : priceRows'[benchmarks[k].legs[l]].at = benchmarks[k].at
      BY <1>0, Zenon DEF ValuesAreOfRows
    <3> DEFINE t == benchmarks[k].at
               legs == benchmarks[k].legs
    <3>1. /\ \A l \in Legs : IsLegAt(priceRows, C, l, t, legs[l])
          /\ \E l \in Legs : priceRows[legs[l]].at = t
      BY <2>8 DEF TokenInv, ValuesAreOfRows
    <3>2. legs \in [Legs -> C] /\ t \in Nat
      BY RowsShaped DEF TokenInv, TokenNames
    <3> HIDE DEF t, legs
    <3>3. PICK l \in Legs : priceRows[legs[l]].at = t
      BY <3>1
    <3>4. \A m \in added : t < priceRows'[m].at
      BY <2>1, <2>7, <2>8, <3>2, <3>3
    <3>5. \A m \in DOMAIN priceRows' : priceRows'[m].at <= t => m \in C
      BY <2>1, <2>2, <2>5, <3>2, <3>4
    <3>6. ASSUME NEW j \in Legs PROVE IsLegAt(priceRows', DOMAIN priceRows', j, t, legs[j])
      BY <2>1, <3>1, <3>2, <3>5 DEF IsLegAt
    <3>7. priceRows'[legs[l]].at = t
      BY <2>1, <3>2, <3>3
    <3> QED BY <3>6, <3>7 DEF t, legs
  <2>14. ReadIsFiled'
    <3> SUFFICES ASSUME Clean(priceRows'), NEW q \in Verifiers, verifier'[q].pc # "idle",
                        ~verifier'[q].beside, ~verifier'[q].again, ListsBoth(verifier'[q].page),
                        NEW l \in Legs
                 PROVE  \E k \in verifier'[q].catalog :
                          /\ IsLegNow(priceRows', verifier'[q].catalog, l, k)
                          /\ priceRows'[k].price = verifier'[q].page.rate[l]
      BY DEF ReadIsFiled, ListsBoth
    <3>1. q = r /\ verifier'[q].page = run.page /\ ~run.beside /\ ~run.again /\ ListsBoth(run.page)
      BY <2>3, <2>4
    <3>2. verifier'[q].catalog = C \cup added /\ run.catalog = C
      BY <2>3, <2>4, <2>7, <3>1
    <3>3. l \in run.inserts \/ \E k \in C : IsLegNow(priceRows, C, l, k) /\ priceRows[k].price = run.page.rate[l]
      BY <1>0, <2>8, <3>1, <3>2 DEF TokenInv, ReadIsFiled, run
    <3>4. CASE l \in run.inserts
      <4>1. PICK k \in added : priceRows'[k].leg = l
        BY <2>1, <3>4
      <4>2. \A m \in C \cup added : priceRows'[m].at <= priceRows'[k].at
        BY <2>1, <2>2, <2>6, <2>7, <3>1
      <4>3. priceRows'[k].price = run.page.rate[l]
        BY <2>1, <4>1
      <4> QED BY <3>1, <3>2, <4>1, <4>2, <4>3 DEF IsLegNow
    <3>5. CASE l \notin run.inserts
      <4>1. PICK k \in C : IsLegNow(priceRows, C, l, k) /\ priceRows[k].price = run.page.rate[l]
        BY <3>3, <3>5
      <4>2. \A m \in C \cup added : priceRows'[m].leg = l => m \in C
        BY <2>1, <3>5
      <4> QED BY <2>1, <3>1, <3>2, <4>1, <4>2 DEF IsLegNow
    <3> QED BY <3>4, <3>5
  <2>15. PointsAreFrozen'
    <3>1. \A q \in Verifiers : ~(verifier'[q].pc = "attest" /\ ~verifier'[q].beside)
      BY <2>3, <2>4
    <3> QED BY <3>1 DEF PointsAreFrozen
  <2>16. AttestedAsRead'
    BY <1>0, <2>1, AttestedStays
  <2> QED BY <2>9, <2>10, <2>11, <2>12, <2>13, <2>14, <2>15, <2>16 DEF TokenInv
<1> QED BY <1>1, <1>2

\* What appending the members of a set gives.
LEMMA AppendsAll ==
    ASSUME NEW T, NEW S \in SUBSET T, IsFiniteSet(S), NEW s \in Seq(T)
    PROVE  LET u == s \o SetToSeq(S) IN
           /\ u \in Seq(T) /\ DOMAIN s \subseteq DOMAIN u
           /\ \A k \in DOMAIN s : u[k] = s[k]
           /\ \A k \in DOMAIN u \ DOMAIN s : u[k] \in S
           /\ \A x \in S : \E k \in DOMAIN u : u[k] = x
<1> DEFINE n == Cardinality(S)
           v == SetToSeq(S)
           u == s \o v
<1>1. n \in Nat /\ v \in [1..n -> S] /\ \A x \in S : \E i \in 1..n : v[i] = x
  BY SetToSeqIs
<1> HIDE DEF n, v
<1>2. v \in Seq(T) /\ Len(v) = n
  BY <1>1
<1>3. u = s \o v /\ Len(s) \in Nat /\ DOMAIN s = 1..Len(s)
  OBVIOUS
<1> HIDE DEF u
<1>4. u \in Seq(T) /\ DOMAIN u = 1..(Len(s) + n)
  BY <1>1, <1>2, <1>3
<1>5. /\ DOMAIN s \subseteq DOMAIN u /\ \A k \in DOMAIN s : u[k] = s[k]
      /\ \A k \in DOMAIN u \ DOMAIN s : k - Len(s) \in 1..n /\ u[k] = v[k - Len(s)]
      /\ \A i \in 1..n : Len(s) + i \in DOMAIN u /\ u[Len(s) + i] = v[i]
  BY <1>1, <1>2, <1>3, <1>4
<1>6. \A k \in DOMAIN u \ DOMAIN s : u[k] \in S
  BY <1>1, <1>5
<1>7. \A x \in S : \E k \in DOMAIN u : u[k] = x
  BY <1>1, <1>5
<1> QED BY <1>4, <1>5, <1>6, <1>7 DEF u, v

\* What is due of some of the rows.
LEMMA DueIs ==
    ASSUME TokenInv, NEW C, C \subseteq DOMAIN priceRows
    PROVE  /\ Due(C) \subseteq FrozenState /\ IsFiniteSet(Due(C))
           /\ \A b \in Due(C) :
                /\ b.at \in 1..reviews
                /\ b.kind = "withheld" => b.legs = NoLegs
                /\ b.kind = "value" =>
                     designated /\ b.at \in EventsOf(priceRows, C) /\ b.legs = LegsOf(priceRows, C, b.at)
           /\ designated =>
                \A t \in PointsOf(priceRows, C) :
                  \/ \E k \in DOMAIN benchmarks : benchmarks[k].legs = LegsOf(priceRows, C, t)
                  \/ \E b \in Due(C) : b.legs = LegsOf(priceRows, C, t)
<1>1. /\ reviews \in Nat
      /\ \A k \in C : k \in Nat /\ priceRows[k].at \in 0..reviews /\ priceRows[k].at \in 1..reviews
  BY RowsShaped DEF TokenInv, TokenNames
<1>2. CASE designated
  <2> DEFINE T == {e \in PointsOf(priceRows, C) :
                     \A k \in DOMAIN benchmarks : benchmarks[k].legs # LegsOf(priceRows, C, e)}
             Fixing(t) == [kind |-> "value", legs |-> LegsOf(priceRows, C, t), at |-> t]
  <2>1. Due(C) = {Fixing(t) : t \in T}
    BY <1>2, SamePoints, SameLegs, Zenon DEF Due
  <2>2. T \subseteq EventsOf(priceRows, C) /\ T \subseteq 1..reviews
    BY <1>1 DEF PointsOf, EventsOf
  <2>3. IsFiniteSet(T)
    <3> HIDE DEF T
    <3>1. IsFiniteSet(1..reviews)
      BY <1>1, FS_Interval
    <3> QED BY <3>1, <2>2, FS_Subset
  <2> HIDE DEF T
  <2>4. IsFiniteSet({Fixing(t) : t \in T})
    <3> DEFINE f == [t \in T |-> Fixing(t)]
    <3>1. f \in Surjection(T, {Fixing(t) : t \in T})
      BY DEF Surjection
    <3> QED BY <2>3, <3>1, FS_Surjection
  <2>5. ASSUME NEW t \in T PROVE LegsOf(priceRows, C, t) \in [Legs -> Nat]
    <3>1. \A l \in Legs : IsLegAt(priceRows, C, l, t, LegsOf(priceRows, C, t)[l])
      BY <1>1, <2>2, LegsAreLatest
    <3>2. \A l \in Legs : LegsOf(priceRows, C, t)[l] \in Nat
      BY <1>1, <3>1 DEF IsLegAt
    <3>3. LegsOf(priceRows, C, t) = [l \in Legs |-> LegsOf(priceRows, C, t)[l]]
      BY DEF LegsOf
    <3> QED BY <3>2, <3>3
  <2>6. \A t \in T : Fixing(t) \in FrozenState
    BY <1>1, <2>2, <2>5 DEF FrozenState
  <2>7. \A t \in T : Fixing(t).kind = "value" /\ Fixing(t).at = t /\ Fixing(t).legs = LegsOf(priceRows, C, t)
    OBVIOUS
  <2>8. ASSUME NEW t \in PointsOf(priceRows, C)
        PROVE  \/ \E k \in DOMAIN benchmarks : benchmarks[k].legs = LegsOf(priceRows, C, t)
               \/ t \in T
    BY DEF T
  <2> HIDE DEF Fixing
  <2>9. Due(C) \subseteq FrozenState /\ IsFiniteSet(Due(C))
    BY <2>1, <2>4, <2>6
  <2>10. ASSUME NEW b \in Due(C)
         PROVE  /\ b.at \in 1..reviews /\ b.kind = "value"
                /\ b.at \in EventsOf(priceRows, C) /\ b.legs = LegsOf(priceRows, C, b.at)
    <3>1. PICK t \in T : b = Fixing(t)
      BY <2>1
    <3> QED BY <2>2, <2>7, <3>1
  <2>11. ASSUME NEW t \in PointsOf(priceRows, C)
         PROVE  \/ \E k \in DOMAIN benchmarks : benchmarks[k].legs = LegsOf(priceRows, C, t)
                \/ \E b \in Due(C) : b.legs = LegsOf(priceRows, C, t)
    BY <2>1, <2>7, <2>8
  <2> QED BY <1>2, <2>9, <2>10, <2>11
<1>3. CASE ~designated
  <2> DEFINE K == {priceRows[k].at : k \in C}
             decision == [kind |-> "withheld", legs |-> NoLegs, at |-> Max(K)]
  <2>1. CASE C = {} \/ benchmarks # <<>>
    <3>1. Due(C) = {}
      BY <1>3, <2>1 DEF Due
    <3> QED BY <1>3, <3>1, FS_EmptySet
  <2>2. CASE ~(C = {} \/ benchmarks # <<>>)
    <3>1. Due(C) = {decision}
      BY <1>3, <2>2 DEF Due
    <3>2. K \subseteq 0..reviews /\ K # {} /\ K \subseteq 1..reviews
      BY <1>1, <2>2
    <3>3. Max(K) \in 1..reviews
      <4> HIDE DEF K
      <4> QED BY <1>1, <3>2, MaxIs
    <3> HIDE DEF K
    <3>4. decision \in FrozenState
      BY <1>1, <3>3 DEF FrozenState, NoLegs
    <3>5. decision.kind = "withheld" /\ decision.legs = NoLegs /\ decision.at = Max(K)
      OBVIOUS
    <3> HIDE DEF decision
    <3> QED BY <1>3, <3>1, <3>3, <3>4, <3>5, FS_Singleton
  <2> QED BY <2>1, <2>2
<1> QED BY <1>2, <1>3

LEMMA FreezeBenchmarksKeeps == ASSUME TokenInv, NEW r \in Verifiers, FreezeBenchmarks(r) PROVE TokenInv'
<1> DEFINE run == verifier[r]
           C == verifier[r].catalog
           frozen == [run EXCEPT !.pc = "attest"]
<1>0. /\ UNCHANGED <<page, designated, reviews, retained, priceRows, attested, tokenDeaths>>
      /\ run.pc = "freeze" /\ benchmarks' = benchmarks \o SetToSeq(Due(C)) /\ Commits(r, frozen)
  BY DEF FreezeBenchmarks, AtToken
<1>1. /\ run \in Command /\ run.page \in Pages /\ run.at \in 1..reviews /\ C \subseteq DOMAIN priceRows
      /\ \A l \in run.inserts : run.page \in Pages /\ run.page.rate[l] > 0
  BY <1>0 DEF TokenInv, TokenShapes, TokenNames
<1>2. /\ frozen \in Command
      /\ frozen.pc = "attest" /\ frozen.page = run.page /\ frozen.at = run.at
      /\ frozen.inserts = run.inserts /\ frozen.catalog = C /\ frozen.again = run.again
      /\ frozen.beside = run.beside
  BY <1>1 DEF Command
<1>3. /\ verifier' \in [Verifiers -> Command] /\ verifier'[r] = frozen
      /\ \A q \in Verifiers : q # r =>
           /\ verifier'[q].pc = verifier[q].pc /\ verifier'[q].page = verifier[q].page
           /\ verifier'[q].at = verifier[q].at /\ verifier'[q].inserts = verifier[q].inserts
           /\ verifier'[q].catalog = verifier[q].catalog
           /\ verifier'[q].again = verifier[q].again
           /\ verifier'[q].pc # "idle" => verifier'[q].beside
  <2> HIDE DEF frozen
  <2> QED BY <1>0, <1>2, CommitsShape DEF TokenInv
<1>4. /\ benchmarks' \in Seq(FrozenState) /\ DOMAIN benchmarks \subseteq DOMAIN benchmarks'
      /\ \A k \in DOMAIN benchmarks : benchmarks'[k] = benchmarks[k]
      /\ \A k \in DOMAIN benchmarks' \ DOMAIN benchmarks : benchmarks'[k] \in Due(C)
      /\ \A b \in Due(C) : \E k \in DOMAIN benchmarks' : benchmarks'[k] = b
  <2>1. Due(C) \subseteq FrozenState /\ IsFiniteSet(Due(C)) /\ benchmarks \in Seq(FrozenState)
    BY <1>1, DueIs DEF TokenInv, TokenShapes
  <2>2. benchmarks' = benchmarks \o SetToSeq(Due(C))
    BY <1>0
  <2> HIDE DEF C
  <2> QED BY <2>1, <2>2, AppendsAll
<1> HIDE DEF frozen
<1>5. TokenShapes'
  BY <1>0, <1>3, <1>4 DEF TokenInv, TokenShapes
<1>6. \A l \in Legs, t \in EventsOf(priceRows, C) :
        IsLegAt(priceRows, C, l, t, LegsOf(priceRows, C, t)[l])
  BY <1>1, RowsShaped, LegsAreLatest DEF TokenInv
<1>7. TokenNames'
  <2>1. ASSUME NEW k \in DOMAIN benchmarks'
        PROVE  /\ benchmarks'[k].at \in 1..reviews
               /\ benchmarks'[k].kind = "withheld" => benchmarks'[k].legs = NoLegs
               /\ benchmarks'[k].kind = "value" =>
                    designated /\ benchmarks'[k].legs \in [Legs -> DOMAIN priceRows]
    <3>1. CASE k \in DOMAIN benchmarks
      BY <1>4, <3>1 DEF TokenInv, TokenNames
    <3>2. CASE k \notin DOMAIN benchmarks
      <4> DEFINE b == benchmarks'[k]
      <4>1. b \in Due(C)
        BY <1>4, <3>2
      <4> HIDE DEF b
      <4>2. /\ b.at \in 1..reviews
            /\ b.kind = "withheld" => b.legs = NoLegs
            /\ b.kind = "value" =>
                 designated /\ b.at \in EventsOf(priceRows, C) /\ b.legs = LegsOf(priceRows, C, b.at)
        BY <4>1, <1>1, DueIs
      <4>3. ASSUME b.kind = "value" PROVE b.legs \in [Legs -> DOMAIN priceRows]
        <5>1. \A l \in Legs : b.legs[l] \in DOMAIN priceRows
          BY <1>1, <1>6, <4>2, <4>3 DEF IsLegAt
        <5>2. b.legs \in [Legs -> Nat]
          BY <1>1, <4>1, DueIs DEF FrozenState
        <5> QED BY <5>1, <5>2
      <4> QED BY <4>2, <4>3 DEF b
    <3> QED BY <3>1, <3>2
  <2>2. ASSUME NEW q \in Verifiers
        PROVE  /\ verifier'[q].catalog \subseteq DOMAIN priceRows
               /\ verifier'[q].pc # "idle" => verifier'[q].page \in Pages /\ verifier'[q].at \in 1..reviews
               /\ \A l \in verifier'[q].inserts : verifier'[q].page \in Pages /\ verifier'[q].page.rate[l] > 0
    <3>1. CASE q = r
      BY <1>1, <1>2, <1>3, <3>1
    <3>2. CASE q # r
      BY <1>3, <3>2 DEF TokenInv, TokenNames
    <3> QED BY <3>1, <3>2
  <2> QED BY <1>0, <2>1, <2>2 DEF TokenInv, TokenNames, NoLegs
<1>8. Alone'
  <2> SUFFICES ASSUME NEW q \in Verifiers, verifier'[q].pc # "idle", ~verifier'[q].beside
               PROVE  verifier'[q].catalog = DOMAIN priceRows /\ verifier'[q].pc # "persist"
    BY <1>0 DEF Alone
  <2>1. q = r
    BY <1>3
  <2> QED BY <1>0, <1>2, <1>3, <2>1 DEF TokenInv, Alone
<1>9. RatesInOrder'
  <2> SUFFICES ASSUME Clean(priceRows), NEW q \in Verifiers, verifier'[q].pc # "idle"
               PROVE  \A m \in verifier'[q].catalog : \A k \in DOMAIN priceRows \ verifier'[q].catalog :
                        priceRows[m].at < priceRows[k].at
    BY <1>0 DEF TokenInv, RatesInOrder
  <2>1. verifier'[q].catalog = verifier[q].catalog /\ verifier[q].pc # "idle"
    BY <1>0, <1>2, <1>3
  <2> QED BY <2>1 DEF TokenInv, RatesInOrder
<1>10. ValuesAreOfRows'
  <2> SUFFICES ASSUME Clean(priceRows), NEW k \in DOMAIN benchmarks', benchmarks'[k].kind = "value"
               PROVE  /\ \A l \in Legs : IsLegAt(priceRows, DOMAIN priceRows, l, benchmarks'[k].at,
                                                 benchmarks'[k].legs[l])
                      /\ \E l \in Legs : priceRows[benchmarks'[k].legs[l]].at = benchmarks'[k].at
    BY <1>0, Zenon DEF ValuesAreOfRows
  <2>1. CASE k \in DOMAIN benchmarks
    BY <1>4, <2>1 DEF TokenInv, ValuesAreOfRows
  <2>2. CASE k \notin DOMAIN benchmarks
    <3> DEFINE b == benchmarks'[k]
               t == b.at
    <3>1. b \in Due(C) /\ b.kind = "value"
      BY <1>4, <2>2
    <3> HIDE DEF b
    <3>2. t \in EventsOf(priceRows, C) /\ b.legs = LegsOf(priceRows, C, t)
      BY <1>1, <3>1, DueIs
    <3>3. \E l \in Legs : priceRows[b.legs[l]].at = t
      BY <1>1, <3>2, RowsShaped, LegOfTheMoment DEF TokenInv
    <3>4. PICK j \in C : priceRows[j].at = t
      BY <3>2 DEF EventsOf
    <3>5. ASSUME NEW m \in DOMAIN priceRows, priceRows[m].at <= t PROVE m \in C
      <4>1. m \notin C => priceRows[j].at < priceRows[m].at
        BY <1>0, <3>4 DEF TokenInv, RatesInOrder
      <4>2. priceRows[m].at \in Nat /\ t \in Nat
        BY <1>1, <3>4, RowsShaped DEF TokenInv
      <4> QED BY <3>4, <3>5, <4>1, <4>2
    <3>6. ASSUME NEW l \in Legs PROVE IsLegAt(priceRows, DOMAIN priceRows, l, t, b.legs[l])
      BY <1>1, <1>6, <3>2, <3>5 DEF IsLegAt
    <3> QED BY <3>3, <3>6 DEF b
  <2> QED BY <2>1, <2>2
<1>11. ReadIsFiled'
  <2> SUFFICES ASSUME Clean(priceRows), NEW q \in Verifiers, verifier'[q].pc # "idle",
                      ~verifier'[q].beside, ~verifier'[q].again, ListsBoth(verifier'[q].page),
                      NEW l \in Legs
               PROVE  \E k \in verifier'[q].catalog :
                        /\ IsLegNow(priceRows, verifier'[q].catalog, l, k)
                        /\ priceRows[k].price = verifier'[q].page.rate[l]
    BY <1>0 DEF ReadIsFiled, ListsBoth
  <2>1. q = r
    BY <1>3
  <2> QED BY <1>0, <1>2, <1>3, <2>1 DEF TokenInv, ReadIsFiled
<1>12. PointsAreFrozen'
  <2> SUFFICES ASSUME NEW q \in Verifiers, verifier'[q].pc = "attest", ~verifier'[q].beside, designated,
                      NEW t \in PointsOf(priceRows, verifier'[q].catalog)
               PROVE  \E k \in DOMAIN benchmarks' :
                        benchmarks'[k].legs = LegsOf(priceRows, verifier'[q].catalog, t)
    BY <1>0 DEF PointsAreFrozen
  <2>1. q = r /\ verifier'[q].catalog = C
    BY <1>2, <1>3
  <2>2. \/ \E k \in DOMAIN benchmarks : benchmarks[k].legs = LegsOf(priceRows, C, t)
        \/ \E b \in Due(C) : b.legs = LegsOf(priceRows, C, t)
    BY <1>1, <2>1, DueIs
  <2> QED BY <1>4, <2>1, <2>2
<1>13. AttestedAsRead'
  BY <1>0, <1>4, AttestedStays
<1> QED BY <1>5, <1>7, <1>8, <1>9, <1>10, <1>11, <1>12, <1>13 DEF TokenInv

LEMMA AttestationKeeps == ASSUME TokenInv, NEW r \in Verifiers, RecordAttestation(r) PROVE TokenInv'
<1> DEFINE run == verifier[r]
           A(k) == [page |-> run.page, at |-> run.at, benchmark |-> k, again |-> run.again,
                    beside |-> run.beside \/ \E m \in run.catalog : priceRows[m].beside]
<1>0. UNCHANGED <<page, designated, reviews, retained, priceRows, benchmarks, tokenDeaths>> /\ run.pc = "attest"
  BY DEF RecordAttestation, AtToken
<1>1. Turns(r, Unread)
  BY DEF RecordAttestation
<1>2. /\ verifier' \in [Verifiers -> Command] /\ verifier'[r] = Unread
      /\ \A q \in Verifiers : q # r => verifier'[q] = verifier[q]
  BY <1>1, UnreadShape, TurnsShape DEF TokenInv
<1>3. attested' \in IF Standing = {} THEN {attested} ELSE {attested \cup {A(k)} : k \in Standing}
  BY Zenon DEF RecordAttestation
<1>4. attested' = attested \/ \E k \in Standing : attested' = attested \cup {A(k)}
  BY <1>3
<1>5. CASE attested' = attested
  BY <1>0, <1>2, <1>5, NothingWritten DEF TokenInv, TokenShapes
<1>6. ASSUME NEW k \in Standing, attested' = attested \cup {A(k)} PROVE TokenInv'
  <2>1. k \in DOMAIN benchmarks
    BY DEF Standing
  <2>2. run \in Command /\ run.page \in Pages /\ run.at \in 1..reviews
    BY <1>0 DEF TokenInv, TokenShapes, TokenNames
  <2>3. A(k) \in [page : Pages, at : 1..reviews, benchmark : DOMAIN benchmarks,
                  again : BOOLEAN, beside : BOOLEAN]
    <3> DEFINE beside == run.beside \/ \E m \in run.catalog : priceRows[m].beside
    <3>1. beside \in BOOLEAN /\ run.again \in BOOLEAN
      BY <2>2 DEF Command
    <3> HIDE DEF beside, run
    <3>2. [page |-> run.page, at |-> run.at, benchmark |-> k, again |-> run.again, beside |-> beside]
             \in [page : Pages, at : 1..reviews, benchmark : DOMAIN benchmarks,
                  again : BOOLEAN, beside : BOOLEAN]
      BY <2>1, <2>2, <3>1
    <3> QED BY <3>2 DEF beside
  <2>4. /\ A(k).page = run.page /\ A(k).benchmark = k /\ A(k).again = run.again
        /\ A(k).beside = (run.beside \/ \E m \in run.catalog : priceRows[m].beside)
    OBVIOUS
  <2> HIDE DEF A
  <2>5. Unread.pc = "idle" /\ Unread.catalog = {} /\ Unread.inserts = {}
    BY DEF Unread
  <2>6. \A q \in Verifiers : verifier'[q] = verifier[q] \/ verifier'[q] = Unread
    BY <1>2
  <2>7. TokenShapes'
    BY <1>0, <1>2, <1>6, <2>3 DEF TokenInv, TokenShapes
  <2>8. TokenNames'
    BY <1>0, <2>5, <2>6, SMTT(30) DEF TokenInv, TokenNames
  <2>9. Alone'
    BY <1>0, <2>5, <2>6 DEF TokenInv, Alone
  <2>10. RatesInOrder'
    BY <1>0, <2>5, <2>6 DEF TokenInv, RatesInOrder
  <2>11. ValuesAreOfRows'
    BY <1>0 DEF TokenInv, ValuesAreOfRows
  <2>12. ReadIsFiled'
    BY <1>0, <2>5, <2>6 DEF TokenInv, ReadIsFiled
  <2>13. PointsAreFrozen'
    BY <1>0, <2>5, <2>6 DEF TokenInv, PointsAreFrozen
  <2>14. AttestedAsRead'
    <3> SUFFICES ASSUME NEW a \in attested', benchmarks[a.benchmark].kind = "value", ListsBoth(a.page),
                        ~a.again, ~a.beside
                 PROVE  Blend(benchmarks[a.benchmark].legs) = PageBlend(a.page)
      BY <1>0 DEF AttestedAsRead, Blend
    <3>1. CASE a \in attested
      BY <3>1 DEF TokenInv, AttestedAsRead
    <3>2. CASE a = A(k)
      <4>1. /\ ~run.again /\ ~run.beside /\ \A m \in run.catalog : ~priceRows[m].beside
            /\ ListsBoth(run.page) /\ benchmarks[k].kind = "value"
        BY <2>4, <3>2
      <4>2. Blend(benchmarks[k].legs) = PageBlend(run.page)
        BY <1>0, <4>1, StandingAsRead
      <4> QED BY <2>4, <3>2, <4>2
    <3> QED BY <1>6, <3>1, <3>2
  <2> QED BY <2>7, <2>8, <2>9, <2>10, <2>11, <2>12, <2>13, <2>14 DEF TokenInv
<1> QED BY <1>4, <1>5, <1>6

LEMMA TokenInitially == TokenInit => TokenInv
<1> SUFFICES ASSUME TokenInit PROVE TokenInv
  OBVIOUS
<1>1. /\ priceRows = <<>> /\ benchmarks = <<>> /\ attested = {} /\ reviews = 0
      /\ DOMAIN priceRows = {} /\ DOMAIN benchmarks = {}
  BY DEF TokenInit
<1>2. \A r \in Verifiers : verifier[r] = Unread
  BY DEF TokenInit
<1>3. Unread.pc = "idle" /\ Unread.catalog = {} /\ Unread.inserts = {}
  BY DEF Unread
<1>4. TokenShapes
  BY <1>1, UnreadShape, TokenAssumption DEF TokenInit, TokenShapes
<1>5. TokenNames
  BY <1>1, <1>2, <1>3 DEF TokenNames
<1>6. Alone /\ RatesInOrder /\ ValuesAreOfRows /\ ReadIsFiled /\ PointsAreFrozen
  BY <1>1, <1>2, <1>3 DEF Alone, RatesInOrder, ValuesAreOfRows, ReadIsFiled, PointsAreFrozen
<1>7. AttestedAsRead
  BY <1>1 DEF AttestedAsRead
<1> QED BY <1>4, <1>5, <1>6, <1>7 DEF TokenInv

LEMMA TokenKept == TokenInv /\ [TokenNext]_tokenVars => TokenInv'
<1> SUFFICES ASSUME TokenInv, [TokenNext]_tokenVars PROVE TokenInv'
  OBVIOUS
<1>1. CASE UNCHANGED tokenVars
  BY <1>1, NothingWritten DEF tokenVars, TokenInv, TokenShapes
<1>2. CASE PageMoves
  BY <1>2, PageMovesKeep
<1>3. ASSUME NEW r \in Verifiers, Verify(r) PROVE TokenInv'
  BY <1>3, VerifyKeeps
<1>4. ASSUME NEW r \in Verifiers, PersistCatalog(r) PROVE TokenInv'
  BY <1>4, PersistCatalogKeeps
<1>5. ASSUME NEW r \in Verifiers, FreezeBenchmarks(r) PROVE TokenInv'
  BY <1>5, FreezeBenchmarksKeeps
<1>6. ASSUME NEW r \in Verifiers, RecordAttestation(r) PROVE TokenInv'
  BY <1>6, AttestationKeeps
<1>7. ASSUME NEW r \in Verifiers, VerifierDies(r) PROVE TokenInv'
  BY <1>7, DeathKeeps
<1> QED BY <1>1, <1>2, <1>3, <1>4, <1>5, <1>6, <1>7 DEF TokenNext

LEMMA TokenAlways == TokenSpec => []TokenInv
BY TokenInitially, TokenKept, PTL DEF TokenSpec

LEMMA TokenInvTypes == TokenInv => TokenTypeOK
<1> SUFFICES ASSUME TokenInv PROVE TokenTypeOK
  OBVIOUS
<1>1. \A k \in DOMAIN priceRows :
        priceRows[k] \in [leg : Legs, price : Nat \ {0}, page : retained, at : 1..reviews, beside : BOOLEAN]
  <2> SUFFICES ASSUME NEW k \in DOMAIN priceRows
               PROVE  priceRows[k] \in [leg : Legs, price : Nat \ {0}, page : retained, at : 1..reviews,
                                        beside : BOOLEAN]
    OBVIOUS
  <2> DEFINE row == priceRows[k]
  <2>1. row \in PriceRow /\ row.price > 0 /\ row.page \in retained /\ row.at \in 1..reviews
    BY RowsShaped DEF TokenInv, TokenNames
  <2> HIDE DEF row
  <2>2. row \in [leg : Legs, price : Nat \ {0}, page : retained, at : 1..reviews, beside : BOOLEAN]
    BY <2>1 DEF PriceRow
  <2> QED BY <2>2 DEF row
<1>2. ASSUME NEW k \in DOMAIN benchmarks
      PROVE  /\ benchmarks[k] \in [kind : {"value", "withheld"}, legs : [Legs -> 0..Len(priceRows)], at : 1..reviews]
             /\ benchmarks[k].kind = "withheld" <=> benchmarks[k].legs = NoLegs
  <2> DEFINE b == benchmarks[k]
  <2>1. /\ b \in FrozenState /\ b.at \in 1..reviews
        /\ b.kind = "withheld" => b.legs = NoLegs
        /\ b.kind = "value" => b.legs \in [Legs -> DOMAIN priceRows]
    BY RowsShaped DEF TokenInv, TokenNames
  <2>2. DOMAIN priceRows = 1..Len(priceRows) /\ Len(priceRows) \in Nat
    BY DEF TokenInv, TokenShapes
  <2> HIDE DEF b
  <2>3. b.legs \in [Legs -> 0..Len(priceRows)]
    <3>1. NoLegs \in [Legs -> 0..Len(priceRows)]
      BY <2>2 DEF NoLegs
    <3>2. b.kind = "value" \/ b.kind = "withheld"
      BY <2>1 DEF FrozenState
    <3> QED BY <2>1, <2>2, <3>1, <3>2
  <2>4. b.kind = "value" => b.legs # NoLegs
    BY <2>1, <2>2 DEF NoLegs, Legs
  <2>5. b \in [kind : {"value", "withheld"}, legs : [Legs -> 0..Len(priceRows)], at : 1..reviews]
    BY <2>1, <2>3 DEF FrozenState
  <2>6. b.kind = "withheld" <=> b.legs = NoLegs
    BY <2>1, <2>4 DEF FrozenState
  <2> QED BY <2>5, <2>6 DEF b
<1>3. \A r \in Verifiers :
        /\ verifier[r].pc \in {"idle", "persist", "freeze", "attest"}
        /\ verifier[r].catalog \subseteq DOMAIN priceRows
        /\ verifier[r].inserts \subseteq Legs
  BY DEF TokenInv, TokenShapes, TokenNames, Command
<1> QED BY <1>1, <1>2, <1>3 DEF TokenInv, TokenShapes, TokenTypeOK

\* The rows, the frozen values, the attestations and the commands keep the shape the tables
\* give them, and name pages and rows there are, whatever overlaps or dies.
THEOREM TokenTypeCorrect == TokenSpec => []TokenTypeOK
BY TokenAlways, TokenInvTypes, PTL

\* What is verified is what publishes (verify-production.ts): however commands die between their
\* transactions, are run again and overlap, an attestation of a page that carries both rates
\* names a value of the page's own price, unless the page had been read before a rate moved, or
\* a command wrote beside this one or beside one whose observation it read.
THEOREM AttestedMeansRead == TokenSpec => []AttestedAsRead
<1>1. TokenInv => AttestedAsRead
  BY DEF TokenInv
<1> QED BY <1>1, TokenAlways, PTL

-----------------------------------------------------------------------------
(* The publishers' values. *)

ValueRow == [identity : Identities, value : Nat, artifact : Artifacts, next : Nat]
Record == [identity : Identities, value : Nat \ {0}]
IngestRun == [pc : {"idle", "fetched", "vintage", "create", "load", "persist"},
              artifact : Artifacts \cup {NoArtifact}, creates : BOOLEAN, live : [Identities -> Nat]]

\* The types; what a run has loaded is of the identity it is loaded for.
ValueShapes ==
    /\ offered \in Artifacts /\ corrections \in 0..MaxCorrections
    /\ evidence \subseteq Artifacts /\ vintageHeld \in BOOLEAN
    /\ values \in Seq(ValueRow)
    /\ \A k \in DOMAIN values : values[k].artifact \in evidence /\ values[k].next \in 0..Len(values)
    /\ ingest \in [Ingesters -> IngestRun]
    /\ \A r \in Ingesters :
         /\ ingest[r].pc # "idle" => ingest[r].artifact \in Artifacts
         /\ \A i \in Identities : ingest[r].live[i] \in 0..Len(values)
         /\ \A i \in Identities : ingest[r].live[i] # 0 => values[ingest[r].live[i]].identity = i

\* No identity has two live values, and a superseded one is followed by one of its own identity.
OneLive(rows) ==
    \A k \in DOMAIN rows :
      /\ rows[k].next # 0 => rows[rows[k].next].identity = rows[k].identity
      /\ rows[k].next = 0 => LiveRows(rows, rows[k].identity) = {k}

PublisherInv == ValueShapes /\ OneLive(values)

\* What a plan inserts: of an identity one record, and of each that has changed.
LEMMA PlanInserts ==
    ASSUME NEW A \in Seq(Record), NEW stands
    PROVE  LET S == {A[k] : k \in FirstChanges(A, stands)} IN
           /\ S \subseteq Record /\ IsFiniteSet(S)
           /\ \A x, y \in S : x.identity = y.identity => x = y
           /\ \A x \in S : x.value # stands[x.identity] /\ x.value \in ValuesOf(A, x.identity)
           /\ \A k \in DOMAIN A : A[k].value # stands[A[k].identity] =>
                \E x \in S : x.identity = A[k].identity
<1> DEFINE F == FirstChanges(A, stands)
           S == {A[k] : k \in F}
<1>1. DOMAIN A = 1..Len(A) /\ Len(A) \in Nat /\ F \subseteq DOMAIN A /\ \A k \in DOMAIN A : A[k] \in Record
  BY DEF FirstChanges
<1>2. ASSUME NEW k \in F
      PROVE  /\ A[k].value # stands[A[k].identity]
             /\ \A j \in 1..(k - 1) : A[j].identity = A[k].identity => A[j].value = stands[A[k].identity]
  BY DEF FirstChanges
<1>3. IsFiniteSet(S)
  <2>1. IsFiniteSet(1..Len(A))
    BY <1>1, FS_Interval
  <2> HIDE DEF F
  <2>2. IsFiniteSet(F)
    BY <1>1, <2>1, FS_Subset
  <2> DEFINE f == [k \in F |-> A[k]]
  <2>3. f \in Surjection(F, S)
    BY DEF Surjection
  <2> QED BY <2>2, <2>3, FS_Surjection
<1>4. ASSUME NEW k \in F, NEW m \in F, A[k].identity = A[m].identity PROVE k = m
  <2>1. k \in Nat /\ m \in Nat /\ k >= 1 /\ m >= 1
    BY <1>1
  <2> HIDE DEF F
  <2>2. ~(k < m)
    <3>1. k < m => k \in 1..(m - 1)
      BY <2>1
    <3> QED BY <1>2, <1>4, <3>1
  <2>3. ~(m < k)
    <3>1. m < k => m \in 1..(k - 1)
      BY <2>1
    <3> QED BY <1>2, <1>4, <3>1
  <2> QED BY <2>1, <2>2, <2>3
<1>5. ASSUME NEW k \in DOMAIN A, A[k].value # stands[A[k].identity]
      PROVE  \E x \in S : x.identity = A[k].identity
  <2> DEFINE i == A[k].identity
             K == {j \in DOMAIN A : A[j].identity = i /\ A[j].value # stands[i]}
  <2>1. K \subseteq Nat /\ k \in K
    BY <1>1, <1>5
  <2>2. PICK j \in K : \A m \in K : j <= m
    <3> HIDE DEF K
    <3> QED BY <2>1, LeastIn
  <2>3. \A m \in 1..(j - 1) : m \in DOMAIN A /\ m \notin K
    BY <1>1, <2>2
  <2>4. j \in F
    BY <2>2, <2>3 DEF FirstChanges
  <2> QED BY <2>4
<1>6. \A x \in S : x.value \in ValuesOf(A, x.identity)
  BY <1>1 DEF ValuesOf
<1>7. S \subseteq Record
  BY <1>1
<1>8. \A x, y \in S : x.identity = y.identity => x = y
  BY <1>4
<1>9. \A x \in S : x.value # stands[x.identity]
  BY <1>2
<1> QED BY <1>3, <1>5, <1>6, <1>7, <1>8, <1>9

\* What a plan that inserts S makes of the rows V, having loaded `live`.
Replaced(V, live, S) == {k \in DOMAIN V : \E x \in S : live[x.identity] = k}

Restates(V, rows, A, live, S) ==
    LET replaced == Replaced(V, live, S)
        added == DOMAIN rows \ DOMAIN V
    IN /\ rows \in Seq(ValueRow) /\ DOMAIN V \subseteq DOMAIN rows /\ Len(V) <= Len(rows)
       /\ \A k \in DOMAIN V : /\ rows[k].identity = V[k].identity /\ rows[k].value = V[k].value
                              /\ rows[k].artifact = V[k].artifact
       /\ \A k \in DOMAIN V \ replaced : rows[k].next = V[k].next
       /\ \A k \in replaced : /\ \E x \in S : x.identity = V[k].identity
                              /\ live[V[k].identity] = k /\ rows[k].next \in added
                              /\ rows[rows[k].next].identity = V[k].identity
       /\ \A k \in added : /\ [identity |-> rows[k].identity, value |-> rows[k].value] \in S
                           /\ rows[k].next = 0 /\ rows[k].artifact = A
       /\ \A x \in S : \E k \in added : rows[k].identity = x.identity /\ rows[k].value = x.value

LEMMA RestatedRows ==
    ASSUME values \in Seq(ValueRow), NEW A \in Artifacts, NEW live \in [Identities -> Nat],
           \A i \in Identities : live[i] # 0 => live[i] \in DOMAIN values /\ values[live[i]].identity = i,
           NEW S \in SUBSET Record, IsFiniteSet(S), \A x, y \in S : x.identity = y.identity => x = y
    PROVE  Restates(values, Restated(A, live, SetToSeq(S)), A, live, S)
<1> DEFINE n == Len(values)
           m == Cardinality(S)
           ins == SetToSeq(S)
           changed == {ins[k].identity : k \in DOMAIN ins}
           replaced == {k \in DOMAIN values : \E i \in changed : live[i] = k}
           new(i) == CHOOSE k \in DOMAIN ins : ins[k].identity = i
           old == [k \in DOMAIN values |-> IF \E i \in changed : live[i] = k
                                      THEN [values[k] EXCEPT !.next = n + new(values[k].identity)] ELSE values[k]]
           fresh == [k \in DOMAIN ins |-> [identity |-> ins[k].identity, value |-> ins[k].value,
                                           artifact |-> A, next |-> 0]]
           rows == Restated(A, live, ins)
<1>1. m \in Nat /\ ins \in [1..m -> S] /\ \A x \in S : \E k \in 1..m : ins[k] = x
  BY SetToSeqIs
<1>2. n \in Nat /\ DOMAIN values = 1..n /\ \A k \in 1..n : values[k] \in ValueRow
  OBVIOUS
<1>3. \A x \in S : x.identity \in Identities /\ x.value \in Nat
            /\ [identity |-> x.identity, value |-> x.value] = x
  BY DEF Record
<1> HIDE DEF m
<1>8. rows = old \o fresh
  BY Zenon DEF Restated
<1> HIDE DEF rows, ins
<1>4. DOMAIN ins = 1..m /\ \A k \in 1..m : ins[k] \in S
  BY <1>1
<1>5. changed = {x.identity : x \in S} /\ changed = {ins[k].identity : k \in DOMAIN ins}
  BY <1>1, <1>4
<1>6. \A i \in changed : i \in Identities /\ new(i) \in 1..m /\ ins[new(i)].identity = i
  <2> SUFFICES ASSUME NEW i \in changed
               PROVE  i \in Identities /\ new(i) \in 1..m /\ ins[new(i)].identity = i
    OBVIOUS
  <2>1. \E k \in DOMAIN ins : ins[k].identity = i
    BY <1>5
  <2> QED BY <1>3, <1>4, <2>1
<1>7. \A k \in replaced : values[k].identity \in changed /\ live[values[k].identity] = k /\ k \in 1..n
  BY <1>2, <1>6
<1> HIDE DEF new, changed
<1>9. ASSUME NEW k \in 1..n
      PROVE  /\ old[k] \in ValueRow
             /\ old[k].identity = values[k].identity /\ old[k].value = values[k].value
             /\ old[k].artifact = values[k].artifact
             /\ k \notin replaced => old[k].next = values[k].next
             /\ k \in replaced => old[k].next = n + new(values[k].identity)
  <2>1. CASE k \in replaced
    <3> DEFINE v == values[k]
               w == n + new(values[k].identity)
    <3>1. old[k] = [v EXCEPT !.next = w]
      BY <1>2, <2>1
    <3>2. v \in ValueRow /\ w \in Nat
      BY <1>2, <1>6, <1>7, <2>1
    <3> HIDE DEF v, w, old
    <3>3. /\ old[k] \in ValueRow /\ old[k].identity = v.identity /\ old[k].value = v.value
          /\ old[k].artifact = v.artifact /\ old[k].next = w
      BY <3>1, <3>2 DEF ValueRow
    <3> QED BY <2>1, <3>3 DEF v, w
  <2>2. CASE k \notin replaced
    <3>1. old[k] = values[k]
      BY <1>2, <2>2
    <3> QED BY <1>2, <2>2, <3>1
  <2> QED BY <2>1, <2>2
<1>10. ASSUME NEW k \in 1..m
       PROVE  /\ fresh[k] \in ValueRow /\ fresh[k].identity = ins[k].identity /\ fresh[k].value = ins[k].value
              /\ fresh[k].artifact = A /\ fresh[k].next = 0
  BY <1>3, <1>4 DEF ValueRow
<1>11. DOMAIN old = 1..n /\ DOMAIN fresh = 1..m
  BY <1>2, <1>4
<1>12. old = [k \in 1..n |-> old[k]] /\ fresh = [k \in 1..m |-> fresh[k]]
  BY <1>2, <1>4
<1> HIDE DEF old, fresh
<1>13. old \in Seq(ValueRow) /\ Len(old) = n /\ fresh \in Seq(ValueRow) /\ Len(fresh) = m
  <2> HIDE DEF n
  <2>1. old \in [1..n -> ValueRow] /\ fresh \in [1..m -> ValueRow]
    BY <1>9, <1>10, <1>12
  <2> QED BY <2>1, <1>1, <1>2
<1> HIDE DEF n
<1>14. /\ rows \in Seq(ValueRow) /\ DOMAIN rows = 1..(n + m) /\ Len(rows) = n + m
       /\ \A k \in 1..n : rows[k] = old[k]
       /\ \A k \in 1..m : rows[n + k] = fresh[k]
  <2>1. n \in Nat /\ m \in Nat
    BY <1>1, <1>2
  <2>2. rows \in Seq(ValueRow) /\ Len(rows) = n + m
    BY <1>8, <1>13, ConcatProperties
  <2>3. DOMAIN rows = 1..(n + m)
    BY <2>1, <2>2
  <2>4. \A k \in 1..n : rows[k] = old[k]
    BY <1>8, <1>13, <2>1
  <2>5. \A k \in 1..m : rows[n + k] = fresh[k]
    BY <1>8, <1>13, <2>1
  <2> QED BY <2>2, <2>3, <2>4, <2>5
<1> DEFINE added == DOMAIN rows \ DOMAIN values
<1>15. /\ \A k \in added : k - n \in 1..m /\ rows[k] = fresh[k - n]
       /\ \A k \in 1..m : n + k \in added /\ n + k \in Nat
       /\ DOMAIN values \subseteq DOMAIN rows /\ Len(values) <= Len(rows)
  <2>1. n \in Nat /\ m \in Nat /\ DOMAIN values = 1..n /\ Len(values) = n
    BY <1>1, <1>2 DEF n
  <2>2. \A k \in added : k \in (n + 1)..(n + m)
    BY <1>14, <2>1
  <2>3. \A k \in added : k - n \in 1..m /\ k = n + (k - n)
    BY <2>1, <2>2
  <2>4. \A k \in added : rows[k] = fresh[k - n]
    BY <1>14, <2>3
  <2>5. \A k \in 1..m : n + k \in added /\ n + k \in Nat
    BY <1>14, <2>1
  <2> QED BY <1>14, <2>1, <2>3, <2>4, <2>5
<1> HIDE DEF added
<1>16. ASSUME NEW k \in added
       PROVE  /\ [identity |-> rows[k].identity, value |-> rows[k].value] \in S
              /\ rows[k].next = 0 /\ rows[k].artifact = A
  BY <1>3, <1>4, <1>10, <1>15
<1>17. ASSUME NEW x \in S PROVE \E k \in added : rows[k].identity = x.identity /\ rows[k].value = x.value
  <2>1. PICK k \in 1..m : ins[k] = x
    BY <1>1
  <2>2. rows[n + k].identity = x.identity /\ rows[n + k].value = x.value
    BY <1>10, <1>14, <2>1
  <2> QED BY <1>15, <2>2
<1>18. ASSUME NEW k \in replaced
       PROVE  rows[k].next \in added /\ rows[rows[k].next].identity = values[k].identity
  <2> DEFINE i == values[k].identity
  <2>1. i \in changed /\ k \in 1..n
    BY <1>7
  <2>2. rows[k].next = n + new(i)
    BY <1>9, <1>14, <2>1
  <2>3. new(i) \in 1..m /\ ins[new(i)].identity = i
    BY <1>6, <2>1
  <2>4. rows[n + new(i)].identity = i
    BY <1>10, <1>14, <2>3
  <2> QED BY <1>15, <2>2, <2>3, <2>4
<1>19. \A k \in DOMAIN values :
         /\ rows[k].identity = values[k].identity /\ rows[k].value = values[k].value
         /\ rows[k].artifact = values[k].artifact
         /\ k \notin replaced => rows[k].next = values[k].next
  BY <1>2, <1>9, <1>14
<1> HIDE DEF replaced
<1>20. \A i : i \in changed <=> \E x \in S : x.identity = i
  BY <1>5
<1>21. replaced = Replaced(values, live, S)
  BY <1>20 DEF replaced, Replaced
<1>22. Restates(values, rows, A, live, S)
  <2>1. rows \in Seq(ValueRow) /\ DOMAIN values \subseteq DOMAIN rows /\ Len(values) <= Len(rows)
    BY <1>14, <1>15
  <2>2. \A k \in DOMAIN values :
          /\ rows[k].identity = values[k].identity /\ rows[k].value = values[k].value
          /\ rows[k].artifact = values[k].artifact
    BY <1>19
  <2>3. \A k \in DOMAIN values \ Replaced(values, live, S) : rows[k].next = values[k].next
    BY <1>19, <1>21
  <2>4. \A k \in Replaced(values, live, S) :
          /\ \E x \in S : x.identity = values[k].identity
          /\ live[values[k].identity] = k /\ rows[k].next \in added
          /\ rows[rows[k].next].identity = values[k].identity
    BY <1>7, <1>18, <1>20, <1>21
  <2> QED BY <2>1, <2>2, <2>3, <2>4, <1>16, <1>17, Zenon DEF Restates, added
<1> QED BY <1>22 DEF rows, ins

\* What was live of an identity still is, but where a record of S was inserted, which is.
OnlyInserted(V, rows, A, S) ==
    /\ \A i \in Identities : (\A x \in S : x.identity # i) => LiveRows(rows, i) = LiveRows(V, i)
    /\ \A x \in S : \E k \in LiveRows(rows, x.identity) :
                      /\ LiveRows(rows, x.identity) = {k}
                      /\ rows[k].value = x.value /\ rows[k].artifact = A

\* Where the index and the trigger accept the rows, each identity has one live value after as before.
LEMMA OneLiveStays ==
    ASSUME NEW V \in Seq(ValueRow), OneLive(V), \A k \in DOMAIN V : V[k].next \in 0..Len(V),
           NEW rows, NEW A, NEW live, NEW S, Restates(V, rows, A, live, S),
           \A x \in S : \A a, b \in LiveRows(rows, x.identity) : a = b
    PROVE  /\ OneLive(rows) /\ \A k \in DOMAIN rows : rows[k].next \in 0..Len(rows)
           /\ OnlyInserted(V, rows, A, S)
<1> DEFINE replaced == Replaced(V, live, S)
           added == DOMAIN rows \ DOMAIN V
<1>1. /\ rows \in Seq(ValueRow) /\ DOMAIN V \subseteq DOMAIN rows /\ Len(V) <= Len(rows)
      /\ \A k \in DOMAIN V : rows[k].identity = V[k].identity
      /\ \A k \in DOMAIN V \ replaced : rows[k].next = V[k].next
      /\ \A k \in replaced : /\ \E x \in S : x.identity = V[k].identity
                             /\ rows[k].next \in added
                             /\ rows[rows[k].next].identity = V[k].identity
      /\ \A k \in added : /\ [identity |-> rows[k].identity, value |-> rows[k].value] \in S
                          /\ rows[k].next = 0 /\ rows[k].artifact = A
      /\ \A x \in S : \E k \in added : rows[k].identity = x.identity /\ rows[k].value = x.value
  BY Zenon DEF Restates
<1>2. /\ DOMAIN V = 1..Len(V) /\ DOMAIN rows = 1..Len(rows) /\ Len(V) \in Nat /\ Len(rows) \in Nat
  BY <1>1
<1>3. replaced \subseteq DOMAIN V
  BY DEF Replaced
<1>4. \A k \in added : \E x \in S : x.identity = rows[k].identity
  <2> SUFFICES ASSUME NEW k \in added PROVE \E x \in S : x.identity = rows[k].identity
    OBVIOUS
  <2> DEFINE x == [identity |-> rows[k].identity, value |-> rows[k].value]
  <2>1. x \in S /\ x.identity = rows[k].identity
    BY <1>1
  <2> QED BY <2>1
<1>5. \A k \in replaced : rows[k].next # 0
  BY <1>1, <1>2
<1> HIDE DEF replaced, added
<1>6. \A k \in DOMAIN rows : k \in DOMAIN V \/ k \in added
  BY DEF added
<1>7. ASSUME NEW i, \A x \in S : x.identity # i PROVE LiveRows(rows, i) = LiveRows(V, i)
  <2>1. ASSUME NEW k, k \in LiveRows(rows, i) PROVE k \in LiveRows(V, i)
    <3>1. k \in DOMAIN rows /\ rows[k].identity = i /\ rows[k].next = 0
      BY <2>1 DEF LiveRows
    <3>2. k \in DOMAIN V /\ k \notin replaced
      BY <1>4, <1>5, <1>6, <1>7, <3>1
    <3> QED BY <1>1, <3>1, <3>2 DEF LiveRows
  <2>2. ASSUME NEW k, k \in LiveRows(V, i) PROVE k \in LiveRows(rows, i)
    <3>1. k \in DOMAIN V /\ V[k].identity = i /\ V[k].next = 0
      BY <2>2 DEF LiveRows
    <3>2. k \notin replaced
      BY <1>1, <1>7, <3>1
    <3> QED BY <1>1, <3>1, <3>2 DEF LiveRows
  <2> QED BY <2>1, <2>2
<1>8. ASSUME NEW x \in S
      PROVE  \E k \in LiveRows(rows, x.identity) :
               /\ LiveRows(rows, x.identity) = {k}
               /\ rows[k].value = x.value /\ rows[k].artifact = A
  <2>1. PICK k \in added : rows[k].identity = x.identity /\ rows[k].value = x.value
    BY <1>1
  <2>2. k \in LiveRows(rows, x.identity) /\ rows[k].artifact = A
    BY <1>1, <2>1 DEF LiveRows, added
  <2>3. \A a, b \in LiveRows(rows, x.identity) : a = b
    OBVIOUS
  <2> QED BY <2>1, <2>2, <2>3
<1>9. ASSUME NEW k \in DOMAIN rows
      PROVE  /\ rows[k].next \in 0..Len(rows)
             /\ rows[k].next # 0 => rows[rows[k].next].identity = rows[k].identity
  <2>1. CASE k \in added
    <3>1. rows[k].next = 0
      BY <1>1, <2>1 DEF added
    <3> QED BY <1>2, <3>1
  <2>2. CASE k \in replaced
    BY <1>1, <1>2, <1>3, <2>2 DEF added
  <2>3. CASE k \in DOMAIN V \ replaced
    <3>1. rows[k].next = V[k].next /\ rows[k].identity = V[k].identity
      BY <1>1, <2>3
    <3>2. V[k].next \in 0..Len(V) /\ (V[k].next # 0 => V[V[k].next].identity = V[k].identity)
      BY <2>3 DEF OneLive
    <3>3. V[k].next # 0 => V[k].next \in DOMAIN V
      BY <1>2, <3>2
    <3> QED BY <1>1, <1>2, <3>1, <3>2, <3>3
  <2> QED BY <1>6, <2>1, <2>2, <2>3
<1>10. ASSUME NEW k \in DOMAIN rows, rows[k].next = 0 PROVE LiveRows(rows, rows[k].identity) = {k}
  <2> DEFINE i == rows[k].identity
  <2>1. k \in LiveRows(rows, i)
    BY <1>10 DEF LiveRows
  <2>2. CASE \E x \in S : x.identity = i
    <3>1. \A a, b \in LiveRows(rows, i) : a = b
      BY <2>2
    <3> QED BY <2>1, <3>1
  <2>3. CASE \A x \in S : x.identity # i
    <3>1. LiveRows(rows, i) = LiveRows(V, i)
      BY <1>7, <2>3
    <3>2. k \in DOMAIN V /\ V[k].identity = i /\ V[k].next = 0
      BY <2>1, <3>1 DEF LiveRows
    <3> QED BY <3>1, <3>2 DEF OneLive
  <2> QED BY <2>2, <2>3
<1> QED BY <1>7, <1>8, <1>9, <1>10 DEF OneLive, OnlyInserted

-----------------------------------------------------------------------------

Stands(live) == [i \in Identities |-> IF live[i] = 0 THEN 0 ELSE values[live[i]].value]
Changes(A, live) == {A[k] : k \in FirstChanges(A, Stands(live))}

LEMMA ArtifactShape == \A A \in Artifacts : A \in Seq(Record)
BY IngestAssumption DEF Record

\* What a run that commits has done to the rows.
LEMMA PersistRestates ==
    ASSUME PublisherInv, NEW r \in Ingesters, PersistExtraction(r)
    PROVE  LET A == ingest[r].artifact
               live == ingest[r].live
               S == Changes(A, live)
           IN /\ A \in Artifacts /\ A \in Seq(Record) /\ live \in [Identities -> Nat]
              /\ Becomes(r, NotIngesting) /\ UNCHANGED <<offered, corrections>>
              /\ \/ UNCHANGED <<evidence, vintageHeld, values>>
                 \/ /\ Restates(values, values', A, live, S)
                    /\ \A x \in S : \A a, b \in LiveRows(values', x.identity) : a = b
                    /\ evidence' = evidence \cup {A} /\ vintageHeld' = TRUE
<1> DEFINE A == ingest[r].artifact
           live == ingest[r].live
           S == Changes(A, live)
           rows == Restated(A, live, SetToSeq(S))
<1>1. A \in Artifacts /\ live \in [Identities -> Nat]
  BY DEF PersistExtraction, AtIngest, PublisherInv, ValueShapes, IngestRun
<1>2. A \in Seq(Record)
  BY <1>1, ArtifactShape
<1>3. /\ S \in SUBSET Record /\ IsFiniteSet(S)
      /\ \A x, y \in S : x.identity = y.identity => x = y
  BY <1>2, PlanInserts DEF Changes
<1>4. \A i \in Identities : live[i] # 0 => live[i] \in DOMAIN values /\ values[live[i]].identity = i
  BY DEF PublisherInv, ValueShapes
<1>5. Restates(values, rows, A, live, S)
  <2>1. values \in Seq(ValueRow)
    BY DEF PublisherInv, ValueShapes
  <2> HIDE DEF A, live, S
  <2> QED BY <1>1, <1>3, <1>4, <2>1, RestatedRows DEF rows
<1>6. PlanWrites(A, live).inserts = SetToSeq(S)
  BY DEF PlanWrites, PlanOf, Changes, Stands
<1>7. Becomes(r, NotIngesting) /\ UNCHANGED <<offered, corrections>>
  BY DEF PersistExtraction
<1>8. \/ UNCHANGED <<evidence, vintageHeld, values>>
      \/ /\ values' = rows /\ Accepted(rows, live, SetToSeq(S))
         /\ evidence' = evidence \cup {A} /\ vintageHeld' = TRUE
  BY <1>6, Zenon DEF PersistExtraction
<1>9. ASSUME Accepted(rows, live, SetToSeq(S)), NEW x \in S
      PROVE  \A a, b \in LiveRows(rows, x.identity) : a = b
  <2> DEFINE ins == SetToSeq(S)
  <2>1. \E k \in DOMAIN ins : ins[k] = x
    BY <1>3, SetToSeqIs
  <2> HIDE DEF rows, S
  <2> QED BY <1>9, <2>1 DEF Accepted
<1> HIDE DEF rows, S
<1>10. \/ UNCHANGED <<evidence, vintageHeld, values>>
       \/ /\ Restates(values, values', A, live, S)
          /\ \A x \in S : \A a, b \in LiveRows(values', x.identity) : a = b
          /\ evidence' = evidence \cup {A} /\ vintageHeld' = TRUE
  BY <1>5, <1>8, <1>9
<1> QED BY <1>1, <1>2, <1>7, <1>10 DEF S

-----------------------------------------------------------------------------

\* A run as it may stand beside the rows V.
RunStands(run, V) ==
    /\ run \in IngestRun
    /\ run.pc # "idle" => run.artifact \in Artifacts
    /\ \A i \in Identities : run.live[i] \in 0..Len(V)
    /\ \A i \in Identities : run.live[i] # 0 => V[run.live[i]].identity = i

\* A run that moves and writes nothing keeps the tables as they are.
LEMMA IngestMoves ==
    ASSUME PublisherInv, NEW r \in Ingesters, NEW run, RunStands(run, values), Becomes(r, run),
           UNCHANGED <<offered, corrections, evidence, vintageHeld, values>>
    PROVE  PublisherInv'
<1>1. /\ ingest \in [Ingesters -> IngestRun]
      /\ \A q \in Ingesters : RunStands(ingest[q], values)
  BY DEF PublisherInv, ValueShapes, RunStands
<1>2. ingest' \in [Ingesters -> IngestRun] /\ \A q \in Ingesters : RunStands(ingest'[q], values)
  <2>1. ingest' = [ingest EXCEPT ![r] = run] /\ run \in IngestRun
    BY DEF Becomes, RunStands
  <2>2. ingest' \in [Ingesters -> IngestRun]
    BY <1>1, <2>1
  <2>3. \A q \in Ingesters : ingest'[q] = run \/ ingest'[q] = ingest[q]
    BY <1>1, <2>1
  <2> QED BY <1>1, <2>2, <2>3
<1>3. ValueShapes'
  BY <1>2 DEF PublisherInv, ValueShapes, RunStands
<1>4. OneLive(values)'
  BY DEF PublisherInv, OneLive, LiveRows
<1> QED BY <1>3, <1>4 DEF PublisherInv

LEMMA IdleStands == RunStands(NotIngesting, values) /\ NotIngesting \in IngestRun
<1>1. NotIngesting \in IngestRun
  BY DEF NotIngesting, IngestRun
<1> QED BY <1>1 DEF RunStands, NotIngesting

\* The value read live of an identity is its one live row, or none.
LEMMA LiveIs ==
    ASSUME NEW V \in Seq(ValueRow), NEW i \in Identities
    PROVE  /\ Live(V)[i] \in 0..Len(V) /\ (Live(V)[i] # 0 => V[Live(V)[i]].identity = i)
           /\ \A k \in LiveRows(V, i) : LiveRows(V, i) = {k} => Live(V)[i] = k
<1> DEFINE R == LiveRows(V, i)
<1>1. R \subseteq 1..Len(V) /\ \A k \in R : V[k].identity = i
  BY DEF LiveRows
<1>2. Live(V)[i] = IF R = {} THEN 0 ELSE CHOOSE k \in R : TRUE
  BY DEF Live
<1>3. R # {} => Live(V)[i] \in R
  BY <1>2
<1>4. Len(V) \in Nat
  OBVIOUS
<1>5. R = {} => Live(V)[i] = 0
  BY <1>2
<1> HIDE DEF R
<1>6. Live(V)[i] \in 0..Len(V) /\ (Live(V)[i] # 0 => V[Live(V)[i]].identity = i)
  <2> DEFINE w == Live(V)[i]
             n == Len(V)
  <2>1. w = 0 \/ (w \in 1..n /\ V[w].identity = i)
    BY <1>1, <1>3, <1>5
  <2> HIDE DEF w, n
  <2>2. n \in Nat
    BY <1>4 DEF n
  <2>3. w \in 0..n /\ (w # 0 => V[w].identity = i)
    BY <2>1, <2>2
  <2> QED BY <2>3 DEF w, n
<1>7. \A k \in R : R = {k} => Live(V)[i] = k
  BY <1>3
<1> QED BY <1>6, <1>7 DEF R

LEMMA SilentKeeps ==
    ASSUME PublisherInv, NEW r \in Ingesters,
           FetchArtifact(r) \/ FileRetrieval(r) \/ FindVintage(r) \/ CreateVintage(r)
             \/ LoadLive(r) \/ IngestFails(r)
    PROVE  PublisherInv'
<1> DEFINE now == ingest[r]
<1>1. RunStands(now, values) /\ offered \in Artifacts /\ values \in Seq(ValueRow)
  BY DEF PublisherInv, ValueShapes, RunStands
<1>2. \A pc \in {"idle", "fetched", "vintage", "create", "load", "persist"} : now.pc # "idle" =>
        /\ RunStands([now EXCEPT !.pc = pc], values)
        /\ RunStands([now EXCEPT !.pc = pc, !.creates = TRUE], values)
  <2> HIDE DEF now
  <2> QED BY <1>1 DEF RunStands, IngestRun
<1>3. CASE FetchArtifact(r)
  <2> DEFINE run == [NotIngesting EXCEPT !.pc = "fetched", !.artifact = offered]
  <2>1. RunStands(run, values)
    BY <1>1, IdleStands DEF RunStands, NotIngesting, IngestRun
  <2> QED BY <1>3, <2>1, IngestMoves DEF FetchArtifact
<1>4. CASE FileRetrieval(r)
  <2>1. RunStands([now EXCEPT !.pc = "vintage"], values)
    BY <1>2, <1>4 DEF FileRetrieval, AtIngest
  <2> QED BY <1>4, <2>1, IngestMoves DEF FileRetrieval
<1>5. CASE FindVintage(r)
  <2> DEFINE pc == IF vintageHeld THEN "load" ELSE "create"
  <2>1. now.pc # "idle" /\ pc \in {"load", "create"}
    BY <1>5 DEF FindVintage, AtIngest
  <2> HIDE DEF now, pc
  <2>2. RunStands([now EXCEPT !.pc = pc], values)
    BY <1>2, <2>1
  <2> QED BY <1>5, <2>2, IngestMoves DEF FindVintage, now, pc
<1>6. CASE CreateVintage(r)
  <2>1. now.pc # "idle"
    BY <1>6 DEF CreateVintage, AtIngest
  <2>2. RunStands([now EXCEPT !.pc = "load", !.creates = TRUE], values)
    BY <1>2, <2>1
  <2>3. CASE vintageHeld
    BY <1>6, <2>3, IdleStands, IngestMoves DEF CreateVintage
  <2>4. CASE ~vintageHeld
    BY <1>6, <2>2, <2>4, IngestMoves DEF CreateVintage
  <2> QED BY <2>3, <2>4
<1>7. CASE LoadLive(r)
  <2> DEFINE live == Live(values)
             run == [now EXCEPT !.pc = "persist", !.live = live]
  <2>1. now.pc # "idle"
    BY <1>7 DEF LoadLive, AtIngest
  <2>2. \A i \in Identities : live[i] \in 0..Len(values) /\ (live[i] # 0 => values[live[i]].identity = i)
    BY <1>1, LiveIs
  <2>3. live = [i \in Identities |-> live[i]]
    BY DEF Live
  <2> HIDE DEF live, now
  <2>4. live \in [Identities -> Nat]
    BY <1>1, <2>2, <2>3
  <2>5. RunStands(run, values)
    <3>1. /\ run \in IngestRun /\ run.live = live /\ run.artifact = now.artifact
      BY <1>1, <2>4 DEF RunStands, IngestRun
    <3>2. run.artifact \in Artifacts
      BY <1>1, <2>1, <3>1 DEF RunStands
    <3> HIDE DEF run
    <3> QED BY <2>2, <3>1, <3>2 DEF RunStands
  <2>6. Becomes(r, run) /\ UNCHANGED <<offered, corrections, evidence, vintageHeld, values>>
    BY <1>7 DEF LoadLive, now, live
  <2> HIDE DEF run
  <2> QED BY <2>5, <2>6, IngestMoves
<1>8. CASE IngestFails(r)
  BY <1>8, IdleStands, IngestMoves DEF IngestFails
<1> QED BY <1>3, <1>4, <1>5, <1>6, <1>7, <1>8

LEMMA CorrectionKeeps == PublisherInv /\ PublisherCorrects => PublisherInv'
<1> SUFFICES ASSUME PublisherInv, PublisherCorrects PROVE PublisherInv'
  OBVIOUS
<1>1. corrections' \in 0..MaxCorrections
  BY IngestAssumption DEF PublisherInv, ValueShapes, PublisherCorrects
<1>2. ValueShapes'
  BY <1>1 DEF PublisherInv, ValueShapes, PublisherCorrects
<1>3. OneLive(values)'
  BY DEF PublisherInv, OneLive, LiveRows, PublisherCorrects
<1> QED BY <1>2, <1>3 DEF PublisherInv

\* A commit adds rows and supersedes rows of the identities it adds, and every other run's
\* rows are still of the identities it loaded them for.
LEMMA PersistKeepsOneLive ==
    ASSUME PublisherInv, NEW r \in Ingesters, PersistExtraction(r)
    PROVE  PublisherInv'
<1> DEFINE A == ingest[r].artifact
           live == ingest[r].live
           S == Changes(A, live)
<1>1. /\ A \in Artifacts /\ live \in [Identities -> Nat]
      /\ Becomes(r, NotIngesting) /\ UNCHANGED <<offered, corrections>>
      /\ \/ UNCHANGED <<evidence, vintageHeld, values>>
         \/ /\ Restates(values, values', A, live, S)
            /\ \A x \in S : \A a, b \in LiveRows(values', x.identity) : a = b
            /\ evidence' = evidence \cup {A} /\ vintageHeld' = TRUE
  BY PersistRestates
<1> HIDE DEF A, live, S
<1>2. CASE UNCHANGED <<evidence, vintageHeld, values>>
  BY <1>1, <1>2, IdleStands, IngestMoves
<1>3. CASE /\ Restates(values, values', A, live, S)
           /\ \A x \in S : \A a, b \in LiveRows(values', x.identity) : a = b
           /\ evidence' = evidence \cup {A} /\ vintageHeld' = TRUE
  <2>1. /\ values \in Seq(ValueRow) /\ OneLive(values)
        /\ \A k \in DOMAIN values : values[k].next \in 0..Len(values) /\ values[k].artifact \in evidence
        /\ evidence \subseteq Artifacts /\ offered \in Artifacts /\ corrections \in 0..MaxCorrections
        /\ ingest \in [Ingesters -> IngestRun]
        /\ \A q \in Ingesters : RunStands(ingest[q], values)
    BY DEF PublisherInv, ValueShapes, RunStands
  <2>2. OneLive(values') /\ \A k \in DOMAIN values' : values'[k].next \in 0..Len(values')
    BY <1>3, <2>1, OneLiveStays
  <2>3. /\ values' \in Seq(ValueRow) /\ Len(values) <= Len(values') /\ DOMAIN values \subseteq DOMAIN values'
        /\ \A k \in DOMAIN values : /\ values'[k].identity = values[k].identity
                                    /\ values'[k].artifact = values[k].artifact
        /\ \A k \in DOMAIN values' \ DOMAIN values : values'[k].artifact = A
    BY <1>3, Zenon DEF Restates
  <2>4. \A k \in DOMAIN values' : values'[k].artifact \in evidence'
    BY <1>3, <2>1, <2>3
  <2>5. ASSUME NEW run, RunStands(run, values) PROVE RunStands(run, values')
    <3>1. Len(values) \in Nat /\ Len(values') \in Nat /\ DOMAIN values = 1..Len(values)
      BY <2>1, <2>3
    <3> QED BY <2>3, <2>5, <3>1 DEF RunStands
  <2>6. ingest' \in [Ingesters -> IngestRun] /\ \A q \in Ingesters : RunStands(ingest'[q], values')
    <3>1. ingest' = [ingest EXCEPT ![r] = NotIngesting]
      BY <1>1 DEF Becomes
    <3>2. ingest' \in [Ingesters -> IngestRun]
      BY <2>1, <3>1, IdleStands
    <3>3. \A q \in Ingesters : ingest'[q] = NotIngesting \/ ingest'[q] = ingest[q]
      BY <2>1, <3>1
    <3>4. \A q \in Ingesters : RunStands(ingest'[q], values)
      BY <2>1, <3>3, IdleStands
    <3> QED BY <2>5, <3>2, <3>4
  <2>7. evidence' \subseteq Artifacts /\ vintageHeld' \in BOOLEAN
        /\ offered' \in Artifacts /\ corrections' \in 0..MaxCorrections
    BY <1>1, <1>3, <2>1
  <2>8. ValueShapes'
    BY <2>2, <2>3, <2>4, <2>6, <2>7 DEF ValueShapes, RunStands
  <2>9. OneLive(values)'
    BY <2>2 DEF OneLive, LiveRows
  <2> QED BY <2>8, <2>9 DEF PublisherInv
<1> QED BY <1>1, <1>2, <1>3

LEMMA PublisherInitially == PublisherInit => PublisherInv
<1> SUFFICES ASSUME PublisherInit PROVE PublisherInv
  OBVIOUS
<1>1. ValueShapes
  <2>1. values \in Seq(ValueRow) /\ DOMAIN values = {} /\ Len(values) = 0
    BY DEF PublisherInit
  <2>2. corrections \in 0..MaxCorrections
    BY IngestAssumption DEF PublisherInit
  <2>3. ingest \in [Ingesters -> IngestRun] /\ \A q \in Ingesters : ingest[q] = NotIngesting
    BY IdleStands DEF PublisherInit
  <2>4. NotIngesting.pc = "idle" /\ \A i \in Identities : NotIngesting.live[i] = 0
    BY DEF NotIngesting
  <2>5. /\ \A q \in Ingesters : ingest[q].pc = "idle"
        /\ \A q \in Ingesters : \A i \in Identities : ingest[q].live[i] = 0
    BY <2>3, <2>4
  <2>6. offered \in Artifacts /\ evidence = {} /\ vintageHeld = FALSE
    BY DEF PublisherInit
  <2>7. \A q \in Ingesters : \A i \in Identities : ingest[q].live[i] \in 0..Len(values)
    BY <2>1, <2>5
  <2> QED BY <2>1, <2>2, <2>3, <2>5, <2>6, <2>7 DEF ValueShapes
<1>2. OneLive(values)
  BY DEF PublisherInit, OneLive
<1> QED BY <1>1, <1>2 DEF PublisherInv

LEMMA PublisherKept == PublisherInv /\ [PublisherNext]_publisherVars => PublisherInv'
<1> SUFFICES ASSUME PublisherInv, [PublisherNext]_publisherVars PROVE PublisherInv'
  OBVIOUS
<1>1. CASE PublisherCorrects
  BY <1>1, CorrectionKeeps
<1>2. ASSUME NEW r \in Ingesters, PersistExtraction(r) PROVE PublisherInv'
  BY <1>2, PersistKeepsOneLive
<1>3. ASSUME NEW r \in Ingesters, IngestStep(r), ~PersistExtraction(r) PROVE PublisherInv'
  BY <1>3, SilentKeeps DEF IngestStep
<1>4. CASE UNCHANGED publisherVars
  BY <1>4 DEF publisherVars, PublisherInv, ValueShapes, OneLive, LiveRows
<1> QED BY <1>1, <1>2, <1>3, <1>4 DEF PublisherNext

LEMMA PublisherAlways == PublisherSpec => []PublisherInv
BY PublisherInitially, PublisherKept, PTL DEF PublisherSpec

\* The tables and the runs have the types they are declared with: every value was filed under
\* an artifact kept as evidence, and what supersedes it is a row of the table.
THEOREM PublisherTypeCorrect == PublisherSpec => []PublisherTypeOK
<1>1. PublisherInv => PublisherTypeOK
  <2> SUFFICES ASSUME PublisherInv PROVE PublisherTypeOK
    OBVIOUS
  <2>1. \A k \in DOMAIN values :
          values[k] \in [identity : Identities, value : Nat, artifact : evidence, next : 0..Len(values)]
    <3> SUFFICES ASSUME NEW k \in DOMAIN values
                 PROVE  values[k] \in [identity : Identities, value : Nat, artifact : evidence,
                                       next : 0..Len(values)]
      OBVIOUS
    <3> DEFINE v == values[k]
    <3>1. v \in ValueRow /\ v.artifact \in evidence /\ v.next \in 0..Len(values)
      BY DEF PublisherInv, ValueShapes
    <3> HIDE DEF v
    <3>2. v \in [identity : Identities, value : Nat, artifact : evidence, next : 0..Len(values)]
      BY <3>1 DEF ValueRow
    <3> QED BY <3>2 DEF v
  <2> DEFINE run(q) == ingest[q]
  <2>2. ASSUME NEW q \in Ingesters
        PROVE  run(q) \in [pc : {"idle", "fetched", "vintage", "create", "load", "persist"},
                           artifact : Artifacts \cup {NoArtifact}, creates : BOOLEAN,
                           live : [Identities -> 0..Len(values)]]
    <3>1. run(q) \in IngestRun /\ \A i \in Identities : run(q).live[i] \in 0..Len(values)
      BY DEF PublisherInv, ValueShapes
    <3> HIDE DEF run
    <3>2. run(q).live \in [Identities -> 0..Len(values)]
      BY <3>1 DEF IngestRun
    <3> QED BY <3>1, <3>2 DEF IngestRun
  <2> QED BY <2>1, <2>2 DEF PublisherInv, ValueShapes, PublisherTypeOK
<1> QED BY <1>1, PublisherAlways, PTL

-----------------------------------------------------------------------------

\* What a commit leaves live of an identity: what its artifact says where that differs from
\* what the run had read, and what was live where it does not.
LEMMA CommitLeavesLive ==
    ASSUME PublisherInv, NEW r \in Ingesters, PersistExtraction(r), values' # values,
           NEW i \in Identities
    PROVE  LET said == ValuesOf(ingest[r].artifact, i)
               now == Live(values')[i]
           IN IF said \subseteq Value(values, ingest[r].live[i]) THEN now = Live(values)[i]
              ELSE Value(values', now) \subseteq said /\ values'[now].artifact = ingest[r].artifact
<1> DEFINE A == ingest[r].artifact
           live == ingest[r].live
           S == Changes(A, live)
           rows == values'
           said == ValuesOf(A, i)
           stands == Stands(live)
<1>1. /\ A \in Seq(Record) /\ live \in [Identities -> Nat]
      /\ Restates(values, rows, A, live, S)
      /\ \A x \in S : \A a, b \in LiveRows(rows, x.identity) : a = b
  BY PersistRestates
<1>2. /\ \A x \in S : x.value # stands[x.identity] /\ x.value \in ValuesOf(A, x.identity)
      /\ \A k \in DOMAIN A : A[k].value # stands[A[k].identity] => \E x \in S : x.identity = A[k].identity
  BY <1>1, PlanInserts DEF Changes
<1>3. stands[i] = IF live[i] = 0 THEN 0 ELSE values[live[i]].value
  BY DEF Stands
<1>4. values \in Seq(ValueRow) /\ OneLive(values) /\ \A k \in DOMAIN values : values[k].next \in 0..Len(values)
  BY DEF PublisherInv, ValueShapes
<1>5. rows \in Seq(ValueRow)
  BY <1>1, Zenon DEF Restates
<1> HIDE DEF A, live, S, stands
<1>6. /\ (\A x \in S : x.identity # i) => LiveRows(rows, i) = LiveRows(values, i)
      /\ \A x \in S : \E k \in LiveRows(rows, x.identity) :
                        /\ LiveRows(rows, x.identity) = {k}
                        /\ rows[k].value = x.value /\ rows[k].artifact = A
  <2>1. OnlyInserted(values, values', A, S)
    BY <1>1, <1>4, OneLiveStays
  <2> QED BY <2>1 DEF OnlyInserted
<1>7. CASE said \subseteq Value(values, live[i])
  <2>1. ASSUME NEW x \in S PROVE x.identity # i
    BY <1>2, <1>3, <1>7 DEF Value
  <2>2. LiveRows(rows, i) = LiveRows(values, i)
    BY <1>6, <2>1
  <2>3. Live(rows)[i] = Live(values)[i]
    BY <2>2 DEF Live
  <2> QED BY <1>7, <2>3 DEF A, live, rows
<1>8. CASE ~(said \subseteq Value(values, live[i]))
  <2>1. PICK k \in DOMAIN A : A[k].identity = i /\ A[k].value \notin Value(values, live[i])
    BY <1>8 DEF ValuesOf
  <2>2. A[k].value # stands[i]
    <3>1. A[k].value # 0
      <4>1. A[k] \in Record
        BY <1>1, <2>1
      <4> QED BY <4>1 DEF Record
    <3> QED BY <1>3, <2>1, <3>1 DEF Value
  <2>3. PICK x \in S : x.identity = i
    BY <1>2, <2>1, <2>2
  <2>4. PICK m \in LiveRows(rows, i) : /\ LiveRows(rows, i) = {m}
                                       /\ rows[m].value = x.value /\ rows[m].artifact = A
    BY <1>6, <2>3
  <2>5. Live(rows)[i] = m
    BY <1>5, <2>4, LiveIs
  <2>6. x.value \in said
    BY <1>2, <2>3
  <2>7. Value(rows, Live(rows)[i]) \subseteq said /\ rows[Live(rows)[i]].artifact = A
    BY <2>4, <2>5, <2>6 DEF Value
  <2> QED BY <1>8, <2>7 DEF A, live, rows
<1> QED BY <1>7, <1>8 DEF A, live, rows

\* Only the commit of a run that was persisting changes the values and ends that run.
LEMMA OnlyItsCommit ==
    ASSUME PublisherInv, PublisherNext, NEW r \in Ingesters, values' # values, ingest'[r] # ingest[r]
    PROVE  PersistExtraction(r)
<1>1. PICK q \in Ingesters : IngestStep(q)
  BY DEF PublisherNext, PublisherCorrects
<1>2. PersistExtraction(q)
  BY <1>1 DEF IngestStep, FetchArtifact, FileRetrieval, FindVintage, CreateVintage, LoadLive, IngestFails
<1>3. ingest' = [ingest EXCEPT ![q] = NotIngesting] /\ ingest \in [Ingesters -> IngestRun]
  BY <1>2 DEF PersistExtraction, Becomes, PublisherInv, ValueShapes
<1>4. q = r
  BY <1>3
<1> QED BY <1>2, <1>4

\* Filing the same artifact twice writes nothing the second time and a corrected one supersedes
\* only what changed, whatever runs overlap: a commit leaves live what its artifact says of each
\* value that differs from the one it had read, and the rest as it was; no identity ever has
\* two live values, and what supersedes a value is of its own identity.
THEOREM OnlyChangesRestated == PublisherSpec => RestatesOnlyChanges
<1> DEFINE Restating ==
      /\ \A k \in DOMAIN values' :
           /\ values'[k].next # 0 => values'[values'[k].next].identity = values'[k].identity
           /\ values'[k].next = 0 => LiveRows(values', values'[k].identity) = {k}
      /\ \A r \in Ingesters : AtIngest(r, "persist") /\ values' # values /\ ingest'[r] # ingest[r] =>
           \A i \in Identities :
             LET said == ValuesOf(ingest[r].artifact, i)
                 now == Live(values')[i]
             IN IF said \subseteq Value(values, ingest[r].live[i]) THEN now = Live(values)[i]
                ELSE Value(values', now) \subseteq said /\ values'[now].artifact = ingest[r].artifact
<1>1. PublisherInv /\ PublisherInv' /\ [PublisherNext]_publisherVars => [Restating]_publisherVars
  <2> SUFFICES ASSUME PublisherInv, PublisherInv', PublisherNext PROVE Restating
    OBVIOUS
  <2>1. \A k \in DOMAIN values' :
          /\ values'[k].next # 0 => values'[values'[k].next].identity = values'[k].identity
          /\ values'[k].next = 0 => LiveRows(values', values'[k].identity) = {k}
    BY DEF PublisherInv, OneLive, LiveRows
  <2>2. ASSUME NEW r \in Ingesters, values' # values, ingest'[r] # ingest[r], NEW i \in Identities
        PROVE  LET said == ValuesOf(ingest[r].artifact, i)
                   now == Live(values')[i]
               IN IF said \subseteq Value(values, ingest[r].live[i]) THEN now = Live(values)[i]
                  ELSE Value(values', now) \subseteq said /\ values'[now].artifact = ingest[r].artifact
    <3>1. PersistExtraction(r)
      BY <2>2, OnlyItsCommit
    <3> QED BY <2>2, <3>1, CommitLeavesLive
  <2> QED BY <2>1, <2>2
<1>2. RestatesOnlyChanges <=> [][Restating]_publisherVars
  BY Zenon DEF RestatesOnlyChanges
<1> QED BY <1>1, <1>2, PublisherAlways, PTL DEF PublisherSpec
=============================================================================
