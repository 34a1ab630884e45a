---------------------------- MODULE ReportsProof ----------------------------
(***************************************************************************)
(* What is said of other people's reports, for any number of checks, runs, *)
(* sources, releases, blocks, days and artifacts.  A forecast that is      *)
(* called current is the publisher's latest; a point of the wealth index   *)
(* is of its day, and is what a run answers with; the numerator's          *)
(* observation is of a block and a round there are; the history of a       *)
(* queued request goes forward through the periods it was reported for.    *)
(***************************************************************************)
EXTENDS PlanningFreshness, UbwiDaily, UbwiNumerator, QueueRefresh,
        SequenceTheorems, FiniteSetTheorems, WellFoundedInduction, TLAPS

\* A bounded set of naturals has a greatest.
LEMMA HasGreatest ==
    ASSUME NEW n \in Nat, NEW K, K \subseteq 0..n, K # {}
    PROVE  \E j \in K : \A i \in K : i <= j
<1> DEFINE T == {n - j : j \in K}
<1>0. \A i \in K : i \in Nat /\ n - i \in Nat
  OBVIOUS
<1>1. T \subseteq Nat /\ T # {}
  BY <1>0
<1>2. PICK x \in T : \A y \in T : ~(<<y, x>> \in OpToRel(<, Nat))
  BY <1>1, NatLessThanWellFounded, WFMin
<1>3. \A y \in T : ~(y < x)
  BY <1>1, <1>2 DEF OpToRel
<1>4. PICK j \in K : x = n - j
  OBVIOUS
<1>5. ASSUME NEW i \in K PROVE i <= j
  <2>1. ~(n - i < n - j)
    BY <1>3, <1>4
  <2>2. i \in Nat /\ j \in Nat /\ n \in Nat
    BY <1>0
  <2> QED BY <2>1, <2>2
<1> QED BY <1>5

-----------------------------------------------------------------------------
(* The planning forecasts. *)

\* Whoever found release v at t, with every document answered, had read at least what was
\* released before t.
Saw(v, t) == \A w \in DOMAIN releasedAt : releasedAt[w] < t => w <= v

ReleasesInOrder ==
    /\ Len(releasedAt) <= MaxReleases
    /\ \A w \in DOMAIN releasedAt : releasedAt[w] <= moment
    /\ \A v \in 1..MaxReleases : held[v] # "none" => v \in DOMAIN releasedAt
LookFits(look) ==
    look.pc # "idle" => /\ look.now \in 1..moment
                        /\ look.pc = "record" /\ look.found # 0 /\ look.whole => Saw(look.found, look.now)
CheckFits(check) == check.at <= moment /\ (check.found # 0 /\ check.whole => Saw(check.found, check.at))

LooksFit == \A c \in Checkers : LookFits(looks[c])
ChecksFit == \A k \in DOMAIN sourceChecks : CheckFits(sourceChecks[k])

FreshnessInv == FreshnessTypeOK /\ ReleasesInOrder /\ LooksFit /\ ChecksFit

LookRecord == [pc : {"idle", "fetch", "record"}, now : 0..LastMoment, found : 0..Len(releasedAt), whole : BOOLEAN]
CheckRecord == [at : 1..LastMoment, found : 0..Len(releasedAt), whole : BOOLEAN]

\* The facts about the constants that the steps use, in a form the provers use.
LEMMA FreshnessBounds ==
    /\ CheckInterval \in Nat /\ LastMoment \in Nat /\ MaxReleases \in Nat /\ MaxChecks \in Nat
    /\ LastMoment >= 1 /\ MaxReleases >= 1
    /\ Qualities \subseteq {"provisional", "accepted", "suspect"}
  BY FreshnessAssumption

LEMMA FreshnessStart == ASSUME FreshnessInit PROVE FreshnessInv
<1> USE FreshnessBounds
<1>1. releasedAt = <<1>> /\ Len(releasedAt) = 1 /\ sourceChecks = <<>> /\ moment = 1
  BY DEF FreshnessInit
<1>2. /\ held = [v \in 1..MaxReleases |-> "none"] /\ looks = [c \in Checkers |-> Unstarted]
  BY DEF FreshnessInit
<1>3. FreshnessTypeOK
  BY <1>1, <1>2 DEF FreshnessTypeOK, Unstarted
<1>4. ReleasesInOrder
  BY <1>1, <1>2 DEF ReleasesInOrder
<1>5. LooksFit
  BY <1>2 DEF LooksFit, LookFits, Unstarted
<1>6. ChecksFit
  BY <1>1 DEF ChecksFit
<1> QED BY <1>3, <1>4, <1>5, <1>6 DEF FreshnessInv

\* A step that leaves the releases alone, and in which time does not go back, keeps what was seen.
LEMMA StillSeen ==
    ASSUME FreshnessInv, UNCHANGED releasedAt, moment' \in 1..LastMoment, moment <= moment'
    PROVE  /\ \A look : look \in LookRecord /\ LookFits(look) => look \in LookRecord' /\ LookFits(look)'
           /\ \A check : check \in CheckRecord /\ CheckFits(check) => check \in CheckRecord' /\ CheckFits(check)'
           /\ \A w \in DOMAIN releasedAt' : releasedAt'[w] <= moment'
<1> USE FreshnessBounds DEF LookRecord, CheckRecord
<1>1. moment \in 1..LastMoment /\ releasedAt \in Seq(1..LastMoment)
  BY DEF FreshnessInv, FreshnessTypeOK
<1>2. ASSUME NEW look, look \in LookRecord, LookFits(look) PROVE look \in LookRecord' /\ LookFits(look)'
  BY <1>1, <1>2 DEF LookFits, Saw
<1>3. ASSUME NEW check, check \in CheckRecord, CheckFits(check) PROVE check \in CheckRecord' /\ CheckFits(check)'
  BY <1>1, <1>3 DEF CheckFits, Saw
<1>4. \A w \in DOMAIN releasedAt' : releasedAt'[w] <= moment'
  BY <1>1 DEF FreshnessInv, ReleasesInOrder
<1> QED BY <1>2, <1>3, <1>4

\* What the invariant says of the tables, with the shapes named.
LEMMA FreshnessShapes ==
    ASSUME FreshnessInv
    PROVE  /\ moment \in 1..LastMoment /\ releasedAt \in Seq(1..LastMoment) /\ Len(releasedAt) \in Nat
           /\ held \in [1..MaxReleases -> {"none"} \cup Qualities]
           /\ sourceChecks \in Seq(CheckRecord) /\ looks \in [Checkers -> LookRecord]
           /\ \A c \in Checkers : looks[c] \in LookRecord /\ LookFits(looks[c])
           /\ \A k \in DOMAIN sourceChecks : sourceChecks[k] \in CheckRecord /\ CheckFits(sourceChecks[k])
<1>1. /\ moment \in 1..LastMoment /\ releasedAt \in Seq(1..LastMoment)
      /\ held \in [1..MaxReleases -> {"none"} \cup Qualities]
      /\ sourceChecks \in Seq(CheckRecord) /\ looks \in [Checkers -> LookRecord]
  BY DEF FreshnessInv, FreshnessTypeOK, LookRecord, CheckRecord
<1>2. Len(releasedAt) \in Nat
  BY <1>1
<1>3. \A k \in DOMAIN sourceChecks : sourceChecks[k] \in CheckRecord
  BY <1>1
<1>4. \A c \in Checkers : looks[c] \in LookRecord
  BY <1>1
<1>5. /\ \A c \in Checkers : LookFits(looks[c])
      /\ \A k \in DOMAIN sourceChecks : CheckFits(sourceChecks[k])
  BY DEF FreshnessInv, LooksFit, ChecksFit
<1> QED BY <1>1, <1>2, <1>3, <1>4, <1>5

\* One check's look moves, and all else stays.
LEMMA LookMoves ==
    ASSUME FreshnessInv, NEW c \in Checkers, NEW look \in LookRecord, LookFits(look),
           looks' = [looks EXCEPT ![c] = look], UNCHANGED <<moment, releasedAt, held, sourceChecks>>
    PROVE  FreshnessInv'
<1>1. LookRecord' = LookRecord /\ ReleasesInOrder' /\ ChecksFit'
  BY DEF FreshnessInv, LookRecord, ReleasesInOrder, ChecksFit, CheckFits, Saw
<1>2. \A q \in Checkers : looks'[q] = IF q = c THEN look ELSE looks[q]
  BY FreshnessShapes
<1>3. looks' \in [Checkers -> LookRecord'] 
  BY <1>1, <1>2, FreshnessShapes
<1>4. LooksFit'
  <2>1. \A q \in Checkers : LookFits(looks'[q])
    BY <1>2, FreshnessShapes
  <2> QED BY <2>1 DEF LooksFit, LookFits, Saw
<1>5. FreshnessTypeOK'
  BY <1>3 DEF FreshnessInv, FreshnessTypeOK, LookRecord
<1> QED BY <1>1, <1>4, <1>5 DEF FreshnessInv

LEMMA UnstartedFits == Unstarted \in LookRecord /\ LookFits(Unstarted)
  BY FreshnessBounds DEF LookRecord, LookFits, Unstarted

LEMMA MomentPassesKeeps == ASSUME FreshnessInv, MomentPasses PROVE FreshnessInv'
<1> USE FreshnessBounds
<1>1. /\ moment \in 1..LastMoment /\ moment' = moment + 1 /\ moment < LastMoment
      /\ UNCHANGED <<releasedAt, held, sourceChecks, looks>>
  BY FreshnessShapes DEF MomentPasses
<1>2. moment' \in 1..LastMoment /\ moment <= moment'
  BY <1>1
<1>3. /\ LooksFit'
      /\ ChecksFit'
      /\ \A w \in DOMAIN releasedAt' : releasedAt'[w] <= moment'
  <2>1. /\ \A c \in Checkers : LookFits(looks[c])'
        /\ \A k \in DOMAIN sourceChecks : CheckFits(sourceChecks[k])'
        /\ \A w \in DOMAIN releasedAt' : releasedAt'[w] <= moment'
    <3>1. /\ \A look : look \in LookRecord /\ LookFits(look) => LookFits(look)'
          /\ \A check : check \in CheckRecord /\ CheckFits(check) => CheckFits(check)'
          /\ \A w \in DOMAIN releasedAt' : releasedAt'[w] <= moment'
      BY <1>1, <1>2, StillSeen
    <3> QED BY <1>1, <3>1, FreshnessShapes DEF LookFits, CheckFits, Saw
  <2> QED BY <1>1, <2>1 DEF LooksFit, ChecksFit
<1>4. FreshnessTypeOK'
  BY <1>1, <1>2 DEF FreshnessInv, FreshnessTypeOK
<1>5. ReleasesInOrder'
  BY <1>1, <1>3 DEF FreshnessInv, ReleasesInOrder
<1> QED BY <1>3, <1>4, <1>5 DEF FreshnessInv

LEMMA PublisherReleasesKeeps == ASSUME FreshnessInv, PublisherReleases PROVE FreshnessInv'
<1> USE FreshnessBounds
<1>1. /\ moment \in 1..LastMoment /\ releasedAt \in Seq(1..LastMoment) /\ Len(releasedAt) < MaxReleases
      /\ releasedAt' = Append(releasedAt, moment) /\ UNCHANGED <<moment, held, sourceChecks, looks>>
  BY FreshnessShapes DEF PublisherReleases
<1>2. /\ releasedAt' \in Seq(1..LastMoment) /\ Len(releasedAt') = Len(releasedAt) + 1 /\ Len(releasedAt) \in Nat
      /\ DOMAIN releasedAt' = 1..(Len(releasedAt) + 1)
      /\ \A w \in DOMAIN releasedAt' : releasedAt'[w] = IF w = Len(releasedAt) + 1 THEN moment ELSE releasedAt[w]
  BY <1>1
<1>3. LookRecord \subseteq LookRecord' /\ CheckRecord \subseteq CheckRecord'
  BY <1>2 DEF LookRecord, CheckRecord
<1>4. ASSUME NEW v \in Nat, NEW t \in 1..moment, Saw(v, t) PROVE Saw(v, t)'
  BY <1>1, <1>2, <1>4 DEF Saw
<1>5. LooksFit'
  <2> SUFFICES ASSUME NEW c \in Checkers, looks[c].pc # "idle"
               PROVE  looks[c].now \in 1..moment /\
                      (looks[c].pc = "record" /\ looks[c].found # 0 /\ looks[c].whole => Saw(looks[c].found, looks[c].now)')
    BY <1>1 DEF LooksFit, LookFits
  <2>1. looks[c].found \in Nat /\ LookFits(looks[c])
    BY FreshnessShapes DEF LookRecord
  <2>2. /\ looks[c].now \in 1..moment
        /\ looks[c].pc = "record" /\ looks[c].found # 0 /\ looks[c].whole => Saw(looks[c].found, looks[c].now)
    BY <2>1 DEF LookFits
  <2> QED BY <1>1, <1>4, <2>1, <2>2
<1>6. ChecksFit'
  <2> SUFFICES ASSUME NEW k \in DOMAIN sourceChecks
               PROVE  sourceChecks[k].at <= moment /\
                      (sourceChecks[k].found # 0 /\ sourceChecks[k].whole => Saw(sourceChecks[k].found, sourceChecks[k].at)')
    BY <1>1 DEF ChecksFit, CheckFits
  <2>1. sourceChecks[k].found \in Nat /\ sourceChecks[k].at \in Nat /\ sourceChecks[k].at >= 1 /\ CheckFits(sourceChecks[k])
    BY FreshnessShapes DEF CheckRecord
  <2> QED BY <1>1, <1>4, <2>1 DEF CheckFits
<1>7. sourceChecks' \in Seq(CheckRecord') /\ looks' \in [Checkers -> LookRecord']
  BY <1>1, <1>3, FreshnessShapes
<1>8. FreshnessTypeOK'
  BY <1>1, <1>2, <1>7 DEF FreshnessInv, FreshnessTypeOK, LookRecord, CheckRecord
<1>9. ReleasesInOrder'
  BY <1>1, <1>2 DEF FreshnessInv, ReleasesInOrder
<1> QED BY <1>5, <1>6, <1>8, <1>9 DEF FreshnessInv

LEMMA IngestReleaseKeeps == ASSUME FreshnessInv, IngestRelease PROVE FreshnessInv'
<1> USE FreshnessBounds
<1>1. PICK v \in DOMAIN releasedAt, quality \in Qualities :
         held[v] = "none" /\ held' = [held EXCEPT ![v] = quality]
  BY DEF IngestRelease
<1>2. UNCHANGED <<moment, releasedAt, sourceChecks, looks>>
  BY DEF IngestRelease
<1>3. held' \in [1..MaxReleases -> {"none"} \cup Qualities]
  BY <1>1, FreshnessShapes
<1>4. \A w \in 1..MaxReleases : held'[w] # "none" => w \in DOMAIN releasedAt
  BY <1>1, FreshnessShapes DEF FreshnessInv, ReleasesInOrder
<1>5. FreshnessTypeOK'
  BY <1>2, <1>3 DEF FreshnessInv, FreshnessTypeOK
<1>6. ReleasesInOrder'
  BY <1>2, <1>4 DEF FreshnessInv, ReleasesInOrder
<1>7. /\ LooksFit'
      /\ ChecksFit'
  BY <1>2 DEF FreshnessInv, LooksFit, ChecksFit, LookFits, CheckFits, Saw
<1> QED BY <1>5, <1>6, <1>7 DEF FreshnessInv

LEMMA StartCheckKeeps == ASSUME FreshnessInv, NEW c \in Checkers, StartCheck(c) PROVE FreshnessInv'
<1> DEFINE look == [Unstarted EXCEPT !.pc = "fetch", !.now = moment]
<1>1. look \in LookRecord /\ LookFits(look)
  <2>1. moment \in 1..moment /\ moment \in 0..LastMoment
    BY FreshnessShapes, FreshnessBounds
  <2> QED BY <2>1, UnstartedFits DEF LookRecord, LookFits
<1>2. looks' = [looks EXCEPT ![c] = look] /\ UNCHANGED <<moment, releasedAt, held, sourceChecks>>
  BY DEF StartCheck
<1> HIDE DEF look
<1> QED BY <1>1, <1>2, LookMoves

LEMMA FetchDocumentsKeeps == ASSUME FreshnessInv, NEW c \in Checkers, FetchDocuments(c) PROVE FreshnessInv'
<1>1. PICK v \in DOMAIN releasedAt \cup {0}, whole \in BOOLEAN :
         /\ v # 0 /\ whole => \A w \in DOMAIN releasedAt : releasedAt[w] < looks[c].now => w <= v
         /\ looks' = [looks EXCEPT ![c] = [@ EXCEPT !.pc = "record", !.found = v, !.whole = whole]]
  BY DEF FetchDocuments
<1> DEFINE look == [looks[c] EXCEPT !.pc = "record", !.found = v, !.whole = whole]
<1>2. looks[c] \in LookRecord /\ LookFits(looks[c]) /\ looks[c].pc = "fetch"
  BY FreshnessShapes DEF FetchDocuments
<1>3. look \in LookRecord
  <2>1. v \in 0..Len(releasedAt)
    BY FreshnessShapes
  <2> QED BY <1>2, <2>1 DEF LookRecord
<1>4. look.pc = "record" /\ look.found = v /\ look.whole = whole /\ look.now = looks[c].now
  BY <1>2 DEF LookRecord
<1>5. LookFits(look)
  BY <1>1, <1>2, <1>4 DEF LookFits, Saw
<1>6. looks' = [looks EXCEPT ![c] = look] /\ UNCHANGED <<moment, releasedAt, held, sourceChecks>>
  BY <1>1, FreshnessShapes DEF FetchDocuments, LookRecord
<1> HIDE DEF look
<1> QED BY <1>3, <1>5, <1>6, LookMoves

LEMMA RecordPlanningCheckKeeps ==
    ASSUME FreshnessInv, NEW c \in Checkers, RecordPlanningCheck(c) PROVE FreshnessInv'
<1> DEFINE check == [at |-> looks[c].now, found |-> looks[c].found, whole |-> looks[c].whole]
<1>1. looks[c] \in LookRecord /\ LookFits(looks[c]) /\ looks[c].pc = "record"
  BY FreshnessShapes DEF RecordPlanningCheck
<1>2. check \in CheckRecord /\ CheckFits(check)
  BY <1>1, FreshnessShapes, FreshnessBounds DEF LookRecord, CheckRecord, LookFits, CheckFits
<1>3. sourceChecks' = Append(sourceChecks, check) /\ looks' = [looks EXCEPT ![c] = Unstarted]
      /\ UNCHANGED <<moment, releasedAt, held>>
  BY DEF RecordPlanningCheck
<1> HIDE DEF check
<1>4. /\ sourceChecks' \in Seq(CheckRecord)
      /\ \A k \in DOMAIN sourceChecks' : sourceChecks'[k] = check \/ (k \in DOMAIN sourceChecks /\ sourceChecks'[k] = sourceChecks[k])
  BY <1>2, <1>3, FreshnessShapes
<1>5. looks' \in [Checkers -> LookRecord] /\ \A q \in Checkers : looks'[q] = IF q = c THEN Unstarted ELSE looks[q]
  BY <1>3, FreshnessShapes, UnstartedFits
<1>6. \A k \in DOMAIN sourceChecks' : CheckFits(sourceChecks'[k])
  BY <1>2, <1>4, FreshnessShapes
<1>7. \A q \in Checkers : LookFits(looks'[q])
  BY <1>5, FreshnessShapes, UnstartedFits
<1>8. /\ ChecksFit'
      /\ LooksFit'
  BY <1>3, <1>6, <1>7 DEF ChecksFit, LooksFit, CheckFits, LookFits, Saw
<1>9. FreshnessTypeOK'
  BY <1>3, <1>4, <1>5 DEF FreshnessInv, FreshnessTypeOK, LookRecord, CheckRecord
<1> QED BY <1>3, <1>8, <1>9 DEF FreshnessInv, ReleasesInOrder

LEMMA CheckDiesKeeps == ASSUME FreshnessInv, NEW c \in Checkers, CheckDies(c) PROVE FreshnessInv'
  BY LookMoves, UnstartedFits DEF CheckDies

LEMMA FreshnessInvariance == FreshnessSpec => []FreshnessInv
<1>1. FreshnessInit => FreshnessInv
  BY FreshnessStart
<1>2. FreshnessInv /\ [FreshnessNext]_freshnessVars => FreshnessInv'
  <2> SUFFICES ASSUME FreshnessInv, [FreshnessNext]_freshnessVars PROVE FreshnessInv'
    OBVIOUS
  <2>1. CASE MomentPasses
    BY <2>1, MomentPassesKeeps
  <2>2. CASE PublisherReleases
    BY <2>2, PublisherReleasesKeeps
  <2>3. CASE IngestRelease
    BY <2>3, IngestReleaseKeeps
  <2>4. ASSUME NEW c \in Checkers, StartCheck(c) \/ FetchDocuments(c) \/ RecordPlanningCheck(c) \/ CheckDies(c)
        PROVE  FreshnessInv'
    BY <2>4, StartCheckKeeps, FetchDocumentsKeeps, RecordPlanningCheckKeeps, CheckDiesKeeps
  <2>5. CASE UNCHANGED freshnessVars
    BY <2>5 DEF freshnessVars, FreshnessInv, FreshnessTypeOK, ReleasesInOrder,
               LooksFit, ChecksFit, LookFits, CheckFits, Saw
  <2> QED BY <2>1, <2>2, <2>3, <2>4, <2>5 DEF FreshnessNext
<1> QED BY <1>1, <1>2, PTL DEF FreshnessSpec

\* The planning tables keep their shapes, whatever the publisher releases and whoever looks.
THEOREM FreshnessTypeCorrect == FreshnessSpec => []FreshnessTypeOK
  BY FreshnessInvariance, PTL DEF FreshnessInv

\* Some checks that were recorded have a latest.
LEMMA LatestIsOne ==
    ASSUME FreshnessInv, NEW some \in SUBSET DOMAIN sourceChecks, some # {}
    PROVE  Latest(some) \in some
<1> USE FreshnessBounds
<1> DEFINE ats == {sourceChecks[k].at : k \in some}
<1>1. /\ \A k \in some : sourceChecks[k].at \in 0..LastMoment /\ k \in 0..Len(sourceChecks)
      /\ Len(sourceChecks) \in Nat
  BY FreshnessShapes DEF CheckRecord
<1>2. PICK t \in ats : \A u \in ats : u <= t
  <2>1. ats \subseteq 0..LastMoment /\ ats # {}
    BY <1>1
  <2> HIDE DEF ats
  <2> QED BY <2>1, HasGreatest
<1> DEFINE then == {k \in some : sourceChecks[k].at = t}
<1>3. PICK k \in then : \A j \in then : j <= k
  <2>1. then \subseteq 0..Len(sourceChecks) /\ then # {}
    BY <1>1, <1>2
  <2> HIDE DEF then
  <2> QED BY <2>1, <1>1, HasGreatest
<1>4. ASSUME NEW j \in some
      PROVE  sourceChecks[j].at < sourceChecks[k].at \/ (sourceChecks[j].at = sourceChecks[k].at /\ j <= k)
  <2>1. sourceChecks[j].at <= t /\ sourceChecks[k].at = t /\ sourceChecks[j].at \in Nat /\ t \in Nat
    BY <1>1, <1>2, <1>3
  <2>2. CASE sourceChecks[j].at = t
    BY <2>1, <2>2, <1>3
  <2> QED BY <2>1, <2>2
<1>5. k \in some
  BY <1>3
<1> HIDE DEF then, ats
<1> QED BY <1>4, <1>5 DEF Latest

LEMMA NewestIsOne ==
    ASSUME NEW found, found \subseteq 1..MaxReleases, found # {} PROVE Newest(found) \in found
<1>1. found \subseteq 0..MaxReleases
  BY FreshnessBounds
<1>2. PICK v \in found : \A w \in found : w <= v
  BY <1>1, FreshnessBounds, HasGreatest
<1> QED BY <1>2 DEF Newest

\* What is called current is the newest held and what the latest success found, and that
\* success is within the interval.
LEMMA CurrentRests ==
    ASSUME FreshnessInv, Currentness = "current"
    PROVE  /\ held[Newest(Holding)] = "accepted"
           /\ Latest(Succeeded) \in DOMAIN sourceChecks
           /\ Newest(Holding) = sourceChecks[Latest(Succeeded)].found
           /\ sourceChecks[Latest(Succeeded)].found # 0
           /\ moment - sourceChecks[Latest(Succeeded)].at <= CheckInterval
<1> USE FreshnessBounds
<1> DEFINE last == Latest(DOMAIN sourceChecks)
           success == Latest(Succeeded)
           newest == Newest(Holding)
<1>1. sourceChecks # <<>> /\ sourceChecks[last].found # 0
  BY DEF Currentness
<1>2. DOMAIN sourceChecks # {} /\ Len(sourceChecks) \in Nat
  <2>1. sourceChecks \in Seq(CheckRecord)
    BY FreshnessShapes
  <2>2. DOMAIN sourceChecks = 1..Len(sourceChecks) /\ Len(sourceChecks) \in Nat
    BY <2>1
  <2>3. Len(sourceChecks) # 0
    BY <1>1, <2>1, EmptySeq
  <2> QED BY <2>2, <2>3
<1>3. last \in DOMAIN sourceChecks
  BY <1>2, LatestIsOne
<1>4. last \in Succeeded /\ Succeeded \subseteq DOMAIN sourceChecks
  BY <1>1, <1>3 DEF Succeeded
<1>5. success \in Succeeded
  BY <1>4, LatestIsOne
<1> HIDE DEF last, success, newest
<1>6. /\ ~(moment - sourceChecks[success].at > CheckInterval) /\ Holding # {}
      /\ newest = sourceChecks[success].found /\ held[newest] # "suspect" /\ held[newest] # "provisional"
  BY <1>1 DEF Currentness, last, success, newest
<1>7. newest \in Holding
  BY <1>6, NewestIsOne, FreshnessShapes DEF Holding, newest
<1>8. held[newest] \in Qualities
  BY <1>7, FreshnessShapes DEF Holding
<1>9. held[newest] = "accepted"
  BY <1>6, <1>8
<1>10. success \in DOMAIN sourceChecks /\ sourceChecks[success].found # 0
  BY <1>4, <1>5 DEF Succeeded
<1>11. moment - sourceChecks[success].at <= CheckInterval
  <2>1. sourceChecks[success].at \in Nat /\ moment \in Nat
    BY <1>10, FreshnessShapes DEF CheckRecord
  <2> QED BY <1>6, <2>1
<1> QED BY <1>6, <1>9, <1>10, <1>11 DEF newest, success

LEMMA LatestWhenChecked == ASSUME FreshnessInv PROVE CurrentIsTheLatest
<1> USE FreshnessBounds
<1> DEFINE newest == Newest(Holding)  k == Latest(Succeeded)
           v == sourceChecks[k].found  t == sourceChecks[k].at
<1> SUFFICES ASSUME Currentness = "current"
             PROVE  /\ held[newest] = "accepted"
                    /\ sourceChecks[k].whole =>
                         newest = Len(releasedAt) \/ releasedAt[newest + 1] + CheckInterval >= moment
  BY DEF CurrentIsTheLatest
<1>1. /\ held[newest] = "accepted" /\ k \in DOMAIN sourceChecks
      /\ newest = v /\ v # 0 /\ moment - t <= CheckInterval
  BY CurrentRests
<1> HIDE DEF newest, k
<1>2. ASSUME sourceChecks[k].whole, v # Len(releasedAt)
      PROVE  releasedAt[v + 1] + CheckInterval >= moment
  <2>1. v \in 0..Len(releasedAt) /\ t \in Nat /\ Saw(v, t) /\ moment \in Nat /\ Len(releasedAt) \in Nat
    BY <1>1, <1>2, FreshnessShapes DEF CheckRecord, CheckFits
  <2>2. v + 1 \in DOMAIN releasedAt /\ v \in Nat
    BY <1>2, <2>1, FreshnessShapes
  <2>3. releasedAt[v + 1] \in Nat
    BY <2>2, FreshnessShapes
  <2>4. ~(releasedAt[v + 1] < t)
    BY <2>1, <2>2 DEF Saw
  <2> HIDE DEF v, t
  <2> QED BY <1>1, <2>1, <2>3, <2>4
<1> QED BY <1>1, <1>2

\* A forecast that a reader is told is current is accepted and the newest held; and when every
\* document of the check that supports it was answered, it was the publisher's latest at some
\* moment of the interval the check supports (loadPlanningFreshness,
\* resolvePlanningCurrentness), whatever the publisher releases, however long checks take, and
\* in whatever order they are recorded.
THEOREM CurrentWhenChecked == FreshnessSpec => []CurrentIsTheLatest
  BY FreshnessInvariance, LatestWhenChecked, PTL

-----------------------------------------------------------------------------
(* The daily point of the blended wealth index. *)

\* The four tables, V, N, C and F, and what a run holds of them.
RatioRow(V, N) == [vintage : 1..V, numerator : 1..Len(N), passed : BOOLEAN]
PointRow(C) == [ratio : 1..Len(C), day : Nat]
UbwiRecord(V, N, C) ==
    [pc : {"idle", "retrieve", "day", "denominator", "numerator", "commit", "lookup", "record",
           "gate", "freeze", "converge"},
     now : Instants, observed : Instants \cup {0}, vintage : 0..V,
     numerator : 0..Len(N), ratio : 0..Len(C),
     outcome : {"none", "published", "already_published", "gate_refused", "retrieval_failed"}]

\* The instant calculation c was made for.
MadeFor(N, C, c) == N[C[c].numerator]

Shapes(V, N, C, F) == /\ V \in Nat /\ N \in Seq(Instants)
                      /\ C \in Seq(RatioRow(V, N)) /\ F \in Seq(PointRow(C))
GatedAlike(N, C) == \A c \in DOMAIN C : C[c].passed = (MadeFor(N, C, c) \in Passing)
OneEach(F) == \A j, k \in DOMAIN F : j # k => F[j].day # F[k].day /\ F[j].ratio # F[k].ratio
RealPoints(N, C, F) ==
    \A k \in DOMAIN F : /\ MadeFor(N, C, F[k].ratio) \in Passing
                        /\ F[k].day <= DayOf(MadeFor(N, C, F[k].ratio))
Tables(V, N, C, F) == Shapes(V, N, C, F) /\ GatedAlike(N, C) /\ OneEach(F) /\ RealPoints(N, C, F)

Later == {"gate", "freeze", "converge"}
Loaded == {"lookup", "record"} \cup Later
Seen == {"day", "denominator", "numerator", "commit"} \cup Loaded
IsDated(run, t) == run.pc # "idle" => run.outcome = "none" /\ run.now <= t
HasObserved(run) == run.pc \in Seen => run.observed \in Instants /\ run.now <= run.observed
HasLoaded(run, N) ==
    /\ run.pc = "commit" /\ run.numerator # 0 => N[run.numerator] = run.observed
    /\ run.pc \in Loaded => run.vintage # 0 /\ run.numerator # 0 /\ N[run.numerator] = run.observed
HasRatio(run, N, C) == run.pc \in Later => run.ratio # 0 /\ MadeFor(N, C, run.ratio) = run.observed
HasPassed(run) == run.pc \in {"freeze", "converge"} => run.observed \in Passing
HasLost(run, F) ==
    run.pc = "converge" => \E k \in DOMAIN F : F[k].day = DayOf(run.now) \/ F[k].ratio = run.ratio
Runs(run, V, N, C, F, t) ==
    /\ run \in UbwiRecord(V, N, C) /\ IsDated(run, t) /\ HasObserved(run) /\ HasLoaded(run, N)
    /\ HasRatio(run, N, C) /\ HasPassed(run) /\ HasLost(run, F)

UbwiInv ==
    /\ clock \in Instants /\ ubwiDeaths \in 0..MaxUbwiDeaths
    /\ Tables(vintages, numerators, ratios, frozen)
    /\ ubwiRun \in [UbwiRuns -> UbwiRecord(vintages, numerators, ratios)]
    /\ \A r \in UbwiRuns : Runs(ubwiRun[r], vintages, numerators, ratios, frozen, clock)

LEMMA UbwiBounds ==
    /\ DayLength \in Nat \ {0} /\ DayLength \in Nat /\ DayLength >= 1
    /\ LastInstant \in Nat /\ LastInstant >= 1 /\ MaxUbwiDeaths \in Nat
    /\ Instants \subseteq Nat /\ 1 \in Instants
  BY UbwiAssumption DEF Instants

\* A later instant is of no earlier day.
LEMMA DaysFollow ==
    ASSUME NEW s \in Instants, NEW t \in Instants, s <= t
    PROVE  DayOf(s) \in Nat /\ DayOf(t) \in Nat /\ DayOf(s) <= DayOf(t)
<1> DEFINE d == DayLength
           x == s + d - 1
           y == t + d - 1
           p == x \div d
           q == y \div d
<1>1. d \in Nat \ {0} /\ x \in Nat /\ y \in Nat /\ x <= y
  BY UbwiBounds
<1> HIDE DEF d, x, y
<1>2. p \in Nat /\ q \in Nat /\ d * p <= x /\ y < d * q + d
  BY <1>1
<1>3. ASSUME q + 1 <= p PROVE FALSE
  <2> HIDE DEF p, q
  <2>1. d * (q + 1) <= d * p
    BY <1>1, <1>2, <1>3
  <2>2. d * (q + 1) = d * q + d
    BY <1>1, <1>2
  <2>3. d * p \in Nat /\ d * q \in Nat
    BY <1>1, <1>2
  <2> QED BY <1>1, <1>2, <2>1, <2>2, <2>3
<1>4. p <= q
  BY <1>2, <1>3
<1> QED BY <1>2, <1>4 DEF DayOf, p, q, x, y, d

LEMMA UbwiTypes == ASSUME UbwiInv PROVE UbwiTypeOK
<1>1. Len(numerators) \in Nat /\ Len(ratios) \in Nat /\ DOMAIN numerators = 1..Len(numerators) /\ DOMAIN ratios = 1..Len(ratios)
  BY DEF UbwiInv, Tables, Shapes
<1>2. ratios \in Seq([vintage : 1..vintages, numerator : DOMAIN numerators, passed : BOOLEAN])
  BY <1>1 DEF UbwiInv, Tables, Shapes, RatioRow
<1>3. frozen \in Seq([ratio : DOMAIN ratios, day : Nat])
  BY <1>1 DEF UbwiInv, Tables, Shapes, PointRow
<1> QED BY <1>1, <1>2, <1>3 DEF UbwiInv, Tables, Shapes, UbwiTypeOK, UbwiRecord

LEMMA UnaskedRuns ==
    ASSUME NEW V \in Nat, NEW N, NEW C, Len(N) \in Nat, Len(C) \in Nat, NEW F, NEW t,
           NEW outcome \in {"none", "published", "already_published", "gate_refused", "retrieval_failed"}
    PROVE  LET run == [Unasked EXCEPT !.outcome = outcome]
           IN Runs(run, V, N, C, F, t) /\ run.outcome = outcome
<1> DEFINE run == [Unasked EXCEPT !.outcome = outcome]
<1>1. Unasked \in UbwiRecord(V, N, C) /\ Unasked.pc = "idle"
  BY UbwiBounds DEF Unasked, UbwiRecord
<1>2. run \in UbwiRecord(V, N, C) /\ run.pc = "idle" /\ run.outcome = outcome
  BY <1>1 DEF UbwiRecord
<1> HIDE DEF run
<1>3. Runs(run, V, N, C, F, t)
  BY <1>2 DEF Runs, IsDated, HasObserved, HasLoaded, HasRatio, HasPassed, HasLost, Seen, Loaded, Later
<1> QED BY <1>2, <1>3 DEF run

LEMMA UbwiStart == ASSUME UbwiInit PROVE UbwiInv
<1> USE UbwiBounds
<1>1. /\ clock = 1 /\ vintages = 0 /\ numerators = <<>> /\ ratios = <<>> /\ frozen = <<>>
      /\ ubwiRun = [r \in UbwiRuns |-> Unasked] /\ ubwiDeaths = 0
  BY DEF UbwiInit
<1>2. Tables(vintages, numerators, ratios, frozen)
  BY <1>1 DEF Tables, Shapes, GatedAlike, OneEach, RealPoints
<1>3. Unasked \in UbwiRecord(vintages, numerators, ratios) /\ Unasked.pc = "idle"
  BY <1>1 DEF Unasked, UbwiRecord
<1>4. Runs(Unasked, vintages, numerators, ratios, frozen, clock)
  BY <1>3 DEF Runs, IsDated, HasObserved, HasLoaded, HasRatio, HasPassed, HasLost, Seen, Loaded, Later
<1> QED BY <1>1, <1>2, <1>3, <1>4 DEF UbwiInv

\* Every table is append-only: B goes on from A.
GoesOnFrom(A, B) == Len(A) <= Len(B) /\ \A k \in DOMAIN A : k \in DOMAIN B /\ B[k] = A[k]

LEMMA GoesOnFromItself ==
    ASSUME NEW S, NEW A \in Seq(S) PROVE GoesOnFrom(A, A)
  BY DEF GoesOnFrom
LEMMA AppendGoesOn ==
    ASSUME NEW S, NEW A \in Seq(S), NEW a \in S
    PROVE  /\ GoesOnFrom(A, Append(A, a)) /\ Append(A, a) \in Seq(S)
           /\ Len(A) \in Nat /\ Len(Append(A, a)) = Len(A) + 1 /\ Append(A, a)[Len(A) + 1] = a
           /\ \A k \in DOMAIN Append(A, a) : k = Len(A) + 1 \/ k \in DOMAIN A
  BY DEF GoesOnFrom

\* What a run holds of the tables stays true of it while the tables grow and time passes.
LEMMA TablesGrow ==
    ASSUME NEW V, NEW N, NEW C, NEW F, NEW t \in Nat, Shapes(V, N, C, F),
           NEW V2, NEW N2, NEW C2, NEW F2, NEW t2 \in Nat, Shapes(V2, N2, C2, F2),
           V <= V2, GoesOnFrom(N, N2), GoesOnFrom(C, C2), GoesOnFrom(F, F2), t <= t2,
           NEW run, Runs(run, V, N, C, F, t)
    PROVE  Runs(run, V2, N2, C2, F2, t2)
<1> USE DEF GoesOnFrom
<1>1. /\ V \in Nat /\ V2 \in Nat /\ N \in Seq(Instants) /\ N2 \in Seq(Instants)
      /\ C \in Seq(RatioRow(V, N)) /\ Len(C) \in Nat /\ Len(C2) \in Nat /\ Len(N) \in Nat /\ Len(N2) \in Nat
      /\ DOMAIN C = 1..Len(C) /\ DOMAIN N = 1..Len(N)
  BY DEF Shapes
<1>2. run \in UbwiRecord(V2, N2, C2)
  BY <1>1 DEF Runs, UbwiRecord
<1>3. run.numerator \in 0..Len(N) /\ run.ratio \in 0..Len(C) /\ run.now \in Nat
  BY UbwiBounds DEF Runs, UbwiRecord
<1>4. IsDated(run, t2) /\ HasObserved(run) /\ HasPassed(run)
  BY <1>3 DEF Runs, IsDated
<1>5. HasLoaded(run, N2)
  <2>1. run.numerator # 0 => N2[run.numerator] = N[run.numerator]
    BY <1>1, <1>3
  <2> QED BY <2>1 DEF Runs, HasLoaded
<1>6. HasRatio(run, N2, C2)
  <2> SUFFICES ASSUME run.pc \in Later PROVE run.ratio # 0 /\ MadeFor(N2, C2, run.ratio) = run.observed
    BY DEF HasRatio
  <2>1. run.ratio # 0 /\ MadeFor(N, C, run.ratio) = run.observed
    BY DEF Runs, HasRatio
  <2>2. run.ratio \in DOMAIN C
    BY <1>1, <1>3, <2>1
  <2>3. C[run.ratio].numerator \in DOMAIN N
    <3>1. C[run.ratio] \in RatioRow(V, N)
      BY <1>1, <2>2
    <3> QED BY <1>1, <3>1 DEF RatioRow
  <2> QED BY <2>1, <2>2, <2>3 DEF MadeFor
<1>7. HasLost(run, F2)
  BY DEF Runs, HasLost
<1> QED BY <1>2, <1>4, <1>5, <1>6, <1>7 DEF Runs

\* One run goes on, and the tables grow beside it.
LEMMA RunGoesOn ==
    ASSUME UbwiInv, NEW r \in UbwiRuns, NEW run, ubwiRun' = [ubwiRun EXCEPT ![r] = run],
           Runs(run, vintages', numerators', ratios', frozen', clock'),
           Tables(vintages', numerators', ratios', frozen'),
           vintages <= vintages', GoesOnFrom(numerators, numerators'), GoesOnFrom(ratios, ratios'),
           GoesOnFrom(frozen, frozen'), clock' = clock, ubwiDeaths' \in 0..MaxUbwiDeaths
    PROVE  UbwiInv'
<1>1. /\ Shapes(vintages, numerators, ratios, frozen) /\ Shapes(vintages', numerators', ratios', frozen')
      /\ clock \in Nat /\ clock \in Instants
  BY UbwiBounds DEF UbwiInv, Tables
<1>2. \A q \in UbwiRuns : ubwiRun'[q] = IF q = r THEN run ELSE ubwiRun[q]
  BY DEF UbwiInv
<1>3. \A q \in UbwiRuns : Runs(ubwiRun[q], vintages', numerators', ratios', frozen', clock')
  <2>1. \A q \in UbwiRuns : Runs(ubwiRun[q], vintages, numerators, ratios, frozen, clock)
    BY DEF UbwiInv
  <2> QED BY <1>1, <2>1, TablesGrow
<1>4. \A q \in UbwiRuns : Runs(ubwiRun'[q], vintages', numerators', ratios', frozen', clock')
  BY <1>2, <1>3
<1>5. ubwiRun' \in [UbwiRuns -> UbwiRecord(vintages', numerators', ratios')]
  <2>1. \A q \in UbwiRuns : ubwiRun'[q] \in UbwiRecord(vintages', numerators', ratios')
    BY <1>4 DEF Runs
  <2>2. ubwiRun' = [q \in UbwiRuns |-> ubwiRun'[q]]
    BY DEF UbwiInv
  <2> QED BY <2>1, <2>2
<1> QED BY <1>1, <1>4, <1>5 DEF UbwiInv

\* One run goes on, and writes nothing.
LEMMA RunReadsOn ==
    ASSUME UbwiInv, NEW r \in UbwiRuns, NEW run, ubwiRun' = [ubwiRun EXCEPT ![r] = run],
           Runs(run, vintages, numerators, ratios, frozen, clock),
           UNCHANGED <<clock, vintages, numerators, ratios, frozen>>, ubwiDeaths' \in 0..MaxUbwiDeaths
    PROVE  UbwiInv'
<1>1. /\ Tables(vintages, numerators, ratios, frozen) /\ vintages <= vintages
      /\ GoesOnFrom(numerators, numerators) /\ GoesOnFrom(ratios, ratios) /\ GoesOnFrom(frozen, frozen)
  BY GoesOnFromItself DEF UbwiInv, Tables, Shapes
<1> QED BY <1>1, RunGoesOn

\* What a step's run holds.
LEMMA RunAtHand ==
    ASSUME UbwiInv, NEW r \in UbwiRuns
    PROVE  /\ Runs(ubwiRun[r], vintages, numerators, ratios, frozen, clock)
           /\ ubwiRun[r] \in UbwiRecord(vintages, numerators, ratios)
           /\ Shapes(vintages, numerators, ratios, frozen) /\ vintages \in Nat /\ clock \in Instants /\ clock \in Nat
           /\ Len(numerators) \in Nat /\ DOMAIN numerators = 1..Len(numerators)
           /\ Len(ratios) \in Nat /\ DOMAIN ratios = 1..Len(ratios)
           /\ ubwiDeaths \in 0..MaxUbwiDeaths /\ ubwiRun \in [UbwiRuns -> UbwiRecord(vintages, numerators, ratios)]
  BY UbwiBounds DEF UbwiInv, Tables, Shapes

LEMMA ClockMovesKeeps == ASSUME UbwiInv, ClockMoves PROVE UbwiInv'
<1>1. /\ clock' = clock + 1 /\ clock < LastInstant /\ clock \in Instants
      /\ UNCHANGED <<vintages, numerators, ratios, frozen, ubwiRun, ubwiDeaths>>
  BY DEF ClockMoves, UbwiInv
<1>2. clock' \in Instants /\ clock \in Nat /\ clock' \in Nat /\ clock <= clock'
  BY <1>1, UbwiBounds DEF Instants
<1>3. /\ Shapes(vintages, numerators, ratios, frozen) /\ vintages <= vintages
      /\ GoesOnFrom(numerators, numerators) /\ GoesOnFrom(ratios, ratios) /\ GoesOnFrom(frozen, frozen)
  BY GoesOnFromItself DEF UbwiInv, Tables, Shapes
<1>4. \A r \in UbwiRuns : Runs(ubwiRun[r], vintages, numerators, ratios, frozen, clock')
  BY <1>2, <1>3, TablesGrow DEF UbwiInv
<1> QED BY <1>1, <1>2, <1>4 DEF UbwiInv

LEMMA AnswersKeeps ==
    ASSUME UbwiInv, NEW r \in UbwiRuns,
           NEW outcome \in {"none", "published", "already_published", "gate_refused", "retrieval_failed"},
           Answers(r, outcome), UNCHANGED <<clock, vintages, numerators, ratios, frozen, ubwiDeaths>>
    PROVE  UbwiInv'
<1> DEFINE run == [Unasked EXCEPT !.outcome = outcome]
<1>1. Runs(run, vintages, numerators, ratios, frozen, clock)
  BY RunAtHand, UnaskedRuns
<1>2. ubwiRun' = [ubwiRun EXCEPT ![r] = run]
  BY DEF Answers, UbwiGoes
<1> HIDE DEF run
<1> QED BY <1>1, <1>2, RunReadsOn, RunAtHand

LEMMA StartsUbwiKeeps == ASSUME UbwiInv, NEW r \in UbwiRuns, StartsUbwi(r) PROVE UbwiInv'
<1> DEFINE run == [Unasked EXCEPT !.pc = "retrieve", !.now = clock]
<1>1. Unasked \in UbwiRecord(vintages, numerators, ratios) /\ Unasked.outcome = "none"
  BY RunAtHand, UbwiBounds DEF Unasked, UbwiRecord
<1>2. run \in UbwiRecord(vintages, numerators, ratios) /\ run.pc = "retrieve" /\ run.now = clock /\ run.outcome = "none"
  BY <1>1, RunAtHand DEF UbwiRecord
<1>3. ubwiRun' = [ubwiRun EXCEPT ![r] = run] /\ UNCHANGED <<clock, vintages, numerators, ratios, frozen, ubwiDeaths>>
  BY DEF StartsUbwi, UbwiGoes
<1> HIDE DEF run
<1>4. Runs(run, vintages, numerators, ratios, frozen, clock)
  BY <1>2, RunAtHand DEF Runs, IsDated, HasObserved, HasLoaded, HasRatio, HasPassed, HasLost, Seen, Loaded, Later
<1> QED BY <1>3, <1>4, RunReadsOn, RunAtHand

LEMMA RetrieveNumeratorKeeps == ASSUME UbwiInv, NEW r \in UbwiRuns, RetrieveNumerator(r) PROVE UbwiInv'
<1> DEFINE run == [ubwiRun[r] EXCEPT !.pc = "day", !.observed = clock]
<1>1. /\ ubwiRun[r] \in UbwiRecord(vintages, numerators, ratios) /\ ubwiRun[r].pc = "retrieve"
      /\ ubwiRun[r].outcome = "none" /\ ubwiRun[r].now <= clock
  BY RunAtHand DEF RetrieveNumerator, Runs, IsDated
<1>2. /\ run \in UbwiRecord(vintages, numerators, ratios) /\ run.pc = "day" /\ run.observed = clock
      /\ run.outcome = "none" /\ run.now = ubwiRun[r].now
  BY <1>1, RunAtHand DEF UbwiRecord
<1>3. ubwiRun' = [ubwiRun EXCEPT ![r] = run] /\ UNCHANGED <<clock, vintages, numerators, ratios, frozen, ubwiDeaths>>
  BY DEF RetrieveNumerator, UbwiGoes
<1> HIDE DEF run
<1>4. Runs(run, vintages, numerators, ratios, frozen, clock)
  BY <1>1, <1>2, RunAtHand DEF Runs, IsDated, HasObserved, HasLoaded, HasRatio, HasPassed, HasLost, Seen, Loaded, Later
<1> QED BY <1>3, <1>4, RunReadsOn, RunAtHand

LEMMA CheckDayKeeps == ASSUME UbwiInv, NEW r \in UbwiRuns, CheckDay(r) PROVE UbwiInv'
<1> DEFINE run == [ubwiRun[r] EXCEPT !.pc = "denominator"]
<1>1. CASE FrozenOn(Today(r))
  BY <1>1, AnswersKeeps DEF CheckDay
<1>2. CASE ~FrozenOn(Today(r))
  <2>1. Runs(ubwiRun[r], vintages, numerators, ratios, frozen, clock) /\ ubwiRun[r].pc = "day"
        /\ ubwiRun[r] \in UbwiRecord(vintages, numerators, ratios)
    BY RunAtHand DEF CheckDay
  <2>2. /\ run \in UbwiRecord(vintages, numerators, ratios) /\ run.pc = "denominator" /\ run.observed = ubwiRun[r].observed
        /\ run.outcome = ubwiRun[r].outcome /\ run.now = ubwiRun[r].now
    BY <2>1 DEF UbwiRecord
  <2>3. ubwiRun' = [ubwiRun EXCEPT ![r] = run] /\ UNCHANGED <<clock, vintages, numerators, ratios, frozen, ubwiDeaths>>
    BY <1>2 DEF CheckDay, UbwiGoes
  <2> HIDE DEF run
  <2>4. Runs(run, vintages, numerators, ratios, frozen, clock)
    BY <2>1, <2>2 DEF Runs, IsDated, HasObserved, HasLoaded, HasRatio, HasPassed, HasLost, Seen, Loaded, Later
  <2> QED BY <2>3, <2>4, RunReadsOn, RunAtHand
<1> QED BY <1>1, <1>2

LEMMA LoadDenominatorKeeps == ASSUME UbwiInv, NEW r \in UbwiRuns, LoadDenominator(r) PROVE UbwiInv'
<1>1. PICK v \in 0..vintages : UbwiGoes(r, [ubwiRun[r] EXCEPT !.pc = "numerator", !.vintage = v])
  BY DEF LoadDenominator
<1> DEFINE run == [ubwiRun[r] EXCEPT !.pc = "numerator", !.vintage = v]
<1>2. Runs(ubwiRun[r], vintages, numerators, ratios, frozen, clock) /\ ubwiRun[r].pc = "denominator"
      /\ ubwiRun[r] \in UbwiRecord(vintages, numerators, ratios)
  BY RunAtHand DEF LoadDenominator
<1>3. /\ run \in UbwiRecord(vintages, numerators, ratios) /\ run.pc = "numerator" /\ run.observed = ubwiRun[r].observed
      /\ run.outcome = ubwiRun[r].outcome /\ run.now = ubwiRun[r].now
  BY <1>2 DEF UbwiRecord
<1>4. ubwiRun' = [ubwiRun EXCEPT ![r] = run] /\ UNCHANGED <<clock, vintages, numerators, ratios, frozen, ubwiDeaths>>
  BY <1>1 DEF LoadDenominator, UbwiGoes
<1> HIDE DEF run
<1>5. Runs(run, vintages, numerators, ratios, frozen, clock)
  BY <1>2, <1>3 DEF Runs, IsDated, HasObserved, HasLoaded, HasRatio, HasPassed, HasLost, Seen, Loaded, Later
<1> QED BY <1>4, <1>5, RunReadsOn, RunAtHand

LEMMA LoadNumeratorKeeps == ASSUME UbwiInv, NEW r \in UbwiRuns, LoadNumerator(r) PROVE UbwiInv'
<1>1. PICK k \in ObservedAt(ubwiRun[r].observed) \cup {0} :
         UbwiGoes(r, [ubwiRun[r] EXCEPT !.pc = "commit", !.numerator = k])
  BY DEF LoadNumerator
<1> DEFINE run == [ubwiRun[r] EXCEPT !.pc = "commit", !.numerator = k]
<1>2. Runs(ubwiRun[r], vintages, numerators, ratios, frozen, clock) /\ ubwiRun[r].pc = "numerator"
      /\ ubwiRun[r] \in UbwiRecord(vintages, numerators, ratios)
  BY RunAtHand DEF LoadNumerator
<1>3. k \in 0..Len(numerators) /\ (k # 0 => numerators[k] = ubwiRun[r].observed)
  BY <1>1, RunAtHand DEF ObservedAt
<1>4. /\ run \in UbwiRecord(vintages, numerators, ratios) /\ run.pc = "commit" /\ run.observed = ubwiRun[r].observed
      /\ run.outcome = ubwiRun[r].outcome /\ run.now = ubwiRun[r].now /\ run.numerator = k
  BY <1>2, <1>3 DEF UbwiRecord
<1>5. ubwiRun' = [ubwiRun EXCEPT ![r] = run] /\ UNCHANGED <<clock, vintages, numerators, ratios, frozen, ubwiDeaths>>
  BY <1>1 DEF LoadNumerator, UbwiGoes
<1> HIDE DEF run
<1>6. Runs(run, vintages, numerators, ratios, frozen, clock)
  BY <1>2, <1>3, <1>4 DEF Runs, IsDated, HasObserved, HasLoaded, HasRatio, HasPassed, HasLost, Seen, Loaded, Later
<1> QED BY <1>5, <1>6, RunReadsOn, RunAtHand

\* What was calculated and published stands while the denominators and observations grow.
LEMMA CalculatedStands ==
    ASSUME NEW V, NEW N, NEW C, NEW F, Tables(V, N, C, F),
           NEW V2 \in Nat, V <= V2, NEW N2 \in Seq(Instants), GoesOnFrom(N, N2)
    PROVE  Tables(V2, N2, C, F)
<1>1. /\ V \in Nat /\ N \in Seq(Instants) /\ C \in Seq(RatioRow(V, N)) /\ F \in Seq(PointRow(C))
      /\ Len(N) \in Nat /\ Len(N2) \in Nat /\ DOMAIN N = 1..Len(N) /\ DOMAIN C = 1..Len(C) /\ Len(N) <= Len(N2)
  BY DEF Tables, Shapes, GoesOnFrom
<1>2. RatioRow(V, N) \subseteq RatioRow(V2, N2)
  BY <1>1 DEF RatioRow
<1>3. C \in Seq(RatioRow(V2, N2))
  BY <1>1, <1>2
<1>4. \A c \in DOMAIN C : C[c] \in RatioRow(V, N)
  BY <1>1
<1>5. \A c \in DOMAIN C : MadeFor(N2, C, c) = MadeFor(N, C, c)
  BY <1>1, <1>4 DEF MadeFor, RatioRow, GoesOnFrom
<1>6. \A k \in DOMAIN F : F[k].ratio \in DOMAIN C
  <2>1. \A k \in DOMAIN F : F[k] \in PointRow(C)
    BY <1>1
  <2> QED BY <1>1, <2>1 DEF PointRow
<1> QED BY <1>1, <1>3, <1>5, <1>6 DEF Tables, Shapes, GatedAlike, RealPoints

LEMMA CommitLoadKeeps == ASSUME UbwiInv, NEW r \in UbwiRuns, CommitLoad(r) PROVE UbwiInv'
<1> DEFINE old == ubwiRun[r]
           v == IF old.vintage = 0 THEN vintages + 1 ELSE old.vintage
           k == IF old.numerator = 0 THEN Len(numerators) + 1 ELSE old.numerator
           run == [old EXCEPT !.pc = "lookup", !.vintage = v, !.numerator = k]
<1>1. /\ Runs(old, vintages, numerators, ratios, frozen, clock) /\ old.pc = "commit"
      /\ old \in UbwiRecord(vintages, numerators, ratios)
  BY RunAtHand DEF CommitLoad
<1>2. /\ old.observed \in Instants /\ old.vintage \in 0..vintages /\ old.numerator \in 0..Len(numerators)
      /\ (old.numerator # 0 => numerators[old.numerator] = old.observed)
  BY <1>1 DEF UbwiRecord, Runs, HasObserved, HasLoaded, Seen
<1>3. vintages' \in Nat /\ vintages <= vintages' /\ v \in 1..vintages'
  BY <1>2, RunAtHand DEF CommitLoad, InsertVintage
<1>4. /\ numerators' \in Seq(Instants) /\ GoesOnFrom(numerators, numerators') /\ Len(numerators') \in Nat
      /\ k \in 1..Len(numerators') /\ numerators'[k] = old.observed
  <2>1. numerators \in Seq(Instants) /\ Len(numerators) \in Nat
    BY RunAtHand DEF Shapes
  <2>2. CASE old.numerator = 0
    <3>1. numerators' = Append(numerators, old.observed)
      BY <2>2 DEF CommitLoad, InsertObservation
    <3> QED BY <1>2, <2>1, <2>2, <3>1, AppendGoesOn
  <2>3. CASE old.numerator # 0
    <3>1. numerators' = numerators
      BY <2>3 DEF CommitLoad, InsertObservation
    <3> QED BY <1>2, <2>1, <2>3, <3>1, GoesOnFromItself
  <2> QED BY <2>2, <2>3
<1>5. ubwiRun' = [ubwiRun EXCEPT ![r] = run] /\ UNCHANGED <<clock, ratios, frozen, ubwiDeaths>>
  BY DEF CommitLoad, UbwiGoes
<1>6. Len(numerators) <= Len(numerators')
  BY <1>4 DEF GoesOnFrom
<1> HIDE DEF v, k
<1>7. /\ run.pc = "lookup" /\ run.vintage = v /\ run.numerator = k /\ run.observed = old.observed
      /\ run.now = old.now /\ run.outcome = old.outcome /\ run \in UbwiRecord(vintages', numerators', ratios)
  <2>1. old \in UbwiRecord(vintages', numerators', ratios)
    BY <1>1, <1>3, <1>4, <1>6, RunAtHand DEF UbwiRecord
  <2>2. v \in 0..vintages' /\ k \in 0..Len(numerators')
    BY <1>3, <1>4
  <2> HIDE DEF old
  <2> QED BY <2>1, <2>2 DEF UbwiRecord
<1> HIDE DEF run
<1>8. Runs(run, vintages', numerators', ratios, frozen, clock)
  BY <1>1, <1>2, <1>3, <1>4, <1>7 DEF Runs, IsDated, HasObserved, HasLoaded, HasRatio, HasPassed, HasLost, Seen, Loaded, Later
<1>9. Tables(vintages', numerators', ratios, frozen)
  BY <1>3, <1>4, CalculatedStands DEF UbwiInv
<1>10. GoesOnFrom(ratios, ratios) /\ GoesOnFrom(frozen, frozen)
  BY RunAtHand, GoesOnFromItself DEF Shapes
<1> QED BY <1>3, <1>4, <1>5, <1>8, <1>9, <1>10, RunGoesOn, RunAtHand

LEMMA LookUpRatioKeeps == ASSUME UbwiInv, NEW r \in UbwiRuns, LookUpRatio(r) PROVE UbwiInv'
<1> DEFINE old == ubwiRun[r]
<1>1. PICK c \in RatiosOf(old.vintage, old.numerator) \cup {0} :
         UbwiGoes(r, [old EXCEPT !.pc = IF c = 0 THEN "record" ELSE "gate", !.ratio = c])
  BY DEF LookUpRatio
<1> DEFINE pc == IF c = 0 THEN "record" ELSE "gate"
           run == [old EXCEPT !.pc = pc, !.ratio = c]
<1>2. /\ Runs(old, vintages, numerators, ratios, frozen, clock) /\ old.pc = "lookup"
      /\ old \in UbwiRecord(vintages, numerators, ratios)
  BY RunAtHand DEF LookUpRatio
<1>3. c \in 0..Len(ratios) /\ (c # 0 => ratios[c].numerator = old.numerator)
  BY <1>1, RunAtHand DEF RatiosOf
<1>4. /\ run \in UbwiRecord(vintages, numerators, ratios) /\ run.pc = pc /\ run.observed = old.observed
      /\ run.outcome = old.outcome /\ run.now = old.now /\ run.numerator = old.numerator
      /\ run.vintage = old.vintage /\ run.ratio = c
  BY <1>2, <1>3 DEF UbwiRecord
<1>5. ubwiRun' = [ubwiRun EXCEPT ![r] = run] /\ UNCHANGED <<clock, vintages, numerators, ratios, frozen, ubwiDeaths>>
  BY <1>1 DEF LookUpRatio, UbwiGoes
<1> HIDE DEF run
<1>6. Runs(run, vintages, numerators, ratios, frozen, clock)
  BY <1>2, <1>3, <1>4 DEF Runs, IsDated, HasObserved, HasLoaded, HasRatio, MadeFor, HasPassed, HasLost, Seen, Loaded, Later
<1> QED BY <1>5, <1>6, RunReadsOn, RunAtHand

LEMMA RecordRatioKeeps == ASSUME UbwiInv, NEW r \in UbwiRuns, RecordRatio(r) PROVE UbwiInv'
<1> DEFINE old == ubwiRun[r]
           row == [vintage |-> old.vintage, numerator |-> old.numerator, passed |-> old.observed \in Passing]
           c == Len(ratios) + 1
           run == [old EXCEPT !.pc = "gate", !.ratio = c]
<1>1. /\ Runs(old, vintages, numerators, ratios, frozen, clock) /\ old.pc = "record"
      /\ old \in UbwiRecord(vintages, numerators, ratios)
  BY RunAtHand DEF RecordRatio
<1>2. /\ old.vintage \in 1..vintages /\ old.numerator \in 1..Len(numerators)
      /\ numerators[old.numerator] = old.observed
  BY <1>1, RunAtHand DEF UbwiRecord, Runs, HasLoaded, Loaded
<1>3. row \in RatioRow(vintages, numerators) /\ row.numerator = old.numerator /\ row.passed = (old.observed \in Passing)
  BY <1>2 DEF RatioRow
<1>4. ratios' = Append(ratios, row)
  BY DEF RecordRatio
<1>5. ubwiRun' = [ubwiRun EXCEPT ![r] = run] /\ UNCHANGED <<clock, vintages, numerators, frozen, ubwiDeaths>>
  BY DEF RecordRatio, UbwiGoes
<1> HIDE DEF row
<1>6. /\ ratios' \in Seq(RatioRow(vintages, numerators)) /\ GoesOnFrom(ratios, ratios')
      /\ Len(ratios') = c /\ ratios'[c] = row /\ c \in 1..Len(ratios') /\ Len(ratios) <= Len(ratios')
      /\ \A j \in DOMAIN ratios' : j = c \/ j \in DOMAIN ratios
  BY <1>3, <1>4, RunAtHand, AppendGoesOn DEF Shapes
<1>7. \A j \in DOMAIN ratios : MadeFor(numerators, ratios', j) = MadeFor(numerators, ratios, j)
                               /\ ratios'[j].passed = ratios[j].passed
  BY <1>6 DEF MadeFor, GoesOnFrom
<1>8. MadeFor(numerators, ratios', c) = old.observed
  BY <1>2, <1>3, <1>6 DEF MadeFor
<1>9. Tables(vintages, numerators, ratios', frozen)
  <2>1. frozen \in Seq(PointRow(ratios')) /\ \A k \in DOMAIN frozen : frozen[k].ratio \in DOMAIN ratios
    <3>1. PointRow(ratios) \subseteq PointRow(ratios')
      BY <1>6, RunAtHand DEF PointRow
    <3>2. frozen \in Seq(PointRow(ratios)) /\ \A k \in DOMAIN frozen : frozen[k] \in PointRow(ratios)
      BY RunAtHand DEF Shapes
    <3>3. \A k \in DOMAIN frozen : frozen[k].ratio \in DOMAIN ratios
      BY <3>2, RunAtHand DEF PointRow
    <3> QED BY <3>1, <3>2, <3>3
  <2>2. GatedAlike(numerators, ratios')
    BY <1>3, <1>6, <1>7, <1>8 DEF UbwiInv, Tables, GatedAlike
  <2>3. RealPoints(numerators, ratios', frozen)
    BY <1>7, <2>1 DEF UbwiInv, Tables, RealPoints
  <2> QED BY <1>6, <2>1, <2>2, <2>3 DEF UbwiInv, Tables, Shapes
<1> HIDE DEF c
<1>10. /\ run \in UbwiRecord(vintages, numerators, ratios') /\ run.pc = "gate" /\ run.observed = old.observed
       /\ run.outcome = old.outcome /\ run.now = old.now /\ run.numerator = old.numerator
       /\ run.vintage = old.vintage /\ run.ratio = c
  <2>1. old \in UbwiRecord(vintages, numerators, ratios')
    BY <1>1, <1>6, RunAtHand DEF UbwiRecord
  <2>2. c \in 0..Len(ratios')
    BY <1>6
  <2> HIDE DEF old
  <2> QED BY <2>1, <2>2 DEF UbwiRecord
<1> HIDE DEF run
<1>11. Runs(run, vintages, numerators, ratios', frozen, clock)
  BY <1>1, <1>6, <1>8, <1>10 DEF Runs, IsDated, HasObserved, HasLoaded, HasRatio, HasPassed, HasLost, Seen, Loaded, Later
<1>12. GoesOnFrom(numerators, numerators) /\ GoesOnFrom(frozen, frozen) /\ vintages <= vintages
  BY RunAtHand, GoesOnFromItself DEF Shapes
<1> QED BY <1>5, <1>6, <1>9, <1>11, <1>12, RunGoesOn, RunAtHand

LEMMA GateKeeps == ASSUME UbwiInv, NEW r \in UbwiRuns, Gate(r) PROVE UbwiInv'
<1> DEFINE old == ubwiRun[r]
           run == [old EXCEPT !.pc = "freeze"]
<1>1. CASE old.observed \notin Passing
  BY <1>1, AnswersKeeps DEF Gate
<1>2. CASE old.observed \in Passing /\ PointOf(old.ratio) # {}
  BY <1>2, AnswersKeeps DEF Gate
<1>3. CASE old.observed \in Passing /\ PointOf(old.ratio) = {}
  <2>1. /\ Runs(old, vintages, numerators, ratios, frozen, clock) /\ old.pc = "gate"
        /\ old \in UbwiRecord(vintages, numerators, ratios)
    BY RunAtHand DEF Gate
  <2>2. /\ run \in UbwiRecord(vintages, numerators, ratios) /\ run.pc = "freeze" /\ run.observed = old.observed
        /\ run.outcome = old.outcome /\ run.now = old.now /\ run.numerator = old.numerator
        /\ run.vintage = old.vintage /\ run.ratio = old.ratio
    BY <2>1 DEF UbwiRecord
  <2>3. ubwiRun' = [ubwiRun EXCEPT ![r] = run] /\ UNCHANGED <<clock, vintages, numerators, ratios, frozen, ubwiDeaths>>
    BY <1>3 DEF Gate, UbwiGoes
  <2> HIDE DEF run
  <2>4. Runs(run, vintages, numerators, ratios, frozen, clock)
    BY <1>3, <2>1, <2>2 DEF Runs, IsDated, HasObserved, HasLoaded, HasRatio, HasPassed, HasLost, Seen, Loaded, Later
  <2> QED BY <2>3, <2>4, RunReadsOn, RunAtHand
<1> QED BY <1>1, <1>2, <1>3

\* The insert lands: the point is of the day of the run that froze it, which observed no earlier.
LEMMA FreezeLandsKeeps ==
    ASSUME UbwiInv, NEW r \in UbwiRuns, Freeze(r), PointOf(ubwiRun[r].ratio) = {}, ~FrozenOn(Today(r))
    PROVE  UbwiInv'
<1> DEFINE old == ubwiRun[r]
           row == [ratio |-> old.ratio, day |-> Today(r)]
           n == Len(frozen) + 1
           run == [Unasked EXCEPT !.outcome = "published"]
<1>1. /\ Runs(old, vintages, numerators, ratios, frozen, clock) /\ old.pc = "freeze"
      /\ old \in UbwiRecord(vintages, numerators, ratios)
  BY RunAtHand DEF Freeze
<1>2. /\ old.ratio \in 1..Len(ratios) /\ MadeFor(numerators, ratios, old.ratio) = old.observed
      /\ old.observed \in Passing /\ old.observed \in Instants /\ old.now \in Instants /\ old.now <= old.observed
  BY <1>1, RunAtHand DEF UbwiRecord, Runs, HasRatio, HasPassed, HasObserved, Seen, Loaded, Later
<1>3. Today(r) \in Nat /\ Today(r) <= DayOf(old.observed)
  BY <1>2, DaysFollow DEF Today
<1>4. row \in PointRow(ratios) /\ row.ratio = old.ratio /\ row.day = Today(r)
  BY <1>2, <1>3 DEF PointRow
<1>5. /\ frozen' = Append(frozen, row) /\ ubwiRun' = [ubwiRun EXCEPT ![r] = run]
      /\ UNCHANGED <<clock, vintages, numerators, ratios, ubwiDeaths>>
  BY DEF Freeze, Answers, UbwiGoes
<1> HIDE DEF row
<1>6. /\ frozen' \in Seq(PointRow(ratios)) /\ GoesOnFrom(frozen, frozen') /\ frozen'[n] = row
      /\ \A k \in DOMAIN frozen' : k = n \/ (k \in DOMAIN frozen /\ frozen'[k] = frozen[k])
  BY <1>4, <1>5, RunAtHand, AppendGoesOn DEF Shapes, GoesOnFrom
<1>7. \A k \in DOMAIN frozen : frozen[k].day # Today(r) /\ frozen[k].ratio # old.ratio
  BY DEF FrozenOn, PointOf
<1> HIDE DEF n
<1>8. OneEach(frozen')
  BY <1>4, <1>6, <1>7 DEF UbwiInv, Tables, OneEach
<1>9. RealPoints(numerators, ratios, frozen')
  BY <1>2, <1>3, <1>4, <1>6 DEF UbwiInv, Tables, RealPoints
<1>10. Tables(vintages, numerators, ratios, frozen')
  BY <1>6, <1>8, <1>9 DEF UbwiInv, Tables, Shapes
<1>11. Runs(run, vintages, numerators, ratios, frozen', clock)
  BY RunAtHand, UnaskedRuns
<1>12. GoesOnFrom(numerators, numerators) /\ GoesOnFrom(ratios, ratios) /\ vintages <= vintages
  BY RunAtHand, GoesOnFromItself DEF Shapes
<1> HIDE DEF run
<1> QED BY <1>5, <1>6, <1>10, <1>11, <1>12, RunGoesOn, RunAtHand

LEMMA FreezeKeeps == ASSUME UbwiInv, NEW r \in UbwiRuns, Freeze(r) PROVE UbwiInv'
<1> DEFINE old == ubwiRun[r]
           run == [old EXCEPT !.pc = "converge"]
<1>1. CASE PointOf(old.ratio) = {} /\ ~FrozenOn(Today(r))
  BY <1>1, FreezeLandsKeeps
<1>2. CASE ~(PointOf(old.ratio) = {} /\ ~FrozenOn(Today(r)))
  <2>1. /\ Runs(old, vintages, numerators, ratios, frozen, clock) /\ old.pc = "freeze"
        /\ old \in UbwiRecord(vintages, numerators, ratios)
    BY RunAtHand DEF Freeze
  <2>2. /\ run \in UbwiRecord(vintages, numerators, ratios) /\ run.pc = "converge" /\ run.observed = old.observed
        /\ run.outcome = old.outcome /\ run.now = old.now /\ run.numerator = old.numerator
        /\ run.vintage = old.vintage /\ run.ratio = old.ratio
    BY <2>1 DEF UbwiRecord
  <2>3. ubwiRun' = [ubwiRun EXCEPT ![r] = run] /\ UNCHANGED <<clock, vintages, numerators, ratios, frozen, ubwiDeaths>>
    BY <1>2 DEF Freeze, UbwiGoes
  <2>4. \E k \in DOMAIN frozen : frozen[k].day = DayOf(old.now) \/ frozen[k].ratio = old.ratio
    BY <1>2 DEF PointOf, FrozenOn, Today
  <2> HIDE DEF run
  <2>5. Runs(run, vintages, numerators, ratios, frozen, clock)
    BY <2>1, <2>2, <2>4 DEF Runs, IsDated, HasObserved, HasLoaded, HasRatio, HasPassed, HasLost, Seen, Loaded, Later
  <2> QED BY <2>3, <2>5, RunReadsOn, RunAtHand
<1> QED BY <1>1, <1>2

LEMMA UbwiRunDiesKeeps == ASSUME UbwiInv, NEW r \in UbwiRuns, UbwiRunDies(r) PROVE UbwiInv'
<1>1. /\ ubwiRun' = [ubwiRun EXCEPT ![r] = Unasked] /\ ubwiDeaths' = ubwiDeaths + 1 /\ ubwiDeaths < MaxUbwiDeaths
      /\ UNCHANGED <<clock, vintages, numerators, ratios, frozen>>
  BY DEF UbwiRunDies, UbwiGoes
<1>2. [Unasked EXCEPT !.outcome = "none"] = Unasked
  BY DEF Unasked
<1>3. Runs(Unasked, vintages, numerators, ratios, frozen, clock)
  BY <1>2, RunAtHand, UnaskedRuns
<1>4. ubwiDeaths' \in 0..MaxUbwiDeaths
  BY <1>1, RunAtHand, UbwiBounds
<1> QED BY <1>1, <1>3, <1>4, RunReadsOn

LEMMA UbwiInvariance == UbwiSpec => []UbwiInv
<1>1. UbwiInit => UbwiInv
  BY UbwiStart
<1>2. UbwiInv /\ [UbwiNext]_ubwiVars => UbwiInv'
  <2> SUFFICES ASSUME UbwiInv, [UbwiNext]_ubwiVars PROVE UbwiInv'
    OBVIOUS
  <2>1. CASE ClockMoves
    BY <2>1, ClockMovesKeeps
  <2>2. ASSUME NEW r \in UbwiRuns, UbwiRunDies(r) PROVE UbwiInv'
    BY <2>2, UbwiRunDiesKeeps
  <2>3. ASSUME NEW r \in UbwiRuns, RetrievalFails(r) PROVE UbwiInv'
    BY <2>3, AnswersKeeps DEF RetrievalFails
  <2>4. ASSUME NEW r \in UbwiRuns, Converge(r) PROVE UbwiInv'
    BY <2>4, AnswersKeeps DEF Converge
  <2>5. ASSUME NEW r \in UbwiRuns, UbwiStep(r) PROVE UbwiInv'
    BY <2>3, <2>4, <2>5, StartsUbwiKeeps, RetrieveNumeratorKeeps, CheckDayKeeps, LoadDenominatorKeeps,
       LoadNumeratorKeeps, CommitLoadKeeps, LookUpRatioKeeps, RecordRatioKeeps, GateKeeps, FreezeKeeps DEF UbwiStep
  <2>6. CASE UNCHANGED ubwiVars
    BY <2>6 DEF ubwiVars, UbwiInv
  <2> QED BY <2>1, <2>2, <2>5, <2>6 DEF UbwiNext
<1> QED BY <1>1, <1>2, PTL DEF UbwiSpec

\* The tables of the wealth index refer to rows that are there, however many runs overlap and
\* die.
THEOREM UbwiTypeCorrect == UbwiSpec => []UbwiTypeOK
  BY UbwiInvariance, UbwiTypes, PTL

\* No two points share their day or their calculation, none is of a calculation the gate
\* refused, and none shows an observation made before its day (executeDailyPublication and
\* ubwi_publications_daily_idx), whatever runs overlap and die.
THEOREM PointsAreReal == UbwiSpec => []PointsAreOfTheirDay
<1>1. UbwiInv => PointsAreOfTheirDay
  <2> SUFFICES ASSUME UbwiInv PROVE PointsAreOfTheirDay
    OBVIOUS
  <2>1. \A k \in DOMAIN frozen : frozen[k].ratio \in DOMAIN ratios
    <3>1. \A k \in DOMAIN frozen : frozen[k] \in PointRow(ratios)
      BY DEF UbwiInv, Tables, Shapes
    <3>2. DOMAIN ratios = 1..Len(ratios)
      BY DEF UbwiInv, Tables, Shapes
    <3> QED BY <3>1, <3>2 DEF PointRow
  <2>2. \A k \in DOMAIN frozen : InstantOf(k) = MadeFor(numerators, ratios, frozen[k].ratio)
    BY DEF InstantOf, MadeFor
  <2> QED BY <2>1, <2>2 DEF UbwiInv, Tables, GatedAlike, OneEach, RealPoints, PointsAreOfTheirDay
<1> QED BY <1>1, UbwiInvariance, PTL

\* What a run writes down of itself when it answers.
LEMMA AnswersWith ==
    ASSUME UbwiInv, NEW r \in UbwiRuns,
           NEW outcome \in {"none", "published", "already_published", "gate_refused", "retrieval_failed"},
           Answers(r, outcome)
    PROVE  ubwiRun'[r].outcome = outcome
<1> DEFINE run == [Unasked EXCEPT !.outcome = outcome]
<1>1. run.outcome = outcome
  BY RunAtHand, UnaskedRuns
<1>2. ubwiRun' = [ubwiRun EXCEPT ![r] = run]
  BY DEF Answers, UbwiGoes
<1> HIDE DEF run
<1> QED BY <1>1, <1>2, RunAtHand

\* The steps of a run that answer, with a point or without.
LEMMA AnsweringSteps ==
    ASSUME UbwiInv, UbwiNext, NEW r \in UbwiRuns,
           ubwiRun[r].pc # "idle", ubwiRun'[r].outcome \in {"published", "already_published"}
    PROVE  \/ CheckDay(r) /\ FrozenOn(Today(r))
           \/ Gate(r) /\ PointOf(ubwiRun[r].ratio) # {}
           \/ Freeze(r) /\ PointOf(ubwiRun[r].ratio) = {} /\ ~FrozenOn(Today(r))
           \/ Converge(r)
<1>1. /\ ubwiRun[r].outcome = "none" /\ ubwiRun[r] \in UbwiRecord(vintages, numerators, ratios)
      /\ ubwiRun \in [UbwiRuns -> UbwiRecord(vintages, numerators, ratios)]
  BY RunAtHand DEF Runs, IsDated
<1>2. ubwiRun'[r] # ubwiRun[r] /\ ubwiRun'[r].outcome # "none"
  BY <1>1
<1>3. PICK q \in UbwiRuns : UbwiStep(q) \/ UbwiRunDies(q)
  BY <1>2 DEF UbwiNext, ClockMoves
<1>4. \A p \in UbwiRuns : \A run : UbwiGoes(p, run) => p = r /\ ubwiRun'[r] = run
  BY <1>1, <1>2 DEF UbwiGoes
<1>5. q = r
  BY <1>3, <1>4 DEF UbwiStep, UbwiRunDies, StartsUbwi, RetrieveNumerator, RetrievalFails, CheckDay, LoadDenominator,
                    LoadNumerator, CommitLoad, LookUpRatio, RecordRatio, Gate, Freeze, Converge, Answers
<1>6. ~UbwiRunDies(r)
  <2>1. Unasked.outcome = "none"
    BY DEF Unasked
  <2> QED BY <1>2, <1>4, <2>1 DEF UbwiRunDies
<1>7. \A outcome \in {"gate_refused", "retrieval_failed"} : ~Answers(r, outcome)
  BY AnswersWith
<1>8. ~StartsUbwi(r) /\ ~RetrievalFails(r)
  BY <1>7 DEF StartsUbwi, RetrievalFails
<1>9. ~RetrieveNumerator(r) /\ ~LoadDenominator(r) /\ ~LoadNumerator(r)
  <2>1. ~RetrieveNumerator(r)
    BY <1>1, <1>2, <1>4 DEF RetrieveNumerator, UbwiRecord
  <2>2. ~LoadDenominator(r)
    BY <1>1, <1>2, <1>4 DEF LoadDenominator, UbwiRecord
  <2>3. ~LoadNumerator(r)
    BY <1>1, <1>2, <1>4 DEF LoadNumerator, UbwiRecord
  <2> QED BY <2>1, <2>2, <2>3
<1>10. ~CommitLoad(r) /\ ~LookUpRatio(r) /\ ~RecordRatio(r)
  <2>1. ~CommitLoad(r)
    BY <1>1, <1>2, <1>4 DEF CommitLoad, UbwiRecord
  <2>2. ~LookUpRatio(r)
    BY <1>1, <1>2, <1>4 DEF LookUpRatio, UbwiRecord
  <2>3. ~RecordRatio(r)
    BY <1>1, <1>2, <1>4 DEF RecordRatio, UbwiRecord
  <2> QED BY <2>1, <2>2, <2>3
<1>11. CASE CheckDay(r)
  BY <1>1, <1>2, <1>4, <1>11 DEF CheckDay, UbwiRecord
<1>12. CASE Gate(r)
  BY <1>1, <1>2, <1>4, <1>7, <1>12 DEF Gate, UbwiRecord
<1>13. CASE Freeze(r)
  BY <1>1, <1>2, <1>4, <1>13 DEF Freeze, UbwiRecord
<1> QED BY <1>3, <1>5, <1>6, <1>8, <1>9, <1>10, <1>11, <1>12, <1>13 DEF UbwiStep

\* A run that answers with a point finds the point of its day standing, or one of the very
\* observation it made (executeDailyPublication's already_published), whatever runs overlap.
THEOREM AnswersAreOfPoints == UbwiSpec => AnsweredWithAPoint
<1>1. ASSUME UbwiInv, UbwiNext, NEW r \in UbwiRuns,
             ubwiRun[r].pc # "idle", ubwiRun'[r].outcome \in {"published", "already_published"}
      PROVE  \/ \E k \in DOMAIN frozen' : frozen'[k].day = Today(r)
             \/ \E k \in DOMAIN frozen : InstantOf(k) = ubwiRun[r].observed
  <2>1. Runs(ubwiRun[r], vintages, numerators, ratios, frozen, clock)
    BY <1>1, RunAtHand
  <2>2. ASSUME NEW k \in DOMAIN frozen, frozen[k].ratio = ubwiRun[r].ratio, ubwiRun[r].pc \in Later
        PROVE  InstantOf(k) = ubwiRun[r].observed
    BY <2>1, <2>2 DEF InstantOf, Runs, HasRatio, MadeFor
  <2>3. CASE CheckDay(r) /\ FrozenOn(Today(r))
    BY <2>3 DEF FrozenOn, CheckDay
  <2>4. CASE Gate(r) /\ PointOf(ubwiRun[r].ratio) # {}
    BY <2>2, <2>4 DEF Gate, PointOf, Later
  <2>5. CASE Freeze(r) /\ PointOf(ubwiRun[r].ratio) = {} /\ ~FrozenOn(Today(r))
    <3> DEFINE row == [ratio |-> ubwiRun[r].ratio, day |-> Today(r)]
    <3>1. frozen' = Append(frozen, row) /\ row.day = Today(r)
      BY <2>5 DEF Freeze
    <3> HIDE DEF row
    <3>2. frozen \in Seq(PointRow(ratios))
      BY <1>1 DEF UbwiInv, Tables, Shapes
    <3>3. Len(frozen) + 1 \in DOMAIN frozen' /\ frozen'[Len(frozen) + 1] = row
      BY <3>1, <3>2
    <3> QED BY <3>1, <3>3
  <2>6. CASE Converge(r)
    <3>1. \E k \in DOMAIN frozen : frozen[k].day = Today(r) \/ frozen[k].ratio = ubwiRun[r].ratio
      BY <2>1, <2>6 DEF Converge, Runs, HasLost, Today
    <3>2. frozen' = frozen /\ ubwiRun[r].pc \in Later
      BY <2>6 DEF Converge, Later
    <3> QED BY <2>2, <3>1, <3>2
  <2> QED BY <1>1, <2>3, <2>4, <2>5, <2>6, AnsweringSteps
<1>2. UbwiInv /\ [UbwiNext]_ubwiVars =>
        [\A r \in UbwiRuns :
           ubwiRun[r].pc # "idle" /\ ubwiRun'[r].outcome \in {"published", "already_published"} =>
             \/ \E k \in DOMAIN frozen' : frozen'[k].day = Today(r)
             \/ \E k \in DOMAIN frozen : InstantOf(k) = ubwiRun[r].observed]_ubwiVars
  BY <1>1
<1> QED BY <1>2, UbwiInvariance, PTL DEF UbwiSpec, AnsweredWithAPoint

-----------------------------------------------------------------------------
(* The numerator of the blended wealth index. *)

RetrievalRecord ==
    [pc : {"height", "block", "round", "confirm", "own_head", "stamp", "refused", "answered"},
     read : Seq(1..MaxInstant + 1), since : Nat, block : 0..MaxInstant, round : [id : Nat, at : Nat]]

\* A chain's blocks were opened by now, at most one an instant, the first at once.
Chain(blocks) == /\ blocks \in Seq(Moments) /\ Len(blocks) \in 1..instant /\ blocks[1] = 1
                 /\ \A k \in DOMAIN blocks : blocks[k] <= instant

\* At `since` or after it, h was the tip; the round is one the feed had.
Tip(h, since) == h \in DOMAIN heights /\ (h = Len(heights) \/ heights[h + 1] > since)
IsReal(round) == round.id \in DOMAIN rounds /\ round.at = rounds[round.id]

AgreedUpon == {"block", "round", "confirm", "own_head", "stamp"}
IsCounted(k) == Len(k.read) <= 2 /\ k.since \in 0..instant /\ (Len(k.read) # 0 => k.since # 0)
HasRead(k) ==
    /\ k.pc = "height" =>
         /\ Len(k.read) >= 1 /\ liar # "first" => Tip(k.read[1], k.since)
         /\ Len(k.read) = 2 /\ liar # "second" => Tip(k.read[2], k.since)
    /\ k.pc \in AgreedUpon => Len(k.read) = 2 /\ Tip(k.read[1], k.since)
HasRound(k) ==
    /\ k.pc \in {"round", "confirm", "own_head"} => k.block # 0
    /\ k.pc \in {"confirm", "own_head"} /\ liar # "primary" => IsReal(k.round)
    /\ k.pc = "stamp" => IsReal(k.round)
Retrieves(k) == k \in RetrievalRecord /\ IsCounted(k) /\ HasRead(k) /\ HasRound(k)

Liars == {"none", "first", "second", "primary", "secondary"}
Answer == [height : Nat, round : Claims, read : Moments]
NumeratorInv ==
    /\ instant \in Moments /\ liar \in Liars /\ Chain(heights) /\ Chain(rounds)
    /\ Retrieves(retrieval)
    /\ observation = NoObservation \/ (observation \in Answer /\ observation.read <= instant)
    /\ ObservationIsReal

LEMMA NumeratorBounds ==
    /\ MaxInstant \in Nat /\ MaxInstant >= 1 /\ LegWindow \in Nat /\ Heartbeat \in Nat /\ MaxLag \in Nat
    /\ Moments \subseteq Nat /\ 1 \in Moments
  BY NumeratorAssumption DEF Moments

LEMMA NothingRetrieved ==
    /\ Nothing \in RetrievalRecord /\ Nothing.pc = "height" /\ Len(Nothing.read) = 0 /\ Nothing.since = 0
    /\ [Nothing EXCEPT !.pc = "refused"] \in RetrievalRecord /\ [Nothing EXCEPT !.pc = "answered"] \in RetrievalRecord
<1>1. Nothing \in RetrievalRecord /\ Nothing.pc = "height" /\ Len(Nothing.read) = 0 /\ Nothing.since = 0
  <2>1. <<>> \in Seq(1..MaxInstant + 1) /\ 0 \in 0..MaxInstant /\ Len(<<>>) = 0
    BY NumeratorBounds
  <2>2. Nothing.read = <<>>
    BY DEF Nothing
  <2> QED BY <2>1, <2>2 DEF Nothing, RetrievalRecord
<1> QED BY <1>1 DEF RetrievalRecord

\* What is refused, answered or begun again holds nothing.
LEMMA NothingRetrieves ==
    ASSUME instant \in Moments
    PROVE  /\ Retrieves(Nothing) /\ Retrieves([Nothing EXCEPT !.pc = "refused"])
           /\ Retrieves([Nothing EXCEPT !.pc = "answered"])
<1>1. \A pc \in {"refused", "answered"} :
         /\ [Nothing EXCEPT !.pc = pc].pc = pc /\ Len([Nothing EXCEPT !.pc = pc].read) = 0
         /\ [Nothing EXCEPT !.pc = pc].since = 0
  BY DEF Nothing
<1>2. 0 \in 0..instant
  BY NumeratorBounds
<1>3. Retrieves(Nothing)
  BY <1>2, NothingRetrieved DEF Retrieves, IsCounted, HasRead, HasRound, AgreedUpon
<1>4. ASSUME NEW k \in RetrievalRecord, k.pc \in {"refused", "answered"}, Len(k.read) = 0, k.since = 0
      PROVE  Retrieves(k)
  BY <1>2, <1>4 DEF Retrieves, IsCounted, HasRead, HasRound, AgreedUpon
<1> QED BY <1>1, <1>3, <1>4, NothingRetrieved

LEMMA NumeratorStart == ASSUME NumeratorInit PROVE NumeratorInv
<1>1. /\ instant = 1 /\ heights = <<1>> /\ rounds = <<1>> /\ liar \in Liars
      /\ retrieval = Nothing /\ observation = NoObservation
  BY DEF NumeratorInit, Liars
<1>2. instant \in Moments /\ Chain(heights) /\ Chain(rounds)
  BY <1>1, NumeratorBounds DEF Chain
<1>3. Retrieves(retrieval)
  BY <1>1, <1>2, NothingRetrieves
<1> QED BY <1>1, <1>2, <1>3 DEF NumeratorInv, ObservationIsReal

\* The world as a step finds it.
LEMMA WorldAtHand ==
    ASSUME NumeratorInv
    PROVE  /\ instant \in Moments /\ instant \in Nat /\ instant >= 1 /\ instant <= MaxInstant /\ liar \in Liars
           /\ heights \in Seq(Moments) /\ Len(heights) \in 1..instant /\ Len(heights) \in DOMAIN heights
           /\ DOMAIN heights = 1..Len(heights) /\ Len(heights) \in Nat
           /\ rounds \in Seq(Moments) /\ Len(rounds) \in 1..instant /\ DOMAIN rounds = 1..Len(rounds) /\ Len(rounds) \in Nat
           /\ \A k \in DOMAIN heights : heights[k] \in Nat /\ heights[k] <= instant
           /\ \A k \in DOMAIN rounds : rounds[k] \in Moments /\ rounds[k] \in Nat /\ rounds[k] <= instant
           /\ rounds[1] = 1
           /\ retrieval \in RetrievalRecord /\ Retrieves(retrieval)
<1>1. instant \in Moments /\ liar \in Liars /\ Retrieves(retrieval) /\ Chain(heights) /\ Chain(rounds)
  BY DEF NumeratorInv
<1>2. instant \in Nat /\ instant >= 1 /\ instant <= MaxInstant
  BY <1>1, NumeratorBounds DEF Moments
<1>3. retrieval \in RetrievalRecord
  BY <1>1 DEF Retrieves
<1>4. /\ heights \in Seq(Moments) /\ Len(heights) \in 1..instant /\ DOMAIN heights = 1..Len(heights)
      /\ \A k \in DOMAIN heights : heights[k] \in Moments /\ heights[k] <= instant
  BY <1>1 DEF Chain
<1>5. /\ rounds \in Seq(Moments) /\ Len(rounds) \in 1..instant /\ DOMAIN rounds = 1..Len(rounds) /\ rounds[1] = 1
      /\ \A k \in DOMAIN rounds : rounds[k] \in Moments /\ rounds[k] <= instant
  BY <1>1 DEF Chain
<1>6. /\ \A k \in DOMAIN heights : heights[k] \in Nat
      /\ \A k \in DOMAIN rounds : rounds[k] \in Nat
  BY <1>4, <1>5, NumeratorBounds
<1> QED BY <1>1, <1>2, <1>3, <1>4, <1>5, <1>6

\* Whatever block is asked about, the feed had a round then.
LEMMA RoundAtIsReal ==
    ASSUME NumeratorInv, NEW n \in Moments
    PROVE  IsReal(RoundAt(n)) /\ RoundAt(n) \in Claims
<1> DEFINE then == {k \in DOMAIN rounds : rounds[k] <= n}
<1>1. n \in Nat /\ n >= 1
  BY NumeratorBounds DEF Moments
<1>2. then \subseteq 0..Len(rounds) /\ 1 \in then
  BY <1>1, WorldAtHand
<1>3. PICK k \in then : \A j \in then : j <= k
  <2> HIDE DEF then
  <2> QED BY <1>2, WorldAtHand, HasGreatest
<1> DEFINE id == CHOOSE i \in DOMAIN rounds : rounds[i] <= n /\ \A j \in DOMAIN rounds : rounds[j] <= n => j <= i
<1>4. id \in DOMAIN rounds
  BY <1>3
<1> HIDE DEF id
<1>5. RoundAt(n) = [id |-> id, at |-> rounds[id]]
  BY DEF RoundAt, id
<1>6. id \in 1..(MaxInstant + 1) /\ rounds[id] \in Moments
  BY <1>4, WorldAtHand, NumeratorBounds
<1> QED BY <1>4, <1>5, <1>6 DEF IsReal, Claims

\* The retrieval goes on, and nothing else moves.
LEMMA RetrievalGoesOn ==
    ASSUME NumeratorInv, Retrieves(retrieval'),
           UNCHANGED <<instant, heights, rounds, liar, observation>>
    PROVE  NumeratorInv'
<1>1. Retrieves(retrieval)'
  BY DEF Retrieves, IsCounted, HasRead, HasRound, Tip, IsReal, AgreedUpon
<1> QED BY <1>1 DEF NumeratorInv, Chain, ObservationIsReal

LEMMA RefuseKeeps ==
    ASSUME NumeratorInv, Refuse, UNCHANGED <<instant, heights, rounds, liar>> PROVE NumeratorInv'
  BY NothingRetrieves, WorldAtHand, RetrievalGoesOn DEF Refuse, Knows

\* A chain that a block is added to, perhaps: what it was is its beginning, what comes is new.
LEMMA ChainGrows ==
    ASSUME NEW S, NEW A \in Seq(S), NEW t \in S, NEW B \in {A, Append(A, t)}
    PROVE  /\ B \in Seq(S) /\ Len(A) \in Nat /\ Len(B) \in Nat /\ Len(B) \in {Len(A), Len(A) + 1}
           /\ DOMAIN A = 1..Len(A) /\ DOMAIN B = 1..Len(B)
           /\ \A k \in 1..Len(A) : k \in 1..Len(B) /\ B[k] = A[k]
           /\ \A k \in 1..Len(B) : k \in 1..Len(A) \/ (k = Len(A) + 1 /\ B[k] = t)
<1>1. CASE B = A
  BY <1>1
<1>2. CASE B = Append(A, t)
  BY <1>2
<1> QED BY <1>1, <1>2

\* What follows a block, once anything does, does not change.
LEMMA NextIsKept ==
    ASSUME NEW S, NEW A \in Seq(S), NEW t \in S, NEW B \in {A, Append(A, t)},
           NEW h \in 1..Len(A)
    PROVE  /\ h \in 1..Len(B) /\ B[h] = A[h]
           /\ h = Len(A) => h = Len(B) \/ B[h + 1] = t
           /\ h # Len(A) => B[h + 1] = A[h + 1]
<1> DEFINE n == Len(A)  m == Len(B)
<1>1. /\ n \in Nat /\ m \in Nat /\ m \in {n, n + 1}
      /\ \A k \in 1..n : k \in 1..m /\ B[k] = A[k]
      /\ \A k \in 1..m : k \in 1..n \/ (k = n + 1 /\ B[k] = t)
  BY ChainGrows
<1>2. h \in 1..n
  OBVIOUS
<1> HIDE DEF n, m
<1>3. h = n => h = m \/ B[h + 1] = t
  BY <1>1, <1>2
<1>4. h # n => B[h + 1] = A[h + 1]
  BY <1>1, <1>2
<1> QED BY <1>1, <1>2, <1>3, <1>4 DEF n, m

LEMMA InstantPassesKeeps == ASSUME NumeratorInv, InstantPasses PROVE NumeratorInv'
<1>1. /\ instant' = instant + 1 /\ instant < MaxInstant /\ instant' \in Moments
      /\ heights' \in {heights, Append(heights, instant')} /\ rounds' \in {rounds, Append(rounds, instant')}
      /\ UNCHANGED <<liar, retrieval, observation>>
  BY WorldAtHand, NumeratorBounds DEF InstantPasses, Moments
<1>2. ASSUME NEW blocks, Chain(blocks), NEW more \in {blocks, Append(blocks, instant')}
      PROVE  /\ more \in Seq(Moments) /\ Len(more) \in 1..instant' /\ more[1] = 1
             /\ \A k \in DOMAIN more : more[k] <= instant'
             /\ \A k \in DOMAIN blocks : k \in DOMAIN more /\ more[k] = blocks[k]
  <2>1. /\ blocks \in Seq(Moments) /\ Len(blocks) \in 1..instant /\ blocks[1] = 1
        /\ \A k \in 1..Len(blocks) : blocks[k] \in Moments /\ blocks[k] <= instant
    BY <1>2 DEF Chain
  <2>2. /\ more \in Seq(Moments) /\ Len(blocks) \in Nat /\ Len(more) \in Nat /\ Len(more) \in {Len(blocks), Len(blocks) + 1}
        /\ DOMAIN blocks = 1..Len(blocks) /\ DOMAIN more = 1..Len(more)
        /\ \A k \in 1..Len(blocks) : k \in 1..Len(more) /\ more[k] = blocks[k]
        /\ \A k \in 1..Len(more) : k \in 1..Len(blocks) \/ (k = Len(blocks) + 1 /\ more[k] = instant')
    BY <1>1, <1>2, <2>1, ChainGrows
  <2>3. instant \in Nat /\ instant' = instant + 1
    BY <1>1, WorldAtHand
  <2> DEFINE n == Len(blocks)  m == Len(more)
  <2> HIDE DEF n, m
  <2>8. n \in 1..instant /\ m \in {n, n + 1}
    BY <2>1, <2>2 DEF n, m
  <2>4. m \in 1..instant' /\ 1 \in 1..n
    BY <2>3, <2>8
  <2>5. \A k \in 1..n : blocks[k] \in Nat /\ blocks[k] <= instant
    BY <2>1, NumeratorBounds DEF n
  <2>6. \A k \in 1..m : (k \in 1..n /\ more[k] = blocks[k]) \/ more[k] = instant'
    BY <2>2 DEF n, m
  <2>7. \A k \in 1..m : more[k] <= instant'
    BY <2>3, <2>5, <2>6
  <2> QED BY <2>1, <2>2, <2>4, <2>7 DEF n, m
<1>3. Chain(heights) /\ Chain(rounds)
  BY DEF NumeratorInv
<1>4. \A k \in DOMAIN heights : k \in DOMAIN heights' /\ heights'[k] = heights[k]
  BY <1>1, <1>2, <1>3
<1>5. \A k \in DOMAIN rounds : k \in DOMAIN rounds' /\ rounds'[k] = rounds[k]
  BY <1>1, <1>2, <1>3
<1>6. Chain(heights)' /\ Chain(rounds)'
  BY <1>1, <1>2, <1>3 DEF Chain
<1>12. ASSUME NEW h \in DOMAIN heights
       PROVE  /\ h = Len(heights) => h = Len(heights') \/ heights'[h + 1] = instant'
              /\ h # Len(heights) => heights'[h + 1] = heights[h + 1]
  BY <1>1, <1>12, WorldAtHand, NextIsKept
<1>7. ASSUME NEW h, NEW since \in 0..instant, Tip(h, since) PROVE Tip(h, since)'
  <2>1. h \in DOMAIN heights /\ h \in DOMAIN heights' /\ (h = Len(heights) \/ heights[h + 1] > since)
    BY <1>4, <1>7 DEF Tip
  <2>2. instant' > since
    BY <1>1, WorldAtHand
  <2>3. h = Len(heights') \/ heights'[h + 1] > since
    BY <1>12, <2>1, <2>2
  <2> QED BY <2>1, <2>3 DEF Tip
<1>8. \A round : IsReal(round) => IsReal(round)'
  BY <1>5 DEF IsReal
<1>9. Retrieves(retrieval)'
  <2>1. /\ retrieval \in RetrievalRecord /\ HasRead(retrieval) /\ HasRound(retrieval)
        /\ IsCounted(retrieval) /\ retrieval.since \in 0..instant
    BY DEF NumeratorInv, Retrieves, IsCounted
  <2>2. HasRead(retrieval)' /\ IsCounted(retrieval)'
    BY <1>1, <1>7, <2>1, WorldAtHand DEF HasRead, IsCounted
  <2>3. HasRound(retrieval)'
    BY <1>1, <1>8, <2>1 DEF HasRound
  <2> QED BY <1>1, <2>1, <2>2, <2>3 DEF Retrieves
<1>10. ObservationIsReal'
  <2> SUFFICES ASSUME observation # NoObservation
               PROVE  /\ observation.height \in DOMAIN heights'
                      /\ heights'[observation.height] <= observation.read
                      /\ observation.height = Len(heights') \/ heights'[observation.height + 1] + LegWindow >= observation.read
                      /\ observation.round.id \in DOMAIN rounds'
                      /\ observation.round.at = rounds'[observation.round.id]
                      /\ observation.round.at <= observation.read
                      /\ observation.read - observation.round.at <= Heartbeat
    BY <1>1 DEF ObservationIsReal
  <2>1. /\ observation.height \in DOMAIN heights
        /\ heights[observation.height] <= observation.read
        /\ observation.height = Len(heights) \/ heights[observation.height + 1] + LegWindow >= observation.read
        /\ observation.round.id \in DOMAIN rounds
        /\ observation.round.at = rounds[observation.round.id]
        /\ observation.round.at <= observation.read
        /\ observation.read - observation.round.at <= Heartbeat
    BY DEF NumeratorInv, ObservationIsReal
  <2>2. observation.read \in Nat /\ observation.read <= instant
    BY NumeratorBounds DEF NumeratorInv, Answer
  <2>3. observation.height = Len(heights') \/ heights'[observation.height + 1] + LegWindow >= observation.read
    <3>1. instant' + LegWindow >= observation.read
      BY <1>1, <2>2, WorldAtHand, NumeratorBounds
    <3> QED BY <1>12, <2>1, <3>1
  <2> QED BY <1>4, <1>5, <2>1, <2>3
<1>11. observation' = NoObservation \/ (observation' \in Answer /\ observation'.read <= instant')
  <2>1. CASE observation \in Answer /\ observation.read <= instant
    <3>1. observation.read \in Nat
      BY <2>1, NumeratorBounds DEF Answer
    <3> QED BY <1>1, <2>1, <3>1, WorldAtHand
  <2> QED BY <1>1, <2>1 DEF NumeratorInv
<1> QED BY <1>1, <1>6, <1>9, <1>10, <1>11 DEF NumeratorInv

LEMMA ReadHeightKeeps == ASSUME NumeratorInv, ReadHeight PROVE NumeratorInv'
<1> DEFINE old == retrieval
<1>1. /\ old \in RetrievalRecord /\ IsCounted(old) /\ HasRead(old) /\ old.pc = "height" /\ Len(old.read) < 2
      /\ old.read \in Seq(1..MaxInstant + 1) /\ old.since \in Nat
  <2>1. old \in RetrievalRecord /\ IsCounted(old) /\ HasRead(old) /\ old.pc = "height" /\ Len(old.read) < 2
    BY WorldAtHand DEF ReadHeight, Retrieves
  <2> QED BY <2>1 DEF RetrievalRecord
<1>2. PICK n \in Nat : n = Len(old.read)
  BY <1>1
<1>3. n < 2
  BY <1>1, <1>2
<1>4. PICK height \in IF liar = HeightSources[n + 1] THEN 1..(MaxInstant + 1) ELSE {Len(heights)} :
         retrieval' = [old EXCEPT !.read = Append(@, height), !.since = IF @ = 0 THEN instant ELSE @]
  BY <1>2 DEF ReadHeight, Knows
<1>5. height \in 1..(MaxInstant + 1) /\ (liar # HeightSources[n + 1] => Tip(height, instant))
  <2>1. height \in 1..(MaxInstant + 1) /\ (liar # HeightSources[n + 1] => height = Len(heights))
    BY <1>4, WorldAtHand, NumeratorBounds
  <2> QED BY <2>1, WorldAtHand DEF Tip
<1> DEFINE since == IF old.since = 0 THEN instant ELSE old.since
           read == Append(old.read, height)
<1>6. retrieval' = [old EXCEPT !.read = read, !.since = since]
  BY <1>1, <1>4 DEF RetrievalRecord
<1>7. old.since \in 0..instant /\ (n # 0 => old.since # 0)
  BY <1>1, <1>2, WorldAtHand DEF IsCounted
<1>8. since \in 0..instant /\ since \in Nat /\ since # 0 /\ (n # 0 => since = old.since)
  <2>1. instant \in Nat /\ instant >= 1
    BY WorldAtHand
  <2>2. CASE old.since = 0
    BY <1>7, <2>1, <2>2
  <2>3. CASE old.since # 0
    BY <1>1, <1>7, <2>1, <2>3
  <2> QED BY <2>2, <2>3
<1>9. /\ read \in Seq(1..MaxInstant + 1) /\ Len(read) = n + 1 /\ read[n + 1] = height
      /\ (n = 1 => read[1] = old.read[1])
  BY <1>1, <1>2, <1>5
<1>10. liar # HeightSources[n + 1] => Tip(height, since)
  BY <1>5, <1>8, WorldAtHand DEF Tip
<1> HIDE DEF since, read
<1>11. /\ retrieval' \in RetrievalRecord /\ retrieval'.pc = "height" /\ retrieval'.read = read
       /\ retrieval'.since = since
  BY <1>1, <1>6, <1>8, <1>9 DEF RetrievalRecord
<1>12. IsCounted(retrieval')
  <2>1. Len(read) <= 2
    BY <1>3, <1>9
  <2> QED BY <1>8, <1>11, <2>1 DEF IsCounted
<1>13. HasRead(retrieval')
  <2>1. HeightSources[1] = "first" /\ HeightSources[2] = "second"
    BY DEF HeightSources
  <2>2. CASE n = 0
    <3>1. Len(read) = 1 /\ (liar # "first" => Tip(read[1], since))
      BY <1>9, <1>10, <2>1, <2>2
    <3> QED BY <1>11, <3>1 DEF HasRead, AgreedUpon
  <2>3. CASE n = 1
    <3>1. liar # "first" => Tip(read[1], since)
      BY <1>1, <1>2, <1>8, <1>9, <2>3 DEF HasRead
    <3>2. Len(read) = 2 /\ (liar # "second" => Tip(read[2], since))
      BY <1>9, <1>10, <2>1, <2>3
    <3> QED BY <1>11, <3>1, <3>2 DEF HasRead, AgreedUpon
  <2>4. n = 0 \/ n = 1
    BY <1>3
  <2> QED BY <2>2, <2>3, <2>4
<1>14. HasRound(retrieval')
  BY <1>11 DEF HasRound
<1> QED BY <1>11, <1>12, <1>13, <1>14, RetrievalGoesOn DEF Retrieves, ReadHeight

LEMMA AgreeOnHeightKeeps == ASSUME NumeratorInv, AgreeOnHeight PROVE NumeratorInv'
<1> DEFINE old == retrieval
<1>1. CASE old.read[1] # old.read[2]
  BY <1>1, RefuseKeeps DEF AgreeOnHeight
<1>2. CASE old.read[1] = old.read[2]
  <2>1. old \in RetrievalRecord /\ IsCounted(old) /\ HasRead(old) /\ old.pc = "height" /\ Len(old.read) = 2
    BY WorldAtHand DEF AgreeOnHeight, Retrieves
  <2>2. Tip(old.read[1], old.since)
    BY <1>2, <2>1 DEF HasRead
  <2>3. retrieval' = [old EXCEPT !.pc = "block"] /\ UNCHANGED <<instant, heights, rounds, liar, observation>>
    BY <1>2 DEF AgreeOnHeight, Knows
  <2>4. /\ retrieval' \in RetrievalRecord /\ retrieval'.pc = "block" /\ retrieval'.read = old.read
        /\ retrieval'.since = old.since
    BY <2>1, <2>3 DEF RetrievalRecord
  <2>5. Retrieves(retrieval')
    BY <2>1, <2>2, <2>4 DEF Retrieves, IsCounted, HasRead, HasRound, AgreedUpon
  <2> QED BY <2>3, <2>5, RetrievalGoesOn
<1> QED BY <1>1, <1>2

LEMMA PinBlockKeeps == ASSUME NumeratorInv, PinBlock PROVE NumeratorInv'
<1> DEFINE old == retrieval
<1>1. PICK n \in Heads("primary") : retrieval' = [old EXCEPT !.pc = "round", !.block = n]
  BY DEF PinBlock, Knows
<1>2. old \in RetrievalRecord /\ IsCounted(old) /\ HasRead(old) /\ old.pc = "block"
  BY WorldAtHand DEF PinBlock, Retrieves
<1>3. n \in 0..MaxInstant /\ n # 0
  BY WorldAtHand, NumeratorBounds DEF Heads, Moments
<1>4. /\ retrieval' \in RetrievalRecord /\ retrieval'.pc = "round" /\ retrieval'.read = old.read
      /\ retrieval'.since = old.since /\ retrieval'.block = n
  BY <1>1, <1>2, <1>3 DEF RetrievalRecord
<1>5. Retrieves(retrieval')
  BY <1>2, <1>3, <1>4 DEF Retrieves, IsCounted, HasRead, HasRound, AgreedUpon
<1> QED BY <1>5, RetrievalGoesOn DEF PinBlock

LEMMA ReadRoundKeeps == ASSUME NumeratorInv, ReadRound PROVE NumeratorInv'
<1> DEFINE old == retrieval
<1>1. PICK round \in IF liar = "primary" THEN Claims ELSE {RoundAt(old.block)} :
         retrieval' = [old EXCEPT !.pc = "confirm", !.round = round]
  BY DEF ReadRound, Knows
<1>2. old \in RetrievalRecord /\ IsCounted(old) /\ HasRead(old) /\ old.pc = "round" /\ old.block \in Moments
  BY WorldAtHand, NumeratorBounds DEF ReadRound, Retrieves, HasRound, RetrievalRecord, Moments
<1>3. round \in Claims /\ (liar # "primary" => IsReal(round))
  BY <1>1, <1>2, RoundAtIsReal
<1>4. round \in [id : Nat, at : Nat]
  <2>1. 1..(MaxInstant + 1) \subseteq Nat
    BY NumeratorBounds
  <2> QED BY <1>3, <2>1, NumeratorBounds DEF Claims
<1>5. /\ retrieval' \in RetrievalRecord /\ retrieval'.pc = "confirm" /\ retrieval'.read = old.read
      /\ retrieval'.since = old.since /\ retrieval'.block = old.block /\ retrieval'.round = round
  BY <1>1, <1>2, <1>4 DEF RetrievalRecord
<1>6. Retrieves(retrieval')
  <2>1. old.block # 0
    BY <1>2, NumeratorBounds DEF Moments
  <2> QED BY <1>2, <1>3, <1>5, <2>1 DEF Retrieves, IsCounted, HasRead, HasRound, AgreedUpon
<1> QED BY <1>6, RetrievalGoesOn DEF ReadRound

\* A confirmation by either endpoint that the feed really gave, or of a round it really had.
LEMMA ComparedKeeps ==
    ASSUME NumeratorInv, NEW confirmation, Compared(confirmation), retrieval.pc \in {"confirm", "own_head"},
           IsReal(confirmation) \/ IsReal(retrieval.round), UNCHANGED <<instant, heights, rounds, liar>>
    PROVE  NumeratorInv'
<1> DEFINE old == retrieval
<1>1. CASE confirmation # old.round
  BY <1>1, RefuseKeeps DEF Compared
<1>2. CASE confirmation = old.round
  <2>1. old \in RetrievalRecord /\ IsCounted(old) /\ HasRead(old) /\ IsReal(old.round)
    BY <1>2, WorldAtHand DEF Retrieves
  <2>2. retrieval' = [old EXCEPT !.pc = "stamp"] /\ UNCHANGED <<instant, heights, rounds, liar, observation>>
    BY <1>2 DEF Compared, Knows
  <2>3. /\ retrieval' \in RetrievalRecord /\ retrieval'.pc = "stamp" /\ retrieval'.read = old.read
        /\ retrieval'.since = old.since /\ retrieval'.round = old.round
    BY <2>1, <2>2 DEF RetrievalRecord
  <2>4. Retrieves(retrieval')
    BY <2>1, <2>3 DEF Retrieves, IsCounted, HasRead, HasRound, AgreedUpon
  <2> QED BY <2>2, <2>4, RetrievalGoesOn
<1> QED BY <1>1, <1>2

LEMMA CrossCheckRoundKeeps == ASSUME NumeratorInv, CrossCheckRound PROVE NumeratorInv'
<1> DEFINE old == retrieval
<1>1. old \in RetrievalRecord /\ IsCounted(old) /\ HasRead(old) /\ HasRound(old) /\ old.pc = "confirm"
      /\ old.block \in Moments /\ old.block # 0 /\ UNCHANGED <<instant, heights, rounds, liar>>
  BY WorldAtHand, NumeratorBounds DEF CrossCheckRound, Retrieves, HasRound, RetrievalRecord, Moments
<1>2. CASE liar = "secondary"
  <2>1. IsReal(old.round)
    BY <1>1, <1>2 DEF HasRound
  <2> QED BY <1>1, <1>2, <2>1, ComparedKeeps DEF CrossCheckRound
<1>3. CASE liar # "secondary"
  <2>1. PICK head \in Heads("secondary") :
           IF head >= old.block THEN Compared(RoundAt(old.block))
           ELSE Knows([old EXCEPT !.pc = "own_head"]) /\ UNCHANGED observation
    BY <1>3 DEF CrossCheckRound
  <2>2. CASE head >= old.block
    BY <1>1, <2>1, <2>2, RoundAtIsReal, ComparedKeeps
  <2>3. CASE ~(head >= old.block)
    <3>1. retrieval' = [old EXCEPT !.pc = "own_head"] /\ UNCHANGED observation
      BY <2>1, <2>3 DEF Knows
    <3>2. /\ retrieval' \in RetrievalRecord /\ retrieval'.pc = "own_head" /\ retrieval'.read = old.read
          /\ retrieval'.since = old.since /\ retrieval'.round = old.round /\ retrieval'.block = old.block
      BY <1>1, <3>1 DEF RetrievalRecord
    <3>3. Retrieves(retrieval')
      BY <1>1, <3>2 DEF Retrieves, IsCounted, HasRead, HasRound, AgreedUpon
    <3> QED BY <1>1, <3>1, <3>3, RetrievalGoesOn
  <2> QED BY <2>2, <2>3
<1> QED BY <1>2, <1>3

LEMMA CrossCheckOwnHeadKeeps == ASSUME NumeratorInv, CrossCheckOwnHead PROVE NumeratorInv'
<1>1. PICK head \in Heads("secondary") : Compared(RoundAt(head))
  BY DEF CrossCheckOwnHead
<1>2. head \in Moments
  BY WorldAtHand, NumeratorBounds DEF Heads, Moments
<1> QED BY <1>1, <1>2, RoundAtIsReal, ComparedKeeps DEF CrossCheckOwnHead

\* The answer is given: the height was the tip no more than the window ago.
LEMMA StampKeeps == ASSUME NumeratorInv, Stamp PROVE NumeratorInv'
<1> DEFINE old == retrieval
           answer == [height |-> old.read[1], round |-> old.round, read |-> instant]
<1>1. /\ old \in RetrievalRecord /\ IsCounted(old) /\ HasRead(old) /\ old.pc = "stamp" /\ IsReal(old.round)
      /\ UNCHANGED <<instant, heights, rounds, liar>>
  BY WorldAtHand DEF Stamp, Retrieves, HasRound
<1>2. CASE ~(IsFresh(old.round) /\ instant - old.since <= LegWindow)
  BY <1>1, <1>2, RefuseKeeps DEF Stamp
<1>3. CASE IsFresh(old.round) /\ instant - old.since <= LegWindow
  <2>1. observation' = answer /\ retrieval' = [Nothing EXCEPT !.pc = "answered"]
    BY <1>3 DEF Stamp, Knows
  <2>2. Retrieves(retrieval)'
    <3>1. Retrieves(retrieval')
      BY <2>1, NothingRetrieves, WorldAtHand
    <3> QED BY <1>1, <3>1 DEF Retrieves, IsCounted, HasRead, HasRound, Tip, IsReal, AgreedUpon
  <2>3. Tip(old.read[1], old.since) /\ old.since \in 0..instant
    BY <1>1, WorldAtHand DEF IsCounted, HasRead, AgreedUpon
  <2>4. /\ old.round.id \in DOMAIN rounds /\ old.round.at = rounds[old.round.id] /\ old.round.at <= instant
        /\ instant - old.round.at <= Heartbeat
    BY <1>1, <1>3 DEF IsReal, IsFresh
  <2>5. old.round \in Claims
    <3>1. old.round \in [id : Nat, at : Nat]
      BY <1>1 DEF RetrievalRecord
    <3>2. old.round.id \in 1..(MaxInstant + 1) /\ old.round.at \in Moments
      BY <2>4, WorldAtHand, NumeratorBounds
    <3> QED BY <3>1, <3>2 DEF Claims
  <2>6. /\ answer.height = old.read[1] /\ answer.round = old.round /\ answer.read = instant /\ answer \in Answer
    BY <2>3, <2>5, WorldAtHand DEF Tip, Answer
  <2> HIDE DEF answer
  <2>7. /\ answer.height \in DOMAIN heights /\ heights[answer.height] <= answer.read
        /\ answer.height = Len(heights) \/ heights[answer.height + 1] + LegWindow >= answer.read
    <3> DEFINE h == old.read[1]
    <3>1. h \in DOMAIN heights /\ heights[h] <= instant
      BY <2>3, WorldAtHand DEF Tip
    <3>2. CASE h # Len(heights)
      <4>1. heights[h + 1] > old.since /\ h + 1 \in DOMAIN heights
        BY <2>3, <3>1, <3>2, WorldAtHand DEF Tip
      <4>2. heights[h + 1] \in Nat /\ old.since \in Nat /\ instant - old.since <= LegWindow
        BY <1>3, <2>3, <4>1, WorldAtHand
      <4> HIDE DEF h, old
      <4>3. heights[h + 1] + LegWindow >= instant
        BY <4>1, <4>2, WorldAtHand, NumeratorBounds
      <4> QED BY <2>6, <3>1, <4>3 DEF h
    <3> QED BY <2>6, <3>1, <3>2
  <2>8. ObservationIsReal'
    BY <1>1, <2>1, <2>4, <2>6, <2>7 DEF ObservationIsReal
  <2> QED BY <1>1, <2>1, <2>2, <2>6, <2>8, WorldAtHand DEF NumeratorInv, Chain
<1> QED BY <1>2, <1>3

LEMMA AskAgainKeeps == ASSUME NumeratorInv, AskAgain PROVE NumeratorInv'
<1>1. retrieval' = Nothing /\ observation' = NoObservation /\ UNCHANGED <<instant, heights, rounds, liar>>
  BY DEF AskAgain, Knows
<1>2. Retrieves(retrieval)'
  BY <1>1, NothingRetrieves, WorldAtHand DEF Retrieves, IsCounted, HasRead, HasRound, Tip, IsReal, AgreedUpon
<1> QED BY <1>1, <1>2 DEF NumeratorInv, Chain, ObservationIsReal

LEMMA NumeratorInvariance == NumeratorSpec => []NumeratorInv
<1>1. NumeratorInit => NumeratorInv
  BY NumeratorStart
<1>2. NumeratorInv /\ [NumeratorNext]_numeratorVars => NumeratorInv'
  <2> SUFFICES ASSUME NumeratorInv, [NumeratorNext]_numeratorVars PROVE NumeratorInv'
    OBVIOUS
  <2>1. CASE ReadFails
    BY <2>1, RefuseKeeps DEF ReadFails
  <2>2. CASE UNCHANGED numeratorVars
    <3>1. Retrieves(retrieval)'
      BY <2>2 DEF numeratorVars, NumeratorInv, Retrieves, IsCounted, HasRead, HasRound, Tip, IsReal
    <3> QED BY <2>2, <3>1 DEF numeratorVars, NumeratorInv, Chain, ObservationIsReal
  <2> QED BY <2>1, <2>2, InstantPassesKeeps, AskAgainKeeps, ReadHeightKeeps, AgreeOnHeightKeeps, PinBlockKeeps,
             ReadRoundKeeps, CrossCheckRoundKeeps, CrossCheckOwnHeadKeeps, StampKeeps DEF NumeratorNext
<1> QED BY <1>1, <1>2, PTL DEF NumeratorSpec

\* The retrieval keeps its shape, whatever one source of the four answers.
THEOREM NumeratorTypeCorrect == NumeratorSpec => []NumeratorTypeOK
<1>1. NumeratorInv => NumeratorTypeOK
  <2> SUFFICES ASSUME NumeratorInv PROVE NumeratorTypeOK
    OBVIOUS
  <2>1. IsCounted(retrieval) /\ retrieval \in RetrievalRecord
    BY WorldAtHand DEF Retrieves
  <2>2. Len(retrieval.read) <= 2 /\ retrieval.since \in 0..instant
    BY <2>1, WorldAtHand DEF IsCounted
  <2>3. /\ retrieval.pc \in {"height", "block", "round", "confirm", "own_head", "stamp", "refused", "answered"}
        /\ retrieval.read \in Seq(1..MaxInstant + 1) /\ retrieval.block \in 0..MaxInstant
    BY <2>1 DEF RetrievalRecord
  <2> QED BY <2>2, <2>3, WorldAtHand DEF NumeratorInv, NumeratorTypeOK, Liars, Answer
<1> QED BY <1>1, NumeratorInvariance, PTL

\* The height of an observation was the tip no more than the window before its price was
\* read, and the price is of a round the feed really had, within its heartbeat
\* (retrieveUbwiNumerator), though any one source of the four answers what it likes.
THEOREM ObservationsAreReal == NumeratorSpec => []ObservationIsReal
  BY NumeratorInvariance, PTL DEF NumeratorInv

-----------------------------------------------------------------------------
(* The interconnection queues. *)

\* A run at work is the holder of the lock, and has artifacts to read only while it walks.
QueueHolds(r) ==
    /\ queueRun[r].pc # "idle" => queueLock = r
    /\ queueRun[r].pc # "walk" => queueRun[r].todo = {}
    /\ queueRun[r].todo \subseteq DOMAIN archive[At(r)]

QueueInv == /\ QueueTypeOK /\ \A r \in QueueRuns : QueueHolds(r)
            /\ \A s \in Source : Len(archive[s]) <= MaxArtifacts

\* The history of the request goes forward, as far as the last artifact filed.
LastFiled(s) == filed[s][Len(filed[s])]
HistoryGoesForward(s) ==
    /\ observations[s] = <<>> <=> filed[s] = <<>>
    /\ filed[s] # <<>> => LatestObservation(s).last = LastFiled(s)
    /\ \A k \in DOMAIN observations[s] :
         /\ observations[s][k].first \in DOMAIN archive[s] /\ observations[s][k].last \in DOMAIN archive[s]
         /\ observations[s][k].last <= LastFiled(s)
    /\ \A j, k \in DOMAIN observations[s] : j < k => observations[s][j].last <= observations[s][k].first

\* What a run has still to read, or the next would select, is filed if it is before the last
\* artifact filed, or before one that the run goes on to.
ToRead(r, s) == At(r) = s /\ queueRun[r].todo # {}
NoneSkipped(s) ==
    /\ filed[s] # <<>> => \A a \in Selected(s) : a < LastFiled(s) => Filed(s, a)
    /\ \A r \in QueueRuns : ToRead(r, s) =>
         /\ filed[s] # <<>> => \A a \in queueRun[r].todo : a < LastFiled(s) => Filed(s, a)
         /\ \A b \in queueRun[r].todo : \A a \in Selected(s) \ queueRun[r].todo : a < b => Filed(s, a)

ReadForward == deferrals = 0 => \A s \in Source : NoLateCorrection(s) => HistoryGoesForward(s) /\ NoneSkipped(s)

QueueRecord == [pc : {"idle", "discover", "walk", "gate"}, source : Source, todo : SUBSET Numbers, reached : Contact]

LEMMA QueueShapes ==
    ASSUME QueueInv
    PROVE  /\ archive \in [Source -> Seq(Artifact)] /\ filed \in [Source -> Seq(Numbers)]
           /\ \A s \in Source : \A k \in DOMAIN filed[s] : filed[s][k] \in DOMAIN archive[s]
           /\ observations \in [Source -> Seq(Observation)]
           /\ checks \in [Source -> BOOLEAN] /\ recent \in [Source -> BOOLEAN] /\ metrics \in [Source -> Nat]
           /\ queueLock \in QueueRuns \cup {NoQueueRun} /\ queueRun \in [QueueRuns -> QueueRecord]
           /\ deferrals \in 0..MaxDeferrals
           /\ \A r \in QueueRuns : QueueHolds(r)
           /\ \A s \in Source : Len(archive[s]) <= MaxArtifacts
BY DEF QueueInv, QueueTypeOK, QueueRecord

LEMMA QueueShaped ==
    ASSUME archive \in [Source -> Seq(Artifact)], filed \in [Source -> Seq(Numbers)],
           \A s \in Source : \A k \in DOMAIN filed[s] : filed[s][k] \in DOMAIN archive[s],
           observations \in [Source -> Seq(Observation)],
           checks \in [Source -> BOOLEAN], recent \in [Source -> BOOLEAN], metrics \in [Source -> Nat],
           queueLock \in QueueRuns \cup {NoQueueRun}, queueRun \in [QueueRuns -> QueueRecord],
           deferrals \in 0..MaxDeferrals,
           \A r \in QueueRuns : QueueHolds(r), \A s \in Source : Len(archive[s]) <= MaxArtifacts
    PROVE  QueueInv
BY DEF QueueInv, QueueTypeOK, QueueRecord

\* Sources are numbered from one.
LEMMA SourcesNumbered ==
    /\ Source = 1..Len(Sources) /\ Len(Sources) \in Nat /\ 1 \in Source
    /\ \A s \in Source : s \in Nat /\ (s < Len(Sources) => s + 1 \in Source)
<1>1. Source = 1..Len(Sources) /\ Len(Sources) \in Nat
  BY QueueAssumption, LenProperties DEF Source
<1>2. Len(Sources) # 0
  BY QueueAssumption, EmptySeq
<1> QED BY <1>1, <1>2

LEMMA QueueIdleShape == QueueIdle \in QueueRecord /\ QueueIdle.pc = "idle" /\ QueueIdle.todo = {} /\ QueueIdle.source = 1
BY SourcesNumbered DEF QueueIdle, QueueRecord, Contact

\* A set of naturals that is not empty has a least.
LEMMA HasLeast ==
    ASSUME NEW K, K \subseteq Nat, K # {} PROVE \E j \in K : \A i \in K : j <= i
<1>1. PICK x \in K : \A y \in K : ~(<<y, x>> \in OpToRel(<, Nat))
  BY NatLessThanWellFounded, WFMin
<1>2. \A y \in K : ~(y < x)
  BY <1>1 DEF OpToRel
<1> QED BY <1>2

\* An artifact has a period.
LEMMA ArtifactsNumbered ==
    ASSUME QueueInv, NEW s \in Source, NEW a \in DOMAIN archive[s]
    PROVE  a \in Nat /\ archive[s][a].period \in Nat /\ archive[s][a].says \in Statements /\ a \in 1..Len(archive[s])
<1>1. archive[s] \in Seq(Artifact)
  BY QueueShapes
<1>2. DOMAIN archive[s] = 1..Len(archive[s]) /\ Len(archive[s]) \in Nat /\ archive[s][a] \in Artifact
  BY <1>1, LenProperties, ElementOfSeq
<1> QED BY <1>2 DEF Artifact, Numbers

\* Of the artifacts a run has left one comes before the others.
LEMMA EarliestIsLeft ==
    ASSUME QueueInv, NEW r \in QueueRuns, queueRun[r].todo # {}
    PROVE  /\ At(r) \in Source /\ Earliest(r) \in queueRun[r].todo /\ Earliest(r) \in DOMAIN archive[At(r)]
           /\ \A b \in queueRun[r].todo : Earliest(r) = b \/ Before(At(r), Earliest(r), b)
<1> DEFINE s == At(r)  todo == queueRun[r].todo
<1>1. s \in Source /\ todo \subseteq DOMAIN archive[s] /\ todo # {}
  BY QueueShapes DEF QueueHolds, QueueRecord, At
<1> HIDE DEF s, todo
<1>2. \A a \in todo : a \in Nat /\ archive[s][a].period \in Nat
  BY <1>1, ArtifactsNumbered
<1> DEFINE P == {archive[s][a].period : a \in todo}
<1>3. PICK p \in P : \A q \in P : p <= q
  <2>1. P \subseteq Nat /\ P # {}
    BY <1>1, <1>2
  <2> QED BY <2>1, HasLeast
<1> DEFINE T == {a \in todo : archive[s][a].period = p}
<1>4. PICK a \in T : \A b \in T : a <= b
  <2>1. T \subseteq Nat /\ T # {}
    BY <1>2, <1>3
  <2> QED BY <2>1, HasLeast
<1>5. a \in todo /\ \A b \in todo : a = b \/ Before(s, a, b)
  <2>1. a \in todo /\ archive[s][a].period = p /\ a \in Nat /\ p \in Nat
    BY <1>2, <1>4
  <2>2. ASSUME NEW b \in todo, a # b PROVE Before(s, a, b)
    <3>1. b \in Nat /\ archive[s][b].period \in Nat /\ p <= archive[s][b].period
      BY <1>2, <1>3
    <3>2. archive[s][b].period = p => a <= b
      BY <1>4
    <3> QED BY <2>1, <2>2, <3>1, <3>2 DEF Before
  <2> QED BY <2>1, <2>2
<1>6. \E e \in todo : \A b \in todo : e = b \/ Before(s, e, b)
  BY <1>5
<1>7. Earliest(r) = CHOOSE e \in todo : \A b \in todo : e = b \/ Before(s, e, b)
  BY DEF Earliest, s, todo
<1>8. Earliest(r) \in todo /\ \A b \in todo : Earliest(r) = b \/ Before(s, Earliest(r), b)
  BY <1>6, <1>7
<1> QED BY <1>1, <1>8 DEF s, todo

LEMMA QueueInitially == QueueInit => QueueInv
<1> SUFFICES ASSUME QueueInit PROVE QueueInv
  OBVIOUS
<1>1. \A r \in QueueRuns : QueueHolds(r)
  BY QueueIdleShape DEF QueueInit, QueueHolds
<1>2. deferrals \in 0..MaxDeferrals
  BY QueueAssumption DEF QueueInit
<1>3. queueRun \in [QueueRuns -> QueueRecord]
  BY QueueIdleShape DEF QueueInit
<1>4. \A s \in Source : archive[s] = <<>> /\ filed[s] = <<>> /\ observations[s] = <<>>
  BY DEF QueueInit
<1>5. /\ archive \in [Source -> Seq(Artifact)] /\ filed \in [Source -> Seq(Numbers)]
      /\ observations \in [Source -> Seq(Observation)]
      /\ checks \in [Source -> BOOLEAN] /\ recent \in [Source -> BOOLEAN] /\ metrics \in [Source -> Nat]
  BY DEF QueueInit
<1>6. queueLock \in QueueRuns \cup {NoQueueRun}
  BY DEF QueueInit
<1>7. \A s \in Source : \A k \in DOMAIN filed[s] : filed[s][k] \in DOMAIN archive[s]
  BY <1>4
<1>8. \A s \in Source : Len(archive[s]) <= MaxArtifacts
  BY <1>4, QueueAssumption
<1> QED BY <1>1, <1>2, <1>3, <1>5, <1>6, <1>7, <1>8, QueueShaped

\* While one run works, or one takes the lock, the others wait.
LEMMA OthersWait ==
    ASSUME QueueInv, NEW r \in QueueRuns, queueRun[r].pc # "idle" \/ queueLock = NoQueueRun
    PROVE  \A q \in QueueRuns \ {r} : queueRun[q].pc = "idle" /\ queueRun[q].todo = {}
BY QueueShapes, QueueAssumption DEF QueueHolds

\* A run that steps while the others wait.
LEMMA QueueRunSteps ==
    ASSUME QueueInv, NEW r \in QueueRuns, queueRun[r].pc # "idle" \/ queueLock = NoQueueRun,
           NEW k \in QueueRecord, queueRun' = [queueRun EXCEPT ![r] = k], archive' = archive,
           k.pc # "idle" => queueLock' = r, k.pc # "walk" => k.todo = {},
           k.todo \subseteq DOMAIN archive[k.source]
    PROVE  /\ queueRun' \in [QueueRuns -> QueueRecord] /\ \A q \in QueueRuns : QueueHolds(q)'
           /\ queueRun'[r] = k /\ \A q \in QueueRuns \ {r} : queueRun'[q] = queueRun[q]
<1>1. queueRun' \in [QueueRuns -> QueueRecord] /\ queueRun'[r] = k /\ \A q \in QueueRuns \ {r} : queueRun'[q] = queueRun[q]
  BY QueueShapes
<1>2. QueueHolds(r)'
  BY <1>1 DEF QueueHolds, At
<1>3. ASSUME NEW q \in QueueRuns \ {r} PROVE QueueHolds(q)'
  BY <1>1, OthersWait DEF QueueHolds, At
<1> QED BY <1>1, <1>2, <1>3

\* A step that files nothing, of runs that go on to no artifact.
LEMMA ForwardStays ==
    ASSUME ReadForward, UNCHANGED <<archive, filed, observations>>, deferrals' = 0 => deferrals = 0,
           \A q \in QueueRuns : queueRun'[q].todo # {} => queueRun'[q] = queueRun[q]
    PROVE  ReadForward'
<1> SUFFICES ASSUME deferrals' = 0, NEW s \in Source, NoLateCorrection(s)'
             PROVE  HistoryGoesForward(s)' /\ NoneSkipped(s)'
  BY DEF ReadForward, Source
<1>1. HistoryGoesForward(s) /\ NoneSkipped(s)
  BY DEF ReadForward, NoLateCorrection
<1>2. HistoryGoesForward(s)'
  BY <1>1 DEF HistoryGoesForward, LatestObservation, LastFiled
<1>3. Selected(s)' = Selected(s) /\ \A a : Filed(s, a)' <=> Filed(s, a)
  BY DEF Selected, Before, Filed, SameSnapshot
<1>4. \A q \in QueueRuns : ToRead(q, s)' => ToRead(q, s) /\ queueRun'[q].todo = queueRun[q].todo
  BY DEF ToRead, At
<1>5. LastFiled(s)' = LastFiled(s)
  BY DEF LastFiled
<1> QED BY <1>1, <1>2, <1>3, <1>4, <1>5 DEF NoneSkipped

LEMMA QueueLockKeeps ==
    ASSUME QueueInv, ReadForward, NEW r \in QueueRuns, QueueTakesLock(r) PROVE QueueInv' /\ ReadForward'
<1> DEFINE k == [queueRun[r] EXCEPT !.pc = "discover"]
<1>1. k \in QueueRecord /\ k.pc = "discover" /\ k.todo = {} /\ queueRun' = [queueRun EXCEPT ![r] = k]
  BY QueueShapes DEF QueueTakesLock, QueueRecord, QueueHolds
<1> HIDE DEF k
<1>2. queueLock = NoQueueRun /\ queueLock' = r /\ UNCHANGED <<archive, filed, observations, checks, recent, metrics, deferrals>>
  BY DEF QueueTakesLock
<1>3. /\ queueRun' \in [QueueRuns -> QueueRecord] /\ \A q \in QueueRuns : QueueHolds(q)'
      /\ queueRun'[r] = k /\ \A q \in QueueRuns \ {r} : queueRun'[q] = queueRun[q]
  BY <1>1, <1>2, QueueRunSteps
<1>4. QueueInv'
  BY <1>2, <1>3, QueueShapes DEF QueueInv, QueueTypeOK, QueueRecord
<1>5. ReadForward'
  BY <1>1, <1>2, <1>3, ForwardStays
<1> QED BY <1>4, <1>5

LEMMA SourceCheckedKeeps ==
    ASSUME QueueInv, ReadForward, NEW r \in QueueRuns, RecordSourceCheck(r) PROVE QueueInv' /\ ReadForward'
<1> DEFINE k == IF At(r) < Len(Sources) THEN [QueueIdle EXCEPT !.pc = "discover", !.source = At(r) + 1]
                ELSE [QueueIdle EXCEPT !.pc = "gate", !.source = At(r)]
<1>1. /\ queueRun[r].pc = "walk" /\ queueRun' = [queueRun EXCEPT ![r] = k]
      /\ checks' = [checks EXCEPT ![At(r)] = queueRun[r].reached # "none"]
      /\ recent' = [recent EXCEPT ![At(r)] = @ \/ (At(r) \in Continuous /\ queueRun[r].reached = "matched")]
      /\ UNCHANGED <<archive, filed, observations, metrics, queueLock, deferrals>>
  BY DEF RecordSourceCheck, ToNext
<1>2. At(r) \in Source
  BY QueueShapes DEF At, QueueRecord
<1>3. k \in QueueRecord /\ k.pc # "idle" /\ k.pc # "walk" /\ k.todo = {}
  BY <1>2, SourcesNumbered DEF QueueIdle, QueueRecord, Contact
<1> HIDE DEF k
<1>4. queueLock' = r
  BY <1>1, QueueShapes DEF QueueHolds
<1>5. /\ queueRun' \in [QueueRuns -> QueueRecord] /\ \A q \in QueueRuns : QueueHolds(q)'
      /\ queueRun'[r] = k /\ \A q \in QueueRuns \ {r} : queueRun'[q] = queueRun[q]
  BY <1>1, <1>3, <1>4, QueueRunSteps
<1>6. checks' \in [Source -> BOOLEAN] /\ recent' \in [Source -> BOOLEAN]
  <2>1. (queueRun[r].reached # "none") \in BOOLEAN
        /\ (recent[At(r)] \/ (At(r) \in Continuous /\ queueRun[r].reached = "matched")) \in BOOLEAN
    OBVIOUS
  <2> QED BY <1>1, <1>2, <2>1, QueueShapes
<1>7. QueueInv'
  BY <1>1, <1>5, <1>6, QueueShapes DEF QueueInv, QueueTypeOK, QueueRecord
<1>8. ReadForward'
  BY <1>1, <1>3, <1>5, ForwardStays
<1> QED BY <1>7, <1>8

\* A run that ends, its work done or dead.
LEMMA QueueRunEnds ==
    ASSUME QueueInv, NEW r \in QueueRuns, queueRun[r].pc # "idle", queueRun' = [queueRun EXCEPT ![r] = QueueIdle],
           queueLock' = NoQueueRun, UNCHANGED <<archive, filed, observations, checks, recent>>,
           metrics' \in [Source -> Nat], deferrals' \in 0..MaxDeferrals
    PROVE  QueueInv' /\ \A q \in QueueRuns : queueRun'[q].todo # {} => queueRun'[q] = queueRun[q]
<1>1. /\ queueRun' \in [QueueRuns -> QueueRecord] /\ \A q \in QueueRuns : QueueHolds(q)'
      /\ queueRun'[r] = QueueIdle /\ \A q \in QueueRuns \ {r} : queueRun'[q] = queueRun[q]
  BY QueueIdleShape, QueueRunSteps
<1>2. QueueInv'
  BY <1>1, QueueShapes DEF QueueInv, QueueTypeOK, QueueRecord
<1> QED BY <1>1, <1>2, QueueIdleShape

LEMMA CalculateKeeps ==
    ASSUME QueueInv, ReadForward, NEW r \in QueueRuns, Calculate(r) PROVE QueueInv' /\ ReadForward'
<1>1. /\ queueRun[r].pc # "idle" /\ queueRun' = [queueRun EXCEPT ![r] = QueueIdle] /\ queueLock' = NoQueueRun
      /\ UNCHANGED <<archive, filed, observations, checks, recent, deferrals>>
  BY DEF Calculate
<1>2. metrics' \in [Source -> Nat]
  <2>1. \A s \in Source : Len(filed[s]) \in Nat
    BY QueueShapes, LenProperties
  <2> QED BY <2>1, QueueShapes DEF Calculate
<1>3. QueueInv' /\ \A q \in QueueRuns : queueRun'[q].todo # {} => queueRun'[q] = queueRun[q]
  BY <1>1, <1>2, QueueShapes, QueueRunEnds
<1> QED BY <1>1, <1>3, ForwardStays

\* Of what is put off or lost the property says nothing.
LEMMA PutOff == ASSUME deferrals \in Nat, deferrals' = deferrals + 1 PROVE ReadForward'
BY DEF ReadForward

LEMMA QueueDiesKeeps ==
    ASSUME QueueInv, NEW r \in QueueRuns, QueueRunDies(r) PROVE QueueInv' /\ ReadForward'
<1>1. /\ queueRun[r].pc # "idle" /\ queueRun' = [queueRun EXCEPT ![r] = QueueIdle] /\ queueLock' = NoQueueRun
      /\ deferrals < MaxDeferrals /\ deferrals' = deferrals + 1
      /\ UNCHANGED <<archive, filed, observations, checks, recent, metrics>>
  BY DEF QueueRunDies
<1>2. deferrals \in Nat /\ deferrals' \in 0..MaxDeferrals
  BY <1>1, QueueShapes, QueueAssumption
<1> QED BY <1>1, <1>2, QueueShapes, QueueRunEnds, PutOff

LEMMA DeferKeeps ==
    ASSUME QueueInv, NEW r \in QueueRuns, Defer(r) PROVE QueueInv' /\ ReadForward'
<1>1. /\ deferrals < MaxDeferrals /\ deferrals' = deferrals + 1
      /\ UNCHANGED <<archive, filed, observations, checks, recent, metrics, queueLock>>
  BY DEF Defer
<1>2. deferrals \in Nat /\ deferrals' \in 0..MaxDeferrals
  BY <1>1, QueueShapes, QueueAssumption
<1>3. PICK k \in QueueRecord : /\ k.pc = "walk" /\ k.source = At(r) /\ k.todo \subseteq queueRun[r].todo
                               /\ queueRun' = [queueRun EXCEPT ![r] = k]
  <2>1. queueRun[r] \in QueueRecord /\ queueRun \in [QueueRuns -> QueueRecord]
    BY QueueShapes
  <2>2. CASE /\ queueRun[r].pc = "walk" /\ queueRun[r].todo # {}
             /\ \E back \in BOOLEAN :
                  queueRun' = [queueRun EXCEPT ![r].todo = @ \ {Earliest(r)}, ![r].reached = IF @ = "none" /\ back THEN "answered" ELSE @]
    <3>1. PICK back \in BOOLEAN :
                  queueRun' = [queueRun EXCEPT ![r].todo = @ \ {Earliest(r)}, ![r].reached = IF @ = "none" /\ back THEN "answered" ELSE @]
      BY <2>2
    <3> DEFINE k == [queueRun[r] EXCEPT !.todo = @ \ {Earliest(r)}, !.reached = IF @ = "none" /\ back THEN "answered" ELSE @]
    <3>2. k \in QueueRecord /\ k.pc = "walk" /\ k.source = At(r) /\ k.todo \subseteq queueRun[r].todo
      BY <2>1, <2>2 DEF QueueRecord, Contact, At
    <3>3. queueRun' = [queueRun EXCEPT ![r] = k]
      BY <2>1, <3>1 DEF QueueRecord
    <3> QED BY <3>2, <3>3
  <2>3. CASE /\ queueRun[r].pc = "walk"
             /\ queueRun' = [queueRun EXCEPT ![r].todo = {}, ![r].reached = "answered"]
    <3> DEFINE k == [queueRun[r] EXCEPT !.todo = {}, !.reached = "answered"]
    <3>1. k \in QueueRecord /\ k.pc = "walk" /\ k.source = At(r) /\ k.todo \subseteq queueRun[r].todo
      BY <2>1, <2>3 DEF QueueRecord, Contact, At
    <3>2. queueRun' = [queueRun EXCEPT ![r] = k]
      BY <2>1, <2>3 DEF QueueRecord
    <3> QED BY <3>1, <3>2
  <2>4. CASE /\ queueRun[r].pc = "discover"
             /\ queueRun' = [queueRun EXCEPT ![r].pc = "walk", ![r].reached = "none"]
    <3> DEFINE k == [queueRun[r] EXCEPT !.pc = "walk", !.reached = "none"]
    <3>1. k \in QueueRecord /\ k.pc = "walk" /\ k.source = At(r) /\ k.todo \subseteq queueRun[r].todo
      BY <2>1, <2>4 DEF QueueRecord, Contact, At
    <3>2. queueRun' = [queueRun EXCEPT ![r] = k]
      BY <2>1, <2>4 DEF QueueRecord
    <3> QED BY <3>1, <3>2
  <2> QED BY <2>2, <2>3, <2>4 DEF Defer
<1>4. queueRun[r].pc # "idle" /\ queueLock = r
  BY QueueShapes DEF Defer, QueueHolds
<1>5. k.todo \subseteq DOMAIN archive[k.source]
  BY <1>3, QueueShapes DEF QueueHolds, At
<1>6. queueRun' \in [QueueRuns -> QueueRecord] /\ \A q \in QueueRuns : QueueHolds(q)'
  BY <1>1, <1>3, <1>4, <1>5, QueueRunSteps
<1>7. QueueInv'
  BY <1>1, <1>2, <1>6, QueueShapes DEF QueueInv, QueueTypeOK, QueueRecord
<1> QED BY <1>1, <1>2, <1>7, PutOff

LEMMA SelectedAreNumbers == ASSUME QueueInv, NEW s \in Source PROVE Selected(s) \subseteq DOMAIN archive[s] /\ DOMAIN archive[s] \subseteq Numbers
<1>1. archive[s] \in Seq(Artifact) /\ Len(archive[s]) <= MaxArtifacts /\ MaxArtifacts \in Nat
  BY QueueShapes, QueueAssumption
<1>2. DOMAIN archive[s] = 1..Len(archive[s]) /\ Len(archive[s]) \in Nat
  BY <1>1, LenProperties
<1> QED BY <1>1, <1>2 DEF Selected, Numbers

LEMMA DiscoverKeeps ==
    ASSUME QueueInv, ReadForward, NEW r \in QueueRuns, Discover(r) PROVE QueueInv' /\ ReadForward'
<1> DEFINE k == [queueRun[r] EXCEPT !.pc = "walk", !.todo = Selected(At(r)), !.reached = IF Selected(At(r)) = {} THEN "answered" ELSE "none"]
<1>1. /\ queueRun[r].pc = "discover" /\ UNCHANGED <<archive, filed, observations, checks, recent, metrics, queueLock, deferrals>>
      /\ queueRun \in [QueueRuns -> QueueRecord] /\ At(r) \in Source
  BY QueueShapes DEF Discover, QueueRecord, At
<1>2. k \in QueueRecord /\ k.pc = "walk" /\ k.todo = Selected(At(r)) /\ k.source = At(r)
  <2>1. Selected(At(r)) \in SUBSET Numbers
    BY <1>1, SelectedAreNumbers
  <2> QED BY <1>1, <2>1 DEF QueueRecord, Contact, At
<1>3. queueRun' = [queueRun EXCEPT ![r] = k]
  BY <1>1 DEF Discover, QueueRecord
<1> HIDE DEF k
<1>4. queueLock' = r /\ k.todo \subseteq DOMAIN archive[k.source]
  BY <1>1, <1>2, QueueShapes, SelectedAreNumbers DEF QueueHolds
<1>5. /\ queueRun' \in [QueueRuns -> QueueRecord] /\ \A q \in QueueRuns : QueueHolds(q)'
      /\ queueRun'[r] = k /\ \A q \in QueueRuns \ {r} : queueRun'[q] = queueRun[q]
  BY <1>1, <1>2, <1>3, <1>4, QueueRunSteps
<1>6. QueueInv'
  BY <1>1, <1>5, QueueShapes DEF QueueInv, QueueTypeOK, QueueRecord
<1>7. ReadForward'
  <2> SUFFICES ASSUME deferrals' = 0, NEW s \in Source, NoLateCorrection(s)'
               PROVE  HistoryGoesForward(s)' /\ NoneSkipped(s)'
    BY DEF ReadForward, Source
  <2>1. HistoryGoesForward(s) /\ NoneSkipped(s)
    BY <1>1 DEF ReadForward, NoLateCorrection
  <2>2. HistoryGoesForward(s)'
    BY <1>1, <2>1 DEF HistoryGoesForward, LatestObservation, LastFiled
  <2>3. Selected(s)' = Selected(s) /\ LastFiled(s)' = LastFiled(s) /\ \A a : Filed(s, a)' <=> Filed(s, a)
    BY <1>1 DEF Selected, Before, Filed, SameSnapshot, LastFiled
  <2>4. filed[s] # <<>> => \A a \in Selected(s) : a < LastFiled(s) => Filed(s, a)
    BY <2>1 DEF NoneSkipped
  <2>5. ASSUME NEW q \in QueueRuns, ToRead(q, s)'
        PROVE  /\ filed[s] # <<>> => \A a \in queueRun'[q].todo : a < LastFiled(s) => Filed(s, a)
               /\ \A b \in queueRun'[q].todo : \A a \in Selected(s) \ queueRun'[q].todo : a < b => Filed(s, a)
    <3>1. CASE q = r
      <4>1. queueRun'[q].todo = Selected(s)
        BY <1>2, <1>5, <2>5, <3>1 DEF ToRead, At
      <4> QED BY <2>4, <4>1
    <3>2. CASE q # r
      BY <1>5, <2>1, <2>5, <3>2 DEF ToRead, At, NoneSkipped
    <3> QED BY <3>1, <3>2
  <2> QED BY <1>1, <2>2, <2>3, <2>4, <2>5 DEF NoneSkipped
<1> QED BY <1>6, <1>7

\* An artifact that has not appeared yet is selected by no run, and puts others out of reach.
LEMMA AppearsKeeps ==
    ASSUME QueueInv, ReadForward, NEW s \in Source, ArtifactAppears(s) PROVE QueueInv' /\ ReadForward'
<1>1. PICK x \in Artifact : archive' = [archive EXCEPT ![s] = Append(@, x)]
  BY DEF ArtifactAppears, Artifact
<1>2. UNCHANGED <<filed, observations, checks, recent, metrics, queueLock, queueRun, deferrals>> /\ Len(archive[s]) < MaxArtifacts
  BY DEF ArtifactAppears
<1> DEFINE n == Len(archive[s])
<1>3. /\ archive[s] \in Seq(Artifact) /\ archive' \in [Source -> Seq(Artifact)] /\ n \in Nat /\ DOMAIN archive[s] = 1..n
      /\ archive'[s] = Append(archive[s], x) /\ \A t \in Source \ {s} : archive'[t] = archive[t]
      /\ Len(archive'[s]) = n + 1 /\ DOMAIN archive'[s] = 1..(n + 1) /\ \A a \in 1..n : archive'[s][a] = archive[s][a]
  <2>1. archive[s] \in Seq(Artifact) /\ archive \in [Source -> Seq(Artifact)]
    BY QueueShapes
  <2>2. /\ Append(archive[s], x) \in Seq(Artifact) /\ Len(Append(archive[s], x)) = n + 1
        /\ \A a \in 1..n : Append(archive[s], x)[a] = archive[s][a]
    BY <2>1, AppendProperties
  <2>3. n \in Nat /\ DOMAIN archive[s] = 1..n /\ DOMAIN Append(archive[s], x) = 1..(n + 1)
    BY <2>1, <2>2, LenProperties
  <2>4. archive' \in [Source -> Seq(Artifact)] /\ archive'[s] = Append(archive[s], x) /\ \A t \in Source \ {s} : archive'[t] = archive[t]
    BY <1>1, <2>1, <2>2
  <2> QED BY <2>1, <2>2, <2>3, <2>4
<1> HIDE DEF n
<1>4. \A t \in Source : DOMAIN archive[t] \subseteq DOMAIN archive'[t] /\ \A a \in DOMAIN archive[t] : archive'[t][a] = archive[t][a]
  BY <1>3
<1>5. QueueInv'
  <2>1. \A q \in QueueRuns : QueueHolds(q)'
    <3>1. \A q \in QueueRuns : At(q) \in Source
      BY QueueShapes DEF At, QueueRecord
    <3> QED BY <1>2, <1>4, <3>1, QueueShapes DEF QueueHolds, At
  <2>2. \A t \in Source : \A k \in DOMAIN filed'[t] : filed'[t][k] \in DOMAIN archive'[t]
    BY <1>2, <1>4, QueueShapes
  <2>3. \A t \in Source : Len(archive'[t]) <= MaxArtifacts
    <3>1. n < MaxArtifacts /\ MaxArtifacts \in Nat /\ n \in Nat
      BY <1>2, <1>3, QueueAssumption DEF n
    <3>2. Len(archive'[s]) <= MaxArtifacts
      BY <1>3, <3>1
    <3> QED BY <1>3, <3>2, QueueShapes
  <2> QED BY <1>2, <1>3, <2>1, <2>2, <2>3, QueueShapes DEF QueueInv, QueueTypeOK, QueueRecord
<1>6. ReadForward'
  <2> SUFFICES ASSUME deferrals' = 0, NEW t \in Source, NoLateCorrection(t)'
               PROVE  HistoryGoesForward(t)' /\ NoneSkipped(t)'
    BY DEF ReadForward, Source
  <2>1. NoLateCorrection(t)
    BY <1>4 DEF NoLateCorrection
  <2>2. HistoryGoesForward(t) /\ NoneSkipped(t)
    BY <1>2, <2>1 DEF ReadForward
  <2>3. HistoryGoesForward(t)'
    BY <1>2, <1>4, <2>2 DEF HistoryGoesForward, LatestObservation, LastFiled
  <2>4. \A a \in DOMAIN archive[t] : Filed(t, a) => Filed(t, a)'
    BY <1>2, <1>4, QueueShapes DEF Filed, SameSnapshot
  <2>5. ASSUME NEW a \in DOMAIN archive[t], a \in Selected(t)' PROVE a \in Selected(t)
    <3> DEFINE A == {b \in DOMAIN archive[t] : Before(t, a, b)}
               B == {b \in DOMAIN archive'[t] : Before(t, a, b)'}
    <3>1. A \subseteq B
      BY <1>4 DEF Before
    <3>2. IsFiniteSet(B)
      <4>1. archive'[t] \in Seq(Artifact)
        BY <1>3
      <4>2. DOMAIN archive'[t] = 1..Len(archive'[t]) /\ Len(archive'[t]) \in Nat
        BY <4>1, LenProperties
      <4>3. IsFiniteSet(DOMAIN archive'[t])
        BY <4>2, FS_Interval
      <4> QED BY <4>3, FS_Subset
    <3>3. Cardinality(A) <= Cardinality(B) /\ Cardinality(B) \in Nat /\ Cardinality(A) \in Nat
      BY <3>1, <3>2, FS_Subset, FS_CardinalityType
    <3>4. Cardinality(B) < Limit[t]
      BY <2>5 DEF Selected
    <3>5. Limit[t] \in Nat
      BY QueueAssumption
    <3>6. Cardinality(A) < Limit[t]
      BY <3>3, <3>4, <3>5
    <3> QED BY <3>6 DEF Selected
  <2>6. filed[t] # <<>> => LastFiled(t) \in DOMAIN archive[t]
    <3>1. filed[t] \in Seq(Numbers)
      BY QueueShapes
    <3>2. filed[t] # <<>> => Len(filed[t]) \in DOMAIN filed[t]
      BY <3>1, LenProperties, EmptySeq
    <3> QED BY <3>2, QueueShapes DEF LastFiled
  <2>7. \A q \in QueueRuns : ToRead(q, t) => queueRun[q].todo \subseteq DOMAIN archive[t]
    BY QueueShapes DEF QueueHolds, ToRead, At
  <2>8. \A b \in DOMAIN archive[t] : \A a \in DOMAIN archive'[t] : a < b => a \in DOMAIN archive[t]
    <3>1. DOMAIN archive[s] = 1..n /\ DOMAIN archive'[s] = 1..(n + 1) /\ n \in Nat
      BY <1>3
    <3> QED BY <1>3, <3>1
  <2>9. Selected(t)' \subseteq DOMAIN archive'[t]
    BY DEF Selected
  <2>10. LastFiled(t)' = LastFiled(t) /\ (\A q \in QueueRuns : ToRead(q, t)' <=> ToRead(q, t))
    BY <1>2 DEF LastFiled, ToRead, At
  <2>11. filed[t] # <<>> => \A a \in Selected(t)' : a < LastFiled(t) => Filed(t, a)'
    BY <2>2, <2>4, <2>5, <2>6, <2>8, <2>9 DEF NoneSkipped
  <2>12. ASSUME NEW q \in QueueRuns, ToRead(q, t)
         PROVE  /\ filed[t] # <<>> => \A a \in queueRun[q].todo : a < LastFiled(t) => Filed(t, a)'
                /\ \A b \in queueRun[q].todo : \A a \in Selected(t)' \ queueRun[q].todo : a < b => Filed(t, a)'
    <3>1. filed[t] # <<>> => \A a \in queueRun[q].todo : a < LastFiled(t) => Filed(t, a)'
      BY <2>2, <2>4, <2>7, <2>12 DEF NoneSkipped
    <3>2. ASSUME NEW b \in queueRun[q].todo, NEW a \in Selected(t)', a \notin queueRun[q].todo, a < b PROVE Filed(t, a)'
      <4>1. a \in DOMAIN archive[t]
        BY <2>7, <2>8, <2>9, <2>12, <3>2
      <4>2. a \in Selected(t)
        BY <2>5, <3>2, <4>1
      <4> QED BY <2>2, <2>4, <2>12, <3>2, <4>1, <4>2 DEF NoneSkipped
    <3> QED BY <3>1, <3>2
  <2> QED BY <1>2, <2>3, <2>10, <2>11, <2>12 DEF NoneSkipped
<1> QED BY <1>5, <1>6

\* In a source that makes no late correction the artifacts are read as they are numbered.
LEMMA ReadAsNumbered ==
    ASSUME QueueInv, NEW r \in QueueRuns, queueRun[r].todo # {}, NoLateCorrection(At(r))
    PROVE  \A b \in queueRun[r].todo : Earliest(r) <= b
<1>1. queueRun[r].todo \subseteq DOMAIN archive[At(r)] /\ At(r) \in Source
  BY EarliestIsLeft, QueueShapes DEF QueueHolds
<1>2. SUFFICES ASSUME NEW b \in queueRun[r].todo, b # Earliest(r) PROVE Earliest(r) <= b
  BY <1>1, EarliestIsLeft, ArtifactsNumbered
<1> DEFINE s == At(r)  e == Earliest(r)
<1>3. e \in DOMAIN archive[s] /\ b \in DOMAIN archive[s] /\ Before(s, e, b)
  BY <1>1, <1>2, EarliestIsLeft
<1>4. e \in Nat /\ b \in Nat /\ archive[s][e].period \in Nat /\ archive[s][b].period \in Nat
  BY <1>1, <1>3, ArtifactsNumbered
<1>5. b < e => archive[s][b].period <= archive[s][e].period
  BY <1>3 DEF NoLateCorrection
<1> QED BY <1>3, <1>4, <1>5 DEF Before

\* What an artifact after all that is filed says becomes the latest of the request's history.
LEMMA ObservedForward ==
    ASSUME QueueInv, NEW s \in Source, NEW a \in DOMAIN archive[s], Observe(s, a)
    PROVE  /\ observations' \in [Source -> Seq(Observation)]
           /\ \A t \in Source \ {s} : observations'[t] = observations[t]
           /\ observations'[s] # <<>> /\ observations'[s][Len(observations'[s])].last = a
           /\ HistoryGoesForward(s) /\ (filed[s] # <<>> => LastFiled(s) <= a) =>
                /\ \A k \in DOMAIN observations'[s] :
                     /\ observations'[s][k].first \in DOMAIN archive[s] /\ observations'[s][k].last \in DOMAIN archive[s]
                     /\ observations'[s][k].last <= a
                /\ \A j, k \in DOMAIN observations'[s] : j < k => observations'[s][j].last <= observations'[s][k].first
<1> DEFINE h == observations[s]
           n == Len(h)
           x == [says |-> archive[s][a].says, first |-> a, last |-> a]
           again == h # <<>> /\ LatestObservation(s).says = archive[s][a].says
           seen == [h EXCEPT ![n].last = a]
<1>1. /\ h \in Seq(Observation) /\ n \in Nat /\ DOMAIN h = 1..n /\ (h # <<>> <=> n >= 1)
      /\ observations \in [Source -> Seq(Observation)]
      /\ \A k \in 1..n : h[k] \in Observation
  <2>1. h \in Seq(Observation) /\ observations \in [Source -> Seq(Observation)]
    BY QueueShapes
  <2> QED BY <2>1, LenProperties, EmptySeq, ElementOfSeq
<1>2. a \in Numbers /\ archive[s][a].says \in Statements /\ a \in Nat
  BY ArtifactsNumbered, SelectedAreNumbers
<1>3. x \in Observation /\ x.first = a /\ x.last = a
  BY <1>2 DEF Observation
<1>4. observations' = [observations EXCEPT ![s] = IF again THEN seen ELSE Append(h, x)]
  BY DEF Observe
<1>5. ASSUME HistoryGoesForward(s), filed[s] # <<>> => LastFiled(s) <= a
      PROVE  /\ h # <<>> => LastFiled(s) \in Nat
             /\ \A k \in 1..n : /\ h[k].first \in DOMAIN archive[s] /\ h[k].last \in DOMAIN archive[s]
                                /\ h[k].last <= a /\ h[k].last \in Nat /\ h[k].first \in Nat
             /\ \A j, k \in 1..n : j < k => h[j].last <= h[k].first
  <2>1. \A k \in 1..n : h[k].first \in DOMAIN archive[s] /\ h[k].last \in DOMAIN archive[s] /\ h[k].last <= LastFiled(s)
    BY <1>1, <1>5 DEF HistoryGoesForward
  <2>2. \A k \in 1..n : h[k].last \in Nat /\ h[k].first \in Nat
    BY <2>1, ArtifactsNumbered
  <2>3. h # <<>> => LastFiled(s) \in Nat /\ LastFiled(s) <= a
    <3>1. h # <<>> => filed[s] # <<>> /\ filed[s] \in Seq(Numbers)
      BY <1>5, QueueShapes DEF HistoryGoesForward
    <3>2. filed[s] # <<>> => LastFiled(s) \in Numbers
      <4>1. filed[s] \in Seq(Numbers)
        BY QueueShapes
      <4> QED BY <4>1, LenProperties, EmptySeq, ElementOfSeq DEF LastFiled
    <3> QED BY <1>5, <3>1, <3>2 DEF Numbers
  <2>4. \A j, k \in 1..n : j < k => h[j].last <= h[k].first
    BY <1>1, <1>5 DEF HistoryGoesForward
  <2>5. \A k \in 1..n : h[k].last <= a
    BY <1>1, <1>2, <2>1, <2>2, <2>3
  <2> QED BY <2>1, <2>2, <2>3, <2>4, <2>5
<1>6. CASE again
  <2>1. n \in 1..n /\ h # <<>>
    BY <1>1, <1>6
  <2>2. DOMAIN seen = 1..n /\ seen[n] = [h[n] EXCEPT !.last = a] /\ \A k \in 1..n : k # n => seen[k] = h[k]
    BY <1>1, <2>1
  <2>3. seen[n] \in Observation /\ seen[n].last = a /\ seen[n].first = h[n].first
    <3>1. h[n] \in Observation
      BY <1>1, <2>1
    <3> QED BY <1>2, <2>2, <3>1 DEF Observation
  <2>4. seen \in Seq(Observation) /\ Len(seen) = n
    <3>1. seen \in [1..n -> Observation]
      BY <1>1, <2>2, <2>3
    <3> QED BY <1>1, <3>1, SeqDef, LenProperties
  <2>5. observations'[s] = seen /\ observations' \in [Source -> Seq(Observation)] /\ \A t \in Source \ {s} : observations'[t] = observations[t]
    BY <1>1, <1>4, <1>6, <2>4
  <2>6. seen # <<>>
    BY <2>1, <2>4, EmptySeq, <1>1
  <2> HIDE DEF seen, h, n
  <2>7. ASSUME HistoryGoesForward(s), filed[s] # <<>> => LastFiled(s) <= a
        PROVE  /\ \A k \in 1..n : seen[k].first \in DOMAIN archive[s] /\ seen[k].last \in DOMAIN archive[s] /\ seen[k].last <= a
               /\ \A j, k \in 1..n : j < k => seen[j].last <= seen[k].first
    <3>1. \A k \in 1..n : seen[k].first = h[k].first
      BY <2>2, <2>3
    <3>2. \A k \in 1..n : seen[k].last = IF k = n THEN a ELSE h[k].last
      BY <2>2, <2>3
    <3>3. \A j, k \in 1..n : j < k => j # n
      BY <1>1
    <3> QED BY <1>2, <1>5, <2>7, <3>1, <3>2, <3>3
  <2> QED BY <2>2, <2>3, <2>4, <2>5, <2>6, <2>7
<1>7. CASE ~again
  <2> DEFINE more == Append(h, x)
  <2>1. /\ more \in Seq(Observation) /\ more # <<>> /\ Len(more) = n + 1 /\ more[n + 1] = x
        /\ \A k \in 1..n : more[k] = h[k]
    BY <1>1, <1>3, AppendProperties
  <2>2. DOMAIN more = 1..(n + 1)
    BY <2>1, LenProperties
  <2>3. observations'[s] = more /\ observations' \in [Source -> Seq(Observation)] /\ \A t \in Source \ {s} : observations'[t] = observations[t]
    BY <1>1, <1>4, <1>7, <2>1
  <2> HIDE DEF more, h, n, x
  <2>4. ASSUME HistoryGoesForward(s), filed[s] # <<>> => LastFiled(s) <= a
        PROVE  /\ \A k \in 1..(n + 1) : more[k].first \in DOMAIN archive[s] /\ more[k].last \in DOMAIN archive[s] /\ more[k].last <= a
               /\ \A j, k \in 1..(n + 1) : j < k => more[j].last <= more[k].first
    <3>1. \A k \in 1..(n + 1) : k \in 1..n \/ k = n + 1
      BY <1>1
    <3>2. \A k \in 1..(n + 1) : more[k].first \in DOMAIN archive[s] /\ more[k].last \in DOMAIN archive[s] /\ more[k].last <= a
      BY <1>2, <1>3, <1>5, <2>1, <2>4, <3>1
    <3>3. ASSUME NEW j \in 1..(n + 1), NEW k \in 1..(n + 1), j < k PROVE more[j].last <= more[k].first
      <4>1. j \in 1..n /\ more[j] = h[j]
        BY <1>1, <2>1, <3>3
      <4>2. CASE k \in 1..n
        BY <1>5, <2>1, <2>4, <3>3, <4>1, <4>2
      <4>3. CASE k = n + 1
        BY <1>3, <1>5, <2>1, <2>4, <4>1, <4>3
      <4> QED BY <3>1, <4>2, <4>3
    <3> QED BY <3>2, <3>3
  <2> QED BY <1>3, <2>1, <2>2, <2>3, <2>4
<1> QED BY <1>6, <1>7

LEMMA PersistKeeps ==
    ASSUME QueueInv, ReadForward, NEW r \in QueueRuns, Persist(r) PROVE QueueInv' /\ ReadForward'
<1>s. PICK s \in Source : s = At(r)
  BY EarliestIsLeft DEF Persist
<1>e. PICK e \in queueRun[r].todo : e = Earliest(r)
  BY EarliestIsLeft DEF Persist
<1> DEFINE k == [queueRun[r] EXCEPT !.todo = @ \ {e}, !.reached = "matched"]
<1>1. /\ queueRun[r].pc = "walk" /\ queueRun[r].todo # {} /\ UNCHANGED <<archive, checks, metrics, queueLock, deferrals>>
      /\ IF Filed(s, e) THEN UNCHANGED <<filed, observations, recent>>
         ELSE filed' = [filed EXCEPT ![s] = Append(@, e)] /\ Observe(s, e) /\ DatedOf(s)
  BY <1>s, <1>e DEF Persist
<1>2. /\ s \in Source /\ e \in queueRun[r].todo /\ e \in DOMAIN archive[s] /\ queueRun[r].todo \subseteq DOMAIN archive[s]
  BY <1>s, <1>1, <1>e, EarliestIsLeft, QueueShapes DEF QueueHolds
<1>3. k \in QueueRecord /\ k.pc = "walk" /\ k.source = s /\ k.todo = queueRun[r].todo \ {e} /\ queueRun' = [queueRun EXCEPT ![r] = k]
  <2>1. queueRun[r] \in QueueRecord /\ queueRun \in [QueueRuns -> QueueRecord]
    BY QueueShapes
  <2> QED BY <1>s, <1>1, <1>e, <2>1 DEF Persist, Took, QueueRecord, Contact, At
<1>4. queueLock' = r
  BY <1>1, QueueShapes DEF QueueHolds
<1> HIDE DEF k
<1>5. /\ queueRun' \in [QueueRuns -> QueueRecord] /\ \A q \in QueueRuns : QueueHolds(q)'
      /\ queueRun'[r] = k /\ \A q \in QueueRuns \ {r} : queueRun'[q] = queueRun[q]
  BY <1>s, <1>1, <1>2, <1>3, <1>4, QueueRunSteps
<1>6. /\ filed \in [Source -> Seq(Numbers)] /\ filed[s] \in Seq(Numbers) /\ e \in Numbers /\ e \in Nat
  BY <1>2, QueueShapes, SelectedAreNumbers, ArtifactsNumbered
\* What is filed.
<1>7. /\ filed' \in [Source -> Seq(Numbers)] /\ \A t \in Source \ {s} : filed'[t] = filed[t]
      /\ Filed(s, e) => filed' = filed /\ observations' = observations
      /\ ~Filed(s, e) => filed'[s] = Append(filed[s], e) /\ Observe(s, e)
  <2>1. Append(filed[s], e) \in Seq(Numbers)
    BY <1>6, AppendProperties
  <2> QED BY <1>1, <1>2, <1>6, <2>1
<1>8. ~Filed(s, e) => /\ Len(filed'[s]) = Len(filed[s]) + 1 /\ DOMAIN filed'[s] = 1..(Len(filed[s]) + 1) /\ filed'[s] # <<>>
                      /\ LastFiled(s)' = e /\ \A j \in DOMAIN filed[s] : j \in DOMAIN filed'[s] /\ filed'[s][j] = filed[s][j]
  <2>1. Len(filed[s]) \in Nat /\ DOMAIN filed[s] = 1..Len(filed[s])
    BY <1>6, LenProperties
  <2> DEFINE more == Append(filed[s], e)
  <2>2. /\ Len(more) = Len(filed[s]) + 1 /\ more # <<>> /\ more[Len(filed[s]) + 1] = e /\ more \in Seq(Numbers)
        /\ \A j \in 1..Len(filed[s]) : more[j] = filed[s][j]
    BY <1>6, AppendProperties
  <2>3. DOMAIN more = 1..(Len(filed[s]) + 1)
    BY <2>2, LenProperties
  <2> HIDE DEF more
  <2>4. ~Filed(s, e) => filed'[s] = more
    BY <1>7 DEF more
  <2>5. ~Filed(s, e) => LastFiled(s)' = e
    BY <2>2, <2>4 DEF LastFiled
  <2> QED BY <2>1, <2>2, <2>3, <2>4, <2>5
<1>9. Filed(s, e)' /\ \A a \in DOMAIN archive[s] : Filed(s, a) => Filed(s, a)'
  <2>1. CASE Filed(s, e)
    BY <1>1, <1>2, <1>7, <2>1 DEF Filed, SameSnapshot
  <2>2. CASE ~Filed(s, e)
    <3>1. \A a \in DOMAIN archive[s] : Filed(s, a) => Filed(s, a)'
      BY <1>1, <1>8, <2>2 DEF Filed, SameSnapshot
    <3>2. Filed(s, e)'
      <4>1. Len(filed'[s]) \in DOMAIN filed'[s] /\ filed'[s][Len(filed'[s])] = e
        <5>1. Len(filed[s]) \in Nat
          BY <1>6, LenProperties
        <5> QED BY <1>8, <2>2, <5>1 DEF LastFiled
      <4> QED BY <4>1 DEF Filed, SameSnapshot
    <3> QED BY <3>1, <3>2
  <2> QED BY <2>1, <2>2
<1>10. QueueInv'
  <2>1. \A t \in Source : \A j \in DOMAIN filed'[t] : filed'[t][j] \in DOMAIN archive[t]
    <3>1. \A t \in Source : \A j \in DOMAIN filed[t] : filed[t][j] \in DOMAIN archive[t]
      BY QueueShapes
    <3>2. ASSUME ~Filed(s, e), NEW j \in DOMAIN filed'[s] PROVE filed'[s][j] \in DOMAIN archive[s]
      <4>1. DOMAIN filed[s] = 1..Len(filed[s]) /\ Len(filed[s]) \in Nat
        BY <1>6, LenProperties
      <4>2. j \in DOMAIN filed[s] \/ j = Len(filed[s]) + 1
        BY <1>8, <3>2, <4>1
      <4>3. filed'[s][Len(filed[s]) + 1] = e
        BY <1>8, <3>2 DEF LastFiled
      <4> QED BY <1>2, <1>8, <3>1, <3>2, <4>2, <4>3
    <3> QED BY <1>7, <3>1, <3>2
  <2>2. observations' \in [Source -> Seq(Observation)]
    BY <1>2, <1>7, QueueShapes, ObservedForward
  <2>3. recent' \in [Source -> BOOLEAN]
    <3>1. CASE Filed(s, e)
      BY <1>1, <3>1, QueueShapes
    <3>2. CASE DatedOf(s)
      <4>1. PICK b \in BOOLEAN : recent' = [recent EXCEPT ![s] = b]
        <5>1. CASE s \in Continuous
          BY <3>2, <5>1 DEF DatedOf
        <5>2. CASE s \notin Continuous
          <6>1. PICK fresh \in BOOLEAN : recent' = [recent EXCEPT ![s] = @ \/ fresh]
            BY <3>2, <5>2 DEF DatedOf
          <6>2. (recent[s] \/ fresh) \in BOOLEAN
            OBVIOUS
          <6> QED BY <6>1, <6>2
        <5> QED BY <5>1, <5>2
      <4> QED BY <4>1, QueueShapes
    <3> QED BY <1>1, <3>1, <3>2
  <2> QED BY <1>1, <1>5, <1>7, <2>1, <2>2, <2>3, QueueShapes DEF QueueInv, QueueTypeOK, QueueRecord
<1>11. ReadForward'
  <2> SUFFICES ASSUME deferrals' = 0, NEW t \in Source, NoLateCorrection(t)'
               PROVE  HistoryGoesForward(t)' /\ NoneSkipped(t)'
    BY DEF ReadForward, Source
  <2>1. NoLateCorrection(t) /\ HistoryGoesForward(t) /\ NoneSkipped(t)
    BY <1>1 DEF ReadForward, NoLateCorrection
  <2>2. Selected(t)' = Selected(t) /\ Selected(t) \subseteq DOMAIN archive[t]
    BY <1>1 DEF Selected, Before
  <2>3. CASE t # s
    <3>1. filed'[t] = filed[t] /\ observations'[t] = observations[t]
      BY <1>2, <1>7, <2>3, ObservedForward
    <3>2. \A q \in QueueRuns : ~ToRead(q, t)'
      BY <1>1, <1>3, <1>5, <2>3, OthersWait DEF ToRead, At
    <3>3. \A a : Filed(t, a)' <=> Filed(t, a)
      BY <1>1, <3>1 DEF Filed, SameSnapshot
    <3>4. HistoryGoesForward(t)'
      BY <1>1, <2>1, <3>1 DEF HistoryGoesForward, LatestObservation, LastFiled
    <3>5. NoneSkipped(t)'
      BY <2>1, <2>2, <3>1, <3>2, <3>3 DEF NoneSkipped, LastFiled
    <3> QED BY <3>4, <3>5
  <2>4. CASE t = s
    <3>1. ToRead(r, s) /\ \A b \in queueRun[r].todo : e <= b
      BY <1>s, <1>1, <1>e, <2>1, <2>4, ReadAsNumbered DEF ToRead
    <3>2. \A a \in queueRun[r].todo \cup Selected(s) : a \in DOMAIN archive[s] /\ a \in Nat
      BY <1>2, <2>2, <2>4, ArtifactsNumbered
    <3>3. \A a \in Selected(s) \ queueRun[r].todo : a < e => Filed(s, a)
      BY <1>2, <2>1, <2>4, <3>1 DEF NoneSkipped
    \* What the run goes on to comes after what it has read, and all before that is filed.
    <3>4. \A q \in QueueRuns : ToRead(q, s)' => queueRun'[q].todo = queueRun[r].todo \ {e}
      BY <1>1, <1>3, <1>5, OthersWait DEF ToRead
    <3>5. \A b \in queueRun[r].todo : \A a \in Selected(s) \ (queueRun[r].todo \ {e}) : a < b => Filed(s, a)'
      <4> SUFFICES ASSUME NEW b \in queueRun[r].todo, NEW a \in Selected(s), a \notin queueRun[r].todo \ {e}, a < b
                   PROVE  Filed(s, a)'
        OBVIOUS
      <4>1. CASE a = e
        BY <1>9, <4>1
      <4>2. CASE a # e
        BY <1>9, <2>1, <2>4, <3>1, <3>2, <4>2 DEF NoneSkipped
      <4> QED BY <4>1, <4>2
    <3>6. CASE Filed(s, e)
      <4>1. LastFiled(s)' = LastFiled(s) /\ filed' = filed /\ observations' = observations
        BY <1>7, <3>6 DEF LastFiled
      <4>2. HistoryGoesForward(s)'
        BY <1>1, <2>1, <2>4, <4>1 DEF HistoryGoesForward, LatestObservation
      <4>3. /\ filed[s] # <<>> => \A a \in Selected(s) : a < LastFiled(s) => Filed(s, a)'
            /\ filed[s] # <<>> => \A a \in queueRun[r].todo : a < LastFiled(s) => Filed(s, a)'
        BY <1>9, <2>1, <2>4, <3>1, <3>2 DEF NoneSkipped
      <4>4. NoneSkipped(s)'
        BY <2>2, <2>4, <3>4, <3>5, <4>1, <4>3 DEF NoneSkipped
      <4> QED BY <2>4, <4>2, <4>4
    <3>7. CASE ~Filed(s, e)
      <4>1. filed[s] # <<>> => LastFiled(s) <= e
        <5>1. filed[s] # <<>> => ~(e < LastFiled(s))
          BY <1>2, <2>1, <2>4, <3>1, <3>7 DEF NoneSkipped
        <5>2. filed[s] # <<>> => LastFiled(s) \in Nat
          <6>1. filed[s] # <<>> => LastFiled(s) \in Numbers
            BY <1>6, LenProperties, EmptySeq, ElementOfSeq DEF LastFiled
          <6> QED BY <6>1 DEF Numbers
        <5> QED BY <1>6, <5>1, <5>2
      <4>2. /\ observations'[s] # <<>> /\ observations'[s][Len(observations'[s])].last = e
            /\ \A j \in DOMAIN observations'[s] :
                 /\ observations'[s][j].first \in DOMAIN archive[s] /\ observations'[s][j].last \in DOMAIN archive[s]
                 /\ observations'[s][j].last <= e
            /\ \A i, j \in DOMAIN observations'[s] : i < j => observations'[s][i].last <= observations'[s][j].first
        BY <1>2, <1>7, <2>1, <2>4, <3>7, <4>1, ObservedForward
      <4>3. HistoryGoesForward(s)'
        BY <1>1, <1>8, <3>7, <4>2 DEF HistoryGoesForward, LatestObservation
      <4>4. \A a \in queueRun[r].todo : ~(a < e)
        BY <1>6, <3>1, <3>2
      <4>5. \A a \in Selected(s) : a < e => Filed(s, a)'
        BY <1>9, <3>2, <3>3, <4>4
      <4>6. NoneSkipped(s)'
        BY <1>8, <2>2, <2>4, <3>4, <3>5, <3>7, <4>4, <4>5 DEF NoneSkipped
      <4> QED BY <2>4, <4>3, <4>6
    <3> QED BY <3>6, <3>7
  <2> QED BY <2>3, <2>4
<1> QED BY <1>10, <1>11

LEMMA ForwardInitially == QueueInit => ReadForward
<1> SUFFICES ASSUME QueueInit, NEW s \in Source PROVE HistoryGoesForward(s) /\ NoneSkipped(s)
  BY DEF ReadForward
<1>1. filed[s] = <<>> /\ observations[s] = <<>> /\ \A r \in QueueRuns : ~ToRead(r, s)
  BY QueueIdleShape DEF QueueInit, ToRead
<1>2. HistoryGoesForward(s)
  BY <1>1 DEF HistoryGoesForward
<1> QED BY <1>1, <1>2 DEF NoneSkipped

\* What grows old is no part of any history.
LEMMA GrowsOldKeeps ==
    ASSUME QueueInv, ReadForward, NEW s \in Source, GrowsOld(s) PROVE QueueInv' /\ ReadForward'
<1>1. /\ recent' = [recent EXCEPT ![s] = FALSE]
      /\ UNCHANGED <<archive, filed, observations, checks, metrics, queueLock, queueRun, deferrals>>
  BY DEF GrowsOld
<1>2. recent' \in [Source -> BOOLEAN]
  BY <1>1, QueueShapes
<1>3. QueueInv'
  BY <1>1, <1>2 DEF QueueInv, QueueTypeOK, QueueHolds, At
<1> QED BY <1>1, <1>3, ForwardStays

LEMMA QueueInductive == QueueInv /\ ReadForward /\ [QueueNext]_queueVars => QueueInv' /\ ReadForward'
<1> SUFFICES ASSUME QueueInv, ReadForward, [QueueNext]_queueVars PROVE QueueInv' /\ ReadForward'
  OBVIOUS
<1>1. CASE UNCHANGED queueVars
  <2>1. QueueInv'
    BY <1>1 DEF queueVars, QueueInv, QueueTypeOK, QueueHolds, At
  <2> QED BY <1>1, <2>1, ForwardStays DEF queueVars
<1>2. ASSUME NEW r \in QueueRuns, QueueStep(r) \/ QueueRunDies(r) PROVE QueueInv' /\ ReadForward'
  BY <1>2, QueueLockKeeps, DiscoverKeeps, PersistKeeps, DeferKeeps, SourceCheckedKeeps, CalculateKeeps, QueueDiesKeeps
     DEF QueueStep
<1> QED BY <1>1, <1>2, AppearsKeeps, GrowsOldKeeps DEF QueueNext

LEMMA QueueAlways == QueueSpec => [](QueueInv /\ ReadForward)
BY QueueInitially, ForwardInitially, QueueInductive, PTL DEF QueueSpec

\* The sources' snapshots, observations, checks and metrics and the runs keep their shapes; a
\* snapshot is of an artifact the source published.
THEOREM QueueTypeCorrect == QueueSpec => []QueueTypeOK
BY QueueAlways, PTL DEF QueueInv

\* persistQueueExtraction over the newest artifacts, the earliest first: of any number of sources
\* and artifacts, read in whatever batches, a request's history goes forward through the
\* periods and ends on the newest snapshot, if nothing was put off and no late correction came.
THEOREM ReadInOrder == QueueSpec => []ReadInOrderStaysInOrder
<1>1. QueueInv /\ ReadForward => ReadInOrderStaysInOrder
  <2> SUFFICES ASSUME QueueInv, ReadForward, deferrals = 0, NEW s \in Source, NoLateCorrection(s)
               PROVE  FollowsPeriods(s) /\ (filed[s] # <<>> => LatestObservation(s).last = LastFiled(s))
    BY DEF ReadInOrderStaysInOrder, LastFiled
  <2>1. HistoryGoesForward(s)
    BY DEF ReadForward
  <2> SUFFICES ASSUME NEW j \in DOMAIN observations[s], NEW k \in DOMAIN observations[s], j < k
               PROVE  archive[s][observations[s][j].last].period <= archive[s][observations[s][k].first].period
    BY <2>1 DEF HistoryGoesForward, FollowsPeriods
  <2> DEFINE a == observations[s][j].last  b == observations[s][k].first
  <2>2. a \in DOMAIN archive[s] /\ b \in DOMAIN archive[s] /\ a <= b
    BY <2>1 DEF HistoryGoesForward
  <2>3. a \in Nat /\ b \in Nat /\ archive[s][a].period \in Nat /\ archive[s][b].period \in Nat
    BY <2>2, ArtifactsNumbered
  <2>4. a < b => archive[s][a].period <= archive[s][b].period
    BY <2>2 DEF NoLateCorrection
  <2> QED BY <2>2, <2>3, <2>4
<1> QED BY <1>1, QueueAlways, PTL
=============================================================================
