-------------------------- MODULE SourceSeriesProof -------------------------
(***************************************************************************)
(* The two series that are read from a source and served as they are read, *)
(* for any number of runs, series, months, markets, days, revisions and    *)
(* connections lost.  The memory series' checks: only the holder of the    *)
(* lock works, and what is served rests on what was observed.  The         *)
(* electricity price run: a run accounts for every day it passes, and one  *)
(* that is alone writes over nothing.                                      *)
(***************************************************************************)
EXTENDS UmpiOperations, UepiSchedule, SequenceTheorems, WellFoundedInduction, TLAPS

-----------------------------------------------------------------------------
(* The memory series. *)

\* A run at work is the holder of the lock and has a series left to check.
HoldsLock(r) == umpiRun[r].pc # "idle" => opsLock = r /\ umpiRun[r].todo # {}

\* While nothing has failed, the one series whose points may rest on older vintages is that
\* of a run about to derive them.
Deriving(s) == \E r \in UmpiRuns : umpiRun[r].pc = "derive" /\ umpiRun[r].moved /\ s = SeriesAt(r)
ServedIsCurrent == mishaps = 0 => \A s \in UmpiSeries : Current(s) \/ Deriving(s)

UmpiInv == UmpiTypeOK /\ (\A r \in UmpiRuns : HoldsLock(r)) /\ ServedIsCurrent

UmpiRunRecord == [pc : {"idle", "source", "derive", "record"}, todo : SUBSET UmpiSeries,
              due : Months, overdue : BOOLEAN, reachable : BOOLEAN, moved : BOOLEAN]
Observations == [UmpiSeries -> [Months -> Seq(Figures)]]
Publications == [UmpiSeries -> [Months -> Seq(Basis)]]

\* The shapes, with their names.
LEMMA UmpiShapes ==
    ASSUME UmpiTypeOK
    PROVE  /\ based \in [UmpiSeries -> BOOLEAN]
           /\ agency \in [UmpiSeries -> [Months -> Figures \cup {NoFigure}]]
           /\ observed \in Observations /\ published \in Publications
           /\ umpiRun \in [UmpiRuns -> UmpiRunRecord] /\ due \in Months /\ overdue \in BOOLEAN
           /\ opsLock \in UmpiRuns \cup {NoRun} /\ mishaps \in 0..MaxMishaps /\ revisions \in 0..MaxRevisions
           /\ check \in [UmpiSeries -> FreshnessState \cup {"none"}]
BY DEF UmpiTypeOK, UmpiRunRecord, Observations, Publications

\* The series a working run is at is one of those it has left.
LEMMA SeriesAtHand ==
    ASSUME UmpiTypeOK, NEW r \in UmpiRuns, HoldsLock(r), umpiRun[r].pc # "idle"
    PROVE  SeriesAt(r) \in umpiRun[r].todo /\ SeriesAt(r) \in UmpiSeries
<1>1. umpiRun[r].todo \subseteq UmpiSeries /\ umpiRun[r].todo # {}
  BY UmpiShapes DEF HoldsLock, UmpiRunRecord
<1> QED BY <1>1 DEF SeriesAt

LEMMA WaitingShape == Waiting \in UmpiRunRecord /\ Waiting.pc = "idle"
BY UmpiAssumption DEF Waiting, UmpiRunRecord, Months

LEMMA UmpiInitially == UmpiInit => UmpiInv
<1> SUFFICES ASSUME UmpiInit PROVE UmpiInv
  OBVIOUS
<1>1. UmpiTypeOK
  <2>1. /\ 1 \in Months /\ 0 \in 0..MaxRevisions /\ 0 \in 0..MaxMishaps
        /\ <<>> \in Seq(Figures) /\ <<>> \in Seq(Basis)
    BY UmpiAssumption DEF Months
  <2>2. umpiRun \in [UmpiRuns -> UmpiRunRecord]
    BY WaitingShape DEF UmpiInit
  <2> QED BY <2>1, <2>2 DEF UmpiInit, UmpiTypeOK, UmpiRunRecord
<1>2. \A s \in UmpiSeries : Current(s)
  BY DEF UmpiInit, Current, HasLevel
<1> QED BY <1>1, <1>2 DEF UmpiInit, UmpiInv, HoldsLock, ServedIsCurrent, Waiting

\* A step of the run r that holds the lock, and of nothing else that works.
LEMMA AloneAtWork ==
    ASSUME UmpiInv, NEW r \in UmpiRuns, umpiRun[r].pc # "idle"
    PROVE  opsLock = r /\ \A q \in UmpiRuns \ {r} : umpiRun[q].pc = "idle"
BY DEF UmpiInv, HoldsLock

\* The agencies and the calendar touch no table.
LEMMA AgenciesKeep ==
    ASSUME UmpiInv, UmpiTypeOK', UNCHANGED <<based, observed, published, opsLock, umpiRun, mishaps>>
    PROVE  UmpiInv'
<1>1. \A s \in UmpiSeries : Current(s)' = Current(s)
  BY DEF Current, RestsOn, BasisNow, NewestVintage, HasLevel
<1>2. \A s \in UmpiSeries : Deriving(s)' = Deriving(s)
  BY DEF Deriving, SeriesAt
<1> QED BY <1>1, <1>2 DEF UmpiInv, HoldsLock, ServedIsCurrent

LEMMA AgencyKeeps ==
    ASSUME UmpiInv, NEW s \in UmpiSeries, NEW m \in Months, AgencyPublishes(s, m) \/ AgencyRevises(s, m)
    PROVE  UmpiInv'
<1>1. PICK f \in Figures : agency' = [agency EXCEPT ![s][m] = f]
  BY DEF AgencyPublishes, AgencyRevises
<1>2. agency' \in [UmpiSeries -> [Months -> Figures \cup {NoFigure}]]
  BY <1>1, UmpiShapes DEF UmpiInv
<1>3. revisions' \in 0..MaxRevisions
  BY UmpiAssumption, UmpiShapes DEF UmpiInv, AgencyPublishes, AgencyRevises
<1>4. UmpiTypeOK'
  BY <1>2, <1>3 DEF UmpiInv, UmpiTypeOK, AgencyPublishes, AgencyRevises
<1> QED BY <1>4, AgenciesKeep DEF AgencyPublishes, AgencyRevises

LEMMA CalendarKeeps == ASSUME UmpiInv, CalendarMoves PROVE UmpiInv'
<1>1. due' \in Months /\ overdue' \in BOOLEAN
  <2>1. due \in Nat /\ 1 <= due /\ due <= MaxMonth /\ MaxMonth \in Nat /\ overdue \in BOOLEAN
    BY UmpiAssumption, UmpiShapes DEF UmpiInv, Months
  <2>2. overdue' \in BOOLEAN
    BY Zenon DEF CalendarMoves
  <2>3. due' = due \/ (due < MaxMonth /\ due' = due + 1)
    BY Zenon DEF CalendarMoves
  <2>4. due' \in Months
    BY <2>1, <2>3 DEF Months
  <2> QED BY <2>2, <2>4
<1>2. UmpiTypeOK'
  BY <1>1 DEF UmpiInv, UmpiTypeOK, CalendarMoves
<1> QED BY <1>2, AgenciesKeep DEF CalendarMoves

\* The lock is given to one run, which begins with every series to do.
LEMMA LockKeeps == ASSUME UmpiInv, NEW r \in UmpiRuns, TakeLock(r) PROVE UmpiInv'
<1> DEFINE k == [Waiting EXCEPT !.pc = "source", !.todo = UmpiSeries, !.due = due, !.overdue = overdue]
<1>1. k \in UmpiRunRecord /\ k.pc = "source" /\ k.todo = UmpiSeries
  BY WaitingShape, UmpiShapes DEF UmpiInv, UmpiRunRecord
<1>2. /\ umpiRun' = [umpiRun EXCEPT ![r] = k] /\ opsLock = NoRun /\ opsLock' = r
      /\ UNCHANGED <<world, observed, published, check, mishaps>>
  BY DEF TakeLock
<1> HIDE DEF k
<1>3. umpiRun' \in [UmpiRuns -> UmpiRunRecord] /\ umpiRun'[r] = k /\ \A q \in UmpiRuns \ {r} : umpiRun'[q] = umpiRun[q]
  BY <1>1, <1>2, UmpiShapes DEF UmpiInv
<1>4. UmpiTypeOK'
  BY <1>2, <1>3 DEF UmpiInv, UmpiTypeOK, UmpiRunRecord, world
<1>5. \A q \in UmpiRuns : umpiRun[q].pc = "idle"
  BY <1>2, UmpiAssumption DEF UmpiInv, HoldsLock
<1>6. \A q \in UmpiRuns : HoldsLock(q)'
  BY <1>1, <1>2, <1>3, <1>5, UmpiAssumption DEF HoldsLock
<1>7. ServedIsCurrent'
  <2>1. \A s \in UmpiSeries : Current(s)' = Current(s)
    BY <1>2 DEF world, Current, RestsOn, BasisNow, NewestVintage, HasLevel
  <2>2. \A s \in UmpiSeries : ~Deriving(s)
    BY <1>5 DEF Deriving
  <2> QED BY <1>2, <2>1, <2>2 DEF UmpiInv, ServedIsCurrent
<1> QED BY <1>4, <1>6, <1>7 DEF UmpiInv

\* A month's own vintages are all that changes when a source is read: the points of every
\* other series still rest on what they did.
LEMMA OthersStayCurrent ==
    ASSUME UmpiTypeOK, NEW s \in UmpiSeries, NEW q \in UmpiSeries, q # s, UNCHANGED based,
           \/ \E f \in [Months -> Seq(Figures)] : observed' = [observed EXCEPT ![s] = f] /\ published' = published
           \/ \E f \in [Months -> Seq(Basis)] : published' = [published EXCEPT ![s] = f] /\ observed' = observed
    PROVE  Current(q)' = Current(q)
<1>1. observed'[q] = observed[q] /\ published'[q] = published[q]
  BY UmpiShapes DEF Observations, Publications
<1> QED BY <1>1 DEF Current, RestsOn, BasisNow, NewestVintage, HasLevel

\* The reply of a source, all of it in one transaction.
LEMMA SourceCheckKeeps == ASSUME UmpiInv, NEW r \in UmpiRuns, RunSource(r) PROVE UmpiInv'
<1> DEFINE s == SeriesAt(r)
           new == {m \in CheckWindow(r) : IsNew(s, m)}
           rows == [m \in Months |-> IF m \in new THEN Append(observed[s][m], agency[s][m]) ELSE observed[s][m]]
           k == [umpiRun[r] EXCEPT !.pc = "derive", !.reachable = TRUE, !.moved = (new # {})]
<1>1. /\ s \in umpiRun[r].todo /\ s \in UmpiSeries /\ umpiRun[r].pc = "source"
      /\ umpiRun \in [UmpiRuns -> UmpiRunRecord] /\ umpiRun[r] \in UmpiRunRecord
      /\ observed \in Observations /\ agency \in [UmpiSeries -> [Months -> Figures \cup {NoFigure}]]
      /\ opsLock = r /\ \A q \in UmpiRuns \ {r} : umpiRun[q].pc = "idle"
  BY SeriesAtHand, UmpiShapes, AloneAtWork DEF UmpiInv, RunSource
<1>2. new \subseteq Months /\ \A m \in new : agency[s][m] \in Figures
  BY <1>1, UmpiAssumption DEF CheckWindow, IsNew
<1>3. rows \in [Months -> Seq(Figures)]
  BY <1>1, <1>2 DEF Observations
<1>4. /\ observed' = [observed EXCEPT ![s] = rows]
      /\ umpiRun' = [umpiRun EXCEPT ![r] = k]
      /\ UNCHANGED <<world, published, opsLock, check, mishaps>>
  BY <1>1 DEF RunSource, Observations, UmpiRunRecord
<1>5. /\ k \in UmpiRunRecord /\ k.pc = "derive" /\ k.todo = umpiRun[r].todo
      /\ k.moved <=> new # {}
  BY <1>1 DEF UmpiRunRecord
<1>6. new = {} => rows = observed[s]
  BY <1>1 DEF Observations
<1>7. s = CHOOSE x \in umpiRun[r].todo : TRUE
  BY DEF SeriesAt
<1> HIDE DEF s, new, rows, k
<1>8. umpiRun' \in [UmpiRuns -> UmpiRunRecord] /\ umpiRun'[r] = k /\ \A q \in UmpiRuns \ {r} : umpiRun'[q] = umpiRun[q]
  BY <1>1, <1>4, <1>5
<1>9. UmpiTypeOK'
  <2>1. observed' \in Observations
    BY <1>1, <1>3, <1>4 DEF Observations
  <2> QED BY <1>4, <1>8, <2>1 DEF UmpiInv, UmpiTypeOK, UmpiRunRecord, Observations, world
<1>10. \A q \in UmpiRuns : HoldsLock(q)'
  BY <1>1, <1>4, <1>5, <1>8 DEF HoldsLock
<1>11. SeriesAt(r)' = s
  BY <1>5, <1>7, <1>8 DEF SeriesAt
<1>12. ServedIsCurrent'
  <2> SUFFICES ASSUME mishaps = 0, NEW q \in UmpiSeries PROVE Current(q)' \/ Deriving(q)'
    BY <1>4 DEF ServedIsCurrent
  <2>1. Current(q)
    BY <1>1 DEF UmpiInv, ServedIsCurrent, Deriving
  <2>2. CASE q # s
    BY <1>1, <1>3, <1>4, <2>1, <2>2, OthersStayCurrent DEF UmpiInv, world
  <2>3. CASE q = s /\ new # {}
    BY <1>5, <1>8, <1>11, <2>3 DEF Deriving
  <2>4. CASE q = s /\ new = {}
    <3>1. observed' = observed
      BY <1>1, <1>4, <1>6, <2>4 DEF Observations
    <3> QED BY <1>4, <2>1, <3>1 DEF world, Current, RestsOn, BasisNow, NewestVintage, HasLevel
  <2> QED BY <2>2, <2>3, <2>4
<1> QED BY <1>9, <1>10, <1>12 DEF UmpiInv

\* The points of a series that moved, all of them in one transaction.
LEMMA PublishedIsCurrent ==
    ASSUME UmpiTypeOK, NEW s \in UmpiSeries, Publishes(s), UNCHANGED <<based, observed>>
    PROVE  /\ published' \in Publications /\ Current(s)'
           /\ \A q \in UmpiSeries \ {s} : Current(q)' = Current(q)
<1> DEFINE rows == [m \in Months |-> IF ~HasLevel(s, m) \/ RestsOn(s, m, BasisNow(s, m)) THEN published[s][m]
                                      ELSE Append(published[s][m], BasisNow(s, m))]
<1>1. observed \in Observations /\ published \in Publications /\ observed' = observed
  BY UmpiShapes
<1>2. \A m \in Months : Len(observed[s][m]) \in Nat /\ (observed[s][m] # <<>> => Len(observed[s][m]) > 0)
  BY <1>1, EmptySeq DEF Observations
<1>3. ASSUME NEW m \in Months, HasLevel(s, m) PROVE BasisNow(s, m) \in Basis
  <2>1. NewestVintage(s, m) \in Nat \ {0} /\ NewestVintage(s, m - 1) \in Nat
    BY <1>2, <1>3 DEF NewestVintage, HasLevel
  <2> QED BY <2>1 DEF BasisNow, Basis
<1>4. rows \in [Months -> Seq(Basis)]
  BY <1>1, <1>3 DEF Publications
<1>5. published' = [published EXCEPT ![s] = rows]
  BY <1>1 DEF Publishes, Publications
<1>6. published' \in Publications /\ published'[s] = rows
  BY <1>1, <1>4, <1>5 DEF Publications
<1>7. ASSUME NEW m \in Months, HasLevel(s, m)
      PROVE  rows[m] # <<>> /\ rows[m][Len(rows[m])] = BasisNow(s, m)
  <2>1. CASE RestsOn(s, m, BasisNow(s, m))
    BY <1>7, <2>1 DEF RestsOn
  <2>2. CASE ~RestsOn(s, m, BasisNow(s, m))
    <3>1. rows[m] = Append(published[s][m], BasisNow(s, m)) /\ published[s][m] \in Seq(Basis)
      BY <1>1, <1>7, <2>2 DEF Publications
    <3>2. BasisNow(s, m) \in Basis
      BY <1>3, <1>7
    <3> QED BY <3>1, <3>2, AppendProperties
  <2> QED BY <2>1, <2>2
<1> HIDE DEF rows
<1>8. Current(s)'
  BY <1>1, <1>6, <1>7 DEF Current, RestsOn, BasisNow, NewestVintage, HasLevel
<1> QED BY <1>1, <1>4, <1>5, <1>6, <1>8, OthersStayCurrent

\* A step of the run at work that does not touch the rows and keeps its series to do.
LEMMA StageKeeps ==
    ASSUME UmpiInv, NEW r \in UmpiRuns, NEW k \in UmpiRunRecord, umpiRun[r].pc # "idle",
           umpiRun' = [umpiRun EXCEPT ![r] = k], k.pc # "idle", k.todo # {}, k.todo \subseteq umpiRun[r].todo,
           UNCHANGED <<world, opsLock>>,
           observed' = observed, published' \in Publications,
           check' \in [UmpiSeries -> FreshnessState \cup {"none"}],
           mishaps' \in 0..MaxMishaps, ServedIsCurrent'
    PROVE  UmpiInv'
<1>1. /\ umpiRun \in [UmpiRuns -> UmpiRunRecord] /\ opsLock = r
      /\ \A q \in UmpiRuns \ {r} : umpiRun[q].pc = "idle"
  BY UmpiShapes, AloneAtWork DEF UmpiInv
<1>2. umpiRun' \in [UmpiRuns -> UmpiRunRecord] /\ umpiRun'[r] = k /\ \A q \in UmpiRuns \ {r} : umpiRun'[q] = umpiRun[q]
  BY <1>1
<1>3. UmpiTypeOK'
  BY <1>2 DEF UmpiInv, UmpiTypeOK, UmpiRunRecord, Publications, world
<1>4. \A q \in UmpiRuns : HoldsLock(q)'
  BY <1>1, <1>2 DEF HoldsLock
<1> QED BY <1>3, <1>4 DEF UmpiInv

\* The run stops working, and the lock goes with it.
LEMMA StopKeeps ==
    ASSUME UmpiInv, NEW r \in UmpiRuns, umpiRun[r].pc # "idle",
           umpiRun' = [umpiRun EXCEPT ![r] = Waiting], opsLock' = NoRun,
           UNCHANGED <<world, observed, published>>,
           check' \in [UmpiSeries -> FreshnessState \cup {"none"}],
           mishaps' \in 0..MaxMishaps, ServedIsCurrent'
    PROVE  UmpiInv'
<1>1. /\ umpiRun \in [UmpiRuns -> UmpiRunRecord]
      /\ \A q \in UmpiRuns \ {r} : umpiRun[q].pc = "idle"
  BY UmpiShapes, AloneAtWork DEF UmpiInv
<1>2. umpiRun' \in [UmpiRuns -> UmpiRunRecord] /\ \A q \in UmpiRuns : umpiRun'[q].pc = "idle"
  BY <1>1, WaitingShape
<1>3. UmpiTypeOK'
  BY <1>2 DEF UmpiInv, UmpiTypeOK, UmpiRunRecord, world
<1> QED BY <1>2, <1>3 DEF UmpiInv, HoldsLock

\* Nothing is behind but the series at hand, and that only while its points are to derive.
LEMMA AtHandOnly ==
    ASSUME UmpiInv, NEW r \in UmpiRuns, umpiRun[r].pc # "idle", mishaps = 0, NEW s \in UmpiSeries,
           umpiRun[r].pc = "derive" /\ umpiRun[r].moved => s # SeriesAt(r)
    PROVE  Current(s)
BY AloneAtWork DEF UmpiInv, ServedIsCurrent, Deriving

LEMMA SameRows ==
    ASSUME UNCHANGED <<based, observed, published>>, NEW s PROVE Current(s)' = Current(s)
BY DEF Current, RestsOn, BasisNow, NewestVintage, HasLevel

LEMMA SourceFailsKeeps == ASSUME UmpiInv, NEW r \in UmpiRuns, SourceFails(r) PROVE UmpiInv'
<1> DEFINE k == [umpiRun[r] EXCEPT !.pc = "record", !.reachable = FALSE, !.moved = FALSE]
<1>1. /\ umpiRun[r] \in UmpiRunRecord /\ umpiRun[r].todo # {} /\ umpiRun[r].pc = "source"
      /\ published \in Publications /\ mishaps \in 0..MaxMishaps
      /\ check \in [UmpiSeries -> FreshnessState \cup {"none"}] /\ umpiRun \in [UmpiRuns -> UmpiRunRecord]
  BY UmpiShapes DEF UmpiInv, HoldsLock, SourceFails
<1>2. k \in UmpiRunRecord /\ k.pc = "record" /\ k.todo = umpiRun[r].todo
  BY <1>1 DEF UmpiRunRecord
<1>3. /\ umpiRun' = [umpiRun EXCEPT ![r] = k]
      /\ UNCHANGED <<world, observed, published, opsLock, check, mishaps>>
  BY <1>1 DEF SourceFails, UmpiRunRecord
<1>4. ServedIsCurrent'
  BY <1>1, <1>3, AtHandOnly, SameRows DEF ServedIsCurrent, world
<1> HIDE DEF k
<1> QED BY <1>1, <1>2, <1>3, <1>4, StageKeeps

LEMMA DeriveKeeps == ASSUME UmpiInv, NEW r \in UmpiRuns, Derive(r) PROVE UmpiInv'
<1>0. PICK s \in UmpiSeries : s = SeriesAt(r)
  BY SeriesAtHand DEF UmpiInv, Derive
<1> DEFINE k == [umpiRun[r] EXCEPT !.pc = "record"]
<1>1. /\ umpiRun[r] \in UmpiRunRecord /\ umpiRun[r].todo # {} /\ umpiRun[r].pc = "derive"
      /\ published \in Publications /\ mishaps \in 0..MaxMishaps
      /\ check \in [UmpiSeries -> FreshnessState \cup {"none"}] /\ umpiRun \in [UmpiRuns -> UmpiRunRecord]
  BY UmpiShapes DEF UmpiInv, HoldsLock, Derive
<1>2. k \in UmpiRunRecord /\ k.pc = "record" /\ k.todo = umpiRun[r].todo
  BY <1>1 DEF UmpiRunRecord
<1>3. /\ umpiRun' = [umpiRun EXCEPT ![r] = k]
      /\ UNCHANGED <<world, observed, opsLock, check, mishaps>>
      /\ IF umpiRun[r].moved /\ based[s] THEN Publishes(s) ELSE UNCHANGED published
  BY <1>0 DEF Derive
<1> HIDE DEF k
<1>4. ASSUME mishaps = 0, NEW q \in UmpiSeries, q # s \/ ~umpiRun[r].moved \/ ~based[s] PROVE Current(q)
  <2>1. CASE q = s /\ ~based[s]
    BY <2>1 DEF Current
  <2> QED BY <1>0, <1>1, <1>4, <2>1, AtHandOnly
<1>5. published' \in Publications /\ ServedIsCurrent'
  <2>1. CASE umpiRun[r].moved /\ based[s]
    <3>1. UmpiTypeOK /\ Publishes(s) /\ UNCHANGED <<based, observed>>
      BY <1>3, <2>1 DEF UmpiInv, world
    <3>2. /\ published' \in Publications /\ Current(s)'
          /\ \A q \in UmpiSeries \ {s} : Current(q)' = Current(q)
      BY <1>1, <3>1, PublishedIsCurrent
    <3>3. ASSUME mishaps = 0, NEW q \in UmpiSeries PROVE Current(q)'
      <4>1. CASE q = s
        BY <3>2, <4>1
      <4>2. CASE q # s
        BY <1>4, <3>2, <3>3, <4>2
      <4> QED BY <4>1, <4>2
    <3> QED BY <1>3, <3>2, <3>3 DEF ServedIsCurrent
  <2>2. CASE ~(umpiRun[r].moved /\ based[s])
    BY <1>1, <1>3, <1>4, <2>2, SameRows DEF ServedIsCurrent, world
  <2> QED BY <2>1, <2>2
<1> QED BY <1>1, <1>2, <1>3, <1>5, StageKeeps

LEMMA DeriveFailsKeeps == ASSUME UmpiInv, NEW r \in UmpiRuns, DeriveFails(r) PROVE UmpiInv'
<1> DEFINE k == [umpiRun[r] EXCEPT !.pc = "record"]
<1>1. /\ umpiRun[r] \in UmpiRunRecord /\ umpiRun[r].todo # {} /\ umpiRun[r].pc = "derive"
      /\ published \in Publications /\ mishaps \in 0..MaxMishaps
      /\ check \in [UmpiSeries -> FreshnessState \cup {"none"}]
  BY UmpiShapes DEF UmpiInv, HoldsLock, DeriveFails
<1>2. k \in UmpiRunRecord /\ k.pc = "record" /\ k.todo = umpiRun[r].todo
  BY <1>1 DEF UmpiRunRecord
<1>3. /\ umpiRun' = [umpiRun EXCEPT ![r] = k] /\ UNCHANGED <<world, observed, published, opsLock, check>>
      /\ mishaps' \in 0..MaxMishaps /\ mishaps' # 0
  BY <1>1, UmpiAssumption DEF DeriveFails
<1>4. ServedIsCurrent'
  BY <1>3 DEF ServedIsCurrent
<1> HIDE DEF k
<1> QED BY <1>1, <1>2, <1>3, <1>4, StageKeeps

LEMMA RecordCheckKeeps == ASSUME UmpiInv, NEW r \in UmpiRuns, RecordCheck(r) PROVE UmpiInv'
<1> DEFINE left == umpiRun[r].todo \ {SeriesAt(r)}
           k == [umpiRun[r] EXCEPT !.pc = "source", !.todo = left]
<1>1. /\ umpiRun[r] \in UmpiRunRecord /\ umpiRun[r].pc = "record" /\ umpiRun \in [UmpiRuns -> UmpiRunRecord]
      /\ published \in Publications /\ mishaps \in 0..MaxMishaps /\ SeriesAt(r) \in UmpiSeries
      /\ check \in [UmpiSeries -> FreshnessState \cup {"none"}]
  BY UmpiShapes, SeriesAtHand DEF UmpiInv, RecordCheck
<1>2. Freshness(SeriesAt(r), r) \in FreshnessState
  BY DEF Freshness, FreshnessState
<1>3. check' \in [UmpiSeries -> FreshnessState \cup {"none"}] /\ UNCHANGED <<world, observed, published, mishaps>>
  BY <1>1, <1>2 DEF RecordCheck
<1>4. ServedIsCurrent'
  BY <1>1, <1>3, AtHandOnly, SameRows DEF ServedIsCurrent, world
<1>5. CASE left = {}
  BY <1>1, <1>3, <1>4, <1>5, StopKeeps DEF RecordCheck
<1>6. CASE left # {}
  <2>1. k \in UmpiRunRecord /\ k.pc = "source" /\ k.todo = left
    BY <1>1 DEF UmpiRunRecord
  <2>2. umpiRun' = [umpiRun EXCEPT ![r] = k] /\ opsLock' = opsLock
    BY <1>1, <1>6 DEF RecordCheck
  <2> HIDE DEF k
  <2> QED BY <1>1, <1>3, <1>4, <1>6, <2>1, <2>2, StageKeeps
<1> QED BY <1>5, <1>6

LEMMA UmpiDeathKeeps == ASSUME UmpiInv, NEW r \in UmpiRuns, UmpiRunDies(r) PROVE UmpiInv'
<1>1. /\ mishaps' \in 0..MaxMishaps /\ mishaps' # 0
      /\ check' \in [UmpiSeries -> FreshnessState \cup {"none"}]
  BY UmpiAssumption, UmpiShapes DEF UmpiInv, UmpiRunDies
<1>2. ServedIsCurrent'
  BY <1>1 DEF ServedIsCurrent
<1> QED BY <1>1, <1>2, StopKeeps DEF UmpiRunDies

LEMMA UmpiInductive == UmpiInv /\ [UmpiNext]_umpiVars => UmpiInv'
<1> SUFFICES ASSUME UmpiInv, [UmpiNext]_umpiVars PROVE UmpiInv'
  OBVIOUS
<1>1. CASE UNCHANGED umpiVars
  <2>1. UmpiTypeOK'
    BY <1>1 DEF umpiVars, UmpiInv, UmpiTypeOK
  <2> QED BY <1>1, <2>1, AgenciesKeep DEF umpiVars
<1>2. ASSUME NEW r \in UmpiRuns, UmpiStep(r) \/ UmpiRunDies(r) PROVE UmpiInv'
  BY <1>2, LockKeeps, SourceCheckKeeps, SourceFailsKeeps, DeriveKeeps, DeriveFailsKeeps, RecordCheckKeeps, UmpiDeathKeeps
     DEF UmpiStep
<1> QED BY <1>1, <1>2, AgencyKeeps, CalendarKeeps DEF UmpiNext

LEMMA UmpiAlways == UmpiSpec => []UmpiInv
BY UmpiInitially, UmpiInductive, PTL DEF UmpiSpec

\* The rows, the lock and the runs keep their shapes; no stored vintage is a missing figure.
THEOREM UmpiTypeCorrect == UmpiSpec => []UmpiTypeOK
BY UmpiAlways, PTL DEF UmpiInv

\* pg_try_advisory_lock and a session that ends with its process: of any number of runs only
\* the holder has work in progress.
THEOREM HolderWorks == UmpiSpec => []OnlyHolderWorks
<1>1. UmpiInv => OnlyHolderWorks
  BY DEF UmpiInv, HoldsLock, OnlyHolderWorks
<1> QED BY <1>1, UmpiAlways, PTL

\* runUmpiOperations derives what moved before it unlocks: with no run dead and no derivation
\* failed, between runs the point of every month that has a level, in a series that has its
\* base, rests on the current vintages of its two months.
THEOREM ServedBetweenRuns == UmpiSpec => []PointsRestOnCurrentVintages
<1>1. UmpiInv => PointsRestOnCurrentVintages
  BY UmpiAssumption DEF UmpiInv, HoldsLock, ServedIsCurrent, Deriving, PointsRestOnCurrentVintages
<1> QED BY <1>1, UmpiAlways, PTL

\* What a healthy answer rests on.  Agencies state their months in order; a month that was
\* passed by, a later one having been read, is one that no check reads any more; so what is
\* observed, has never been without a level and is not served is later than all that is served.
PassedBy(k) == /\ k + Lookback <= due
               /\ \A r \in UmpiRuns : umpiRun[r].pc # "idle" => k + Lookback <= umpiRun[r].due
StatedInOrder == \A s \in UmpiSeries, m, k \in Months : k < m /\ agency[s][m] # NoFigure => agency[s][k] # NoFigure
DuesPassed == \A r \in UmpiRuns : umpiRun[r].pc # "idle" => umpiRun[r].due <= due
GapsPassed == \A s \in UmpiSeries, m, k \in Months : k < m /\ observed[s][m] # <<>> /\ observed[s][k] = <<>> => PassedBy(k)
ServedObserved == \A s \in UmpiSeries, m \in Months : published[s][m] # <<>> => observed[s][m] # <<>>
UnservedLater == \A s \in UmpiSeries, m, k \in Months :
                    published[s][k] # <<>> /\ AlwaysLevel(s, m) /\ published[s][m] = <<>> => k < m
MonthsInOrder == StatedInOrder /\ DuesPassed /\ GapsPassed /\ ServedObserved /\ UnservedLater

LEMMA InOrderInitially == UmpiInit => MonthsInOrder
  BY DEF UmpiInit, MonthsInOrder, StatedInOrder, DuesPassed, GapsPassed, ServedObserved, UnservedLater, AlwaysLevel, Waiting

LEMMA UmpiNumbers ==
    /\ MaxMonth \in Nat /\ Lookback \in Nat /\ Lookback >= 1 /\ NoFigure \notin Figures
    /\ \A m \in Months : m \in Nat /\ m >= 1
  BY UmpiAssumption DEF Months

\* A step that reads and derives nothing, of runs that do not change the month they are for.
LEMMA InOrderStays ==
    ASSUME MonthsInOrder, UNCHANGED <<agency, due, observed, published>>,
           \A q \in UmpiRuns : umpiRun'[q].pc # "idle" => umpiRun[q].pc # "idle" /\ umpiRun'[q].due = umpiRun[q].due
    PROVE  MonthsInOrder'
<1>1. \A k \in Months : PassedBy(k) => PassedBy(k)'
  BY DEF PassedBy
<1>2. GapsPassed'
  BY <1>1 DEF MonthsInOrder, GapsPassed
<1> QED BY <1>2 DEF MonthsInOrder, StatedInOrder, DuesPassed, ServedObserved, UnservedLater, AlwaysLevel

LEMMA InOrderAgency ==
    ASSUME UmpiInv, MonthsInOrder, NEW s \in UmpiSeries, NEW m \in Months, AgencyPublishes(s, m) \/ AgencyRevises(s, m)
    PROVE  MonthsInOrder'
<1>1. PICK f \in Figures : agency' = [agency EXCEPT ![s][m] = f]
  BY DEF AgencyPublishes, AgencyRevises
<1>2. \A q \in UmpiSeries, j \in Months : agency'[q][j] = IF q = s /\ j = m THEN f ELSE agency[q][j]
  BY <1>1, UmpiShapes DEF UmpiInv
<1>3. \A j \in Months : j < m => agency[s][j] # NoFigure
  <2>1. CASE AgencyPublishes(s, m)
    BY <2>1, UmpiNumbers DEF AgencyPublishes
  <2>2. CASE AgencyRevises(s, m)
    BY <2>2 DEF AgencyRevises, MonthsInOrder, StatedInOrder
  <2> QED BY <2>1, <2>2
<1>4. f # NoFigure
  BY UmpiNumbers
<1>5. ASSUME NEW q \in UmpiSeries, NEW i \in Months, NEW j \in Months, j < i, agency'[q][i] # NoFigure
      PROVE  agency'[q][j] # NoFigure
  <2>1. CASE q = s /\ j = m
    BY <1>2, <1>4, <2>1
  <2>2. CASE q = s /\ i = m
    BY <1>2, <1>3, <1>4, <1>5, <2>2
  <2>3. CASE ~(q = s /\ j = m) /\ ~(q = s /\ i = m)
    BY <1>2, <1>5, <2>3 DEF MonthsInOrder, StatedInOrder
  <2> QED BY <2>1, <2>2, <2>3
<1>6. UNCHANGED <<due, observed, published, umpiRun>>
  BY DEF AgencyPublishes, AgencyRevises
<1> QED BY <1>5, <1>6 DEF MonthsInOrder, StatedInOrder, DuesPassed, GapsPassed, PassedBy, ServedObserved, UnservedLater, AlwaysLevel

LEMMA InOrderCalendar == ASSUME UmpiInv, MonthsInOrder, CalendarMoves PROVE MonthsInOrder'
<1>1. due \in Nat /\ due' \in Nat /\ due <= due' /\ UNCHANGED <<agency, observed, published, umpiRun>>
  <2>1. due \in Nat /\ (due' = due \/ due' = due + 1)
    <3>1. due \in Months
      BY UmpiShapes DEF UmpiInv
    <3> QED BY <3>1, UmpiNumbers, Zenon DEF CalendarMoves
  <2> QED BY <2>1 DEF CalendarMoves
<1>2. \A k \in Months : PassedBy(k) => PassedBy(k)'
  <2> SUFFICES ASSUME NEW k \in Months, k + Lookback <= due PROVE k + Lookback <= due'
    BY <1>1 DEF PassedBy
  <2> QED BY <1>1, UmpiNumbers
<1>3. \A r \in UmpiRuns : umpiRun[r].due \in Nat
  BY UmpiShapes, UmpiNumbers DEF UmpiInv, UmpiRunRecord
<1>4. DuesPassed'
  BY <1>1, <1>3 DEF MonthsInOrder, DuesPassed
<1>5. GapsPassed'
  BY <1>1, <1>2 DEF MonthsInOrder, GapsPassed
<1> QED BY <1>1, <1>4, <1>5 DEF MonthsInOrder, StatedInOrder, ServedObserved, UnservedLater, AlwaysLevel

LEMMA InOrderLock == ASSUME UmpiInv, MonthsInOrder, NEW r \in UmpiRuns, TakeLock(r) PROVE MonthsInOrder'
<1> DEFINE k == [Waiting EXCEPT !.pc = "source", !.todo = UmpiSeries, !.due = due, !.overdue = overdue]
<1>1. k.due = due /\ due \in Nat
  BY WaitingShape, UmpiShapes, UmpiNumbers DEF UmpiInv, UmpiRunRecord
<1>2. umpiRun' = [umpiRun EXCEPT ![r] = k] /\ UNCHANGED <<agency, due, observed, published>>
  BY DEF TakeLock, world
<1> HIDE DEF k
<1>3. \A q \in UmpiRuns : umpiRun'[q] = IF q = r THEN k ELSE umpiRun[q]
  BY <1>2, UmpiShapes DEF UmpiInv
<1>4. DuesPassed'
  BY <1>1, <1>2, <1>3 DEF MonthsInOrder, DuesPassed
<1>5. \A m \in Months : PassedBy(m) => PassedBy(m)'
  BY <1>1, <1>2, <1>3 DEF PassedBy
<1>6. GapsPassed'
  BY <1>2, <1>5 DEF MonthsInOrder, GapsPassed
<1> QED BY <1>2, <1>4, <1>6 DEF MonthsInOrder, StatedInOrder, ServedObserved, UnservedLater, AlwaysLevel

LEMMA AppendIsNotEmpty == ASSUME NEW S, NEW q \in Seq(S), NEW e \in S PROVE Append(q, e) # <<>>
  BY AppendProperties

\* What a reply adds was stated after all that was read before, or lies in the run's window.
LEMMA InOrderSource == ASSUME UmpiInv, MonthsInOrder, NEW r \in UmpiRuns, RunSource(r) PROVE MonthsInOrder'
<1>0. PICK s \in UmpiSeries : s = SeriesAt(r)
  BY SeriesAtHand DEF UmpiInv, RunSource
<1> DEFINE new == {m \in CheckWindow(r) : IsNew(s, m)}
<1>1. /\ observed \in Observations /\ umpiRun \in [UmpiRuns -> UmpiRunRecord] /\ umpiRun[r].pc = "source"
      /\ \A q \in UmpiRuns \ {r} : umpiRun[q].pc = "idle"
      /\ umpiRun[r].due \in Nat /\ due \in Nat /\ umpiRun[r].due <= due
  <2>1. umpiRun[r].due \in Months /\ due \in Months
    BY UmpiShapes DEF UmpiInv, UmpiRunRecord
  <2> QED BY <2>1, UmpiShapes, UmpiNumbers, AloneAtWork DEF UmpiInv, RunSource, MonthsInOrder, DuesPassed
<1>2. /\ UNCHANGED <<agency, due, published>>
      /\ \A q \in UmpiRuns : umpiRun'[q].pc # "idle" => q = r /\ umpiRun'[q].due = umpiRun[q].due
  BY <1>1 DEF RunSource, world, UmpiRunRecord
<1>3. \A q \in UmpiSeries, m \in Months :
         observed'[q][m] = IF q = s /\ m \in new THEN Append(observed[q][m], agency[q][m]) ELSE observed[q][m]
  BY <1>0, <1>1 DEF RunSource, Observations
<1>4. \A m \in new : m \in Months /\ m <= umpiRun[r].due /\ m + Lookback > umpiRun[r].due /\ agency[s][m] # NoFigure
  BY DEF CheckWindow, IsNew
<1>5. \A q \in UmpiSeries, m \in Months : observed[q][m] # <<>> => observed'[q][m] # <<>>
  <2>1. \A q \in UmpiSeries, m \in Months : observed[q][m] \in Seq(Figures)
    BY <1>1 DEF Observations
  <2>2. \A m \in new : agency[s][m] \in Figures
    BY <1>4, UmpiShapes DEF UmpiInv
  <2> HIDE DEF new
  <2>3. SUFFICES ASSUME NEW q \in UmpiSeries, NEW m \in Months, observed[q][m] # <<>>
                 PROVE  observed'[q][m] # <<>>
    OBVIOUS
  <2>4. CASE q = s /\ m \in new
    <3>1. Append(observed[q][m], agency[q][m]) # <<>>
      BY <2>1, <2>2, <2>4, AppendIsNotEmpty
    <3> QED BY <1>3, <2>4, <3>1
  <2>5. CASE ~(q = s /\ m \in new)
    BY <1>3, <2>3, <2>5
  <2> QED BY <2>4, <2>5
<1>6. ASSUME NEW q \in UmpiSeries, NEW m \in Months, observed'[q][m] # <<>>, observed[q][m] = <<>>
      PROVE  q = s /\ m \in new
  BY <1>3, <1>6
<1>7. ASSUME NEW k \in Months, k + Lookback <= umpiRun[r].due PROVE PassedBy(k)'
  BY <1>1, <1>2, <1>7, UmpiNumbers DEF PassedBy
<1>8. \A k \in Months : PassedBy(k) => k + Lookback <= umpiRun[r].due
  BY <1>1 DEF PassedBy
\* An unread month before one just read is not in the window.
<1>9. ASSUME NEW m \in new, NEW k \in Months, k < m, observed[s][k] = <<>>, k \notin new
      PROVE  k + Lookback <= umpiRun[r].due
  <2>1. agency[s][k] # NoFigure
    BY <1>4, <1>9 DEF MonthsInOrder, StatedInOrder
  <2>2. IsNew(s, k)
    BY <1>9, <2>1 DEF IsNew, Vintages
  <2>3. k \notin CheckWindow(r)
    BY <1>9, <2>2
  <2>4. k <= umpiRun[r].due
    BY <1>1, <1>4, <1>9, UmpiNumbers
  <2> QED BY <1>1, <2>3, <2>4, UmpiNumbers DEF CheckWindow
<1> HIDE DEF new
<1>10. GapsPassed'
  <2> SUFFICES ASSUME NEW q \in UmpiSeries, NEW m \in Months, NEW k \in Months,
                      k < m, observed'[q][m] # <<>>, observed'[q][k] = <<>>
               PROVE  PassedBy(k)'
    BY DEF GapsPassed
  <2>1. observed[q][k] = <<>>
    BY <1>5
  <2>2. CASE observed[q][m] # <<>>
    BY <1>7, <1>8, <2>1, <2>2 DEF MonthsInOrder, GapsPassed
  <2>3. CASE observed[q][m] = <<>>
    <3>1. q = s /\ m \in new
      BY <1>6, <2>3
    <3>2. k \notin new
      <4>1. SUFFICES ASSUME k \in new PROVE FALSE
        OBVIOUS
      <4>2. observed'[s][k] = Append(observed[s][k], agency[s][k])
        BY <1>3, <4>1
      <4>3. observed[s][k] \in Seq(Figures)
        BY <1>1 DEF Observations
      <4>4. agency[s][k] \in Figures
        BY <1>4, <4>1, UmpiShapes DEF UmpiInv
      <4> QED BY <3>1, <4>2, <4>3, <4>4, AppendIsNotEmpty
    <3> QED BY <1>7, <1>9, <2>1, <3>1, <3>2
  <2> QED BY <2>2, <2>3
<1>11. ServedObserved'
  BY <1>2, <1>5 DEF MonthsInOrder, ServedObserved
\* What a month held before is still among its vintages.
<1>12. ASSUME NEW q \in UmpiSeries, NEW m \in Months, AlwaysLevel(q, m)', observed[q][m] # <<>>
       PROVE  AlwaysLevel(q, m)
  <2>1. observed[q][m] \in Seq(Figures)
    BY <1>1 DEF Observations
  <2>2. CASE q = s /\ m \in new
    <3>1. observed'[q][m] = Append(observed[q][m], agency[q][m]) /\ agency[q][m] \in Figures
      <4>1. agency[s][m] \in Figures
        BY <1>4, <2>2, UmpiShapes DEF UmpiInv
      <4> QED BY <1>3, <2>2, <4>1
    <3>2. Vintages(observed[q][m]) \subseteq Vintages(observed'[q][m])
      <4>1. \A i \in DOMAIN observed[q][m] : i \in DOMAIN observed'[q][m] /\ observed'[q][m][i] = observed[q][m][i]
        BY <2>1, <3>1
      <4> QED BY <4>1 DEF Vintages
    <3> QED BY <1>12, <3>2 DEF AlwaysLevel
  <2>3. CASE ~(q = s /\ m \in new)
    BY <1>3, <1>12, <2>3 DEF AlwaysLevel
  <2> QED BY <2>2, <2>3
<1>13. UnservedLater'
  <2> SUFFICES ASSUME NEW q \in UmpiSeries, NEW m \in Months, NEW k \in Months,
                      published[q][k] # <<>>, AlwaysLevel(q, m)', published[q][m] = <<>>
               PROVE  k < m
    BY <1>2 DEF UnservedLater, AlwaysLevel
  <2>0. observed'[q][m] # <<>>
    BY DEF AlwaysLevel
  <2>1. CASE observed[q][m] # <<>>
    <3>1. AlwaysLevel(q, m)
      BY <1>12, <2>1
    <3> QED BY <3>1 DEF MonthsInOrder, UnservedLater
  <2>2. CASE observed[q][m] = <<>>
    <3>1. q = s /\ m \in new
      BY <1>6, <2>0, <2>2
    <3>2. observed[s][k] # <<>> /\ k # m
      BY <2>2, <3>1 DEF MonthsInOrder, ServedObserved
    <3>3. ~(m < k)
      <4>1. SUFFICES ASSUME m < k PROVE FALSE
        OBVIOUS
      <4>2. PassedBy(m)
        BY <2>2, <3>1, <3>2, <4>1 DEF MonthsInOrder, GapsPassed
      <4> QED BY <1>1, <1>4, <1>8, <3>1, <4>2, UmpiNumbers
    <3> QED BY <3>2, <3>3, UmpiNumbers
  <2> QED BY <2>1, <2>2
<1>14. StatedInOrder' /\ DuesPassed'
  <2>1. StatedInOrder'
    BY <1>2 DEF MonthsInOrder, StatedInOrder
  <2>2. DuesPassed'
    BY <1>1, <1>2 DEF DuesPassed
  <2> QED BY <2>1, <2>2
<1> QED BY <1>10, <1>11, <1>13, <1>14 DEF MonthsInOrder

\* Every month of the series that has a level gets a point.
LEMMA AlwaysHasLevel ==
    ASSUME UmpiTypeOK, NEW s \in UmpiSeries, NEW m \in Months, AlwaysLevel(s, m) PROVE HasLevel(s, m)
<1>1. observed[s][m] \in Seq(Figures) /\ observed[s][m] # <<>>
  BY UmpiShapes DEF Observations, AlwaysLevel
<1>2. Len(observed[s][m]) \in DOMAIN observed[s][m]
  BY <1>1, EmptySeq
<1> QED BY <1>1, <1>2 DEF AlwaysLevel, HasLevel, Vintages

LEMMA InOrderDerive == ASSUME UmpiInv, MonthsInOrder, NEW r \in UmpiRuns, Derive(r) PROVE MonthsInOrder'
<1>0. PICK s \in UmpiSeries : s = SeriesAt(r)
  BY SeriesAtHand DEF UmpiInv, Derive
<1>1. /\ umpiRun \in [UmpiRuns -> UmpiRunRecord] /\ published \in Publications /\ UmpiTypeOK
      /\ UNCHANGED <<based, agency, due, observed>>
      /\ umpiRun' = [umpiRun EXCEPT ![r].pc = "record"] /\ umpiRun[r].pc = "derive"
  BY UmpiShapes DEF UmpiInv, Derive, world
<1>2. \A q \in UmpiRuns : umpiRun'[q].pc # "idle" => umpiRun[q].pc # "idle" /\ umpiRun'[q].due = umpiRun[q].due
  BY <1>1 DEF UmpiRunRecord
<1>3. CASE ~(umpiRun[r].moved /\ based[s])
  BY <1>0, <1>1, <1>2, <1>3, InOrderStays DEF Derive
<1>4. CASE umpiRun[r].moved /\ based[s]
  <2>1. Publishes(s)
    BY <1>0, <1>4 DEF Derive
  <2>2. \A q \in UmpiSeries \ {s} : published'[q] = published[q]
    BY <1>1, <2>1 DEF Publishes, Publications
  <2>3. /\ \A m \in Months : HasLevel(s, m) => published'[s][m] # <<>>
        /\ \A m \in Months : ~HasLevel(s, m) => published'[s][m] = published[s][m]
    <3>1. Current(s)' /\ based'[s]
      BY <1>1, <1>4, <2>1, PublishedIsCurrent
    <3>2. \A m \in Months : published'[s][m] =
             IF ~HasLevel(s, m) \/ RestsOn(s, m, BasisNow(s, m)) THEN published[s][m]
             ELSE Append(published[s][m], BasisNow(s, m))
      BY <1>1, <2>1 DEF Publishes, Publications
    <3>3. \A m \in Months : HasLevel(s, m) => published'[s][m] # <<>>
      BY <1>1, <3>1 DEF Current, RestsOn, HasLevel
    <3> QED BY <3>2, <3>3
  <2>4. ServedObserved' /\ UnservedLater'
    <3>1. ServedObserved'
      BY <1>1, <2>2, <2>3 DEF MonthsInOrder, ServedObserved, HasLevel
    <3>2. ASSUME NEW q \in UmpiSeries, NEW m \in Months, NEW k \in Months,
                 published'[q][k] # <<>>, AlwaysLevel(q, m), published'[q][m] = <<>>
          PROVE  k < m
      <4>1. q # s
        BY <1>1, <2>3, <3>2, AlwaysHasLevel
      <4> QED BY <2>2, <3>2, <4>1 DEF MonthsInOrder, UnservedLater
    <3> QED BY <1>1, <3>1, <3>2 DEF UnservedLater, AlwaysLevel
  <2>5. \A k \in Months : PassedBy(k) => PassedBy(k)'
    BY <1>1, <1>2 DEF PassedBy
  <2>6. GapsPassed'
    BY <1>1, <2>5 DEF MonthsInOrder, GapsPassed
  <2> QED BY <1>1, <1>2, <2>4, <2>6 DEF MonthsInOrder, StatedInOrder, DuesPassed
<1> QED BY <1>3, <1>4

\* A run that goes on without reading or deriving, or stops.
LEMMA InOrderGoesOn ==
    ASSUME UmpiInv, MonthsInOrder, NEW r \in UmpiRuns,
           SourceFails(r) \/ DeriveFails(r) \/ RecordCheck(r) \/ UmpiRunDies(r)
    PROVE  MonthsInOrder'
<1>1. umpiRun \in [UmpiRuns -> UmpiRunRecord] /\ umpiRun[r].pc # "idle" /\ Waiting.pc = "idle"
  BY UmpiShapes, WaitingShape DEF UmpiInv, SourceFails, DeriveFails, RecordCheck, UmpiRunDies
<1>2. UNCHANGED <<agency, due, observed, published>>
  BY DEF SourceFails, DeriveFails, RecordCheck, UmpiRunDies, world
<1>3. \A q \in UmpiRuns : umpiRun'[q].pc # "idle" => umpiRun[q].pc # "idle" /\ umpiRun'[q].due = umpiRun[q].due
  <2>1. CASE SourceFails(r)
    BY <1>1, <2>1 DEF SourceFails, UmpiRunRecord
  <2>2. CASE DeriveFails(r)
    BY <1>1, <2>2 DEF DeriveFails, UmpiRunRecord
  <2>3. CASE RecordCheck(r)
    BY <1>1, <2>3 DEF RecordCheck, UmpiRunRecord
  <2>4. CASE UmpiRunDies(r)
    BY <1>1, <2>4 DEF UmpiRunDies
  <2> QED BY <2>1, <2>2, <2>3, <2>4
<1> QED BY <1>2, <1>3, InOrderStays

LEMMA InOrderInductive == UmpiInv /\ MonthsInOrder /\ [UmpiNext]_umpiVars => MonthsInOrder'
<1> SUFFICES ASSUME UmpiInv, MonthsInOrder, [UmpiNext]_umpiVars PROVE MonthsInOrder'
  OBVIOUS
<1>1. CASE UNCHANGED umpiVars
  BY <1>1, InOrderStays DEF umpiVars
<1>2. ASSUME NEW r \in UmpiRuns, UmpiStep(r) \/ UmpiRunDies(r) PROVE MonthsInOrder'
  BY <1>2, InOrderLock, InOrderSource, InOrderDerive, InOrderGoesOn DEF UmpiStep
<1> QED BY <1>1, <1>2, InOrderAgency, InOrderCalendar DEF UmpiNext

LEMMA InOrderAlways == UmpiSpec => [](UmpiInv /\ MonthsInOrder)
BY UmpiInitially, UmpiInductive, InOrderInitially, InOrderInductive, PTL DEF UmpiSpec

\* A bounded set of naturals has a greatest.
LEMMA HasGreatestMonth ==
    ASSUME NEW n \in Nat, NEW K, K \subseteq 0..n, K # {}
    PROVE  \E j \in K : \A i \in K : i <= j
<1> DEFINE T == {n - j : j \in K}
<1>0. \A i \in K : i \in Nat /\ n - i \in Nat
  OBVIOUS
<1>1. T \subseteq Nat /\ T # {}
  BY <1>0
<1>2. PICK x \in T : \A y \in T : ~(<<y, x>> \in OpToRel(<, Nat))
  BY <1>1, NatLessThanWellFounded, WFMin
<1>3. \A y \in T : ~(y < x)
  BY <1>1, <1>2 DEF OpToRel
<1>4. PICK j \in K : x = n - j
  OBVIOUS
<1>5. ASSUME NEW i \in K PROVE i <= j
  <2>1. ~(n - i < n - j)
    BY <1>3, <1>4
  <2>2. i \in Nat /\ j \in Nat /\ n \in Nat
    BY <1>0
  <2> QED BY <2>1, <2>2
<1> QED BY <1>5

\* The newest month of some rows, if any month has rows.
LEMMA NewestIsNewest ==
    ASSUME NEW S, NEW rows \in [Months -> Seq(S)]
    PROVE  /\ NewestMonth(rows) \in 0..MaxMonth
           /\ NewestMonth(rows) > 0 => NewestMonth(rows) \in Months /\ rows[NewestMonth(rows)] # <<>>
           /\ \A m \in Months : rows[m] # <<>> => m <= NewestMonth(rows)
<1> DEFINE K == {0} \cup {m \in Months : rows[m] # <<>>}
           IsIt(m) == (m > 0 => rows[m] # <<>>) /\ \A k \in (m + 1)..MaxMonth : rows[k] = <<>>
<1>1. K \subseteq 0..MaxMonth /\ 0 \in K
  BY UmpiNumbers DEF Months
<1>2. PICK j \in K : \A i \in K : i <= j
  <2> HIDE DEF K
  <2> QED BY <1>1, UmpiNumbers, HasGreatestMonth
<1>3. j \in 0..MaxMonth /\ IsIt(j)
  BY <1>1, <1>2, UmpiNumbers DEF Months
<1>4. NewestMonth(rows) = CHOOSE m \in 0..MaxMonth : IsIt(m)
  BY DEF NewestMonth
<1>5. NewestMonth(rows) \in 0..MaxMonth /\ IsIt(NewestMonth(rows))
  <2> HIDE DEF IsIt
  <2> QED BY <1>3, <1>4
<1> DEFINE n == NewestMonth(rows)
<1> HIDE DEF n
<1>6. n \in 0..MaxMonth /\ (n > 0 => rows[n] # <<>>) /\ \A k \in (n + 1)..MaxMonth : rows[k] = <<>>
  BY <1>5 DEF n
<1>7. \A m \in Months : rows[m] # <<>> => m <= n
  BY <1>6, UmpiNumbers DEF Months
<1> QED BY <1>6, <1>7, UmpiNumbers DEF n, Months

\* A check that calls its series healthy leaves no month that was ingested, and has a level in
\* all its vintages, unserved, whatever derivation failed, was blocked or died before it, and
\* however long ago (evaluateFreshness).
THEOREM HealthyIsServed == UmpiSpec => HealthyMeansServed
<1>1. ASSUME UmpiInv, MonthsInOrder, NEW r \in UmpiRuns, NEW s \in UmpiSeries,
             RecordCheck(r), s = SeriesAt(r), check'[s] \in Healthy, NEW m \in Months, AlwaysLevel(s, m)
      PROVE  published[s][m] # <<>>
  <2>1. /\ observed[s] \in [Months -> Seq(Figures)] /\ published[s] \in [Months -> Seq(Basis)]
        /\ check \in [UmpiSeries -> FreshnessState \cup {"none"}]
    BY <1>1, UmpiShapes DEF UmpiInv, Observations, Publications
  <2>2. Freshness(s, r) \in Healthy
    BY <1>1, <2>1 DEF RecordCheck
  <2> DEFINE stored == NewestMonth(observed[s])
             served == NewestMonth(published[s])
  <2>3. ~(stored > served)
    BY <2>2 DEF Freshness, Healthy
  <2>4. stored \in 0..MaxMonth /\ m <= stored
    BY <1>1, <2>1, NewestIsNewest DEF AlwaysLevel
  <2>5. served \in 0..MaxMonth /\ (served > 0 => served \in Months /\ published[s][served] # <<>>)
    BY <2>1, NewestIsNewest
  <2> HIDE DEF stored, served
  <2>6. served > 0 /\ m <= served
    BY <2>3, <2>4, <2>5, UmpiNumbers
  <2>7. SUFFICES ASSUME published[s][m] = <<>> PROVE FALSE
    OBVIOUS
  <2>8. served < m
    BY <1>1, <2>5, <2>6, <2>7 DEF MonthsInOrder, UnservedLater
  <2> QED BY <2>5, <2>6, <2>8, UmpiNumbers
<1>2. UmpiInv /\ MonthsInOrder /\ [UmpiNext]_umpiVars =>
        [\A r \in UmpiRuns, s \in UmpiSeries :
           RecordCheck(r) /\ s = SeriesAt(r) /\ check'[s] \in Healthy =>
             \A m \in Months : AlwaysLevel(s, m) => published[s][m] # <<>>]_umpiVars
  BY <1>1
<1> QED BY <1>2, InOrderAlways, PTL DEF UmpiSpec, HealthyMeansServed

-----------------------------------------------------------------------------
(* The electricity price run. *)

UepiRunRecord == [pc : {"idle", "look", "fetch", "store", "report"}, market : Market, day : Days, to : Days,
              file : File, attempt : 1..Attempts, given : BOOLEAN, client : BOOLEAN, own : BOOLEAN,
              alone : BOOLEAN, unread : SUBSET Slots, unwritten : SUBSET Slots, held : SUBSET Slots,
              dropped : 0..MaxDrops]
Releases == [Slots -> 0..MaxEditions]

\* What holds of one run's record, `rel` being what is released.
SlotOf(run) == <<run.market, run.day>>
Placed(run) == /\ WindowStart(run.to) <= run.day /\ run.day <= run.to
               /\ run.pc = "store" => run.file.edition > 0
Passed(run, s) == run.pc = "report" \/ s[1] < run.market \/ (s[1] = run.market /\ s[2] < run.day)
Accounted(run, rel, s) == rel[s] > 0 \/ s \in run.unread \cup run.held \cup run.unwritten
Accounts(run, rel) == \A s \in Market \X (WindowStart(run.to)..run.to) : Passed(run, s) => Accounted(run, rel, s)
Spares(run, rel) == run.alone => /\ run.pc = "fetch" => rel[SlotOf(run)] = 0
                                 /\ run.pc = "store" => rel[SlotOf(run)] \in {0, run.file.edition}
AtWork(run, rel) == run.pc # "idle" => Placed(run) /\ Accounts(run, rel) /\ Spares(run, rel)

Solitary == \A r, q \in UepiRuns : Running(r) /\ Running(q) /\ uepiRun[r].alone => q = r

UepiInv == /\ UepiTypeOK
           /\ \A r \in UepiRuns : AtWork(uepiRun[r], released) /\ uepiRun[r].dropped <= drops
           /\ Solitary

LEMMA UepiShapes ==
    ASSUME UepiTypeOK
    PROVE  /\ today \in Days /\ file \in [Slots -> File] /\ released \in Releases
           /\ uepiRun \in [UepiRuns -> UepiRunRecord] /\ drops \in 0..MaxDrops
BY DEF UepiTypeOK, UepiRunRecord, Releases

LEMMA UepiBounds ==
    /\ LastDay \in Nat /\ 1 <= LastDay /\ Trailing \in Nat /\ Attempts \in Nat /\ 1 <= Attempts
    /\ MaxDrops \in Nat /\ MaxEditions \in Nat /\ Hours \in Nat
    /\ Len(Markets) \in Nat /\ 1 <= Len(Markets) /\ Market = 1..Len(Markets)
<1>1. Len(Markets) \in Nat /\ Len(Markets) # 0 /\ Market = 1..Len(Markets)
  BY UepiAssumption, LenProperties, EmptySeq DEF Market
<1> QED BY <1>1, UepiAssumption

LEMMA WindowStartIsADay == ASSUME NEW to \in Days PROVE WindowStart(to) \in Days /\ WindowStart(to) <= to
BY UepiBounds DEF WindowStart, Days

LEMMA AsleepShape == Asleep \in UepiRunRecord /\ Asleep.pc = "idle" /\ Asleep.dropped = 0
<1>1. NoFile \in File
  BY UepiBounds DEF NoFile, File
<1> QED BY <1>1, UepiBounds DEF Asleep, UepiRunRecord, Days, Slots

LEMMA UepiInitially == UepiInit => UepiInv
<1> SUFFICES ASSUME UepiInit PROVE UepiInv
  OBVIOUS
<1>1. uepiRun \in [UepiRuns -> UepiRunRecord] /\ \A r \in UepiRuns : uepiRun[r] = Asleep
  BY AsleepShape DEF UepiInit
<1>2. UepiTypeOK
  <2>1. NoFile \in File /\ 1 \in Days /\ 0 \in 0..MaxEditions /\ 0 \in 0..MaxDrops
    BY UepiBounds DEF NoFile, File, Days
  <2> QED BY <1>1, <2>1 DEF UepiInit, UepiTypeOK, UepiRunRecord
<1> QED BY <1>1, <1>2, AsleepShape DEF UepiInit, UepiInv, AtWork, Solitary, Running

\* The day in hand being accounted for, so is every day before the next.
LEMMA AfterIsAtWork ==
    ASSUME NEW run \in UepiRunRecord, NEW rel \in Releases, Placed(run), Accounts(run, rel),
           run.pc # "report", Accounted(run, rel, SlotOf(run))
    PROVE  /\ After(run) \in UepiRunRecord /\ After(run).pc # "idle" /\ AtWork(After(run), rel)
           /\ After(run).alone = run.alone /\ After(run).dropped = run.dropped
<1> DEFINE k == After(run)
<1>1. NoFile \in File /\ WindowStart(run.to) \in Days /\ WindowStart(run.to) <= run.to
  BY UepiBounds, WindowStartIsADay DEF NoFile, File, UepiRunRecord
<1>2. run.day \in Nat /\ run.to \in Nat /\ run.market \in Nat /\ run.to <= LastDay /\ run.day <= run.to
      /\ run.market <= Len(Markets) /\ LastDay \in Nat /\ 1 <= run.day /\ WindowStart(run.to) \in Nat
  BY UepiBounds, <1>1 DEF UepiRunRecord, Days, Placed
<1>3. /\ k.to = run.to /\ k.unread = run.unread /\ k.held = run.held /\ k.unwritten = run.unwritten
      /\ k.alone = run.alone /\ k.dropped = run.dropped /\ k.pc \in {"look", "report"}
  BY DEF After, UepiRunRecord
<1>4. k \in UepiRunRecord
  <2>1. CASE run.day < run.to
    <3>1. run.day + 1 \in Days /\ 1 \in 1..Attempts
      BY <1>2, <2>1, UepiBounds DEF Days
    <3>2. k = [run EXCEPT !.pc = "look", !.day = run.day + 1, !.file = NoFile, !.attempt = 1]
      BY <2>1 DEF After, UepiRunRecord
    <3> QED BY <1>1, <3>1, <3>2 DEF UepiRunRecord
  <2>2. CASE ~(run.day < run.to) /\ run.market < Len(Markets)
    <3>1. run.market + 1 \in Market /\ 1 \in 1..Attempts
      BY <1>2, <2>2, UepiBounds
    <3>2. k = [run EXCEPT !.pc = "look", !.market = run.market + 1, !.day = WindowStart(run.to),
                          !.file = NoFile, !.attempt = 1, !.client = run.given, !.own = FALSE]
      BY <2>2 DEF After, UepiRunRecord
    <3> QED BY <1>1, <3>1, <3>2 DEF UepiRunRecord
  <2>3. CASE ~(run.day < run.to) /\ ~(run.market < Len(Markets))
    <3>1. k = [run EXCEPT !.pc = "report", !.file = NoFile, !.attempt = 1] /\ 1 \in 1..Attempts
      BY <2>3, UepiBounds DEF After, UepiRunRecord
    <3> QED BY <1>1, <3>1 DEF UepiRunRecord
  <2> QED BY <2>1, <2>2, <2>3
<1>5. Placed(k)
  BY <1>1, <1>2, <1>3 DEF After, Placed, UepiRunRecord
<1>6. ASSUME NEW s \in Market \X (WindowStart(run.to)..run.to), Passed(k, s) PROVE Passed(run, s) \/ s = SlotOf(run)
  <2>1. s = <<s[1], s[2]>> /\ s[1] \in 1..Len(Markets) /\ s[2] \in WindowStart(run.to)..run.to
    BY UepiBounds
  <2>5. s[1] \in Nat /\ s[1] <= Len(Markets) /\ s[2] \in Nat /\ s[2] <= run.to /\ WindowStart(run.to) <= s[2]
    BY <1>1, <1>2, <2>1, UepiBounds
  <2>2. CASE run.day < run.to
    <3>1. k.pc = "look" /\ k.market = run.market /\ k.day = run.day + 1
      BY <2>2 DEF After, UepiRunRecord
    <3> QED BY <1>2, <1>6, <2>1, <3>1 DEF Passed, SlotOf
  <2>3. CASE ~(run.day < run.to) /\ run.market < Len(Markets)
    <3>1. k.pc = "look" /\ k.market = run.market + 1 /\ k.day = WindowStart(run.to)
      BY <2>3 DEF After, UepiRunRecord
    <3> QED BY <1>2, <1>6, <2>1, <2>3, <3>1 DEF Passed, SlotOf
  <2>4. CASE ~(run.day < run.to) /\ ~(run.market < Len(Markets))
    BY <1>2, <2>1, <2>4, UepiBounds DEF Passed, SlotOf
  <2> QED BY <2>2, <2>3, <2>4
<1>7. Accounts(k, rel)
  BY <1>3, <1>6 DEF Accounts, Accounted
<1>8. Spares(k, rel)
  BY <1>3 DEF Spares
<1> QED BY <1>3, <1>4, <1>5, <1>7, <1>8 DEF AtWork

\* A step of one run, that releases at most the day it is at.
LEMMA UepiStepKeeps ==
    ASSUME UepiInv, NEW r \in UepiRuns, NEW k \in UepiRunRecord, Running(r),
           uepiRun' = [uepiRun EXCEPT ![r] = k],
           k.pc # "idle" => k.alone = uepiRun[r].alone,
           AtWork(k, released'),
           UNCHANGED <<today, file>>, released' \in Releases,
           \A s \in Slots : released[s] > 0 => released'[s] > 0,
           drops' \in 0..MaxDrops, drops <= drops', k.dropped <= drops'
    PROVE  UepiInv'
<1>1. /\ uepiRun \in [UepiRuns -> UepiRunRecord] /\ released \in Releases /\ drops \in 0..MaxDrops
  BY UepiShapes DEF UepiInv
<1>2. /\ uepiRun' \in [UepiRuns -> UepiRunRecord] /\ uepiRun'[r] = k
      /\ \A q \in UepiRuns \ {r} : uepiRun'[q] = uepiRun[q]
  BY <1>1
<1>3. UepiTypeOK'
  BY <1>2 DEF UepiInv, UepiTypeOK, UepiRunRecord, Releases
<1>4. ASSUME NEW q \in UepiRuns PROVE AtWork(uepiRun[q], released)' /\ (uepiRun[q].dropped <= drops)'
  <2>1. CASE q = r
    BY <1>2, <2>1
  <2>2. CASE q # r
    <3>1. uepiRun'[q] = uepiRun[q] /\ uepiRun[q] \in UepiRunRecord /\ AtWork(uepiRun[q], released)
          /\ uepiRun[q].dropped <= drops
      BY <1>1, <1>2, <2>2 DEF UepiInv
    <3>2. uepiRun[q].dropped \in Nat /\ drops \in Nat /\ drops' \in Nat
      BY <1>1, <3>1, UepiBounds DEF UepiRunRecord
    <3>3. ASSUME Accounts(uepiRun[q], released) PROVE Accounts(uepiRun[q], released')
      <4>1. Market \X (WindowStart(uepiRun[q].to)..uepiRun[q].to) \subseteq Slots
        <5>1. uepiRun[q].to \in Days
          BY <3>1 DEF UepiRunRecord
        <5>2. WindowStart(uepiRun[q].to) \in Days
          BY <5>1, WindowStartIsADay
        <5> QED BY <5>1, <5>2, UepiBounds DEF Slots, Days
      <4> SUFFICES ASSUME NEW s \in Market \X (WindowStart(uepiRun[q].to)..uepiRun[q].to), Passed(uepiRun[q], s)
                   PROVE  Accounted(uepiRun[q], released', s)
        BY Zenon DEF Accounts
      <4>2. Accounted(uepiRun[q], released, s) /\ s \in Slots
        BY <3>3, <4>1, Zenon DEF Accounts
      <4> QED BY <4>2 DEF Accounted
    <3>4. ASSUME uepiRun[q].pc # "idle", Spares(uepiRun[q], released) PROVE Spares(uepiRun[q], released')
      <4>1. ~uepiRun[q].alone
        BY <2>2, <3>4 DEF UepiInv, Solitary, Running
      <4> QED BY <4>1 DEF Spares
    <3>5. AtWork(uepiRun[q], released')
      BY <3>1, <3>3, <3>4 DEF AtWork
    <3>6. uepiRun[q].dropped <= drops'
      BY <3>1, <3>2
    <3> QED BY <3>1, <3>5, <3>6
  <2> QED BY <2>1, <2>2
<1>5. Solitary'
  BY <1>2 DEF UepiInv, Solitary, Running
<1> QED BY <1>3, <1>4, <1>5 DEF UepiInv

\* The day in hand is left, accounted for.
LEMMA LeavesKeeps ==
    ASSUME UepiInv, NEW r \in UepiRuns, NEW run \in UepiRunRecord, Running(r), uepiRun[r].pc # "report",
           run.pc = uepiRun[r].pc, run.market = uepiRun[r].market, run.day = uepiRun[r].day,
           run.to = uepiRun[r].to, run.file = uepiRun[r].file, run.alone = uepiRun[r].alone,
           run.dropped = uepiRun[r].dropped,
           uepiRun[r].unread \subseteq run.unread, uepiRun[r].held \subseteq run.held,
           uepiRun[r].unwritten \subseteq run.unwritten,
           Leaves(r, run), UNCHANGED <<today, file>>, released' \in Releases,
           \A s \in Slots : released[s] > 0 => released'[s] > 0,
           Accounted(run, released', SlotOf(run)), drops' \in 0..MaxDrops, drops <= drops'
    PROVE  UepiInv'
<1>1. /\ AtWork(uepiRun[r], released) /\ uepiRun[r].pc # "idle" /\ uepiRun[r] \in UepiRunRecord
      /\ uepiRun[r].dropped <= drops /\ drops \in 0..MaxDrops
  BY UepiShapes DEF UepiInv, Running
<1>2. Placed(run)
  BY <1>1 DEF AtWork, Placed
<1>3. Accounts(run, released')
  <2>1. run.to \in Days /\ WindowStart(run.to) \in Days
    BY WindowStartIsADay DEF UepiRunRecord
  <2>2. Market \X (WindowStart(run.to)..run.to) \subseteq Slots
    BY <2>1, UepiBounds DEF Slots, Days
  <2> SUFFICES ASSUME NEW s \in Market \X (WindowStart(run.to)..run.to), Passed(run, s)
               PROVE  Accounted(run, released', s)
    BY Zenon DEF Accounts
  <2>3. Accounted(uepiRun[r], released, s) /\ s \in Slots
    BY <1>1, <2>2 DEF AtWork, Accounts, Passed
  <2> QED BY <2>3 DEF Accounted
<1>4. /\ After(run) \in UepiRunRecord /\ After(run).pc # "idle" /\ AtWork(After(run), released')
      /\ After(run).alone = run.alone /\ After(run).dropped = run.dropped
  BY <1>2, <1>3, AfterIsAtWork
<1>5. After(run).dropped <= drops'
  BY <1>1, <1>4, UepiBounds DEF UepiRunRecord
<1>6. uepiRun' = [uepiRun EXCEPT ![r] = After(run)]
  BY DEF Leaves
<1> QED BY <1>4, <1>5, <1>6, UepiStepKeeps

\* A step that stays at its day, and releases nothing.
LEMMA StaysKeeps ==
    ASSUME UepiInv, NEW r \in UepiRuns, NEW k \in UepiRunRecord, Running(r),
           uepiRun[r].pc # "report", k.pc \in {"look", "fetch", "store"},
           k.market = uepiRun[r].market, k.day = uepiRun[r].day,
           k.to = uepiRun[r].to, k.alone = uepiRun[r].alone,
           k.unread = uepiRun[r].unread, k.held = uepiRun[r].held, k.unwritten = uepiRun[r].unwritten,
           k.pc = "store" => k.file.edition > 0, Spares(k, released'), k.dropped <= drops',
           uepiRun' = [uepiRun EXCEPT ![r] = k], UNCHANGED <<today, file>>, released' \in Releases,
           \A s \in Slots : released[s] > 0 => released'[s] > 0,
           drops' \in 0..MaxDrops, drops <= drops'
    PROVE  UepiInv'
<1>1. AtWork(uepiRun[r], released) /\ uepiRun[r].pc # "idle" /\ uepiRun[r] \in UepiRunRecord
  BY UepiShapes DEF UepiInv, Running
<1>2. Placed(k)
  BY <1>1 DEF AtWork, Placed
<1>3. Accounts(k, released')
  <2>1. k.to \in Days /\ WindowStart(k.to) \in Days
    BY WindowStartIsADay DEF UepiRunRecord
  <2>2. Market \X (WindowStart(k.to)..k.to) \subseteq Slots
    BY <2>1, UepiBounds DEF Slots, Days
  <2> SUFFICES ASSUME NEW s \in Market \X (WindowStart(k.to)..k.to), Passed(k, s)
               PROVE  Accounted(k, released', s)
    BY Zenon DEF Accounts
  <2>3. Accounted(uepiRun[r], released, s) /\ s \in Slots
    BY <1>1, <2>2 DEF AtWork, Accounts, Passed
  <2> QED BY <2>3 DEF Accounted
<1>4. AtWork(k, released')
  BY <1>2, <1>3 DEF AtWork
<1> QED BY <1>4, UepiStepKeeps

LEMMA HereIsASlot ==
    ASSUME UepiTypeOK, NEW r \in UepiRuns
    PROVE  Here(r) = SlotOf(uepiRun[r]) /\ Here(r) \in Slots
<1>1. uepiRun[r].market \in Market /\ uepiRun[r].day \in Days
  BY UepiShapes DEF UepiRunRecord
<1> QED BY <1>1 DEF Here, SlotOf, Slots

LEMMA LookKeeps == ASSUME UepiInv, NEW r \in UepiRuns, Look(r) PROVE UepiInv'
<1> DEFINE k == [uepiRun[r] EXCEPT !.unwritten = @ \cup {Here(r)}]
           f == [uepiRun[r] EXCEPT !.pc = "fetch"]
<1>1. /\ uepiRun[r] \in UepiRunRecord /\ Here(r) \in Slots /\ Here(r) = SlotOf(uepiRun[r]) /\ uepiRun[r].pc = "look"
      /\ released \in Releases /\ drops \in 0..MaxDrops /\ uepiRun[r].dropped <= drops
      /\ uepiRun \in [UepiRuns -> UepiRunRecord]
  BY UepiShapes, HereIsASlot DEF UepiInv, Look
<1>2. Running(r) /\ UNCHANGED <<today, file, released, drops>> /\ drops <= drops'
  BY <1>1, UepiBounds DEF Look, Running
<1>3. CASE ~uepiRun[r].client
  <2>1. k \in UepiRunRecord /\ Accounted(k, released', SlotOf(k)) /\ Leaves(r, k)
    BY <1>1, <1>3 DEF Look, UepiRunRecord, Accounted, SlotOf
  <2>2. /\ k.pc = uepiRun[r].pc /\ k.market = uepiRun[r].market /\ k.day = uepiRun[r].day
        /\ k.to = uepiRun[r].to /\ k.file = uepiRun[r].file /\ k.alone = uepiRun[r].alone
        /\ k.dropped = uepiRun[r].dropped /\ uepiRun[r].unread \subseteq k.unread
        /\ uepiRun[r].held \subseteq k.held /\ uepiRun[r].unwritten \subseteq k.unwritten
    BY <1>1 DEF UepiRunRecord
  <2> HIDE DEF k
  <2> QED BY <1>1, <1>2, <2>1, <2>2, LeavesKeeps
<1>4. CASE uepiRun[r].client /\ released[Here(r)] > 0
  BY <1>1, <1>2, <1>4, LeavesKeeps DEF Look, Accounted
<1>5. CASE uepiRun[r].client /\ ~(released[Here(r)] > 0)
  <2>1. uepiRun' = [uepiRun EXCEPT ![r] = f]
    BY <1>1, <1>5 DEF Look
  <2>2. released[Here(r)] = 0
    BY <1>1, <1>5, UepiBounds DEF Releases
  <2>3. f \in UepiRunRecord /\ Spares(f, released)
    BY <1>1, <2>2 DEF UepiRunRecord, Spares, SlotOf
  <2>4. /\ f.pc = "fetch" /\ f.market = uepiRun[r].market /\ f.day = uepiRun[r].day
        /\ f.to = uepiRun[r].to /\ f.alone = uepiRun[r].alone /\ f.dropped = uepiRun[r].dropped
        /\ f.unread = uepiRun[r].unread /\ f.held = uepiRun[r].held /\ f.unwritten = uepiRun[r].unwritten
    BY <1>1 DEF UepiRunRecord
  <2> HIDE DEF f
  <2> QED BY <1>1, <1>2, <2>1, <2>3, <2>4, StaysKeeps
<1> QED BY <1>3, <1>4, <1>5

\* What a leaf of the next lemmas needs of the run at hand.
LEMMA AtItsSlot ==
    ASSUME UepiInv, NEW r \in UepiRuns, Running(r)
    PROVE  /\ uepiRun[r] \in UepiRunRecord /\ Here(r) \in Slots /\ Here(r) = SlotOf(uepiRun[r])
           /\ released \in Releases /\ drops \in 0..MaxDrops /\ uepiRun[r].dropped <= drops
           /\ uepiRun \in [UepiRuns -> UepiRunRecord] /\ file \in [Slots -> File]
           /\ Placed(uepiRun[r]) /\ Spares(uepiRun[r], released) /\ drops <= drops
           /\ uepiRun[r].file.edition \in 0..MaxEditions
<1>1. drops <= drops
  BY UepiShapes, UepiBounds DEF UepiInv
<1> QED BY <1>1, UepiShapes, HereIsASlot DEF UepiInv, Running, AtWork, UepiRunRecord, File

\* The day is named in the report.
LEMMA NamedKeeps ==
    ASSUME UepiInv, NEW r \in UepiRuns, uepiRun[r].pc \in {"look", "fetch", "store"},
           \/ Leaves(r, [uepiRun[r] EXCEPT !.unread = @ \cup {Here(r)}])
           \/ Leaves(r, [uepiRun[r] EXCEPT !.held = @ \cup {Here(r)}])
           \/ Leaves(r, [uepiRun[r] EXCEPT !.unwritten = @ \cup {Here(r)}]),
           UNCHANGED <<today, file, released>>, drops' \in 0..MaxDrops, drops <= drops'
    PROVE  UepiInv'
<1>1. Running(r) /\ uepiRun[r].pc # "report"
  BY DEF Running
<1>2. PICK k \in UepiRunRecord :
        /\ Leaves(r, k) /\ Accounted(k, released', SlotOf(k))
        /\ k.pc = uepiRun[r].pc /\ k.market = uepiRun[r].market /\ k.day = uepiRun[r].day
        /\ k.to = uepiRun[r].to /\ k.file = uepiRun[r].file /\ k.alone = uepiRun[r].alone
        /\ k.dropped = uepiRun[r].dropped /\ uepiRun[r].unread \subseteq k.unread
        /\ uepiRun[r].held \subseteq k.held /\ uepiRun[r].unwritten \subseteq k.unwritten
  <2>1. uepiRun[r] \in UepiRunRecord /\ Here(r) \in Slots /\ Here(r) = SlotOf(uepiRun[r])
    BY <1>1, AtItsSlot
  <2>2. CASE Leaves(r, [uepiRun[r] EXCEPT !.unread = @ \cup {Here(r)}])
    <3> DEFINE k == [uepiRun[r] EXCEPT !.unread = @ \cup {Here(r)}]
    <3>1. k \in UepiRunRecord /\ Accounted(k, released', SlotOf(k))
      BY <2>1 DEF UepiRunRecord, Accounted, SlotOf
    <3>2. /\ k.pc = uepiRun[r].pc /\ k.market = uepiRun[r].market /\ k.day = uepiRun[r].day
          /\ k.to = uepiRun[r].to /\ k.file = uepiRun[r].file /\ k.alone = uepiRun[r].alone
          /\ k.dropped = uepiRun[r].dropped /\ uepiRun[r].unread \subseteq k.unread
          /\ uepiRun[r].held \subseteq k.held /\ uepiRun[r].unwritten \subseteq k.unwritten
      BY <2>1 DEF UepiRunRecord
    <3>3. Leaves(r, k)
      BY <2>2
    <3> HIDE DEF k
    <3> QED BY <3>1, <3>2, <3>3
  <2>3. CASE Leaves(r, [uepiRun[r] EXCEPT !.held = @ \cup {Here(r)}])
    <3> DEFINE k == [uepiRun[r] EXCEPT !.held = @ \cup {Here(r)}]
    <3>1. k \in UepiRunRecord /\ Accounted(k, released', SlotOf(k))
      BY <2>1 DEF UepiRunRecord, Accounted, SlotOf
    <3>2. /\ k.pc = uepiRun[r].pc /\ k.market = uepiRun[r].market /\ k.day = uepiRun[r].day
          /\ k.to = uepiRun[r].to /\ k.file = uepiRun[r].file /\ k.alone = uepiRun[r].alone
          /\ k.dropped = uepiRun[r].dropped /\ uepiRun[r].unread \subseteq k.unread
          /\ uepiRun[r].held \subseteq k.held /\ uepiRun[r].unwritten \subseteq k.unwritten
      BY <2>1 DEF UepiRunRecord
    <3>3. Leaves(r, k)
      BY <2>3
    <3> HIDE DEF k
    <3> QED BY <3>1, <3>2, <3>3
  <2>4. CASE Leaves(r, [uepiRun[r] EXCEPT !.unwritten = @ \cup {Here(r)}])
    <3> DEFINE k == [uepiRun[r] EXCEPT !.unwritten = @ \cup {Here(r)}]
    <3>1. k \in UepiRunRecord /\ Accounted(k, released', SlotOf(k))
      BY <2>1 DEF UepiRunRecord, Accounted, SlotOf
    <3>2. /\ k.pc = uepiRun[r].pc /\ k.market = uepiRun[r].market /\ k.day = uepiRun[r].day
          /\ k.to = uepiRun[r].to /\ k.file = uepiRun[r].file /\ k.alone = uepiRun[r].alone
          /\ k.dropped = uepiRun[r].dropped /\ uepiRun[r].unread \subseteq k.unread
          /\ uepiRun[r].held \subseteq k.held /\ uepiRun[r].unwritten \subseteq k.unwritten
      BY <2>1 DEF UepiRunRecord
    <3>3. Leaves(r, k)
      BY <2>4
    <3> HIDE DEF k
    <3> QED BY <3>1, <3>2, <3>3
  <2> QED BY <2>2, <2>3, <2>4
<1> QED BY <1>1, <1>2, AtItsSlot, LeavesKeeps

LEMMA FetchFailsKeeps == ASSUME UepiInv, NEW r \in UepiRuns, FetchFails(r) PROVE UepiInv'
<1>1. drops \in 0..MaxDrops /\ (drops' = drops \/ (drops < MaxDrops /\ drops' = drops + 1))
  BY UepiShapes DEF UepiInv, FetchFails
<1>2. drops' \in 0..MaxDrops /\ drops <= drops'
  BY <1>1, UepiBounds
<1> QED BY <1>2, NamedKeeps DEF FetchFails

LEMMA FetchDayKeeps == ASSUME UepiInv, NEW r \in UepiRuns, Fetch(r) PROVE UepiInv'
<1> DEFINE k == [uepiRun[r] EXCEPT !.pc = "store", !.file = file[Here(r)]]
<1>1. Running(r) /\ uepiRun[r].pc = "fetch" /\ UNCHANGED <<today, file, released, drops>>
  BY DEF Fetch, Running
<1>2. /\ uepiRun[r] \in UepiRunRecord /\ Here(r) \in Slots /\ Here(r) = SlotOf(uepiRun[r])
      /\ file[Here(r)] \in File /\ file[Here(r)].edition > 0 /\ Spares(uepiRun[r], released)
      /\ drops \in 0..MaxDrops /\ drops <= drops' /\ uepiRun[r].dropped <= drops'
      /\ uepiRun \in [UepiRuns -> UepiRunRecord] /\ released \in Releases
  BY <1>1, AtItsSlot DEF Fetch
<1>3. CASE Refusal(file[Here(r)]) = "none"
  <2>1. k \in UepiRunRecord /\ uepiRun' = [uepiRun EXCEPT ![r] = k]
    BY <1>2, <1>3 DEF Fetch, UepiRunRecord
  <2>2. /\ k.pc = "store" /\ k.market = uepiRun[r].market /\ k.day = uepiRun[r].day
        /\ k.to = uepiRun[r].to /\ k.alone = uepiRun[r].alone /\ k.dropped = uepiRun[r].dropped
        /\ k.unread = uepiRun[r].unread /\ k.held = uepiRun[r].held /\ k.unwritten = uepiRun[r].unwritten
        /\ k.file.edition > 0
    BY <1>2 DEF UepiRunRecord
  <2>3. Spares(k, released)
    BY <1>1, <1>2, <2>2 DEF Spares, SlotOf
  <2> HIDE DEF k
  <2> QED BY <1>1, <1>2, <2>1, <2>2, <2>3, StaysKeeps
<1>4. CASE Refusal(file[Here(r)]) # "none"
  BY <1>1, <1>2, <1>4, NamedKeeps DEF Fetch
<1> QED BY <1>3, <1>4

\* The edition in hand is released, or was.
LEMMA ReleasedKeepsShape ==
    ASSUME UepiInv, NEW r \in UepiRuns, uepiRun[r].pc = "store",
           released' = [released EXCEPT ![Here(r)] = uepiRun[r].file.edition]
    PROVE  /\ released' \in Releases /\ released'[Here(r)] = uepiRun[r].file.edition
           /\ uepiRun[r].file.edition > 0
           /\ \A s \in Slots : released[s] > 0 => released'[s] > 0
<1>1. Running(r)
  BY DEF Running
<1>2. uepiRun[r].file.edition > 0 /\ uepiRun[r].file.edition \in 0..MaxEditions /\ Here(r) \in Slots
      /\ released \in Releases
  BY <1>1, AtItsSlot DEF Placed
<1> QED BY <1>2 DEF Releases

LEMMA StoreDayKeeps == ASSUME UepiInv, NEW r \in UepiRuns, Store(r) PROVE UepiInv'
<1>1. /\ uepiRun[r].pc = "store" /\ Running(r) /\ Leaves(r, uepiRun[r]) /\ UNCHANGED <<today, file, drops>>
      /\ released' = [released EXCEPT ![Here(r)] = uepiRun[r].file.edition]
  BY DEF Store, Running
<1>2. Accounted(uepiRun[r], released', SlotOf(uepiRun[r]))
  BY <1>1, ReleasedKeepsShape, AtItsSlot DEF Accounted
<1> QED BY <1>1, <1>2, AtItsSlot, ReleasedKeepsShape, LeavesKeeps

LEMMA StoreRefusedKeeps == ASSUME UepiInv, NEW r \in UepiRuns, StoreRefused(r) PROVE UepiInv'
<1>1. Running(r)
  BY DEF StoreRefused, Running
<1> QED BY <1>1, AtItsSlot, NamedKeeps DEF StoreRefused

LEMMA StoreRetriesKeeps == ASSUME UepiInv, NEW r \in UepiRuns, StoreRetries(r) PROVE UepiInv'
<1> DEFINE k == [uepiRun[r] EXCEPT !.attempt = @ + 1, !.client = TRUE, !.own = TRUE]
<1>1. Running(r) /\ uepiRun[r].pc = "store" /\ UNCHANGED <<today, file, released, drops>>
  BY DEF StoreRetries, Running
<1>2. CASE uepiRun[r].attempt < Attempts
  <2>1. uepiRun[r].attempt + 1 \in 1..Attempts /\ uepiRun[r] \in UepiRunRecord
    BY <1>1, <1>2, AtItsSlot, UepiBounds DEF UepiRunRecord
  <2>2. k \in UepiRunRecord /\ uepiRun' = [uepiRun EXCEPT ![r] = k]
    BY <1>1, <1>2, <2>1, AtItsSlot DEF StoreRetries, UepiRunRecord
  <2>3. /\ k.pc = "store" /\ k.market = uepiRun[r].market /\ k.day = uepiRun[r].day
        /\ k.to = uepiRun[r].to /\ k.alone = uepiRun[r].alone /\ k.dropped = uepiRun[r].dropped
        /\ k.unread = uepiRun[r].unread /\ k.held = uepiRun[r].held /\ k.unwritten = uepiRun[r].unwritten
        /\ k.file = uepiRun[r].file
    BY <1>1, <2>1 DEF UepiRunRecord
  <2> HIDE DEF k
  <2>4. Spares(k, released) /\ k.file.edition > 0
    BY <1>1, <2>3, AtItsSlot DEF Spares, SlotOf, Placed
  <2> QED BY <1>1, <2>2, <2>3, <2>4, AtItsSlot, StaysKeeps
<1>3. CASE ~(uepiRun[r].attempt < Attempts)
  BY <1>1, <1>3, AtItsSlot, NamedKeeps DEF StoreRetries
<1> QED BY <1>2, <1>3

\* The client in use is lost; what was in flight with it may have been committed.
LEMMA DropKeeps == ASSUME UepiInv, NEW r \in UepiRuns, ConnectionDrops(r) PROVE UepiInv'
<1> DEFINE k == [uepiRun[r] EXCEPT !.client = FALSE, !.dropped = @ + 1, !.given = @ /\ uepiRun[r].own]
<1>1. /\ Running(r) /\ uepiRun[r].pc \in {"look", "fetch", "store"} /\ UNCHANGED <<today, file>>
      /\ uepiRun' = [uepiRun EXCEPT ![r] = k] /\ drops < MaxDrops /\ drops' = drops + 1
  BY DEF ConnectionDrops, Running
<1>2. /\ uepiRun[r] \in UepiRunRecord /\ Here(r) = SlotOf(uepiRun[r]) /\ released \in Releases
      /\ Spares(uepiRun[r], released) /\ Placed(uepiRun[r]) /\ Here(r) \in Slots
      /\ drops \in 0..MaxDrops /\ uepiRun[r].dropped <= drops
  BY <1>1, AtItsSlot
<1>3. /\ drops' \in 0..MaxDrops /\ drops <= drops' /\ uepiRun[r].dropped + 1 \in 0..MaxDrops
      /\ uepiRun[r].dropped + 1 <= drops'
  <2>1. uepiRun[r].dropped \in 0..MaxDrops
    BY <1>2 DEF UepiRunRecord
  <2> QED BY <1>1, <1>2, <2>1, UepiBounds
<1>4. k \in UepiRunRecord /\ k.dropped <= drops'
  <2>1. (uepiRun[r].given /\ uepiRun[r].own) \in BOOLEAN
    OBVIOUS
  <2> QED BY <1>2, <1>3, <2>1 DEF UepiRunRecord
<1>5. /\ k.pc = uepiRun[r].pc /\ k.market = uepiRun[r].market /\ k.day = uepiRun[r].day
      /\ k.to = uepiRun[r].to /\ k.alone = uepiRun[r].alone
      /\ k.unread = uepiRun[r].unread /\ k.held = uepiRun[r].held /\ k.unwritten = uepiRun[r].unwritten
      /\ k.file = uepiRun[r].file
  BY <1>2 DEF UepiRunRecord
<1> HIDE DEF k
<1>6. k.pc = "store" => k.file.edition > 0
  BY <1>2, <1>5 DEF Placed
<1>7. CASE UNCHANGED released
  <2>1. Spares(k, released')
    BY <1>2, <1>5, <1>7 DEF Spares, SlotOf
  <2> QED BY <1>1, <1>2, <1>3, <1>4, <1>5, <1>6, <1>7, <2>1, StaysKeeps
<1>8. CASE uepiRun[r].pc = "store" /\ released' = [released EXCEPT ![Here(r)] = uepiRun[r].file.edition]
  <2>1. /\ released' \in Releases /\ released'[Here(r)] = uepiRun[r].file.edition
        /\ \A s \in Slots : released[s] > 0 => released'[s] > 0
    BY <1>8, ReleasedKeepsShape
  <2>2. Spares(k, released')
    BY <1>2, <1>5, <1>8, <2>1 DEF Spares, SlotOf
  <2> QED BY <1>1, <1>3, <1>4, <1>5, <1>6, <2>1, <2>2, StaysKeeps
<1> QED BY <1>7, <1>8 DEF ConnectionDrops

LEMMA ReportKeeps == ASSUME UepiInv, NEW r \in UepiRuns, Report(r) PROVE UepiInv'
<1>1. /\ Running(r) /\ uepiRun' = [uepiRun EXCEPT ![r] = Asleep] /\ UNCHANGED <<today, file, released, drops>>
  BY DEF Report, Running
<1>2. Asleep \in UepiRunRecord /\ Asleep.pc = "idle" /\ Asleep.dropped <= drops'
  BY <1>1, AtItsSlot, AsleepShape, UepiBounds
<1>3. AtWork(Asleep, released')
  BY <1>2 DEF AtWork
<1> QED BY <1>1, <1>2, <1>3, AtItsSlot, UepiStepKeeps

\* A run that starts is alone if none is in progress, and ends the solitude of one that is.
LEMMA StartKeeps == ASSUME UepiInv, NEW r \in UepiRuns, Starts(r) PROVE UepiInv'
<1> DEFINE k == [Asleep EXCEPT !.pc = "look", !.to = today, !.day = WindowStart(today),
                               !.alone = \A o \in UepiRuns : ~Running(o)]
           w(q) == [uepiRun[q] EXCEPT !.alone = @ /\ ~Running(q)]
<1>1. /\ uepiRun \in [UepiRuns -> UepiRunRecord] /\ today \in Days /\ released \in Releases /\ drops \in 0..MaxDrops
      /\ WindowStart(today) \in Days /\ WindowStart(today) <= today /\ today <= today
  BY UepiShapes, WindowStartIsADay, UepiBounds DEF UepiInv, Days
<1>2. (\A o \in UepiRuns : ~Running(o)) \in BOOLEAN /\ (uepiRun[r].alone /\ ~Running(r)) \in BOOLEAN
  OBVIOUS
<1>3. /\ k \in UepiRunRecord /\ k.pc = "look" /\ k.to = today /\ k.day = WindowStart(today) /\ k.dropped = 0
      /\ k.market = 1 /\ k.alone = (\A o \in UepiRuns : ~Running(o))
  BY <1>1, <1>2, AsleepShape DEF UepiRunRecord, Asleep
<1>4. ASSUME NEW q \in UepiRuns
      PROVE /\ w(q) \in UepiRunRecord /\ w(q).alone = (uepiRun[q].alone /\ ~Running(q))
            /\ w(q).pc = uepiRun[q].pc /\ w(q).dropped = uepiRun[q].dropped /\ w(q).to = uepiRun[q].to
            /\ w(q).day = uepiRun[q].day /\ w(q).market = uepiRun[q].market /\ w(q).file = uepiRun[q].file
            /\ w(q).unread = uepiRun[q].unread /\ w(q).held = uepiRun[q].held
            /\ w(q).unwritten = uepiRun[q].unwritten
  <2>1. uepiRun[q] \in UepiRunRecord /\ (uepiRun[q].alone /\ ~Running(q)) \in BOOLEAN
    BY <1>1
  <2> QED BY <2>1 DEF UepiRunRecord
<1>5. /\ UNCHANGED <<today, file, released, drops>> /\ ~Running(r)
      /\ uepiRun' = [q \in UepiRuns |-> IF q = r THEN k ELSE w(q)]
  BY DEF Starts
<1> HIDE DEF k, w
<1>6. uepiRun' \in [UepiRuns -> UepiRunRecord] /\ uepiRun'[r] = k /\ \A q \in UepiRuns \ {r} : uepiRun'[q] = w(q)
  BY <1>3, <1>4, <1>5
<1>7. UepiTypeOK'
  BY <1>5, <1>6 DEF UepiInv, UepiTypeOK, UepiRunRecord
<1>8. AtWork(k, released)
  <2>1. ASSUME NEW s \in Market \X (WindowStart(today)..today) PROVE ~Passed(k, s)
    <3>1. s[1] \in Market /\ s[2] \in WindowStart(today)..today
      OBVIOUS
    <3>2. s[1] \in Nat /\ 1 <= s[1] /\ s[2] \in Int /\ WindowStart(today) <= s[2] /\ WindowStart(today) \in Nat
      BY <1>1, <3>1, UepiBounds DEF Days
    <3> QED BY <1>3, <3>2 DEF Passed
  <2>2. Placed(k) /\ Spares(k, released)
    <3>1. k.pc = "look" /\ k.to = today /\ k.day = WindowStart(today)
      BY <1>3
    <3>2. WindowStart(k.to) <= k.day /\ k.day <= k.to
      <4>1. WindowStart(today) \in Nat
        BY <1>1, UepiBounds DEF Days
      <4> QED BY <1>1, <3>1, <4>1
    <3> QED BY <3>1, <3>2 DEF Placed, Spares
  <2>3. Accounts(k, released)
    <3>1. Market \X (WindowStart(k.to)..k.to) = Market \X (WindowStart(today)..today)
      BY <1>3
    <3> QED BY <2>1, <3>1 DEF Accounts
  <2> QED BY <2>2, <2>3 DEF AtWork
<1>9. ASSUME NEW q \in UepiRuns \ {r} PROVE AtWork(w(q), released)
  <2> SUFFICES ASSUME w(q).pc # "idle" PROVE AtWork(w(q), released)
    BY DEF AtWork
  <2>1. AtWork(uepiRun[q], released) /\ uepiRun[q].pc # "idle" /\ ~w(q).alone
    BY <1>4 DEF UepiInv, Running
  <2>2. Placed(w(q)) /\ Spares(w(q), released)
    BY <1>4, <2>1 DEF AtWork, Placed, Spares
  <2>3. Accounts(w(q), released)
    BY <1>4, <2>1 DEF AtWork, Accounts, Passed, Accounted
  <2> QED BY <2>2, <2>3 DEF AtWork
<1>10. ASSUME NEW q \in UepiRuns PROVE AtWork(uepiRun'[q], released') /\ uepiRun'[q].dropped <= drops'
  BY <1>1, <1>3, <1>4, <1>5, <1>6, <1>8, <1>9, UepiBounds DEF UepiInv
<1>11. ASSUME NEW p \in UepiRuns, NEW q \in UepiRuns, uepiRun'[p].pc # "idle", uepiRun'[q].pc # "idle",
              uepiRun'[p].alone
       PROVE  q = p
  <2>1. CASE p = r
    <3>1. \A o \in UepiRuns : ~Running(o)
      BY <1>3, <1>6, <1>11, <2>1
    <3> QED BY <1>4, <1>6, <1>11, <2>1, <3>1 DEF Running
  <2>2. CASE p # r
    BY <1>4, <1>6, <1>11, <2>2 DEF Running
  <2> QED BY <2>1, <2>2
<1> QED BY <1>7, <1>10, <1>11 DEF UepiInv, Solitary, Running

\* The markets and the calendar touch no table and no run.
LEMMA MarketsKeep ==
    ASSUME UepiInv, UepiTypeOK', UNCHANGED <<released, uepiRun, drops>> PROVE UepiInv'
BY DEF UepiInv, Solitary, Running

LEMMA DayKeeps == ASSUME UepiInv, DayPasses PROVE UepiInv'
<1>1. today' \in Days
  BY UepiShapes, UepiBounds DEF UepiInv, DayPasses, Days
<1>2. UepiTypeOK'
  BY <1>1 DEF UepiInv, UepiTypeOK, DayPasses
<1> QED BY <1>2, MarketsKeep DEF DayPasses

LEMMA SourceKeeps == ASSUME UepiInv, NEW s \in Slots, SourcePublishes(s) PROVE UepiInv'
<1>1. PICK e \in 1..MaxEditions, h \in 1..Hours, q \in BOOLEAN :
        file' = [file EXCEPT ![s] = [edition |-> e, hours |-> h, suspect |-> q]]
  BY DEF SourcePublishes
<1>2. [edition |-> e, hours |-> h, suspect |-> q] \in File
  BY UepiBounds DEF File
<1>3. file' \in [Slots -> File]
  BY <1>1, <1>2, UepiShapes DEF UepiInv
<1>4. UepiTypeOK'
  BY <1>3 DEF UepiInv, UepiTypeOK, SourcePublishes
<1> QED BY <1>4, MarketsKeep DEF SourcePublishes

LEMMA UepiInductive == UepiInv /\ [UepiNext]_uepiVars => UepiInv'
<1> SUFFICES ASSUME UepiInv, [UepiNext]_uepiVars PROVE UepiInv'
  OBVIOUS
<1>1. CASE UNCHANGED uepiVars
  <2>1. UepiTypeOK'
    BY <1>1 DEF uepiVars, UepiInv, UepiTypeOK
  <2> QED BY <1>1, <2>1, MarketsKeep DEF uepiVars
<1>2. ASSUME NEW r \in UepiRuns, UepiStep(r) \/ ConnectionDrops(r) PROVE UepiInv'
  BY <1>2, StartKeeps, LookKeeps, FetchFailsKeeps, FetchDayKeeps, StoreDayKeeps, StoreRefusedKeeps,
     StoreRetriesKeeps, ReportKeeps, DropKeeps DEF UepiStep
<1> QED BY <1>1, <1>2, DayKeeps, SourceKeeps DEF UepiNext

LEMMA UepiAlways == UepiSpec => []UepiInv
BY UepiInitially, UepiInductive, PTL DEF UepiSpec

\* The tables and the runs keep their shapes; no run leaves its window.
THEOREM UepiTypeCorrect == UepiSpec => []UepiTypeOK
BY UepiAlways, PTL DEF UepiInv

\* backfillMarket skips a released day before the fetch and persists once: of any number of
\* runs, one that overlaps no other supersedes nothing it did not write itself.
THEOREM NothingSuperseded == UepiSpec => []ReleasedIsFinal
<1>1. UepiInv => ReleasedIsFinal
  BY HereIsASlot DEF UepiInv, ReleasedIsFinal, AtWork, Spares
<1> QED BY <1>1, UepiAlways, PTL

\* runScheduledUepi goes on past any failure: whatever is lost and whoever overlaps, a report
\* leaves no day of any market's window out.
THEOREM NoDayLeftOut == UepiSpec => EveryDayAccountedFor
<1>1. UepiInv => \A r \in UepiRuns : Report(r) =>
        \A s \in Market \X Window(r) :
            \/ released[s] > 0
            \/ s \in uepiRun[r].unread \cup uepiRun[r].held \cup uepiRun[r].unwritten
  BY DEF UepiInv, Report, AtWork, Accounts, Accounted, Passed, Window
<1> QED BY <1>1, UepiAlways, PTL DEF EveryDayAccountedFor
=============================================================================
