------------------------- MODULE PublishedIndexProof ------------------------
(***************************************************************************)
(* The two indexes that are calculated and published, for any number of    *)
(* runs, instruments, sellers, reads, dates, contents and deaths.  The     *)
(* compute price run: what a point rests on was read, and what a change is *)
(* stated against was released.  One date of the token volume index: its   *)
(* rows agree with one another, and what a reader sees of them is a        *)
(* PublishedSeries.                                                        *)
(***************************************************************************)
EXTENDS UcpiDaily, UtviPublication, SequenceTheorems, FiniteSetTheorems,
        WellFoundedInduction, TLAPS

-----------------------------------------------------------------------------
(* The compute price run. *)

DailyRecord == [pc : {"idle", "calculate", "insert", "publish", "collect", "fetch", "store"}, date : Dates,
              at : Instrument, point : Point, completed : Dates, listing : Listing]
Release == {"none", "published", "delayed"}
PointTable == [Instrument -> [Dates -> Seq(Point)]]
ReleaseTable == [Instrument -> [Dates -> Release]]

\* ReadOn and Participants, of any table of reads R.
ReadIn(R, i, d) == \E x \in R[i] : x.requested = d /\ x.listing # NoListing
ParticipantsIn(R, i, d) ==
    {CapacitySource[s] : s \in {s \in Sellers : \E x \in R[i] : x.requested = d /\ x.completed = d /\ x.listing[s] > 0}}

\* A point p of i at d rests on the reads R; its change, if any, on the table of points T and
\* of releases L.
Grounded(p, R, i, d) == ReadIn(R, i, d) /\ p.participants \subseteq ParticipantsIn(R, i, d)
Justified(p, i, d, T, L) ==
    p.change # "withheld" =>
        /\ d > 1 /\ L[i][d - 1] = "published" /\ T[i][d - 1] # <<>> /\ T[i][d - 1][1].level > 0
        /\ p.change = "published" => T[i][d - 1][1].participants = p.participants
Founded(R, T, L) ==
    \A i \in Instrument, d \in Dates :
        /\ T[i][d] # <<>> => Grounded(T[i][d][1], R, i, d) /\ Justified(T[i][d][1], i, d, T, L)
        /\ L[i][d] # "none" => T[i][d] # <<>> /\ T[i][d][1].level > 0

\* What a run holds on the date `day`.
InTime(run, day) == /\ run.pc # "idle" => run.date <= day
                    /\ run.pc \in {"calculate", "insert", "publish"} => run.date > 1
                    /\ run.pc = "store" => run.date <= run.completed /\ run.completed <= day
Holds(run, R, T, L) ==
    /\ run.pc = "insert" => /\ Grounded(run.point, R, run.at, run.date - 1)
                            /\ Justified(run.point, run.at, run.date - 1, T, L)
    /\ run.pc = "publish" => /\ T[run.at][run.date - 1] = <<run.point>> /\ run.point.level > 0
                             /\ L[run.at][run.date - 1] = "none"

\* A point is released by the one run that wrote it.
Releasing(r) == ucpiRun[r].pc = "publish"
OneReleases == \A r, q \in UcpiRuns :
    /\ Releasing(r) /\ Releasing(q)
    /\ ucpiRun[r].at = ucpiRun[q].at /\ ucpiRun[r].date = ucpiRun[q].date
    => r = q

UcpiInv == /\ UcpiTypeOK
           /\ Founded(reads, points, releases)
           /\ \A r \in UcpiRuns : InTime(ucpiRun[r], utcDate) /\ Holds(ucpiRun[r], reads, points, releases)
           /\ OneReleases

LEMMA UcpiShapes ==
    ASSUME UcpiTypeOK
    PROVE  /\ utcDate \in Dates /\ reads \in [Instrument -> SUBSET Read]
           /\ \A i \in Instrument : \A d \in reads[i] : d.requested <= d.completed /\ d.completed <= utcDate
           /\ points \in PointTable /\ releases \in ReleaseTable
           /\ \A i \in Instrument, d \in Dates : Len(points[i][d]) <= 1
           /\ ucpiRun \in [UcpiRuns -> DailyRecord] /\ failures \in 0..MaxFailures
BY DEF UcpiTypeOK, DailyRecord, Release, PointTable, ReleaseTable

LEMMA UcpiBounds ==
    /\ MaxPrice \in Nat /\ 1 <= MaxPrice /\ LastDate \in Nat /\ 1 <= LastDate /\ MaxFailures \in Nat
    /\ Len(Instruments) \in Nat /\ 1 <= Len(Instruments) /\ Instrument = 1..Len(Instruments)
    /\ Dates = 1..LastDate /\ 1 \in Dates
<1>1. Len(Instruments) \in Nat /\ Len(Instruments) # 0 /\ Instrument = 1..Len(Instruments)
  BY UcpiAssumption, LenProperties, EmptySeq DEF Instrument
<1> QED BY <1>1, UcpiAssumption DEF Dates

-----------------------------------------------------------------------------
(* The calculation. *)

LEMMA SameReads ==
    ASSUME NEW i, NEW d
    PROVE  ReadOn(i, d) = ReadIn(reads, i, d) /\ Participants(i, d) = ParticipantsIn(reads, i, d)
<1>1. ReadOn(i, d) <=> ReadIn(reads, i, d)
  BY DEF ReadOn, ReadIn, ReadsOf
<1>2. Listed(i, d) = {s \in Sellers : \E x \in reads[i] : x.requested = d /\ x.completed = d /\ x.listing[s] > 0}
  BY DEF Listed, InWindow, ReadsOf
<1>3. ReadOn(i, d) \in BOOLEAN /\ ReadIn(reads, i, d) \in BOOLEAN
  BY DEF ReadOn, ReadIn
<1> QED BY <1>1, <1>2, <1>3 DEF Participants, ParticipantsIn

\* A set of naturals has a least.
LEMMA LeastOf ==
    ASSUME NEW K, K \subseteq Nat, K # {}
    PROVE  \E j \in K : \A i \in K : j <= i
<1>1. PICK j \in K : \A i \in K : ~(<<i, j>> \in OpToRel(<, Nat))
  BY NatLessThanWellFounded, WFMin
<1>2. \A i \in K : ~(i < j)
  BY <1>1 DEF OpToRel
<1> QED BY <1>2

LEMMA LowestIsOne ==
    ASSUME NEW K, K \subseteq 1..MaxPrice, K # {} PROVE Lowest(K) \in 1..MaxPrice
<1>1. K \subseteq Nat
  BY UcpiBounds
<1>2. \E p \in K : \A q \in K : p <= q
  BY <1>1, LeastOf
<1> QED BY <1>2 DEF Lowest

\* The k-th smallest price exists.
LEMMA RankedIsAPrice ==
    ASSUME NEW D, IsFiniteSet(D), NEW price \in [D -> 1..MaxPrice], NEW k \in 1..Cardinality(D)
    PROVE  Ranked(price, k) \in 1..MaxPrice
<1> DEFINE UpTo(p) == {c \in D : price[c] <= p}
           Below(p) == {c \in D : price[c] < p}
           K == {p \in 1..MaxPrice : Cardinality(UpTo(p)) >= k}
<1>0. Cardinality(D) \in Nat
  BY FS_CardinalityType
<1>1. Cardinality(D) \in Nat /\ k \in Nat /\ k > 0 /\ k <= Cardinality(D)
  BY <1>0
<1>2. MaxPrice \in K
  <2>1. UpTo(MaxPrice) = D
    BY UcpiBounds
  <2>2. Cardinality(UpTo(MaxPrice)) = Cardinality(D)
    BY <2>1, Zenon
  <2> HIDE DEF UpTo
  <2> QED BY <1>1, <2>2, UcpiBounds
<1>3. PICK p \in K : \A q \in K : p <= q
  <2>1. K # {}
    BY <1>2
  <2>2. K \subseteq Nat
    <3> HIDE DEF UpTo
    <3> QED BY UcpiBounds
  <2> HIDE DEF K
  <2> QED BY <2>1, <2>2, LeastOf
<1>4. p \in 1..MaxPrice /\ Cardinality(UpTo(p)) >= k
  BY <1>3
<1>5. Cardinality(Below(p)) < k
  <2>1. CASE p = 1
    <3>1. Below(p) = {}
      BY <2>1
    <3> QED BY <1>1, <3>1, FS_EmptySet
  <2>2. CASE p > 1
    <3>1. Below(p) = UpTo(p - 1)
      BY <1>4, UcpiBounds
    <3>2. p - 1 \in 1..MaxPrice /\ ~(p <= p - 1)
      BY <1>4, <2>2, UcpiBounds
    <3>3. p - 1 \notin K
      BY <1>3, <3>2
    <3>4. Cardinality(UpTo(p - 1)) \in Nat
      BY FS_Subset, FS_CardinalityType
    <3> QED BY <1>1, <3>1, <3>2, <3>3, <3>4
  <2> QED BY <1>4, <2>1, <2>2, UcpiBounds
<1>6. DOMAIN price = D
  OBVIOUS
<1>7. \E q \in 1..MaxPrice : /\ Cardinality({c \in DOMAIN price : price[c] < q}) < k
                             /\ Cardinality({c \in DOMAIN price : price[c] <= q}) >= k
  BY <1>4, <1>5, <1>6
<1> QED BY <1>7 DEF Ranked

LEMMA TwiceMedianIsALevel ==
    ASSUME NEW D, IsFiniteSet(D), NEW price \in [D -> 1..MaxPrice], Cardinality(D) >= 2
    PROVE  TwiceMedian(price) \in 0..(2 * MaxPrice) /\ TwiceMedian(price) > 0
<1> DEFINE n == Cardinality(D)
<1>1. n \in Nat /\ DOMAIN price = D
  BY FS_CardinalityType
<1>2. (n + 1) \div 2 \in 1..n /\ n \div 2 + 1 \in 1..n
  <2> HIDE DEF n
  <2>1. n >= 2
    BY DEF n
  <2> QED BY <1>1, <2>1
<1>3. Ranked(price, (n + 1) \div 2) \in 1..MaxPrice /\ Ranked(price, n \div 2 + 1) \in 1..MaxPrice
  BY <1>2, RankedIsAPrice
<1>4. TwiceMedian(price) = Ranked(price, (n + 1) \div 2) + Ranked(price, n \div 2 + 1)
  BY <1>1 DEF TwiceMedian
<1> QED BY <1>3, <1>4, UcpiBounds

LEMMA ParticipantsAreFinite ==
    ASSUME NEW i, NEW d
    PROVE  Participants(i, d) \subseteq CapacitySources /\ IsFiniteSet(Participants(i, d))
<1>1. Listed(i, d) \subseteq Sellers /\ IsFiniteSet(Sellers)
  BY UcpiAssumption DEF Listed
<1>2. IsFiniteSet(Listed(i, d))
  BY <1>1, FS_Subset
<1>3. IsFiniteSet({CapacitySource[s] : s \in Listed(i, d)})
  <2> DEFINE T == {CapacitySource[s] : s \in Listed(i, d)}
             f == [s \in Listed(i, d) |-> CapacitySource[s]]
  <2>1. f \in Surjection(Listed(i, d), T)
    BY DEF Surjection
  <2> QED BY <1>2, <2>1, FS_Surjection
<1> QED BY <1>1, <1>3 DEF Participants, CapacitySources

LEMMA PricesArePrices ==
    ASSUME UcpiTypeOK, NEW i \in Instrument, NEW d
    PROVE  ParticipantPrice(i, d) \in [Participants(i, d) -> 1..MaxPrice]
<1>1. \A x \in InWindow(i, d) : \A s \in Sellers : x.listing[s] \in 0..MaxPrice
  BY UcpiShapes DEF InWindow, ReadsOf, Read, Listing
<1>2. ASSUME NEW s \in Listed(i, d) PROVE SellerPrice(i, d, s) \in 1..MaxPrice
  <2> DEFINE K == {x.listing[s] : x \in {x \in InWindow(i, d) : x.listing[s] > 0}}
  <2>1. K # {}
    BY DEF Listed
  <2>2. K \subseteq 1..MaxPrice
    BY <1>1, UcpiBounds DEF Listed
  <2> QED BY <2>1, <2>2, LowestIsOne DEF SellerPrice
<1>3. ASSUME NEW c \in Participants(i, d)
      PROVE  Lowest({SellerPrice(i, d, s) : s \in {s \in Listed(i, d) : CapacitySource[s] = c}}) \in 1..MaxPrice
  <2> DEFINE K == {SellerPrice(i, d, s) : s \in {s \in Listed(i, d) : CapacitySource[s] = c}}
  <2>1. K # {}
    BY DEF Participants
  <2>2. K \subseteq 1..MaxPrice
    BY <1>2
  <2> QED BY <2>1, <2>2, LowestIsOne
<1> QED BY <1>3 DEF ParticipantPrice

\* A calculated point is well formed, and says of its date what was read.
LEMMA CalculatedIsAPoint ==
    ASSUME UcpiTypeOK, NEW i \in Instrument, NEW d \in Dates
    PROVE  /\ Calculated(i, d) \in Point /\ Calculated(i, d).participants = Participants(i, d)
           /\ Calculated(i, d).change \in {"withheld", Change(Prior(i, d), Participants(i, d))}
<1> DEFINE P == Participants(i, d)
           change == Change(Prior(i, d), P)
           blocked == InputOutsideWindow(i, d)
<1>1. P \subseteq CapacitySources /\ IsFiniteSet(P) /\ ParticipantPrice(i, d) \in [P -> 1..MaxPrice]
      /\ Cardinality(P) \in Nat
  BY ParticipantsAreFinite, PricesArePrices, FS_CardinalityType
<1>2. change \in {"withheld", "annotated", "published"} /\ blocked \in BOOLEAN
  BY DEF Change, InputOutsideWindow
<1>3. CASE Cardinality(P) < 2
  <2>1. Calculated(i, d) = [level |-> 0, participants |-> P, change |-> "withheld", blocked |-> FALSE]
    <3>1. NoLevel = [level |-> 0, participants |-> {}, change |-> "withheld", blocked |-> FALSE]
      BY DEF NoLevel
    <3>2. Calculated(i, d) = [NoLevel EXCEPT !.participants = P]
      BY <1>3 DEF Calculated
    <3> HIDE DEF P
    <3> QED BY <3>1, <3>2
  <2>2. 0 \in 0..(2 * MaxPrice)
    BY UcpiBounds
  <2>3. Calculated(i, d).participants = P /\ Calculated(i, d).change = "withheld"
    BY <2>1
  <2>4. Calculated(i, d) \in Point
    BY <1>1, <2>1, <2>2 DEF Point
  <2> QED BY <2>3, <2>4
<1>4. CASE ~(Cardinality(P) < 2)
  <2> DEFINE level == TwiceMedian(ParticipantPrice(i, d))
  <2>1. Calculated(i, d) = [level |-> level, participants |-> P, change |-> change, blocked |-> blocked]
    BY <1>4 DEF Calculated
  <2>2. level \in 0..(2 * MaxPrice)
    BY <1>1, <1>4, TwiceMedianIsALevel
  <2>3. Calculated(i, d).participants = P /\ Calculated(i, d).change = change
    BY <2>1
  <2>4. Calculated(i, d) \in Point
    <3> HIDE DEF level, P, change, blocked
    <3> QED BY <1>1, <1>2, <2>1, <2>2 DEF Point
  <2> QED BY <2>3, <2>4
<1> QED BY <1>3, <1>4

-----------------------------------------------------------------------------
(* How the tables grow. *)

\* Reads are added; a point that stands, stands; a release that is out stays what it is.
Grow(R, S) == \A i \in Instrument : R[i] \subseteq S[i]
Stand(T, U) == \A i \in Instrument, d \in Dates : T[i][d] # <<>> => U[i][d] = T[i][d]
Remain(L, M) == \A i \in Instrument, d \in Dates : L[i][d] # "none" => M[i][d] = L[i][d]

LEMMA GroundedGrows ==
    ASSUME NEW R, NEW S, Grow(R, S), NEW p, NEW i \in Instrument, NEW d, Grounded(p, R, i, d)
    PROVE  Grounded(p, S, i, d)
<1>1. R[i] \subseteq S[i]
  BY DEF Grow
<1>2. ReadIn(S, i, d)
  BY <1>1 DEF Grounded, ReadIn
<1>3. ParticipantsIn(R, i, d) \subseteq ParticipantsIn(S, i, d)
  BY <1>1 DEF ParticipantsIn
<1> QED BY <1>2, <1>3 DEF Grounded

LEMMA JustifiedGrows ==
    ASSUME NEW T, NEW U, Stand(T, U), NEW L, NEW M, Remain(L, M),
           NEW p, NEW i \in Instrument, NEW d \in Dates, Justified(p, i, d, T, L)
    PROVE  Justified(p, i, d, U, M)
<1> SUFFICES ASSUME p.change # "withheld" PROVE Justified(p, i, d, U, M)
  BY DEF Justified
<1>1. d > 1 /\ L[i][d - 1] = "published" /\ T[i][d - 1] # <<>> /\ T[i][d - 1][1].level > 0
  BY DEF Justified
<1>2. d - 1 \in Dates
  BY <1>1, UcpiBounds
<1>3. M[i][d - 1] = "published" /\ U[i][d - 1] = T[i][d - 1]
  BY <1>1, <1>2 DEF Stand, Remain
<1> QED BY <1>1, <1>3 DEF Justified

\* What a run holds survives the steps of others, which release nothing of its own.
LEMMA HoldsGrows ==
    ASSUME NEW R, NEW S, Grow(R, S), NEW T, NEW U, Stand(T, U), NEW L, NEW M, Remain(L, M),
           NEW run \in DailyRecord, NEW day, InTime(run, day), Holds(run, R, T, L),
           run.pc = "publish" => M[run.at][run.date - 1] = L[run.at][run.date - 1]
    PROVE  Holds(run, S, U, M)
<1>1. run.at \in Instrument /\ run.date \in Dates
  BY DEF DailyRecord
<1>2. CASE run.pc = "insert"
  <2>1. run.date - 1 \in Dates
    BY <1>1, <1>2, UcpiBounds DEF InTime
  <2>2. Grounded(run.point, S, run.at, run.date - 1)
    BY <1>1, <1>2, GroundedGrows DEF Holds
  <2>3. Justified(run.point, run.at, run.date - 1, U, M)
    BY <1>1, <1>2, <2>1, JustifiedGrows DEF Holds
  <2> QED BY <1>2, <2>2, <2>3 DEF Holds
<1>3. CASE run.pc = "publish"
  <2>1. run.date - 1 \in Dates
    BY <1>1, <1>3, UcpiBounds DEF InTime
  <2>2. T[run.at][run.date - 1] = <<run.point>> /\ <<run.point>> # <<>>
    BY <1>3 DEF Holds
  <2>3. U[run.at][run.date - 1] = <<run.point>>
    BY <1>1, <2>1, <2>2 DEF Stand
  <2> QED BY <1>3, <2>3 DEF Holds
<1>4. CASE run.pc \notin {"insert", "publish"}
  BY <1>4 DEF Holds
<1> QED BY <1>2, <1>3, <1>4

\* The tables stay founded if the rows that are new are.
LEMMA FoundedGrows ==
    ASSUME NEW R, NEW S, Grow(R, S), NEW T, NEW U, Stand(T, U), NEW L, NEW M, Remain(L, M),
           Founded(R, T, L),
           \A i \in Instrument, d \in Dates : T[i][d] = <<>> /\ U[i][d] # <<>> =>
              Grounded(U[i][d][1], S, i, d) /\ Justified(U[i][d][1], i, d, U, M),
           \A i \in Instrument, d \in Dates : L[i][d] = "none" /\ M[i][d] # "none" =>
              U[i][d] # <<>> /\ U[i][d][1].level > 0
    PROVE  Founded(S, U, M)
<1> SUFFICES ASSUME NEW i \in Instrument, NEW d \in Dates
             PROVE  /\ U[i][d] # <<>> => Grounded(U[i][d][1], S, i, d) /\ Justified(U[i][d][1], i, d, U, M)
                    /\ M[i][d] # "none" => U[i][d] # <<>> /\ U[i][d][1].level > 0
  BY DEF Founded
<1>1. ASSUME T[i][d] # <<>>
      PROVE  Grounded(U[i][d][1], S, i, d) /\ Justified(U[i][d][1], i, d, U, M)
  <2>1. U[i][d] = T[i][d] /\ Grounded(T[i][d][1], R, i, d) /\ Justified(T[i][d][1], i, d, T, L)
    BY <1>1 DEF Founded, Stand
  <2> QED BY <2>1, GroundedGrows, JustifiedGrows
<1>2. ASSUME L[i][d] # "none" PROVE U[i][d] # <<>> /\ U[i][d][1].level > 0
  BY <1>2 DEF Founded, Stand
<1> QED BY <1>1, <1>2

\* A step of one run.
LEMMA UcpiStepKeeps ==
    ASSUME UcpiInv, NEW r \in UcpiRuns, NEW k \in DailyRecord, ucpiRun' = [ucpiRun EXCEPT ![r] = k],
           utcDate' = utcDate, failures' \in 0..MaxFailures,
           reads' \in [Instrument -> SUBSET Read], Grow(reads, reads'),
           \A i \in Instrument : \A x \in reads'[i] : x.requested <= x.completed /\ x.completed <= utcDate,
           points' \in PointTable, Stand(points, points'),
           \A i \in Instrument, d \in Dates : Len(points'[i][d]) <= 1,
           releases' \in ReleaseTable, Remain(releases, releases'),
           Founded(reads', points', releases'), InTime(k, utcDate), Holds(k, reads', points', releases'),
           \A q \in UcpiRuns \ {r} : Releasing(q) =>
              /\ releases'[ucpiRun[q].at][ucpiRun[q].date - 1] = releases[ucpiRun[q].at][ucpiRun[q].date - 1]
              /\ ~(k.pc = "publish" /\ k.at = ucpiRun[q].at /\ k.date = ucpiRun[q].date)
    PROVE  UcpiInv'
<1>1. ucpiRun \in [UcpiRuns -> DailyRecord]
  BY UcpiShapes DEF UcpiInv
<1>2. /\ ucpiRun' \in [UcpiRuns -> DailyRecord] /\ ucpiRun'[r] = k
      /\ \A q \in UcpiRuns \ {r} : ucpiRun'[q] = ucpiRun[q]
  BY <1>1
<1>3. UcpiTypeOK'
  BY <1>2 DEF UcpiInv, UcpiTypeOK, DailyRecord, PointTable, ReleaseTable, Release
<1>4. ASSUME NEW q \in UcpiRuns
      PROVE  InTime(ucpiRun'[q], utcDate') /\ Holds(ucpiRun'[q], reads', points', releases')
  <2>1. CASE q = r
    BY <1>2, <2>1
  <2>2. CASE q # r
    <3>1. ucpiRun'[q] = ucpiRun[q] /\ ucpiRun[q] \in DailyRecord /\ InTime(ucpiRun[q], utcDate)
          /\ Holds(ucpiRun[q], reads, points, releases)
      BY <1>1, <1>2, <2>2 DEF UcpiInv
    <3>2. ucpiRun[q].pc = "publish" =>
            releases'[ucpiRun[q].at][ucpiRun[q].date - 1] = releases[ucpiRun[q].at][ucpiRun[q].date - 1]
      BY <2>2 DEF Releasing
    <3>3. Holds(ucpiRun[q], reads', points', releases')
      BY <3>1, <3>2, HoldsGrows
    <3> QED BY <3>1, <3>3
  <2> QED BY <2>1, <2>2
<1>5. OneReleases'
  <2> SUFFICES ASSUME NEW p \in UcpiRuns, NEW q \in UcpiRuns, ucpiRun'[p].pc = "publish", ucpiRun'[q].pc = "publish",
                      ucpiRun'[p].at = ucpiRun'[q].at, ucpiRun'[p].date = ucpiRun'[q].date
               PROVE  p = q
    BY DEF OneReleases, Releasing
  <2>1. CASE p # r /\ q # r
    BY <1>2, <2>1 DEF UcpiInv, OneReleases, Releasing
  <2>2. CASE p = r /\ q # r
    BY <1>2, <2>2 DEF Releasing
  <2>3. CASE p # r /\ q = r
    BY <1>2, <2>3 DEF Releasing
  <2> QED BY <2>1, <2>2, <2>3
<1> QED BY <1>3, <1>4, <1>5 DEF UcpiInv

LEMMA NothingMoves ==
    Grow(reads, reads) /\ Stand(points, points) /\ Remain(releases, releases)
BY DEF Grow, Stand, Remain

\* What is known of the run at hand and of the tables.
LEMMA DailyAtHand ==
    ASSUME UcpiInv, NEW r \in UcpiRuns
    PROVE  /\ ucpiRun[r] \in DailyRecord /\ InTime(ucpiRun[r], utcDate)
           /\ Holds(ucpiRun[r], reads, points, releases) /\ Founded(reads, points, releases)
           /\ ucpiRun[r].at \in Instrument /\ ucpiRun[r].date \in Dates /\ utcDate \in Dates
           /\ reads \in [Instrument -> SUBSET Read] /\ points \in PointTable /\ releases \in ReleaseTable
           /\ \A i \in Instrument : \A x \in reads[i] : x.requested <= x.completed /\ x.completed <= utcDate
           /\ \A i \in Instrument, d \in Dates : Len(points[i][d]) <= 1
           /\ failures \in 0..MaxFailures
BY UcpiShapes DEF UcpiInv, DailyRecord

\* A step that touches no table, and is not one to a release.
LEMMA RunOnly ==
    ASSUME UcpiInv, NEW r \in UcpiRuns, NEW k \in DailyRecord, ucpiRun' = [ucpiRun EXCEPT ![r] = k],
           UNCHANGED <<utcDate, reads, points, releases>>, failures' \in 0..MaxFailures,
           InTime(k, utcDate), Holds(k, reads, points, releases), k.pc # "publish"
    PROVE  UcpiInv'
BY DailyAtHand, NothingMoves, UcpiStepKeeps

LEMMA IdleShape == UcpiIdle \in DailyRecord /\ UcpiIdle.pc = "idle"
<1>1. NoLevel \in Point
  BY UcpiBounds DEF NoLevel, Point
<1>2. NoListing \in Listing
  BY UcpiBounds DEF NoListing, Listing
<1> QED BY <1>1, <1>2, UcpiBounds DEF UcpiIdle, DailyRecord

\* The instrument is done with: the next is at hand, or the next phase, or nothing.
LEMMA ProceedsShape ==
    ASSUME UcpiInv, NEW r \in UcpiRuns, ucpiRun[r].pc # "idle", NEW first \in {"calculate", "collect"},
           first = "calculate" => ucpiRun[r].date > 1, Proceeds(r, first)
    PROVE  \E k \in DailyRecord :
              /\ ucpiRun' = [ucpiRun EXCEPT ![r] = k] /\ InTime(k, utcDate) /\ k.pc # "publish"
              /\ \A R, T, L : Holds(k, R, T, L)
<1> DEFINE n == [UcpiIdle EXCEPT !.pc = first, !.date = ucpiRun[r].date, !.at = Instr(r) + 1]
           c == [UcpiIdle EXCEPT !.pc = "collect", !.date = ucpiRun[r].date]
<1>1. ucpiRun[r].date \in Dates /\ ucpiRun[r].at \in Instrument /\ ucpiRun[r].date <= utcDate
  BY DailyAtHand DEF InTime
<1>2. CASE Instr(r) < Len(Instruments)
  <2>1. Instr(r) + 1 \in Instrument
    BY <1>1, <1>2, UcpiBounds DEF Instr
  <2>2. n \in DailyRecord /\ n.pc = first /\ n.date = ucpiRun[r].date
    BY <1>1, <2>1, IdleShape DEF DailyRecord
  <2>3. ucpiRun' = [ucpiRun EXCEPT ![r] = n]
    BY <1>2 DEF Proceeds
  <2> HIDE DEF n
  <2> QED BY <1>1, <2>2, <2>3 DEF InTime, Holds
<1>3. CASE ~(Instr(r) < Len(Instruments)) /\ first = "calculate"
  <2>1. c \in DailyRecord /\ c.pc = "collect" /\ c.date = ucpiRun[r].date
    BY <1>1, IdleShape DEF DailyRecord
  <2>2. ucpiRun' = [ucpiRun EXCEPT ![r] = c]
    BY <1>3 DEF Proceeds
  <2> HIDE DEF c
  <2> QED BY <1>1, <2>1, <2>2 DEF InTime, Holds
<1>4. CASE ~(Instr(r) < Len(Instruments)) /\ first # "calculate"
  <2>1. ucpiRun' = [ucpiRun EXCEPT ![r] = UcpiIdle]
    BY <1>4 DEF Proceeds
  <2> QED BY <2>1, IdleShape DEF InTime, Holds
<1> QED BY <1>2, <1>3, <1>4

LEMMA ProceedsKeeps ==
    ASSUME UcpiInv, NEW r \in UcpiRuns, ucpiRun[r].pc # "idle", NEW first \in {"calculate", "collect"},
           first = "calculate" => ucpiRun[r].date > 1, Proceeds(r, first),
           UNCHANGED <<utcDate, reads, points, releases>>, failures' \in 0..MaxFailures
    PROVE  UcpiInv'
BY ProceedsShape, RunOnly

-----------------------------------------------------------------------------
(* The steps. *)

LEMMA UcpiInitially == UcpiInit => UcpiInv
<1> SUFFICES ASSUME UcpiInit PROVE UcpiInv
  OBVIOUS
<1>1. ucpiRun \in [UcpiRuns -> DailyRecord] /\ \A r \in UcpiRuns : ucpiRun[r].pc = "idle"
  BY IdleShape DEF UcpiInit
<1>2. UcpiTypeOK
  <2>1. utcDate \in Dates /\ failures \in 0..MaxFailures
    BY UcpiBounds DEF UcpiInit
  <2>2. points \in [Instrument -> [Dates -> Seq(Point)]] /\ \A i \in Instrument, d \in Dates : Len(points[i][d]) <= 1
    <3>1. <<>> \in Seq(Point) /\ Len(<<>>) = 0
      BY EmptySeq
    <3> QED BY <3>1 DEF UcpiInit
  <2> QED BY <1>1, <2>1, <2>2 DEF UcpiInit, UcpiTypeOK, DailyRecord
<1>3. Founded(reads, points, releases)
  BY DEF UcpiInit, Founded
<1> QED BY <1>1, <1>2, <1>3 DEF UcpiInv, InTime, Holds, OneReleases, Releasing

\* The tables and the runs stand while the date moves.
LEMMA MidnightKeeps == ASSUME UcpiInv, Midnight PROVE UcpiInv'
<1>1. utcDate \in Dates /\ utcDate' \in Dates /\ utcDate <= utcDate' /\ utcDate \in Nat /\ utcDate' \in Nat
  BY UcpiShapes, UcpiBounds DEF UcpiInv, Midnight
<1>2. UNCHANGED <<reads, points, releases, ucpiRun, failures>>
  BY DEF Midnight
<1>3. \A i \in Instrument : \A x \in reads'[i] : x.requested <= x.completed /\ x.completed <= utcDate'
  <2> SUFFICES ASSUME NEW i \in Instrument, NEW x \in reads[i] PROVE x.requested <= x.completed /\ x.completed <= utcDate'
    BY <1>2
  <2>1. x.requested <= x.completed /\ x.completed <= utcDate /\ x.completed \in Nat
    BY UcpiShapes, UcpiBounds DEF UcpiInv, Read
  <2> QED BY <1>1, <2>1
<1>4. UcpiTypeOK'
  BY <1>1, <1>2, <1>3 DEF UcpiInv, UcpiTypeOK
<1>5. ASSUME NEW r \in UcpiRuns PROVE InTime(ucpiRun'[r], utcDate')
  <2>1. InTime(ucpiRun[r], utcDate) /\ ucpiRun[r].date \in Nat /\ ucpiRun[r].completed \in Nat
    BY UcpiShapes, UcpiBounds DEF UcpiInv, DailyRecord
  <2> QED BY <1>1, <1>2, <2>1 DEF InTime
<1> QED BY <1>2, <1>4, <1>5 DEF UcpiInv, OneReleases, Releasing

LEMMA DailyKeeps == ASSUME UcpiInv, NEW r \in UcpiRuns, DailyRun(r) PROVE UcpiInv'
<1> DEFINE pc == IF utcDate = 1 THEN "collect" ELSE "calculate"
           k == [UcpiIdle EXCEPT !.pc = pc, !.date = utcDate]
<1>1. ucpiRun' = [ucpiRun EXCEPT ![r] = k] /\ UNCHANGED <<utcDate, reads, points, releases, failures>>
  BY DEF DailyRun
<1>2. utcDate \in Dates /\ utcDate <= utcDate /\ pc \in {"collect", "calculate"} /\ (pc = "calculate" => utcDate > 1)
  BY DailyAtHand, UcpiBounds
<1> HIDE DEF pc
<1>3. k \in DailyRecord /\ k.pc = pc /\ k.date = utcDate
  BY <1>2, IdleShape DEF DailyRecord
<1> HIDE DEF k
<1>4. InTime(k, utcDate) /\ Holds(k, reads, points, releases) /\ k.pc # "publish"
  BY <1>2, <1>3 DEF InTime, Holds
<1> QED BY <1>1, <1>3, <1>4, DailyAtHand, RunOnly

\* What is calculated rests on the reads of its date, and on the day before as released.
LEMMA CalculatedHolds ==
    ASSUME UcpiInv, NEW i \in Instrument, NEW d \in Dates, ReadOn(i, d)
    PROVE  /\ Grounded(Calculated(i, d), reads, i, d)
           /\ Justified(Calculated(i, d), i, d, points, releases)
<1> DEFINE p == Calculated(i, d)
<1>1. /\ p.participants = Participants(i, d)
      /\ p.change \in {"withheld", Change(Prior(i, d), Participants(i, d))}
  BY CalculatedIsAPoint DEF UcpiInv
<1> HIDE DEF p
<1>2. Grounded(p, reads, i, d)
  BY <1>1, SameReads DEF Grounded
<1>3. ASSUME p.change # "withheld"
      PROVE  /\ d > 1 /\ releases[i][d - 1] = "published" /\ points[i][d - 1] # <<>> /\ points[i][d - 1][1].level > 0
             /\ p.change = "published" => points[i][d - 1][1].participants = p.participants
  <2>1. p.change = Change(Prior(i, d), Participants(i, d)) /\ Prior(i, d) # {}
    BY <1>1, <1>3 DEF Change
  <2>2. d # 1 /\ releases[i][d - 1] = "published"
    BY <2>1 DEF Prior
  <2>3. d > 1 /\ d - 1 \in Dates
    BY <2>2, UcpiBounds
  <2>4. points[i][d - 1] # <<>> /\ points[i][d - 1][1].level > 0 /\ points[i][d - 1] \in Seq(Point)
    BY <2>2, <2>3, UcpiShapes DEF UcpiInv, Founded, PointTable
  <2>5. points[i][d - 1][1] \in Prior(i, d)
    <3>1. 1 \in DOMAIN points[i][d - 1]
      BY <2>4, EmptySeq, LenProperties
    <3> QED BY <2>2, <3>1 DEF Prior
  <2> QED BY <1>1, <2>1, <2>2, <2>3, <2>4, <2>5 DEF Change
<1> QED BY <1>2, <1>3 DEF Justified, p

LEMMA CalculateDateKeeps == ASSUME UcpiInv, NEW r \in UcpiRuns, CalculateDate(r) PROVE UcpiInv'
<1> DEFINE p == Calculated(Instr(r), Yesterday(r))
           k == [ucpiRun[r] EXCEPT !.pc = "insert", !.point = p]
<1>1. /\ ucpiRun[r] \in DailyRecord /\ ucpiRun[r].pc = "calculate" /\ InTime(ucpiRun[r], utcDate)
      /\ ucpiRun[r].date > 1 /\ ucpiRun[r].date <= utcDate /\ ucpiRun[r].at \in Instrument /\ ucpiRun[r].date \in Dates
      /\ UNCHANGED <<utcDate, reads, points, releases, failures>> /\ failures' \in 0..MaxFailures
  BY DailyAtHand DEF CalculateDate, InTime
<1>2. Instr(r) = ucpiRun[r].at /\ Yesterday(r) = ucpiRun[r].date - 1 /\ Yesterday(r) \in Dates
  BY <1>1, UcpiBounds DEF Instr, Yesterday
<1>3. CASE ReadOn(Instr(r), Yesterday(r))
  <2>1. ucpiRun' = [ucpiRun EXCEPT ![r] = k]
    BY <1>3 DEF CalculateDate
  <2>2. /\ p \in Point /\ Grounded(p, reads, ucpiRun[r].at, ucpiRun[r].date - 1)
        /\ Justified(p, ucpiRun[r].at, ucpiRun[r].date - 1, points, releases)
    BY <1>1, <1>2, <1>3, CalculatedIsAPoint, CalculatedHolds DEF UcpiInv
  <2> HIDE DEF p
  <2>3. k \in DailyRecord /\ k.pc = "insert" /\ k.at = ucpiRun[r].at /\ k.date = ucpiRun[r].date /\ k.point = p
    BY <1>1, <2>2 DEF DailyRecord
  <2> HIDE DEF k
  <2>4. InTime(k, utcDate) /\ Holds(k, reads, points, releases)
    BY <1>1, <2>2, <2>3 DEF InTime, Holds
  <2> QED BY <1>1, <2>1, <2>3, <2>4, RunOnly
<1>4. CASE ~ReadOn(Instr(r), Yesterday(r))
  BY <1>1, <1>4, ProceedsKeeps DEF CalculateDate
<1> QED BY <1>3, <1>4

\* The one point of the date, and only where there was none.
LEMMA InsertKeeps == ASSUME UcpiInv, NEW r \in UcpiRuns, InsertPoint(r) PROVE UcpiInv'
<1>0. PICK i \in Instrument, d \in Dates, p \in Point :
        i = ucpiRun[r].at /\ d = ucpiRun[r].date - 1 /\ p = ucpiRun[r].point
  <2>1. ucpiRun[r] \in DailyRecord /\ ucpiRun[r].date > 1
    BY DailyAtHand DEF InsertPoint, InTime
  <2>2. ucpiRun[r].date - 1 \in Dates
    BY <2>1, UcpiBounds DEF DailyRecord
  <2> QED BY <2>1, <2>2 DEF DailyRecord
<1> DEFINE g == [ucpiRun[r] EXCEPT !.pc = "publish"]
<1>1. /\ ucpiRun[r] \in DailyRecord /\ ucpiRun[r].pc = "insert" /\ InTime(ucpiRun[r], utcDate)
      /\ ucpiRun[r].date > 1 /\ ucpiRun[r].date <= utcDate /\ i \in Instrument /\ ucpiRun[r].date \in Dates
      /\ UNCHANGED <<utcDate, reads, releases, failures>> /\ failures' \in 0..MaxFailures
      /\ Founded(reads, points, releases) /\ points \in PointTable /\ p \in Point
      /\ Grounded(p, reads, i, d) /\ Justified(p, i, d, points, releases)
      /\ \A j \in Instrument, c \in Dates : Len(points[j][c]) <= 1
  BY <1>0, DailyAtHand DEF InsertPoint, InTime, Holds, DailyRecord
<1>2. Instr(r) = i /\ Yesterday(r) = d
  BY <1>0 DEF Instr, Yesterday
<1>3. CASE points[i][d] # <<>>
  BY <1>1, <1>2, <1>3, ProceedsKeeps DEF InsertPoint
<1>4. CASE points[i][d] = <<>>
  <2>1. points' = [points EXCEPT ![i][d] = <<p>>]
    BY <1>0, <1>2, <1>4 DEF InsertPoint
  <2>2. <<p>> \in Seq(Point) /\ Len(<<p>>) = 1 /\ <<p>> # <<>> /\ <<p>>[1] = p
    BY <1>1
  <2>3. /\ points' \in PointTable /\ points'[i][d] = <<p>>
        /\ \A j \in Instrument, c \in Dates : <<j, c>> # <<i, d>> => points'[j][c] = points[j][c]
    BY <1>1, <1>2, <2>1, <2>2 DEF PointTable
  <2>4. Stand(points, points') /\ \A j \in Instrument, c \in Dates : Len(points'[j][c]) <= 1
    <3>1. \A j \in Instrument, c \in Dates : (j = i /\ c = d) \/ points'[j][c] = points[j][c]
      BY <2>3
    <3>2. Stand(points, points')
      BY <1>4, <3>1 DEF Stand
    <3>3. Len(points'[i][d]) <= 1
      BY <2>2, <2>3
    <3> QED BY <1>1, <3>1, <3>2, <3>3
  <2>5. releases[i][d] = "none"
    BY <1>1, <1>2, <1>4 DEF Founded
  <2>6. Founded(reads', points', releases')
    <3>1. \A j \in Instrument, c \in Dates : points[j][c] = <<>> /\ points'[j][c] # <<>> => j = i /\ c = d
      BY <2>3
    <3>2. points'[i][d][1] = p
      BY <2>2, <2>3
    <3>3. Grounded(p, reads, i, d) /\ Justified(p, i, d, points', releases)
      BY <1>1, <1>2, <2>4, NothingMoves, JustifiedGrows
    <3>4. \A j \in Instrument, c \in Dates : points[j][c] = <<>> /\ points'[j][c] # <<>> =>
            Grounded(points'[j][c][1], reads, j, c) /\ Justified(points'[j][c][1], j, c, points', releases)
      BY <3>1, <3>2, <3>3
    <3>5. Founded(reads, points', releases)
      BY <1>1, <2>4, <3>4, NothingMoves, FoundedGrows
    <3> QED BY <1>1, <3>5
  <2>7. ASSUME NEW q \in UcpiRuns \ {r}, Releasing(q) PROVE ~(ucpiRun[q].at = i /\ ucpiRun[q].date = ucpiRun[r].date)
    <3>1. points[ucpiRun[q].at][ucpiRun[q].date - 1] = <<ucpiRun[q].point>>
      BY <2>7, DailyAtHand DEF Holds, Releasing
    <3>2. <<ucpiRun[q].point>> # <<>>
      OBVIOUS
    <3> QED BY <1>0, <1>4, <3>1, <3>2
  <2>8. CASE p.level > 0 /\ ~p.blocked
    <3>1. ucpiRun' = [ucpiRun EXCEPT ![r] = g]
      BY <1>0, <1>2, <1>4, <2>8 DEF InsertPoint, Goes
    <3>2. g \in DailyRecord /\ g.pc = "publish" /\ g.at = i /\ g.date = ucpiRun[r].date /\ g.point = p
      BY <1>0, <1>1 DEF DailyRecord
    <3> HIDE DEF g
    <3>3. InTime(g, utcDate) /\ Holds(g, reads', points', releases')
      BY <1>0, <1>1, <2>3, <2>5, <2>8, <3>2 DEF InTime, Holds
    <3>4. \A q \in UcpiRuns \ {r} : Releasing(q) =>
             ~(g.pc = "publish" /\ g.at = ucpiRun[q].at /\ g.date = ucpiRun[q].date)
      BY <2>7, <3>2
    <3>5. /\ utcDate' = utcDate /\ reads' = reads /\ releases' = releases
          /\ reads \in [Instrument -> SUBSET Read] /\ Grow(reads, reads) /\ Remain(releases, releases)
          /\ \A j \in Instrument : \A x \in reads[j] : x.requested <= x.completed /\ x.completed <= utcDate
          /\ releases \in ReleaseTable
      BY <1>1, DailyAtHand, NothingMoves
    <3> QED BY <1>1, <2>3, <2>4, <2>6, <3>1, <3>2, <3>3, <3>4, <3>5, UcpiStepKeeps
  <2>9. CASE ~(p.level > 0 /\ ~p.blocked)
    <3>1. Proceeds(r, "calculate")
      BY <1>0, <1>2, <1>4, <2>9 DEF InsertPoint
    <3>2. PICK k \in DailyRecord :
            /\ ucpiRun' = [ucpiRun EXCEPT ![r] = k] /\ InTime(k, utcDate) /\ k.pc # "publish"
            /\ \A R, T, L : Holds(k, R, T, L)
      BY <1>1, <3>1, ProceedsShape
    <3> QED BY <1>1, <2>3, <2>4, <2>6, <3>2, DailyAtHand, NothingMoves, UcpiStepKeeps
  <2> QED BY <2>8, <2>9
<1> QED BY <1>3, <1>4

\* The release of the run's own point, which no other run is at.
LEMMA DailyPublishKeeps == ASSUME UcpiInv, NEW r \in UcpiRuns, PublishPoint(r) PROVE UcpiInv'
<1>0. PICK i \in Instrument, d \in Dates, p \in Point :
        i = ucpiRun[r].at /\ d = ucpiRun[r].date - 1 /\ p = ucpiRun[r].point
  <2>1. ucpiRun[r] \in DailyRecord /\ ucpiRun[r].date > 1
    BY DailyAtHand DEF PublishPoint, InTime
  <2>2. ucpiRun[r].date - 1 \in Dates
    BY <2>1, UcpiBounds DEF DailyRecord
  <2> QED BY <2>1, <2>2 DEF DailyRecord
<1>1. /\ ucpiRun[r].pc = "publish" /\ ucpiRun[r].date > 1 /\ ucpiRun[r].date \in Dates
      /\ UNCHANGED <<utcDate, reads, points, failures>> /\ failures' \in 0..MaxFailures
      /\ Founded(reads, points, releases) /\ releases \in ReleaseTable
      /\ points[i][d] = <<p>> /\ p.level > 0 /\ releases[i][d] = "none" /\ Proceeds(r, "calculate")
  BY <1>0, DailyAtHand DEF PublishPoint, InTime, Holds
<1>2. PICK v \in {"published", "delayed"} : releases' = [releases EXCEPT ![i][d] = v]
  BY <1>0 DEF PublishPoint, Instr, Yesterday
<1>3. /\ releases' \in ReleaseTable
      /\ \A j \in Instrument, c \in Dates : (j = i /\ c = d) \/ releases'[j][c] = releases[j][c]
  BY <1>1, <1>2 DEF ReleaseTable, Release
<1>4. Remain(releases, releases')
  BY <1>1, <1>3 DEF Remain
<1>5. Founded(reads, points, releases')
  <2>1. <<p>> # <<>> /\ <<p>>[1] = p
    OBVIOUS
  <2>2. \A j \in Instrument, c \in Dates : releases[j][c] = "none" /\ releases'[j][c] # "none" =>
          points[j][c] # <<>> /\ points[j][c][1].level > 0
    BY <1>1, <1>3, <2>1
  <2> QED BY <1>1, <1>4, <2>2, NothingMoves, FoundedGrows
<1>6. ASSUME NEW q \in UcpiRuns \ {r}, Releasing(q)
      PROVE  releases'[ucpiRun[q].at][ucpiRun[q].date - 1] = releases[ucpiRun[q].at][ucpiRun[q].date - 1]
  <2>1. ucpiRun[q].at \in Instrument /\ ucpiRun[q].date \in Dates /\ ucpiRun[q].date > 1
    BY <1>6, DailyAtHand DEF Releasing, InTime
  <2>2. ucpiRun[q].date - 1 \in Dates
    BY <2>1, UcpiBounds
  <2>3. ~(ucpiRun[q].at = ucpiRun[r].at /\ ucpiRun[q].date = ucpiRun[r].date)
    BY <1>1, <1>6 DEF UcpiInv, OneReleases, Releasing
  <2>4. ~(ucpiRun[q].at = i /\ ucpiRun[q].date - 1 = d)
    BY <1>0, <1>1, <2>1, <2>3, UcpiBounds
  <2> QED BY <1>3, <2>1, <2>2, <2>4
<1>7. PICK k \in DailyRecord :
        /\ ucpiRun' = [ucpiRun EXCEPT ![r] = k] /\ InTime(k, utcDate) /\ k.pc # "publish"
        /\ \A R, T, L : Holds(k, R, T, L)
  BY <1>1, ProceedsShape
<1>8. /\ utcDate' = utcDate /\ reads' = reads /\ points' = points
      /\ reads \in [Instrument -> SUBSET Read] /\ Grow(reads, reads) /\ Stand(points, points)
      /\ \A j \in Instrument : \A x \in reads[j] : x.requested <= x.completed /\ x.completed <= utcDate
      /\ points \in PointTable /\ \A j \in Instrument, c \in Dates : Len(points[j][c]) <= 1
  BY <1>1, DailyAtHand, NothingMoves
<1> QED BY <1>1, <1>3, <1>4, <1>5, <1>6, <1>7, <1>8, UcpiStepKeeps

LEMMA FailsKeeps == ASSUME UcpiInv, NEW r \in UcpiRuns, CalculationFails(r) PROVE UcpiInv'
<1>1. ucpiRun[r].date > 1 /\ ucpiRun[r].pc # "idle"
  BY DailyAtHand DEF CalculationFails, InTime
<1>2. failures' \in 0..MaxFailures
  BY DailyAtHand, UcpiBounds DEF CalculationFails
<1> QED BY <1>1, <1>2, ProceedsKeeps DEF CalculationFails

LEMMA RequestKeeps == ASSUME UcpiInv, NEW r \in UcpiRuns, Request(r) PROVE UcpiInv'
<1> DEFINE k == [ucpiRun[r] EXCEPT !.pc = "fetch"]
<1>1. /\ ucpiRun[r] \in DailyRecord /\ InTime(ucpiRun[r], utcDate) /\ ucpiRun[r].pc = "collect"
      /\ ucpiRun' = [ucpiRun EXCEPT ![r] = k] /\ UNCHANGED <<utcDate, reads, points, releases, failures>>
  BY DailyAtHand DEF Request, Goes
<1>2. k \in DailyRecord /\ k.pc = "fetch" /\ k.date = ucpiRun[r].date
  BY <1>1 DEF DailyRecord
<1> HIDE DEF k
<1>3. InTime(k, utcDate) /\ Holds(k, reads, points, releases)
  BY <1>1, <1>2 DEF InTime, Holds
<1> QED BY <1>1, <1>2, <1>3, DailyAtHand, RunOnly

LEMMA ReceiveKeeps == ASSUME UcpiInv, NEW r \in UcpiRuns, Receive(r) PROVE UcpiInv'
<1>1. PICK listing \in Listing :
        ucpiRun' = [ucpiRun EXCEPT ![r].pc = "store", ![r].listing = listing, ![r].completed = utcDate]
  BY DEF Receive
<1> DEFINE k == [ucpiRun[r] EXCEPT !.pc = "store", !.listing = listing, !.completed = utcDate]
<1>2. /\ ucpiRun[r] \in DailyRecord /\ ucpiRun[r].date <= utcDate /\ utcDate <= utcDate /\ utcDate \in Dates
      /\ ucpiRun \in [UcpiRuns -> DailyRecord]
  BY DailyAtHand, UcpiShapes, UcpiBounds DEF UcpiInv, Receive, InTime
<1>3. ucpiRun' = [ucpiRun EXCEPT ![r] = k] /\ UNCHANGED <<utcDate, reads, points, releases, failures>>
  BY <1>1, <1>2 DEF Receive
<1>4. k \in DailyRecord /\ k.pc = "store" /\ k.date = ucpiRun[r].date /\ k.completed = utcDate
  BY <1>2 DEF DailyRecord
<1> HIDE DEF k
<1>5. InTime(k, utcDate) /\ Holds(k, reads, points, releases)
  BY <1>2, <1>4 DEF InTime, Holds
<1> QED BY <1>3, <1>4, <1>5, DailyAtHand, RunOnly

\* A read is added, or was there.
LEMMA StoreReadKeeps == ASSUME UcpiInv, NEW r \in UcpiRuns, StoreRead(r) PROVE UcpiInv'
<1> DEFINE x == [requested |-> ucpiRun[r].date, completed |-> ucpiRun[r].completed, listing |-> ucpiRun[r].listing]
           i == ucpiRun[r].at
<1>1. /\ ucpiRun[r] \in DailyRecord /\ ucpiRun[r].pc = "store" /\ ucpiRun[r].at \in Instrument
      /\ ucpiRun[r].date <= ucpiRun[r].completed /\ ucpiRun[r].completed <= utcDate
      /\ UNCHANGED <<utcDate, points, releases, failures>> /\ failures' \in 0..MaxFailures
      /\ Proceeds(r, "collect") /\ reads \in [Instrument -> SUBSET Read]
  BY DailyAtHand DEF StoreRead, InTime
<1>2. CASE UNCHANGED reads
  BY <1>1, <1>2, ProceedsKeeps
<1>3. CASE reads' = [reads EXCEPT ![i] = @ \cup {x}]
  <2>1. x \in Read /\ x.requested <= x.completed /\ x.completed <= utcDate
    BY <1>1 DEF Read, DailyRecord
  <2> HIDE DEF x
  <2>2. reads' \in [Instrument -> SUBSET Read] /\ Grow(reads, reads')
    BY <1>1, <1>3, <2>1 DEF Grow
  <2>3. \A j \in Instrument : \A y \in reads'[j] : y.requested <= y.completed /\ y.completed <= utcDate
    <3>1. \A j \in Instrument : \A y \in reads'[j] : y = x \/ y \in reads[j]
      BY <1>1, <1>3
    <3> QED BY <2>1, <3>1, DailyAtHand
  <2>4. Founded(reads', points, releases)
    BY <2>2, DailyAtHand, NothingMoves, FoundedGrows
  <2>5. PICK k \in DailyRecord :
          /\ ucpiRun' = [ucpiRun EXCEPT ![r] = k] /\ InTime(k, utcDate) /\ k.pc # "publish"
          /\ \A R, T, L : Holds(k, R, T, L)
    BY <1>1, ProceedsShape
  <2>6. /\ points' = points /\ releases' = releases /\ Stand(points, points) /\ Remain(releases, releases)
        /\ points \in PointTable /\ \A j \in Instrument, c \in Dates : Len(points[j][c]) <= 1
        /\ releases \in ReleaseTable
    BY <1>1, DailyAtHand, NothingMoves
  <2> QED BY <1>1, <2>2, <2>3, <2>4, <2>5, <2>6, UcpiStepKeeps
<1> QED BY <1>2, <1>3 DEF StoreRead, Instr

LEMMA DailyDiesKeeps == ASSUME UcpiInv, NEW r \in UcpiRuns, UcpiRunDies(r) PROVE UcpiInv'
<1>1. failures' \in 0..MaxFailures
  BY DailyAtHand, UcpiBounds DEF UcpiRunDies
<1>2. /\ ucpiRun' = [ucpiRun EXCEPT ![r] = UcpiIdle] /\ UNCHANGED <<utcDate, reads, points, releases>>
      /\ InTime(UcpiIdle, utcDate) /\ Holds(UcpiIdle, reads, points, releases)
  BY IdleShape DEF UcpiRunDies, InTime, Holds
<1> QED BY <1>1, <1>2, IdleShape, RunOnly

LEMMA UcpiInductive == UcpiInv /\ [UcpiNext]_ucpiVars => UcpiInv'
<1> SUFFICES ASSUME UcpiInv, [UcpiNext]_ucpiVars PROVE UcpiInv'
  OBVIOUS
<1>1. CASE UNCHANGED ucpiVars
  BY <1>1 DEF ucpiVars, UcpiInv, UcpiTypeOK, OneReleases, Releasing
<1>2. ASSUME NEW r \in UcpiRuns, NotCollected(r) PROVE UcpiInv'
  BY <1>2, DailyAtHand, ProceedsKeeps DEF NotCollected
<1>3. ASSUME NEW r \in UcpiRuns, UcpiStep(r) \/ UcpiRunDies(r) PROVE UcpiInv'
  BY <1>2, <1>3, DailyKeeps, CalculateDateKeeps, InsertKeeps, DailyPublishKeeps, FailsKeeps, RequestKeeps, ReceiveKeeps,
     StoreReadKeeps, DailyDiesKeeps DEF UcpiStep
<1> QED BY <1>1, <1>3, MidnightKeeps DEF UcpiNext

LEMMA UcpiAlways == UcpiSpec => []UcpiInv
BY UcpiInitially, UcpiInductive, PTL DEF UcpiSpec

\* The tables keep their shapes: every level is one the two central prices can give, and no
\* date has two points.
THEOREM UcpiTypeCorrect == UcpiSpec => []UcpiTypeOK
BY UcpiAlways, PTL DEF UcpiInv

\* calculateRegion over what the reads of the date list: whatever runs overlap, fail or die,
\* no point stands on a date without a read, or has a participant no read of it lists.
THEOREM PointsAreRead == UcpiSpec => []PointsRestOnReads
<1>1. UcpiInv => PointsRestOnReads
  BY SameReads DEF UcpiInv, Founded, Grounded, PointsRestOnReads
<1> QED BY <1>1, UcpiAlways, PTL

\* loadPriorRegional and percentageChangeDisposition: a change is stated against a level that
\* was released in time, and still is.
THEOREM ChangesAreAgainstReleases == UcpiSpec => []ChangeIsAgainstReleased
<1>1. UcpiInv => ChangeIsAgainstReleased
  BY DEF UcpiInv, Founded, Justified, ChangeIsAgainstReleased
<1> QED BY <1>1, UcpiAlways, PTL

-----------------------------------------------------------------------------
(* What may be released is: the transaction that stores a point and its    *)
(* release are two, and a rerun releases no point stored before it.        *)

\* A point to be released: it has a level, and no late input blocks it.
DueForRelease(row) == row # <<>> /\ row[1].level > 0 /\ ~row[1].blocked

DuesInv == failures = 0 =>
    \A i \in Instrument, d \in Dates : DueForRelease(points[i][d]) /\ releases[i][d] = "none" =>
        \E r \in UcpiRuns : Releasing(r) /\ ucpiRun[r].at = i /\ ucpiRun[r].date = d + 1

\* Every such point is released once no run is releasing, unless a statement failed or a
\* run died.
AllDueIsReleased ==
    failures = 0 /\ (\A r \in UcpiRuns : ~Releasing(r)) =>
        \A i \in Instrument, d \in Dates : DueForRelease(points[i][d]) => releases[i][d] # "none"

\* A step of a run that is not releasing, and writes no point.
LEMMA DuesKept ==
    ASSUME DuesInv, UNCHANGED <<points, releases>>, failures' = 0 => failures = 0,
           \A q \in UcpiRuns : Releasing(q) => ucpiRun'[q] = ucpiRun[q]
    PROVE  DuesInv'
BY DEF DuesInv, Releasing

LEMMA DuesInserted == ASSUME UcpiInv, DuesInv, NEW r \in UcpiRuns, InsertPoint(r) PROVE DuesInv'
<1> DEFINE i == ucpiRun[r].at
           d == ucpiRun[r].date - 1
           p == ucpiRun[r].point
           g == [ucpiRun[r] EXCEPT !.pc = "publish"]
<1>1. /\ ucpiRun[r] \in DailyRecord /\ ucpiRun[r].pc = "insert" /\ i \in Instrument /\ d \in Dates
      /\ ucpiRun[r].date = d + 1 /\ points \in PointTable /\ UNCHANGED <<releases, failures>>
  <2>1. ucpiRun[r].date \in Dates /\ ucpiRun[r].date > 1
    BY DailyAtHand DEF InsertPoint, InTime
  <2> QED BY <2>1, DailyAtHand, UcpiBounds DEF InsertPoint
<1>2. ASSUME NEW q \in UcpiRuns, Releasing(q) PROVE ucpiRun'[q] = ucpiRun[q]
  BY <1>1, <1>2, UcpiShapes DEF UcpiInv, InsertPoint, Goes, Proceeds, Releasing
<1>3. CASE UNCHANGED points
  BY <1>1, <1>2, <1>3, DuesKept
<1>4. CASE points[i][d] = <<>>
  <2>1. points' = [points EXCEPT ![i][d] = <<p>>]
    BY <1>4 DEF InsertPoint, Instr, Yesterday
  <2>2. /\ points'[i][d] = <<p>>
        /\ \A j \in Instrument, c \in Dates : (j = i /\ c = d) \/ points'[j][c] = points[j][c]
    BY <1>1, <2>1 DEF PointTable
  <2>3. DueForRelease(points'[i][d]) => p.level > 0 /\ ~p.blocked
    BY <2>2 DEF DueForRelease
  <2>4. ASSUME p.level > 0, ~p.blocked
        PROVE  ucpiRun'[r].pc = "publish" /\ ucpiRun'[r].at = i /\ ucpiRun'[r].date = d + 1
    <3>1. ucpiRun' = [ucpiRun EXCEPT ![r] = g]
      BY <1>4, <2>4 DEF InsertPoint, Instr, Yesterday, Goes
    <3>2. ucpiRun'[r] = g
      BY <3>1, UcpiShapes DEF UcpiInv
    <3> QED BY <1>1, <3>2 DEF DailyRecord
  <2> SUFFICES ASSUME failures = 0, NEW j \in Instrument, NEW c \in Dates,
                      DueForRelease(points'[j][c]), releases[j][c] = "none"
               PROVE  \E q \in UcpiRuns : ucpiRun'[q].pc = "publish" /\ ucpiRun'[q].at = j /\ ucpiRun'[q].date = c + 1
    BY <1>1 DEF DuesInv, Releasing, DueForRelease
  <2>5. CASE j = i /\ c = d
    BY <2>3, <2>4, <2>5
  <2>6. CASE points'[j][c] = points[j][c]
    <3>1. PICK q \in UcpiRuns : Releasing(q) /\ ucpiRun[q].at = j /\ ucpiRun[q].date = c + 1
      BY <2>6 DEF DuesInv
    <3> QED BY <1>2, <3>1 DEF Releasing
  <2> QED BY <2>2, <2>5, <2>6
<1> QED BY <1>3, <1>4 DEF InsertPoint, Instr, Yesterday

LEMMA DuesReleased == ASSUME UcpiInv, DuesInv, NEW r \in UcpiRuns, PublishPoint(r) PROVE DuesInv'
<1> DEFINE i == ucpiRun[r].at
           d == ucpiRun[r].date - 1
<1>1. /\ i \in Instrument /\ d \in Dates /\ ucpiRun[r].date = d + 1 /\ releases \in ReleaseTable
      /\ UNCHANGED <<points, failures>>
  <2>1. ucpiRun[r].date \in Dates /\ ucpiRun[r].date > 1
    BY DailyAtHand DEF PublishPoint, InTime
  <2> QED BY <2>1, DailyAtHand, UcpiBounds DEF PublishPoint
<1>2. ASSUME NEW q \in UcpiRuns, q # r PROVE ucpiRun'[q] = ucpiRun[q]
  BY <1>2, UcpiShapes DEF UcpiInv, PublishPoint, Proceeds
<1>3. PICK v \in {"published", "delayed"} : releases' = [releases EXCEPT ![i][d] = v]
  BY DEF PublishPoint, Instr, Yesterday
<1>4. /\ releases'[i][d] # "none"
      /\ \A j \in Instrument, c \in Dates : (j = i /\ c = d) \/ releases'[j][c] = releases[j][c]
  BY <1>1, <1>3 DEF ReleaseTable, Release
<1> SUFFICES ASSUME failures = 0, NEW j \in Instrument, NEW c \in Dates,
                    DueForRelease(points[j][c]), releases'[j][c] = "none"
             PROVE  \E q \in UcpiRuns : ucpiRun'[q].pc = "publish" /\ ucpiRun'[q].at = j /\ ucpiRun'[q].date = c + 1
  BY <1>1 DEF DuesInv, Releasing, DueForRelease
<1>5. ~(j = i /\ c = d) /\ releases[j][c] = "none"
  BY <1>4
<1>6. PICK q \in UcpiRuns : Releasing(q) /\ ucpiRun[q].at = j /\ ucpiRun[q].date = c + 1
  BY <1>5 DEF DuesInv
<1>7. q # r
  BY <1>1, <1>5, <1>6, UcpiBounds
<1> QED BY <1>2, <1>6, <1>7 DEF Releasing

LEMMA DuesStep == UcpiInv /\ DuesInv /\ [UcpiNext]_ucpiVars => DuesInv'
<1> SUFFICES ASSUME UcpiInv, DuesInv, [UcpiNext]_ucpiVars PROVE DuesInv'
  OBVIOUS
<1>1. CASE UNCHANGED <<points, releases, failures, ucpiRun>>
  BY <1>1, DuesKept
<1>2. ASSUME NEW r \in UcpiRuns, CalculationFails(r) \/ UcpiRunDies(r) PROVE DuesInv'
  <2>1. CASE failures' # 0
    BY <2>1 DEF DuesInv
  <2>2. CASE failures' = 0
    <3>1. failures \in Nat
      BY DailyAtHand, UcpiBounds
    <3>2. UcpiRunDies(r) /\ ucpiRun[r].pc = "fetch" /\ UNCHANGED failures
      BY <1>2, <2>2, <3>1 DEF CalculationFails, UcpiRunDies
    <3> QED BY <3>2, UcpiShapes, DuesKept DEF UcpiInv, UcpiRunDies, Releasing
  <2> QED BY <2>1, <2>2
<1>3. ASSUME NEW r \in UcpiRuns,
             \/ DailyRun(r) \/ CalculateDate(r) \/ Request(r) \/ NotCollected(r) \/ Receive(r) \/ StoreRead(r)
      PROVE  DuesInv'
  BY <1>3, UcpiShapes, DuesKept
     DEF UcpiInv, DailyRun, CalculateDate, Request, NotCollected, Receive, StoreRead, Goes, Proceeds, Releasing
<1> QED BY <1>1, <1>2, <1>3, DuesInserted, DuesReleased DEF UcpiNext, ucpiVars, Midnight, UcpiStep

\* "Calculation is idempotent (a day already calculated is reported, not written twice), so
\* running it first on a re-run costs nothing" (daily-run.ts): it costs a release only after a
\* failure, for a point that was stored and not released.
THEOREM OnlyFailuresWithhold == UcpiSpec => []AllDueIsReleased
<1>1. UcpiInit => DuesInv
  BY DEF UcpiInit, DuesInv, DueForRelease
<1>2. DuesInv => AllDueIsReleased
  BY DEF DuesInv, AllDueIsReleased
<1> QED BY <1>1, <1>2, DuesStep, UcpiInitially, UcpiInductive, PTL DEF UcpiSpec

-----------------------------------------------------------------------------
(* One date of the token volume index. *)

UtviRunRecord == [pc : UtviPc, content : Contents \cup {NoRows}, final : BOOLEAN, snapshot : Nat,
              sawFinal : BOOLEAN, sawComplete : BOOLEAN, evidence : BOOLEAN, calculation : Nat,
              publication : Nat]

\* The three tables, S, C and P, refer to one another and agree on what is final.
Rows(S, C, P) ==
    /\ S \in Seq(Snapshot) /\ C \in Seq(Calculation) /\ P \in Seq(Publication)
    /\ \A k \in DOMAIN C : C[k].snapshot \in DOMAIN S /\ (C[k].final => S[C[k].snapshot].final)
    /\ \A k \in DOMAIN P : P[k].calculation \in DOMAIN C /\ P[k].final = C[P[k].calculation].final

OnLiveEvidence(S, C, P) == P # <<>> => C[P[Len(P)].calculation].snapshot = Len(S)
Shown(S, C, P) == Total[S[C[P[Len(P)].calculation].snapshot].content]

\* What a run holds is in the tables; and if nothing was published since it found that it
\* has something to publish, it still has.
HasContent(run) == run.pc # "idle" => run.content \in Contents
HasSnapshot(run, S) ==
    /\ run.pc = "apply" => run.snapshot <= Len(S)
    /\ run.pc \in {"evidence", "lookup", "record", "standing", "publish"} =>
         run.snapshot \in DOMAIN S /\ S[run.snapshot].content = run.content
HasCalculation(run, C) ==
    run.pc \in {"standing", "publish"} =>
        run.calculation \in DOMAIN C /\ C[run.calculation].snapshot = run.snapshot
HasNews(run, S, C, P) ==
    run.pc = "publish" =>
        /\ run.publication <= Len(P)
        /\ run.publication = Len(P) => P = <<>> \/ ~OnLiveEvidence(S, C, P) \/ Shown(S, C, P) # Total[run.content]
Fits(run, S, C, P) ==
    HasContent(run) /\ HasSnapshot(run, S) /\ HasCalculation(run, C) /\ HasNews(run, S, C, P)

UtviInv ==
    /\ UtviTypeOK
    /\ Rows(snapshots, calculations, publications)
    /\ \A r \in UtviRuns : Fits(utviRun[r], snapshots, calculations, publications)

\* How the tables move: snapshots are added and settled, rows of the others are added.
Grown(S, T) == /\ T \in Seq(Snapshot) /\ Len(S) <= Len(T)
               /\ \A k \in DOMAIN S : k \in DOMAIN T /\ T[k].content = S[k].content /\ (S[k].final => T[k].final)
Longer(C, D) == Len(C) <= Len(D) /\ \A k \in DOMAIN C : k \in DOMAIN D /\ D[k] = C[k]

LEMMA UtviShapes ==
    ASSUME UtviTypeOK
    PROVE  /\ served \in [content : Contents \cup {NoRows}, moves : 0..MaxSourceMoves] /\ closed \in BOOLEAN
           /\ utviRun \in [UtviRuns -> UtviRunRecord] /\ deaths \in 0..MaxDeaths
BY DEF UtviTypeOK, UtviRunRecord

\* The domain of a table, and its last row.
LEMMA Table ==
    ASSUME NEW A, NEW S \in Seq(A)
    PROVE  /\ DOMAIN S = 1..Len(S) /\ Len(S) \in Nat
           /\ S # <<>> => Len(S) \in DOMAIN S /\ S[Len(S)] \in A
           /\ \A k \in DOMAIN S : S[k] \in A
<1>1. DOMAIN S = 1..Len(S) /\ Len(S) \in Nat
  BY LenProperties
<1>2. S # <<>> => Len(S) # 0
  BY EmptySeq
<1>3. \A k \in DOMAIN S : S[k] \in A
  BY ElementOfSeq, <1>1
<1> QED BY <1>1, <1>2, <1>3

LEMMA AddRow ==
    ASSUME NEW A, NEW S \in Seq(A), NEW x \in A
    PROVE  /\ Append(S, x) \in Seq(A) /\ Len(Append(S, x)) = Len(S) + 1 /\ Append(S, x) # <<>>
           /\ Longer(S, Append(S, x)) /\ Append(S, x)[Len(S) + 1] = x
           /\ DOMAIN Append(S, x) = DOMAIN S \cup {Len(S) + 1}
<1>1. DOMAIN S = 1..Len(S) /\ Len(S) \in Nat
  BY Table
<1>2. /\ Append(S, x) \in Seq(A) /\ Len(Append(S, x)) = Len(S) + 1 /\ Append(S, x) # <<>>
      /\ \A k \in 1..Len(S) : Append(S, x)[k] = S[k] /\ Append(S, x)[Len(S) + 1] = x
  BY AppendProperties
<1>3. DOMAIN Append(S, x) = 1..(Len(S) + 1)
  BY <1>2, LenProperties
<1>4. Append(S, x)[Len(S) + 1] = x
  BY AppendProperties
<1>5. 1..(Len(S) + 1) = (1..Len(S)) \cup {Len(S) + 1}
  BY <1>1
<1> QED BY <1>1, <1>2, <1>3, <1>4, <1>5 DEF Longer

LEMMA StaysGrown ==
    /\ \A S \in Seq(Snapshot) : Grown(S, S)
    /\ \A C \in Seq(Calculation) : Longer(C, C)
    /\ \A P \in Seq(Publication) : Longer(P, P)
BY LenProperties DEF Grown, Longer

\* What a run holds stays in the tables as they grow.
LEMMA FitsGrown ==
    ASSUME NEW S, NEW C, NEW P, Rows(S, C, P), NEW T, NEW D, NEW Q,
           Grown(S, T), D \in Seq(Calculation), Longer(C, D), Q \in Seq(Publication), Q = P \/ Len(Q) > Len(P),
           NEW run \in UtviRunRecord, Fits(run, S, C, P)
    PROVE  Fits(run, T, D, Q)
<1>1. /\ Len(S) \in Nat /\ Len(T) \in Nat /\ Len(P) \in Nat /\ Len(Q) \in Nat /\ DOMAIN S = 1..Len(S)
      /\ DOMAIN C = 1..Len(C) /\ run.snapshot \in Nat /\ run.publication \in Nat
      /\ P # <<>> => Len(P) \in DOMAIN P
  BY Table DEF Rows, Grown, UtviRunRecord
<1>2. HasSnapshot(run, T)
  BY <1>1 DEF Fits, HasSnapshot, Grown
<1>3. HasCalculation(run, D)
  BY DEF Fits, HasCalculation, Longer
<1>4. HasNews(run, T, D, Q)
  <2> SUFFICES ASSUME run.pc = "publish"
               PROVE  /\ run.publication <= Len(Q)
                      /\ run.publication = Len(Q) =>
                           Q = <<>> \/ ~OnLiveEvidence(T, D, Q) \/ Shown(T, D, Q) # Total[run.content]
    BY DEF HasNews
  <2>1. run.publication <= Len(P)
    BY DEF Fits, HasNews
  <2>2. CASE Len(Q) > Len(P)
    BY <1>1, <2>1, <2>2
  <2>3. CASE Q = P
    <3> SUFFICES ASSUME run.publication = Len(P), P # <<>>, OnLiveEvidence(T, D, P)
                 PROVE  Shown(T, D, P) # Total[run.content]
      BY <2>1, <2>3
    <3> DEFINE c == P[Len(P)].calculation
    <3>1. c \in DOMAIN C /\ D[c] = C[c] /\ C[c].snapshot \in DOMAIN S /\ Len(P) \in DOMAIN P
      BY <1>1 DEF Rows, Longer
    <3>2. C[c].snapshot = Len(T) /\ C[c].snapshot <= Len(S) /\ Len(S) <= Len(T)
      BY <1>1, <3>1 DEF OnLiveEvidence, Grown
    <3>3. OnLiveEvidence(S, C, P)
      BY <1>1, <3>2 DEF OnLiveEvidence
    <3>4. Shown(T, D, P) = Shown(S, C, P)
      BY <3>1 DEF Shown, Grown
    <3> QED BY <3>3, <3>4 DEF Fits, HasNews
  <2> QED BY <2>2, <2>3
<1> QED BY <1>2, <1>3, <1>4 DEF Fits

\* The evidence may be superseded under a point as the tables below it grow; its value
\* stands.
LEMMA EvidenceOnly ==
    ASSUME Rows(snapshots, calculations, publications), Grown(snapshots, snapshots'),
           calculations' \in Seq(Calculation), Longer(calculations, calculations'), UNCHANGED publications
    PROVE  [Reader!Next]_(Reader!series)
<1>1. /\ DOMAIN snapshots = 1..Len(snapshots) /\ Len(snapshots) \in Nat /\ Len(snapshots') \in Nat
      /\ Len(publications) \in Nat /\ publications # <<>> => Len(publications) \in DOMAIN publications
  BY Table DEF Rows, Grown
<1>2. CASE publications = <<>>
  BY <1>2 DEF Reader!series, Published, EvidenceIsLive
<1>3. CASE publications # <<>>
  <2> DEFINE c == publications[Len(publications)].calculation
  <2>1. c \in DOMAIN calculations /\ calculations'[c] = calculations[c]
        /\ calculations[c].snapshot \in DOMAIN snapshots
    BY <1>1, <1>3 DEF Rows, Longer
  <2>2. Published' = Published
    BY <2>1, <1>3 DEF Published, SnapshotOf, Last, Grown
  <2>3. EvidenceIsLive' => EvidenceIsLive
    <3>1. calculations[c].snapshot <= Len(snapshots) /\ Len(snapshots) <= Len(snapshots')
      BY <1>1, <2>1 DEF Grown
    <3> QED BY <1>1, <1>3, <2>1, <3>1 DEF EvidenceIsLive, SnapshotOf, Last
  <2>4. EvidenceIsLive \in BOOLEAN /\ EvidenceIsLive' \in BOOLEAN
    BY DEF EvidenceIsLive
  <2>5. Len(publications) > 0
    BY <1>1, <1>3, EmptySeq, Table DEF Rows
  <2>6. CASE EvidenceIsLive' = EvidenceIsLive
    BY <2>2, <2>6 DEF Reader!series
  <2>7. CASE EvidenceIsLive' # EvidenceIsLive
    BY <2>2, <2>5, <2>7 DEF Reader!Next, Reader!EvidenceMoves
  <2> QED BY <2>6, <2>7
<1> QED BY <1>2, <1>3

LEMMA RestingFits ==
    /\ Resting \in UtviRunRecord /\ Resting.pc = "idle"
    /\ \A S, C, P : Fits(Resting, S, C, P)
<1>1. Resting \in UtviRunRecord /\ Resting.pc = "idle"
  BY DEF Resting, UtviRunRecord, UtviPc
<1> QED BY <1>1 DEF Fits, HasContent, HasSnapshot, HasCalculation, HasNews

LEMMA UtviInitially == UtviInit => UtviInv
<1> SUFFICES ASSUME UtviInit PROVE UtviInv
  OBVIOUS
<1>1. utviRun \in [UtviRuns -> UtviRunRecord] /\ \A r \in UtviRuns : utviRun[r] = Resting
  BY RestingFits DEF UtviInit
<1>2. Rows(snapshots, calculations, publications)
  <2>1. CASE snapshots = <<>> /\ calculations = <<>> /\ publications = <<>>
    BY <2>1, EmptySeq DEF Rows
  <2>2. ASSUME NEW c \in Contents,
               snapshots = <<[content |-> c, final |-> TRUE, complete |-> FALSE]>>,
               calculations = <<[snapshot |-> 1, final |-> TRUE]>>,
               publications = <<[calculation |-> 1, final |-> TRUE]>>
        PROVE  Rows(snapshots, calculations, publications)
    <3>1. /\ [content |-> c, final |-> TRUE, complete |-> FALSE] \in Snapshot
          /\ [snapshot |-> 1, final |-> TRUE] \in Calculation
          /\ [calculation |-> 1, final |-> TRUE] \in Publication
      BY DEF Snapshot, Calculation, Publication
    <3>2. snapshots \in Seq(Snapshot) /\ calculations \in Seq(Calculation) /\ publications \in Seq(Publication)
      BY <2>2, <3>1
    <3>3. /\ DOMAIN snapshots = {1} /\ DOMAIN calculations = {1} /\ DOMAIN publications = {1}
          /\ snapshots[1].final = TRUE /\ calculations[1] = [snapshot |-> 1, final |-> TRUE]
          /\ publications[1] = [calculation |-> 1, final |-> TRUE]
      BY <2>2
    <3>4. calculations[1].snapshot = 1 /\ calculations[1].final /\ publications[1].calculation = 1
          /\ publications[1].final = TRUE /\ calculations[1].final = TRUE
      BY <3>3
    <3> QED BY <3>2, <3>3, <3>4 DEF Rows
  <2> QED BY <2>1, <2>2 DEF UtviInit
<1>3. UtviTypeOK
  <2>1. served \in [content : Contents \cup {NoRows}, moves : 0..MaxSourceMoves]
    <3>1. 0 \in 0..MaxSourceMoves
      BY UtviAssumption
    <3>2. CASE served \in [content : Contents \cup {NoRows}, moves : {0}]
      BY <3>1, <3>2
    <3>3. CASE \E c \in Contents : served = [content |-> c, moves |-> 0]
      BY <3>1, <3>3
    <3> QED BY <3>2, <3>3 DEF UtviInit
  <2>2. closed \in BOOLEAN /\ deaths \in 0..MaxDeaths
    <3>1. closed \in BOOLEAN
      BY Zenon DEF UtviInit
    <3>2. deaths = 0
      BY DEF UtviInit
    <3> QED BY <3>1, <3>2, UtviAssumption
  <2> QED BY <1>1, <1>2, <2>1, <2>2 DEF UtviTypeOK, Rows, UtviRunRecord
<1> QED BY <1>1, <1>2, <1>3, RestingFits DEF UtviInv

\* A step of one run that moves the tables in the ways they move.
LEMMA UtviRunMoves ==
    ASSUME UtviInv, NEW r \in UtviRuns, NEW k \in UtviRunRecord, utviRun' = [utviRun EXCEPT ![r] = k],
           Rows(snapshots', calculations', publications'), Fits(k, snapshots', calculations', publications'),
           Grown(snapshots, snapshots'), Longer(calculations, calculations'),
           publications' = publications \/ Len(publications') > Len(publications),
           UNCHANGED <<served, closed>>, deaths' \in 0..MaxDeaths
    PROVE  UtviInv'
<1>1. utviRun \in [UtviRuns -> UtviRunRecord] /\ Rows(snapshots, calculations, publications)
  BY UtviShapes DEF UtviInv
<1>2. /\ utviRun' \in [UtviRuns -> UtviRunRecord] /\ utviRun'[r] = k
      /\ \A q \in UtviRuns \ {r} : utviRun'[q] = utviRun[q]
  BY <1>1
<1>3. calculations' \in Seq(Calculation) /\ publications' \in Seq(Publication)
  BY DEF Rows
<1>4. ASSUME NEW q \in UtviRuns PROVE Fits(utviRun'[q], snapshots', calculations', publications')
  <2>1. CASE q = r
    BY <1>2, <2>1
  <2>2. CASE q # r
    BY <1>1, <1>2, <1>3, <2>2, FitsGrown DEF UtviInv
  <2> QED BY <2>1, <2>2
<1>5. UtviTypeOK'
  BY <1>2 DEF UtviInv, UtviTypeOK, Rows, UtviRunRecord
<1> QED BY <1>4, <1>5 DEF UtviInv

\* A step that touches no table: the run goes on, or ends.
LEMMA RunReads ==
    ASSUME UtviInv, NEW r \in UtviRuns, NEW k \in UtviRunRecord, utviRun' = [utviRun EXCEPT ![r] = k],
           Fits(k, snapshots, calculations, publications), UNCHANGED <<served, closed, tables>>,
           deaths' \in 0..MaxDeaths
    PROVE  UtviInv'
<1>1. Rows(snapshots, calculations, publications)
  BY DEF UtviInv
<1>2. Grown(snapshots, snapshots) /\ Longer(calculations, calculations)
  BY <1>1, StaysGrown DEF Rows
<1> QED BY <1>1, <1>2, UtviRunMoves DEF tables

LEMMA RunEnds ==
    ASSUME UtviInv, NEW r \in UtviRuns, Ends(r), UNCHANGED <<served, closed, tables>>, deaths' \in 0..MaxDeaths
    PROVE  UtviInv'
BY RestingFits, RunReads DEF Ends

\* What is known of the run at hand and of the tables.
LEMMA UtviAtHand ==
    ASSUME UtviInv, NEW r \in UtviRuns
    PROVE  /\ utviRun[r] \in UtviRunRecord /\ Fits(utviRun[r], snapshots, calculations, publications)
           /\ Rows(snapshots, calculations, publications) /\ deaths \in 0..MaxDeaths
           /\ Grown(snapshots, snapshots) /\ Longer(calculations, calculations)
           /\ Len(snapshots) \in Nat /\ DOMAIN snapshots = 1..Len(snapshots)
           /\ Len(calculations) \in Nat /\ Len(publications) \in Nat
<1>1. Rows(snapshots, calculations, publications)
  BY DEF UtviInv
<1>2. Grown(snapshots, snapshots) /\ Longer(calculations, calculations)
  BY <1>1, StaysGrown DEF Rows
<1>3. /\ Len(snapshots) \in Nat /\ DOMAIN snapshots = 1..Len(snapshots)
      /\ Len(calculations) \in Nat /\ Len(publications) \in Nat
  BY <1>1, Table DEF Rows
<1> QED BY <1>1, <1>2, <1>3, UtviShapes DEF UtviInv

LEMMA FetchRankingsKeeps == ASSUME UtviInv, NEW r \in UtviRuns, FetchRankings(r) PROVE UtviInv'
<1> DEFINE k == [[Resting EXCEPT !.content = served.content, !.final = closed] EXCEPT !.pc = "read"]
<1>1. served.content \in Contents /\ closed \in BOOLEAN
  BY UtviShapes DEF UtviInv, FetchRankings
<1>2. k \in UtviRunRecord /\ k.pc = "read" /\ k.content = served.content
  BY <1>1, RestingFits DEF UtviRunRecord, UtviPc
<1>3. utviRun' = [utviRun EXCEPT ![r] = k] /\ UNCHANGED <<served, closed, tables, deaths>>
  BY DEF FetchRankings, GoesOn
<1> HIDE DEF k
<1>4. Fits(k, snapshots, calculations, publications)
  BY <1>1, <1>2 DEF Fits, HasContent, HasSnapshot, HasCalculation, HasNews
<1> QED BY <1>2, <1>3, <1>4, UtviAtHand, RunReads

LEMMA ActiveKeeps == ASSUME UtviInv, NEW r \in UtviRuns, ActiveSnapshot(r) PROVE UtviInv'
<1> DEFINE final == snapshots # <<>> /\ Last(snapshots).final
           complete == snapshots # <<>> => Last(snapshots).complete
           k == [[utviRun[r] EXCEPT !.snapshot = Len(snapshots), !.sawFinal = final, !.sawComplete = complete]
                 EXCEPT !.pc = "apply"]
<1>1. utviRun[r] \in UtviRunRecord /\ utviRun[r].pc = "read" /\ utviRun[r].content \in Contents /\ Len(snapshots) \in Nat
  BY UtviAtHand DEF ActiveSnapshot, Fits, HasContent
<1>2. final \in BOOLEAN /\ complete \in BOOLEAN
  <2>1. snapshots # <<>> => Last(snapshots) \in Snapshot
    BY UtviAtHand, Table DEF Rows, Last
  <2> QED BY <2>1 DEF Snapshot
<1>3. utviRun' = [utviRun EXCEPT ![r] = k] /\ UNCHANGED <<served, closed, tables, deaths>>
  BY DEF ActiveSnapshot, GoesOn
<1> HIDE DEF final, complete
<1>4. k \in UtviRunRecord /\ k.pc = "apply" /\ k.content = utviRun[r].content /\ k.snapshot = Len(snapshots)
  BY <1>1, <1>2 DEF UtviRunRecord, UtviPc
<1> HIDE DEF k
<1>5. Fits(k, snapshots, calculations, publications)
  BY <1>1, <1>4 DEF Fits, HasContent, HasSnapshot, HasCalculation, HasNews
<1> QED BY <1>3, <1>4, <1>5, UtviAtHand, RunReads

\* A run that found the snapshot unchanged holds a snapshot of what it read.
LEMMA ConfirmedFits ==
    ASSUME UtviInv, NEW r \in UtviRuns, utviRun[r].pc = "apply", Unchanged(r), NEW S, Grown(snapshots, S)
    PROVE  LET k == [utviRun[r] EXCEPT !.pc = "evidence"]
           IN k \in UtviRunRecord /\ Fits(k, S, calculations, publications)
<1> DEFINE k == [utviRun[r] EXCEPT !.pc = "evidence"]
<1>1. /\ utviRun[r] \in UtviRunRecord /\ Len(snapshots) \in Nat /\ DOMAIN snapshots = 1..Len(snapshots)
      /\ Fits(utviRun[r], snapshots, calculations, publications)
  BY UtviAtHand
<1>2. utviRun[r].content \in Contents /\ utviRun[r].snapshot <= Len(snapshots) /\ utviRun[r].snapshot \in Nat
  BY <1>1 DEF Fits, HasContent, HasSnapshot, UtviRunRecord
<1>3. utviRun[r].snapshot \in DOMAIN snapshots /\ snapshots[utviRun[r].snapshot].content = utviRun[r].content
  BY <1>1, <1>2 DEF Unchanged
<1>4. utviRun[r].snapshot \in DOMAIN S /\ S[utviRun[r].snapshot].content = utviRun[r].content
  BY <1>3 DEF Grown
<1>5. k \in UtviRunRecord /\ k.pc = "evidence" /\ k.content = utviRun[r].content /\ k.snapshot = utviRun[r].snapshot
  BY <1>1 DEF UtviRunRecord, UtviPc
<1> HIDE DEF k
<1>6. Fits(k, S, calculations, publications)
  BY <1>2, <1>4, <1>5 DEF Fits, HasContent, HasSnapshot, HasCalculation, HasNews
<1> QED BY <1>5, <1>6 DEF k

LEMMA ConfirmKeeps == ASSUME UtviInv, NEW r \in UtviRuns, Confirm(r) PROVE UtviInv'
<1> DEFINE k == [utviRun[r] EXCEPT !.pc = "evidence"]
<1>1. k \in UtviRunRecord /\ Fits(k, snapshots, calculations, publications)
  BY UtviAtHand, ConfirmedFits DEF Confirm
<1>2. utviRun' = [utviRun EXCEPT ![r] = k] /\ UNCHANGED <<served, closed, tables, deaths>>
  BY DEF Confirm, GoesOn
<1> HIDE DEF k
<1> QED BY <1>1, <1>2, UtviAtHand, RunReads

\* A settled snapshot keeps its place and its content; nothing settles back.
LEMMA SettleKeeps == ASSUME UtviInv, NEW r \in UtviRuns, Settle(r) PROVE UtviInv'
<1> DEFINE n == utviRun[r].snapshot
           k == [utviRun[r] EXCEPT !.pc = "evidence"]
<1>1. /\ utviRun[r].pc = "apply" /\ Unchanged(r)
      /\ UNCHANGED <<served, closed, calculations, publications, deaths>>
  BY DEF Settle
<1>2. CASE n = Len(snapshots) /\ ~Last(snapshots).final
  <2>1. snapshots' = [snapshots EXCEPT ![n].final = TRUE] /\ utviRun' = [utviRun EXCEPT ![r] = k]
    BY <1>2 DEF Settle, GoesOn
  <2>2. n \in DOMAIN snapshots /\ snapshots \in Seq(Snapshot)
    BY <1>1, <1>2, UtviAtHand DEF Unchanged, Rows
  <2> DEFINE y == [snapshots[n] EXCEPT !.final = TRUE]
  <2>3. /\ y \in Snapshot /\ y.content = snapshots[n].content /\ y.final
        /\ snapshots' = [snapshots EXCEPT ![n] = y]
    <3>1. snapshots[n] \in Snapshot
      BY <2>2, Table
    <3>2. y \in Snapshot /\ y.content = snapshots[n].content /\ y.final
      BY <3>1 DEF Snapshot
    <3>3. snapshots' = [snapshots EXCEPT ![n] = y]
      BY <2>1, Zenon
    <3> QED BY <3>2, <3>3
  <2> HIDE DEF y
  <2>4. /\ snapshots' \in Seq(Snapshot) /\ Len(snapshots') = Len(snapshots) /\ DOMAIN snapshots' = DOMAIN snapshots
        /\ \A j \in DOMAIN snapshots :
             snapshots'[j] = IF j = n THEN y ELSE snapshots[j]
    BY <2>2, <2>3, ExceptSeq
  <2>5. Grown(snapshots, snapshots')
    BY <2>2, <2>3, <2>4, UtviAtHand DEF Grown
  <2>6. Rows(snapshots', calculations', publications')
    <3>1. Rows(snapshots, calculations, publications)
      BY UtviAtHand
    <3>2. \A j \in DOMAIN calculations : calculations[j].snapshot \in DOMAIN snapshots' /\
            (calculations[j].final => snapshots'[calculations[j].snapshot].final)
      BY <2>5, <3>1 DEF Rows, Grown
    <3> QED BY <1>1, <2>4, <3>1, <3>2 DEF Rows
  <2>7. k \in UtviRunRecord /\ Fits(k, snapshots', calculations, publications)
    BY <1>1, <2>5, ConfirmedFits
  <2> HIDE DEF k
  <2> QED BY <1>1, <2>1, <2>5, <2>6, <2>7, UtviAtHand, UtviRunMoves
<1>3. CASE ~(n = Len(snapshots) /\ ~Last(snapshots).final)
  BY <1>1, <1>3, UtviAtHand, RunEnds DEF Settle, tables
<1> QED BY <1>2, <1>3

LEMMA SupersedeKeeps == ASSUME UtviInv, NEW r \in UtviRuns, Supersede(r) PROVE UtviInv'
<1> DEFINE n == Len(snapshots) + 1
           x == [content |-> utviRun[r].content, final |-> utviRun[r].final, complete |-> TRUE]
           k == [[utviRun[r] EXCEPT !.snapshot = n, !.sawComplete = FALSE] EXCEPT !.pc = "evidence"]
<1>1. utviRun[r].pc = "apply" /\ UNCHANGED <<served, closed, calculations, publications, deaths>>
  BY DEF Supersede
<1>2. /\ utviRun[r] \in UtviRunRecord /\ utviRun[r].content \in Contents
      /\ Rows(snapshots, calculations, publications) /\ Len(snapshots) \in Nat
  BY <1>1, UtviAtHand DEF Fits, HasContent
<1>3. CASE utviRun[r].snapshot = Len(snapshots)
  <2>1. snapshots' = Append(snapshots, x) /\ utviRun' = [utviRun EXCEPT ![r] = k]
    BY <1>3 DEF Supersede, GoesOn
  <2>2. x \in Snapshot /\ x.content = utviRun[r].content
    BY <1>2 DEF UtviRunRecord, Snapshot
  <2>3. /\ k \in UtviRunRecord /\ k.pc = "evidence" /\ k.content = utviRun[r].content /\ k.snapshot = n
    <3>1. n \in Nat
      BY <1>2
    <3> HIDE DEF n
    <3> QED BY <1>2, <3>1 DEF UtviRunRecord, UtviPc
  <2> HIDE DEF x, k
  <2>4. /\ snapshots' \in Seq(Snapshot) /\ Len(snapshots') = n /\ Longer(snapshots, snapshots')
        /\ snapshots'[n] = x /\ DOMAIN snapshots' = DOMAIN snapshots \cup {n}
    BY <1>2, <2>1, <2>2, AddRow DEF Rows
  <2>5. Grown(snapshots, snapshots')
    BY <2>4 DEF Longer, Grown
  <2>6. Rows(snapshots', calculations', publications')
    BY <1>1, <1>2, <2>4, <2>5 DEF Rows, Grown
  <2>7. Fits(k, snapshots', calculations', publications')
    BY <1>2, <2>2, <2>3, <2>4 DEF Fits, HasContent, HasSnapshot, HasCalculation, HasNews
  <2> QED BY <1>1, <2>1, <2>3, <2>5, <2>6, <2>7, UtviAtHand, UtviRunMoves
<1>4. CASE utviRun[r].snapshot # Len(snapshots)
  BY <1>1, <1>4, UtviAtHand, RunEnds DEF Supersede, tables
<1> QED BY <1>3, <1>4

LEMMA EvidenceKeeps == ASSUME UtviInv, NEW r \in UtviRuns, ReadEvidence(r) PROVE UtviInv'
<1> DEFINE pc == IF utviRun[r].sawComplete THEN "lookup" ELSE "record"
           k == [[utviRun[r] EXCEPT !.evidence = EvidenceIsLive] EXCEPT !.pc = pc]
<1>1. utviRun[r] \in UtviRunRecord /\ utviRun[r].pc = "evidence" /\ Fits(utviRun[r], snapshots, calculations, publications)
  BY UtviAtHand DEF ReadEvidence
<1>2. utviRun' = [utviRun EXCEPT ![r] = k] /\ UNCHANGED <<served, closed, tables, deaths>>
  BY DEF ReadEvidence, GoesOn
<1>3. pc \in {"lookup", "record"} /\ EvidenceIsLive \in BOOLEAN
  BY DEF EvidenceIsLive
<1> HIDE DEF pc
<1>4. /\ k \in UtviRunRecord /\ k.pc \in {"lookup", "record"} /\ k.content = utviRun[r].content
      /\ k.snapshot = utviRun[r].snapshot
  BY <1>1, <1>3 DEF UtviRunRecord, UtviPc
<1> HIDE DEF k
<1>5. Fits(k, snapshots, calculations, publications)
  BY <1>1, <1>4 DEF Fits, HasContent, HasSnapshot, HasCalculation, HasNews
<1> QED BY <1>2, <1>4, <1>5, UtviAtHand, RunReads

\* A set of row numbers has a last.
LEMMA HasLast ==
    ASSUME NEW n \in Nat, NEW K, K \subseteq 1..n, K # {}
    PROVE  \E j \in K : \A i \in K : i <= j
<1> DEFINE T == {n - j : j \in K}
<1>0. \A i \in K : i \in Nat /\ n - i \in Nat
  OBVIOUS
<1>1. T \subseteq Nat /\ T # {}
  BY <1>0
<1>2. PICK x \in T : \A y \in T : ~(<<y, x>> \in OpToRel(<, Nat))
  BY <1>1, NatLessThanWellFounded, WFMin
<1>3. \A y \in T : ~(y < x)
  BY <1>1, <1>2 DEF OpToRel
<1>4. PICK j \in K : x = n - j
  OBVIOUS
<1>5. ASSUME NEW i \in K PROVE i <= j
  <2>1. ~(n - i < n - j)
    BY <1>3, <1>4
  <2>2. i \in Nat /\ j \in Nat /\ n \in Nat
    BY <1>0
  <2> QED BY <2>1, <2>2
<1> QED BY <1>5

LEMMA LookUpKeeps == ASSUME UtviInv, NEW r \in UtviRuns, LookUp(r) PROVE UtviInv'
<1> DEFINE known == CalculationsOf(utviRun[r].snapshot)
           latest == CHOOSE j \in known : \A i \in known : i <= j
           a == [utviRun[r] EXCEPT !.pc = "record"]
           k == [[utviRun[r] EXCEPT !.calculation = latest] EXCEPT !.pc = "standing"]
<1>1. /\ utviRun[r] \in UtviRunRecord /\ utviRun[r].pc = "lookup" /\ Fits(utviRun[r], snapshots, calculations, publications)
      /\ UNCHANGED <<served, closed, tables, deaths>>
  BY UtviAtHand DEF LookUp
<1>2. CASE known = {}
  <2>1. utviRun' = [utviRun EXCEPT ![r] = a]
    BY <1>2 DEF LookUp, GoesOn
  <2>2. /\ a \in UtviRunRecord /\ a.pc = "record" /\ a.content = utviRun[r].content /\ a.snapshot = utviRun[r].snapshot
    BY <1>1 DEF UtviRunRecord, UtviPc
  <2> HIDE DEF a
  <2>3. Fits(a, snapshots, calculations, publications)
    BY <1>1, <2>2 DEF Fits, HasContent, HasSnapshot, HasCalculation, HasNews
  <2> QED BY <1>1, <2>1, <2>2, <2>3, UtviAtHand, RunReads
<1>3. CASE known # {} /\ utviRun[r].evidence
  BY <1>1, <1>3, UtviAtHand, RunEnds DEF LookUp
<1>4. CASE known # {} /\ ~utviRun[r].evidence
  <2>1. utviRun' = [utviRun EXCEPT ![r] = k]
    BY <1>4 DEF LookUp, GoesOn
  <2>2. latest \in known
    <3>1. known \subseteq 1..Len(calculations)
      BY UtviAtHand, Table DEF CalculationsOf, Rows
    <3>2. \E j \in known : \A i \in known : i <= j
      BY <1>4, <3>1, UtviAtHand, HasLast
    <3> QED BY <3>2
  <2> HIDE DEF latest
  <2>3. latest \in DOMAIN calculations /\ calculations[latest].snapshot = utviRun[r].snapshot /\ latest \in Nat
    BY <2>2, UtviAtHand, Table DEF CalculationsOf, Rows
  <2>4. /\ k \in UtviRunRecord /\ k.pc = "standing" /\ k.content = utviRun[r].content
        /\ k.snapshot = utviRun[r].snapshot /\ k.calculation = latest
    BY <1>1, <2>3 DEF UtviRunRecord, UtviPc
  <2> HIDE DEF k
  <2>5. Fits(k, snapshots, calculations, publications)
    BY <1>1, <2>3, <2>4 DEF Fits, HasContent, HasSnapshot, HasCalculation, HasNews
  <2> QED BY <1>1, <2>1, <2>4, <2>5, UtviAtHand, RunReads
<1> QED BY <1>2, <1>3, <1>4

LEMMA RecordCalculationKeeps == ASSUME UtviInv, NEW r \in UtviRuns, RecordCalculation(r) PROVE UtviInv'
<1> DEFINE n == Len(calculations) + 1
           x == [snapshot |-> utviRun[r].snapshot, final |-> utviRun[r].final]
           k == [[utviRun[r] EXCEPT !.calculation = n] EXCEPT !.pc = "standing"]
<1>1. /\ utviRun[r] \in UtviRunRecord /\ utviRun[r].pc = "record" /\ Fits(utviRun[r], snapshots, calculations, publications)
      /\ UNCHANGED <<served, closed, snapshots, publications, deaths>>
      /\ Rows(snapshots, calculations, publications) /\ n \in Nat
  BY UtviAtHand DEF RecordCalculation
<1>2. CASE utviRun[r].snapshot = Len(snapshots) /\ Last(snapshots).final = utviRun[r].final
  <2>1. calculations' = Append(calculations, x) /\ utviRun' = [utviRun EXCEPT ![r] = k]
    BY <1>2 DEF RecordCalculation, GoesOn
  <2>2. utviRun[r].snapshot \in DOMAIN snapshots /\ utviRun[r].snapshot \in Nat \ {0}
    BY <1>1, UtviAtHand DEF Fits, HasSnapshot
  <2>3. /\ x \in Calculation /\ x.snapshot = utviRun[r].snapshot
        /\ x.final => snapshots[utviRun[r].snapshot].final
    BY <1>1, <1>2, <2>2 DEF UtviRunRecord, Calculation, Last
  <2>4. /\ k \in UtviRunRecord /\ k.pc = "standing" /\ k.content = utviRun[r].content
        /\ k.snapshot = utviRun[r].snapshot /\ k.calculation = n
    <3> HIDE DEF n
    <3> QED BY <1>1 DEF UtviRunRecord, UtviPc
  <2> HIDE DEF x, k
  <2>5. /\ calculations' \in Seq(Calculation) /\ Longer(calculations, calculations') /\ calculations'[n] = x
        /\ DOMAIN calculations' = DOMAIN calculations \cup {n}
    BY <1>1, <2>1, <2>3, AddRow DEF Rows
  <2>6. Rows(snapshots', calculations', publications')
    BY <1>1, <2>2, <2>3, <2>5 DEF Rows, Longer
  <2>7. Fits(k, snapshots', calculations', publications')
    BY <1>1, <2>3, <2>4, <2>5 DEF Fits, HasContent, HasSnapshot, HasCalculation, HasNews
  <2> QED BY <1>1, <2>1, <2>4, <2>5, <2>6, <2>7, UtviAtHand, UtviRunMoves
<1>3. CASE ~(utviRun[r].snapshot = Len(snapshots) /\ Last(snapshots).final = utviRun[r].final)
  BY <1>1, <1>3, UtviAtHand, RunEnds DEF RecordCalculation, tables
<1> QED BY <1>2, <1>3

LEMMA ReaderOfTables ==
    /\ EvidenceIsLive = OnLiveEvidence(snapshots, calculations, publications)
    /\ publications # <<>> => Published = Shown(snapshots, calculations, publications)
BY DEF EvidenceIsLive, SnapshotOf, Last, OnLiveEvidence, Published, Shown

LEMMA StandingKeeps == ASSUME UtviInv, NEW r \in UtviRuns, ReadStanding(r) PROVE UtviInv'
<1> DEFINE k == [[utviRun[r] EXCEPT !.publication = Len(publications)] EXCEPT !.pc = "publish"]
           settled == publications # <<>> /\ EvidenceIsLive /\ Published = Total[utviRun[r].content]
<1>1. /\ utviRun[r] \in UtviRunRecord /\ utviRun[r].pc = "standing" /\ Fits(utviRun[r], snapshots, calculations, publications)
      /\ UNCHANGED <<served, closed, tables, deaths>> /\ Len(publications) \in Nat
  BY UtviAtHand DEF ReadStanding
<1>2. CASE settled
  BY <1>1, <1>2, UtviAtHand, RunEnds DEF ReadStanding
<1>3. CASE ~settled
  <2>1. utviRun' = [utviRun EXCEPT ![r] = k]
    BY <1>3 DEF ReadStanding, GoesOn
  <2>2. /\ k \in UtviRunRecord /\ k.pc = "publish" /\ k.content = utviRun[r].content
        /\ k.snapshot = utviRun[r].snapshot /\ k.calculation = utviRun[r].calculation
        /\ k.publication = Len(publications)
    BY <1>1 DEF UtviRunRecord, UtviPc
  <2> HIDE DEF k
  <2>3. \/ publications = <<>> \/ ~OnLiveEvidence(snapshots, calculations, publications)
        \/ Shown(snapshots, calculations, publications) # Total[k.content]
    BY <1>3, <2>2, ReaderOfTables
  <2>4. Fits(k, snapshots, calculations, publications)
    BY <1>1, <2>2, <2>3 DEF Fits, HasContent, HasSnapshot, HasCalculation, HasNews
  <2> QED BY <1>1, <2>1, <2>2, <2>4, UtviAtHand, RunReads
<1> QED BY <1>2, <1>3

\* The publication of what the run calculated, over the one it found standing.
LEMMA PublishMoves ==
    ASSUME UtviInv, NEW r \in UtviRuns, Publish(r), publications' # publications
    PROVE  /\ Rows(snapshots, calculations, publications') /\ Len(publications') = Len(publications) + 1
           /\ Longer(publications, publications')
           /\ publications' # <<>> /\ Shown(snapshots, calculations, publications') = Total[utviRun[r].content]
           /\ utviRun[r].content \in Contents
           /\ \/ publications = <<>> \/ ~EvidenceIsLive \/ Published # Total[utviRun[r].content]
<1> DEFINE n == Len(publications) + 1
           c == utviRun[r].calculation
           x == [calculation |-> c, final |-> utviRun[r].final]
<1>1. /\ utviRun[r].pc = "publish" /\ utviRun[r].publication = Len(publications)
      /\ calculations[c].final = utviRun[r].final /\ publications' = Append(publications, x)
  BY DEF Publish
<1>2. /\ utviRun[r] \in UtviRunRecord /\ Fits(utviRun[r], snapshots, calculations, publications)
      /\ Rows(snapshots, calculations, publications) /\ Len(publications) \in Nat
  BY UtviAtHand
<1>3. /\ c \in DOMAIN calculations /\ calculations[c].snapshot = utviRun[r].snapshot /\ c \in Nat \ {0}
      /\ snapshots[utviRun[r].snapshot].content = utviRun[r].content /\ utviRun[r].content \in Contents
  <2>1. c \in DOMAIN calculations
    BY <1>1, <1>2 DEF Fits, HasCalculation
  <2>2. c \in Nat \ {0}
    BY <1>2, <2>1, Table DEF Rows
  <2> QED BY <1>1, <1>2, <2>1, <2>2 DEF Fits, HasCalculation, HasSnapshot, HasContent
<1>4. x \in Publication /\ x.calculation = c /\ x.final = calculations[c].final
  BY <1>1, <1>2, <1>3 DEF Publication, UtviRunRecord
<1> HIDE DEF x
<1>5. /\ publications' \in Seq(Publication) /\ Len(publications') = n /\ publications'[n] = x
      /\ Longer(publications, publications') /\ DOMAIN publications' = DOMAIN publications \cup {n}
      /\ publications' # <<>>
  BY <1>1, <1>2, <1>4, AddRow DEF Rows
<1>6. Rows(snapshots, calculations, publications')
  BY <1>2, <1>3, <1>4, <1>5 DEF Rows, Longer
<1>7. Shown(snapshots, calculations, publications') = Total[utviRun[r].content]
  BY <1>3, <1>4, <1>5 DEF Shown
<1>8. \/ publications = <<>> \/ ~EvidenceIsLive \/ Published # Total[utviRun[r].content]
  BY <1>1, <1>2, ReaderOfTables DEF Fits, HasNews
<1> QED BY <1>3, <1>5, <1>6, <1>7, <1>8

LEMMA PublishKeeps == ASSUME UtviInv, NEW r \in UtviRuns, Publish(r) PROVE UtviInv'
<1>1. Ends(r) /\ UNCHANGED <<served, closed, snapshots, calculations, deaths>>
  BY DEF Publish
<1>2. CASE publications' = publications
  BY <1>1, <1>2, UtviAtHand, RunEnds DEF tables
<1>3. CASE publications' # publications
  <2>1. Rows(snapshots', calculations', publications') /\ Len(publications') > Len(publications)
    BY <1>1, <1>3, PublishMoves, UtviAtHand
  <2> QED BY <1>1, <2>1, UtviAtHand, RestingFits, UtviRunMoves DEF Ends
<1> QED BY <1>2, <1>3

LEMMA UtviDeathKeeps == ASSUME UtviInv, NEW r \in UtviRuns, RunDies(r) PROVE UtviInv'
<1>1. deaths' \in 0..MaxDeaths
  BY UtviShapes, UtviAssumption DEF UtviInv, RunDies
<1> QED BY <1>1, RunEnds DEF RunDies

\* The source and the clock touch no table and no run.
LEMMA PublisherKeeps ==
    ASSUME UtviInv, UNCHANGED <<tables, utviRun, deaths>>,
           served' \in [content : Contents \cup {NoRows}, moves : 0..MaxSourceMoves], closed' \in BOOLEAN
    PROVE  UtviInv'
<1>1. UtviTypeOK'
  BY DEF UtviInv, UtviTypeOK, tables
<1> QED BY <1>1 DEF UtviInv, tables

LEMMA UtviInductive == UtviInv /\ [UtviNext]_utviVars => UtviInv'
<1> SUFFICES ASSUME UtviInv, [UtviNext]_utviVars PROVE UtviInv'
  OBVIOUS
<1>1. CASE UNCHANGED utviVars
  BY <1>1, UtviShapes, PublisherKeeps DEF utviVars, UtviInv
<1>2. CASE SourceMoves
  <2>1. PICK c \in Contents : served' = [content |-> c, moves |-> served.moves + 1]
    BY <1>2 DEF SourceMoves
  <2>2. served.moves + 1 \in 0..MaxSourceMoves
    BY <1>2, UtviShapes, UtviAssumption DEF UtviInv, SourceMoves
  <2>3. served' \in [content : Contents \cup {NoRows}, moves : 0..MaxSourceMoves]
    BY <2>1, <2>2
  <2> QED BY <1>2, <2>3, UtviShapes, PublisherKeeps DEF UtviInv, SourceMoves
<1>3. CASE DayCloses
  <2>1. closed' \in BOOLEAN
    BY <1>3, Zenon DEF DayCloses
  <2> QED BY <1>3, <2>1, UtviShapes, PublisherKeeps DEF UtviInv, DayCloses
<1>4. ASSUME NEW r \in UtviRuns, IngestDate(r) \/ RunDies(r) PROVE UtviInv'
  BY <1>4, FetchRankingsKeeps, ActiveKeeps, ConfirmKeeps, SettleKeeps, SupersedeKeeps, EvidenceKeeps, LookUpKeeps,
     RecordCalculationKeeps, StandingKeeps, PublishKeeps, UtviDeathKeeps DEF IngestDate
<1> QED BY <1>1, <1>2, <1>3, <1>4 DEF UtviNext

LEMMA UtviAlways == UtviSpec => []UtviInv
BY UtviInitially, UtviInductive, PTL DEF UtviSpec

-----------------------------------------------------------------------------

\* A step of the reader's view.
LEMMA PublishIsASeriesStep ==
    ASSUME UtviInv, NEW r \in UtviRuns, Publish(r) PROVE [Reader!Next]_(Reader!series)
<1>1. UNCHANGED <<snapshots, calculations>>
  BY DEF Publish
<1>2. CASE publications' = publications
  BY <1>1, <1>2 DEF Reader!series, Published, EvidenceIsLive, SnapshotOf, Last
<1>3. CASE publications' # publications
  <2> DEFINE t == Total[utviRun[r].content]
  <2>1. /\ Len(publications') = Len(publications) + 1 /\ publications' # <<>>
        /\ Shown(snapshots, calculations, publications') = t /\ utviRun[r].content \in Contents
        /\ \/ publications = <<>> \/ ~EvidenceIsLive \/ Published # t
    BY <1>3, PublishMoves
  <2>2. Published' = t /\ t \in {Total[c] : c \in Contents}
    BY <1>1, <2>1 DEF Published, Shown, SnapshotOf, Last
  <2>3. Len(publications) \in Nat /\ (publications # <<>> => Len(publications) > 0)
    BY UtviAtHand, EmptySeq, Table DEF Rows
  <2> HIDE DEF t
  <2>4. CASE publications = <<>>
    <3>1. Len(publications) = 0
      BY <2>4, EmptySeq
    <3> QED BY <2>1, <2>2, <3>1 DEF Reader!Next, Reader!First
  <2>5. CASE publications # <<>> /\ Published # t
    BY <2>1, <2>2, <2>3, <2>5 DEF Reader!Next, Reader!Revise
  <2>6. CASE publications # <<>> /\ Published = t
    BY <2>1, <2>2, <2>3, <2>6 DEF Reader!Next, Reader!Repoint
  <2> QED BY <2>4, <2>5, <2>6
<1> QED BY <1>2, <1>3

\* Every other step at most supersedes the evidence.
LEMMA StepIsASeriesStep ==
    ASSUME UtviInv, UtviInv', [UtviNext]_utviVars PROVE [Reader!Next]_(Reader!series)
<1>1. Rows(snapshots, calculations, publications) /\ Rows(snapshots', calculations', publications')
  BY DEF UtviInv
<1>2. /\ Grown(snapshots, snapshots) /\ Longer(calculations, calculations)
      /\ snapshots' \in Seq(Snapshot) /\ calculations' \in Seq(Calculation)
  BY <1>1, StaysGrown DEF Rows
<1>3. CASE UNCHANGED tables
  BY <1>1, <1>2, <1>3, EvidenceOnly DEF tables
<1>4. ASSUME NEW r \in UtviRuns, Settle(r), ~UNCHANGED snapshots PROVE Grown(snapshots, snapshots')
  <2> DEFINE n == utviRun[r].snapshot
  <2>1. n = Len(snapshots) /\ snapshots' = [snapshots EXCEPT ![n].final = TRUE] /\ n # 0
    BY <1>4 DEF Settle, Unchanged
  <2>2. n \in DOMAIN snapshots /\ DOMAIN snapshots = 1..Len(snapshots) /\ Len(snapshots) \in Nat
    BY <1>1, <2>1, Table DEF Rows
  <2>3. snapshots[n] \in Snapshot
    BY <1>1, <2>2, Table DEF Rows
  <2> DEFINE y == [snapshots[n] EXCEPT !.final = TRUE]
  <2>4. y \in Snapshot /\ y.content = snapshots[n].content /\ y.final
    BY <2>3 DEF Snapshot
  <2>5. snapshots' = [snapshots EXCEPT ![n] = y]
    BY <2>1, Zenon
  <2> HIDE DEF y
  <2>6. /\ snapshots' \in Seq(Snapshot) /\ Len(snapshots') = Len(snapshots) /\ DOMAIN snapshots' = DOMAIN snapshots
        /\ \A j \in DOMAIN snapshots : snapshots'[j] = IF j = n THEN y ELSE snapshots[j]
    BY <1>1, <2>2, <2>4, <2>5, ExceptSeq DEF Rows
  <2> QED BY <2>2, <2>4, <2>6 DEF Grown
<1>5. ASSUME NEW r \in UtviRuns, Supersede(r), ~UNCHANGED snapshots PROVE Grown(snapshots, snapshots')
  <2> DEFINE x == [content |-> utviRun[r].content, final |-> utviRun[r].final, complete |-> TRUE]
  <2>1. snapshots' = Append(snapshots, x)
    BY <1>5 DEF Supersede
  <2>2. x \in Snapshot
    <3>1. utviRun[r] \in UtviRunRecord /\ utviRun[r].content \in Contents
      BY <1>5, UtviAtHand DEF Supersede, Fits, HasContent
    <3> QED BY <3>1 DEF UtviRunRecord, Snapshot
  <2> HIDE DEF x
  <2>3. Longer(snapshots, snapshots')
    BY <1>1, <2>1, <2>2, AddRow DEF Rows
  <2> QED BY <1>2, <2>3 DEF Longer, Grown
<1>6. ASSUME NEW r \in UtviRuns, Settle(r) \/ Supersede(r) PROVE [Reader!Next]_(Reader!series)
  <2>1. UNCHANGED <<calculations, publications>>
    BY <1>6 DEF Settle, Supersede
  <2>2. CASE UNCHANGED snapshots
    BY <1>3, <2>1, <2>2 DEF tables
  <2>3. CASE ~UNCHANGED snapshots
    <3>1. Grown(snapshots, snapshots')
      BY <1>4, <1>5, <1>6, <2>3
    <3> QED BY <1>1, <1>2, <2>1, <3>1, EvidenceOnly
  <2> QED BY <2>2, <2>3
<1>7. ASSUME NEW r \in UtviRuns, RecordCalculation(r) PROVE [Reader!Next]_(Reader!series)
  <2>1. UNCHANGED <<snapshots, publications>>
    BY <1>7 DEF RecordCalculation
  <2>2. CASE UNCHANGED calculations
    BY <1>3, <2>1, <2>2 DEF tables
  <2>3. CASE ~UNCHANGED calculations
    <3> DEFINE x == [snapshot |-> utviRun[r].snapshot, final |-> utviRun[r].final]
    <3>1. calculations' = Append(calculations, x)
      BY <1>7, <2>3 DEF RecordCalculation
    <3>2. x \in Calculation
      <4>1. /\ utviRun[r] \in UtviRunRecord /\ utviRun[r].snapshot \in DOMAIN snapshots
            /\ DOMAIN snapshots = 1..Len(snapshots) /\ Len(snapshots) \in Nat
        BY <1>7, UtviAtHand DEF RecordCalculation, Fits, HasSnapshot
      <4>2. utviRun[r].snapshot \in Nat \ {0}
        BY <4>1
      <4> QED BY <4>1, <4>2 DEF UtviRunRecord, Calculation
    <3> HIDE DEF x
    <3>3. Longer(calculations, calculations')
      BY <1>1, <3>1, <3>2, AddRow DEF Rows
    <3> QED BY <1>1, <1>2, <2>1, <3>3, EvidenceOnly
  <2> QED BY <2>2, <2>3
<1>8. ASSUME NEW r \in UtviRuns, IngestDate(r) PROVE [Reader!Next]_(Reader!series)
  BY <1>3, <1>6, <1>7, <1>8, PublishIsASeriesStep
     DEF IngestDate, FetchRankings, ActiveSnapshot, Confirm, ReadEvidence, LookUp, ReadStanding
<1> QED BY <1>3, <1>8 DEF UtviNext, utviVars, SourceMoves, DayCloses, RunDies

\* The rows refer to one another and hold no empty content; a run's decision fits them.
THEOREM UtviTypeCorrect == UtviSpec => []UtviTypeOK
BY UtviAlways, PTL DEF UtviInv

\* settleSnapshot, recordCalculation and publishCalculation with their triggers: whatever
\* runs overlap or die, each point, its calculation and its snapshot agree on what is final.
THEOREM RowsAgree == UtviSpec => []SettlementAgrees
<1>1. UtviInv => SettlementAgrees
  BY Zenon DEF UtviInv, Rows, SettlementAgrees
<1> QED BY <1>1, UtviAlways, PTL

\* The refinement: what publishCalculation does to the table is, to a reader of the date, a
\* first value, another value, or the same one moved off superseded evidence.
THEOREM PublicationsAreASeries == UtviSpec => ImplementsSeries
<1>1. UtviInv /\ UtviInv' /\ [UtviNext]_utviVars => [Reader!Next]_(Reader!series)
  BY StepIsASeriesStep
<1> QED BY <1>1, UtviAlways, PTL DEF UtviSpec, ImplementsSeries
-----------------------------------------------------------------------------
(* Where a date is left without a value.  CoveredIsPublished fails: a run  *)
(* that dies before the first publication leaves rows that no later run    *)
(* publishes.  Nothing but a death leaves such rows.                       *)

\* The rows of the date have a run at work that will calculate them ...
CarriesRows(run, S) == /\ run.pc \in {"evidence", "lookup", "record"}
                       /\ run.snapshot = Len(S) /\ run.final = S[Len(S)].final
\* ... or its value has one that will publish it as the first.
CarriesValue(run, C) == /\ run.pc \in {"standing", "publish"}
                        /\ C[run.calculation].final = run.final
                        /\ run.pc = "publish" => run.publication = 0

HoleInv == publications = <<>> =>
    /\ \A r \in UtviRuns : utviRun[r].pc = "lookup" => utviRun[r].evidence
    /\ deaths = 0 =>
         /\ snapshots # <<>> /\ calculations = <<>> => \E r \in UtviRuns : CarriesRows(utviRun[r], snapshots)
         /\ calculations # <<>> => \E r \in UtviRuns : CarriesValue(utviRun[r], calculations)

\* Every row stored has a published value once no run is at work, unless one died.
HoleNeedsADeath ==
    deaths = 0 /\ snapshots # <<>> /\ (\A r \in UtviRuns : utviRun[r].pc = "idle") => publications # <<>>

\* Run r goes on, or ends, and the tables stay: what it carried is still carried.
LEMMA CarriedOn ==
    ASSUME UtviInv, HoleInv, NEW r \in UtviRuns, NEW k, utviRun' = [utviRun EXCEPT ![r] = k],
           UNCHANGED <<tables, deaths>>,
           publications = <<>> =>
             /\ k.pc = "lookup" => k.evidence
             /\ CarriesRows(utviRun[r], snapshots) /\ calculations = <<>> => CarriesRows(k, snapshots)
             /\ CarriesValue(utviRun[r], calculations) => CarriesValue(k, calculations)
    PROVE  HoleInv'
<1>1. utviRun'[r] = k /\ \A q \in UtviRuns \ {r} : utviRun'[q] = utviRun[q]
  BY UtviShapes DEF UtviInv
<1>2. UNCHANGED <<snapshots, calculations, publications, deaths>>
  BY DEF tables
<1>3. ASSUME publications = <<>>, NEW q \in UtviRuns PROVE utviRun'[q].pc = "lookup" => utviRun'[q].evidence
  BY <1>1, <1>3 DEF HoleInv
<1>4. ASSUME publications = <<>>, deaths = 0, snapshots # <<>>, calculations = <<>>
      PROVE  \E q \in UtviRuns : CarriesRows(utviRun'[q], snapshots)
  <2>1. PICK q \in UtviRuns : CarriesRows(utviRun[q], snapshots)
    BY <1>4 DEF HoleInv
  <2> QED BY <1>1, <1>4, <2>1
<1>5. ASSUME publications = <<>>, deaths = 0, calculations # <<>>
      PROVE  \E q \in UtviRuns : CarriesValue(utviRun'[q], calculations)
  <2>1. PICK q \in UtviRuns : CarriesValue(utviRun[q], calculations)
    BY <1>5 DEF HoleInv
  <2> QED BY <1>1, <1>5, <2>1
<1> QED BY <1>2, <1>3, <1>4, <1>5 DEF HoleInv, CarriesRows, CarriesValue

\* The live snapshot is the one run r is at, which has just written or settled it.
LEMMA RowsCarried ==
    ASSUME UtviInv, HoleInv, NEW r \in UtviRuns, NEW k, utviRun' = [utviRun EXCEPT ![r] = k],
           utviRun[r].pc = "apply", k.pc = "evidence", CarriesRows(k, snapshots'),
           UNCHANGED <<calculations, publications, deaths>>
    PROVE  HoleInv'
<1>1. utviRun'[r] = k /\ \A q \in UtviRuns \ {r} : utviRun'[q] = utviRun[q]
  BY UtviShapes DEF UtviInv
<1>2. ASSUME publications = <<>>, NEW q \in UtviRuns, utviRun'[q].pc = "lookup" PROVE utviRun'[q].evidence
  BY <1>1, <1>2 DEF HoleInv
<1>3. \E q \in UtviRuns : CarriesRows(utviRun'[q], snapshots')
  BY <1>1
<1>4. ASSUME NEW q \in UtviRuns, CarriesValue(utviRun[q], calculations)
      PROVE  CarriesValue(utviRun'[q], calculations)
  BY <1>1, <1>4 DEF CarriesValue
<1> QED BY <1>2, <1>3, <1>4 DEF HoleInv, CarriesRows, CarriesValue

LEMMA HoleReads ==
    ASSUME UtviInv, HoleInv, NEW r \in UtviRuns,
           FetchRankings(r) \/ ActiveSnapshot(r) \/ Confirm(r) \/ ReadEvidence(r)
    PROVE  HoleInv'
<1>1. utviRun[r] \in UtviRunRecord /\ Resting \in UtviRunRecord
  BY UtviAtHand, RestingFits
<1>2. PICK k : utviRun' = [utviRun EXCEPT ![r] = k]
  BY DEF FetchRankings, ActiveSnapshot, Confirm, ReadEvidence, GoesOn
<1>3. utviRun'[r] = k
  BY <1>2, UtviShapes DEF UtviInv
<1>4. CASE utviRun[r].pc \in {"idle", "read", "apply"} /\ k.pc # "lookup" /\ UNCHANGED <<tables, deaths>>
  BY <1>2, <1>4, CarriedOn DEF CarriesRows, CarriesValue
<1>5. CASE FetchRankings(r) \/ ActiveSnapshot(r) \/ Confirm(r)
  <2>1. PICK known \in UtviRunRecord, pc \in {"read", "apply", "evidence"} : GoesOn(r, pc, known)
    <3>1. [Resting EXCEPT !.content = served.content, !.final = closed] \in UtviRunRecord
      BY <1>1, UtviShapes DEF UtviInv, UtviRunRecord
    <3>2. ASSUME ActiveSnapshot(r)
          PROVE  [utviRun[r] EXCEPT !.snapshot = Len(snapshots),
                                    !.sawFinal = snapshots # <<>> /\ Last(snapshots).final,
                                    !.sawComplete = snapshots # <<>> => Last(snapshots).complete] \in UtviRunRecord
      BY <1>1, UtviAtHand DEF UtviRunRecord
    <3> QED BY <1>1, <1>5, <3>1, <3>2 DEF FetchRankings, ActiveSnapshot, Confirm
  <2>2. k = [known EXCEPT !.pc = pc]
    BY <1>3, <2>1, UtviShapes DEF GoesOn, UtviInv
  <2>3. k.pc \in {"read", "apply", "evidence"}
    BY <2>2 DEF UtviRunRecord
  <2> QED BY <1>4, <1>5, <2>3 DEF FetchRankings, ActiveSnapshot, Confirm
<1>6. CASE ReadEvidence(r)
  <2> DEFINE pc == IF utviRun[r].sawComplete THEN "lookup" ELSE "record"
             j == [[utviRun[r] EXCEPT !.evidence = EvidenceIsLive] EXCEPT !.pc = pc]
  <2>1. utviRun' = [utviRun EXCEPT ![r] = j]
    BY <1>6 DEF ReadEvidence, GoesOn
  <2>2. /\ j.pc \in {"lookup", "record"} /\ j.evidence = EvidenceIsLive
        /\ j.snapshot = utviRun[r].snapshot /\ j.final = utviRun[r].final
    BY <1>1 DEF UtviRunRecord
  <2>3. utviRun[r].pc = "evidence" /\ UNCHANGED <<tables, deaths>>
    BY <1>6 DEF ReadEvidence
  <2>4. publications = <<>> => EvidenceIsLive
    BY DEF EvidenceIsLive
  <2> HIDE DEF j
  <2> QED BY <2>1, <2>2, <2>3, <2>4, CarriedOn DEF CarriesRows, CarriesValue
<1> QED BY <1>5, <1>6

LEMMA HoleApplies ==
    ASSUME UtviInv, HoleInv, NEW r \in UtviRuns, Settle(r) \/ Supersede(r)
    PROVE  HoleInv'
<1>1. /\ utviRun[r] \in UtviRunRecord /\ utviRun[r].pc = "apply" /\ Resting.pc = "idle"
      /\ UNCHANGED <<calculations, publications, deaths>>
      /\ Rows(snapshots, calculations, publications) /\ utviRun[r].content \in Contents
  BY UtviAtHand, RestingFits DEF Settle, Supersede, Fits, HasContent
<1>2. CASE Ends(r) /\ UNCHANGED snapshots
  BY <1>1, <1>2, CarriedOn DEF Ends, tables, CarriesRows, CarriesValue
<1>3. CASE Settle(r) /\ ~(Ends(r) /\ UNCHANGED snapshots)
  <2> DEFINE k == [utviRun[r] EXCEPT !.pc = "evidence"]
  <2>1. /\ utviRun[r].snapshot = Len(snapshots) /\ utviRun[r].snapshot # 0 /\ utviRun[r].final
        /\ snapshots' = [snapshots EXCEPT ![Len(snapshots)].final = TRUE]
        /\ utviRun' = [utviRun EXCEPT ![r] = k]
    BY <1>3 DEF Settle, Unchanged, Settles, GoesOn
  <2>2. /\ k.pc = "evidence" /\ k.snapshot = utviRun[r].snapshot /\ k.final = utviRun[r].final
        /\ k.final \in BOOLEAN
    BY <1>1 DEF UtviRunRecord
  <2>3. Len(snapshots) \in DOMAIN snapshots /\ snapshots[Len(snapshots)] \in Snapshot
    BY <1>1, <2>1, Table, EmptySeq DEF Rows
  <2>4. Len(snapshots') = Len(snapshots) /\ snapshots'[Len(snapshots)].final = TRUE
    <3>1. snapshots' = [snapshots EXCEPT ![Len(snapshots)] = [snapshots[Len(snapshots)] EXCEPT !.final = TRUE]]
      BY <2>1
    <3>2. snapshots'[Len(snapshots)] = [snapshots[Len(snapshots)] EXCEPT !.final = TRUE]
      BY <2>3, <3>1, Zenon
    <3>3. Len(snapshots') = Len(snapshots)
      BY <1>1, <3>1, ExceptSeq, <2>3 DEF Rows
    <3> QED BY <2>3, <3>2, <3>3 DEF Snapshot
  <2>5. CarriesRows(k, snapshots')
    BY <2>1, <2>2, <2>4 DEF CarriesRows
  <2> HIDE DEF k
  <2> QED BY <1>1, <2>1, <2>2, <2>5, RowsCarried
<1>4. CASE Supersede(r) /\ ~(Ends(r) /\ UNCHANGED snapshots)
  <2> DEFINE n == Len(snapshots) + 1
             x == [content |-> utviRun[r].content, final |-> utviRun[r].final, complete |-> TRUE]
             k == [[utviRun[r] EXCEPT !.snapshot = n, !.sawComplete = FALSE] EXCEPT !.pc = "evidence"]
  <2>1. snapshots' = Append(snapshots, x) /\ utviRun' = [utviRun EXCEPT ![r] = k]
    BY <1>4 DEF Supersede, GoesOn
  <2>2. k.pc = "evidence" /\ k.snapshot = n /\ k.final = utviRun[r].final /\ x.final = utviRun[r].final
    BY <1>1 DEF UtviRunRecord
  <2>3. x \in Snapshot
    BY <1>1 DEF Snapshot, UtviRunRecord
  <2>4. Len(snapshots') = n /\ snapshots'[n] = x
    BY <1>1, <2>1, <2>3, AddRow DEF Rows
  <2>5. CarriesRows(k, snapshots')
    BY <2>2, <2>4 DEF CarriesRows
  <2> HIDE DEF k
  <2> QED BY <1>1, <2>1, <2>2, <2>5, RowsCarried
<1> QED BY <1>2, <1>3, <1>4

LEMMA HoleLooksUp ==
    ASSUME UtviInv, HoleInv, NEW r \in UtviRuns, LookUp(r)
    PROVE  HoleInv'
<1>1. utviRun[r] \in UtviRunRecord /\ utviRun[r].pc = "lookup" /\ UNCHANGED <<tables, deaths>>
      /\ Resting.pc = "idle"
  BY UtviAtHand, RestingFits DEF LookUp
<1>2. CASE CalculationsOf(utviRun[r].snapshot) = {}
  <2> DEFINE k == [utviRun[r] EXCEPT !.pc = "record"]
  <2>1. utviRun' = [utviRun EXCEPT ![r] = k]
    BY <1>2 DEF LookUp, GoesOn
  <2>2. k.pc = "record" /\ k.snapshot = utviRun[r].snapshot /\ k.final = utviRun[r].final
    BY <1>1 DEF UtviRunRecord
  <2> HIDE DEF k
  <2> QED BY <1>1, <2>1, <2>2, CarriedOn DEF CarriesRows, CarriesValue
<1>3. CASE CalculationsOf(utviRun[r].snapshot) # {}
  <2>1. calculations # <<>>
    BY <1>3 DEF CalculationsOf
  <2>2. CASE publications = <<>>
    <3>1. Ends(r)
      BY <1>1, <1>3, <2>2 DEF LookUp, HoleInv
    <3> QED BY <1>1, <2>1, <3>1, CarriedOn DEF Ends, CarriesRows, CarriesValue
  <2>3. CASE publications # <<>>
    BY <1>1, <2>3 DEF HoleInv, tables
  <2> QED BY <2>2, <2>3
<1> QED BY <1>2, <1>3

LEMMA HoleRecords ==
    ASSUME UtviInv, HoleInv, NEW r \in UtviRuns, RecordCalculation(r)
    PROVE  HoleInv'
<1>1. /\ utviRun[r] \in UtviRunRecord /\ utviRun[r].pc = "record" /\ Resting.pc = "idle"
      /\ UNCHANGED <<snapshots, publications, deaths>> /\ Rows(snapshots, calculations, publications)
      /\ utviRun[r].snapshot \in DOMAIN snapshots /\ Len(snapshots) \in Nat /\ DOMAIN snapshots = 1..Len(snapshots)
  BY UtviAtHand, RestingFits DEF RecordCalculation, Fits, HasSnapshot
<1>2. CASE ~(utviRun[r].snapshot = Len(snapshots) /\ Last(snapshots).final = utviRun[r].final)
  <2>1. Ends(r) /\ UNCHANGED calculations
    BY <1>2 DEF RecordCalculation
  <2> QED BY <1>1, <1>2, <2>1, CarriedOn DEF Ends, tables, CarriesRows, CarriesValue, Last
<1>3. CASE utviRun[r].snapshot = Len(snapshots) /\ Last(snapshots).final = utviRun[r].final
  <2> DEFINE n == Len(calculations) + 1
             x == [snapshot |-> utviRun[r].snapshot, final |-> utviRun[r].final]
             k == [[utviRun[r] EXCEPT !.calculation = n] EXCEPT !.pc = "standing"]
  <2>1. calculations' = Append(calculations, x) /\ utviRun' = [utviRun EXCEPT ![r] = k]
    BY <1>3 DEF RecordCalculation, GoesOn
  <2>2. k.pc = "standing" /\ k.calculation = n /\ k.final = utviRun[r].final /\ x.final = utviRun[r].final
    BY <1>1 DEF UtviRunRecord
  <2>3. x \in Calculation
    BY <1>1 DEF Calculation, UtviRunRecord
  <2>4. calculations'[n] = x /\ calculations' # <<>>
    BY <1>1, <2>1, <2>3, AddRow DEF Rows
  <2>5. CarriesValue(k, calculations')
    BY <2>2, <2>4 DEF CarriesValue
  <2>6. utviRun'[r] = k /\ \A q \in UtviRuns \ {r} : utviRun'[q] = utviRun[q]
    BY <2>1, UtviShapes DEF UtviInv
  <2>7. ASSUME publications = <<>>, NEW q \in UtviRuns, utviRun'[q].pc = "lookup" PROVE utviRun'[q].evidence
    BY <2>2, <2>6, <2>7 DEF HoleInv
  <2>8. \E q \in UtviRuns : CarriesValue(utviRun'[q], calculations')
    BY <2>5, <2>6
  <2> QED BY <1>1, <2>4, <2>7, <2>8 DEF HoleInv, CarriesRows, CarriesValue
<1> QED BY <1>2, <1>3

LEMMA HolePublishes ==
    ASSUME UtviInv, HoleInv, NEW r \in UtviRuns, ReadStanding(r) \/ Publish(r)
    PROVE  HoleInv'
<1>1. /\ utviRun[r] \in UtviRunRecord /\ Resting.pc = "idle" /\ UNCHANGED deaths
      /\ Rows(snapshots, calculations, publications)
  BY UtviAtHand, RestingFits DEF ReadStanding, Publish
<1>2. CASE publications' # <<>>
  BY <1>2 DEF HoleInv
<1>3. CASE publications' = <<>> /\ ReadStanding(r)
  <2> DEFINE k == [[utviRun[r] EXCEPT !.publication = Len(publications)] EXCEPT !.pc = "publish"]
  <2>1. publications = <<>> /\ UNCHANGED tables /\ utviRun[r].pc = "standing"
    BY <1>3 DEF ReadStanding, tables
  <2>2. utviRun' = [utviRun EXCEPT ![r] = k]
    BY <1>3, <2>1 DEF ReadStanding, GoesOn
  <2>3. k.pc = "publish" /\ k.publication = 0 /\ k.calculation = utviRun[r].calculation /\ k.final = utviRun[r].final
    BY <1>1, <2>1 DEF UtviRunRecord
  <2> HIDE DEF k
  <2> QED BY <1>1, <2>1, <2>2, <2>3, CarriedOn DEF CarriesRows, CarriesValue
<1>4. CASE publications' = <<>> /\ Publish(r)
  <2> DEFINE x == [calculation |-> utviRun[r].calculation, final |-> utviRun[r].final]
  <2>1. /\ utviRun[r].pc = "publish" /\ UNCHANGED tables /\ publications = <<>>
        /\ ~(utviRun[r].publication = 0 /\ calculations[utviRun[r].calculation].final = utviRun[r].final)
    <3>0. x \in Publication
      <4>1. utviRun[r].calculation \in DOMAIN calculations /\ utviRun[r].final \in BOOLEAN
        BY <1>1, <1>4, UtviAtHand DEF Publish, Fits, HasCalculation, UtviRunRecord
      <4>2. utviRun[r].calculation \in Nat \ {0}
        BY <1>1, <4>1, Table DEF Rows
      <4> QED BY <4>1, <4>2 DEF Publication
    <3>1. publications' # Append(publications, x)
      BY <1>1, <1>4, <3>0, AddRow DEF Rows
    <3>2. UNCHANGED publications
      BY <1>4, <3>1 DEF Publish
    <3>3. Len(publications) = 0
      BY <1>4, <3>2
    <3> QED BY <1>4, <3>1, <3>2, <3>3 DEF Publish, tables
  <2> QED BY <1>1, <1>4, <2>1, CarriedOn DEF Publish, Ends, CarriesRows, CarriesValue
<1> QED BY <1>2, <1>3, <1>4

LEMMA HoleDies == ASSUME UtviInv, HoleInv, NEW r \in UtviRuns, RunDies(r) PROVE HoleInv'
<1>1. deaths \in Nat /\ deaths' = deaths + 1 /\ UNCHANGED tables
  BY UtviAtHand, UtviAssumption DEF RunDies
<1>2. \A q \in UtviRuns : utviRun'[q] = Resting \/ utviRun'[q] = utviRun[q]
  BY UtviShapes DEF UtviInv, RunDies, Ends
<1>3. Resting.pc = "idle"
  BY RestingFits
<1> QED BY <1>1, <1>2, <1>3 DEF HoleInv, tables

LEMMA HoleStep == UtviInv /\ HoleInv /\ [UtviNext]_utviVars => HoleInv'
<1> SUFFICES ASSUME UtviInv, HoleInv, [UtviNext]_utviVars PROVE HoleInv'
  OBVIOUS
<1>1. CASE UNCHANGED <<tables, utviRun, deaths>>
  BY <1>1 DEF HoleInv, tables, CarriesRows, CarriesValue
<1>2. ASSUME NEW r \in UtviRuns, IngestDate(r) \/ RunDies(r) PROVE HoleInv'
  BY <1>2, HoleReads, HoleApplies, HoleLooksUp, HoleRecords, HolePublishes, HoleDies DEF IngestDate
<1> QED BY <1>1, <1>2 DEF UtviNext, utviVars, SourceMoves, DayCloses

\* "A run interrupted between writing a snapshot and writing its calculation leaves a date with
\* coverage and no value" (run.ts): and nothing else does, however runs overlap and whatever
\* the source does meanwhile.
THEOREM OnlyDeathsLeaveHoles == UtviSpec => []HoleNeedsADeath
<1>1. UtviInit => HoleInv
  <2>1. UtviInit => \A r \in UtviRuns : utviRun[r] = Resting
    BY DEF UtviInit
  <2> QED BY <2>1, RestingFits DEF UtviInit, HoleInv
<1>2. HoleInv => HoleNeedsADeath
  BY DEF HoleInv, HoleNeedsADeath, CarriesRows, CarriesValue
<1> QED BY <1>1, <1>2, HoleStep, UtviInitially, UtviInductive, PTL DEF UtviSpec
=============================================================================
