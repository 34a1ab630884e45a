----------------------------- MODULE UcpiDaily -----------------------------
(***************************************************************************)
(* The daily compute price run.  Its first phase calculates yesterday, for *)
(* every instrument, out of what was read on that day; its second reads    *)
(* today's prices, instrument by instrument.  A point is calculated in one *)
(* transaction and released in a statement of its own, so a run may end    *)
(* between the two; runs may overlap, and may be under way at midnight.    *)
(*                                                                         *)
(* What a read says is each seller's price at its smallest quantity, 0 for *)
(* a seller not listed or not eligible; the smallest quantity of a seller  *)
(* is taken to be the same in the reads of a date.                         *)
(***************************************************************************)
EXTENDS Naturals, Sequences, FiniteSets

CONSTANTS
    UcpiRuns,         \* the cron's runs and their repetitions
    Instruments,      \* LISTED_GPU_INSTRUMENTS, a sequence
    Sellers,
    CapacitySource,   \* the operator or controlling entity of each seller, else the seller
    MaxPrice,         \* bound: a price, in whole units
    LastDate,         \* bound: UTC dates followed
    MaxReads,         \* bound: replies taken in, by instrument
    MaxFailures       \* bound: calculations, releases and runs that fail in the first phase

ASSUME UcpiAssumption ==
    /\ Instruments \in Seq({Instruments[k] : k \in DOMAIN Instruments}) /\ Instruments # <<>>
    /\ IsFiniteSet(Sellers)
    /\ DOMAIN CapacitySource = Sellers
    /\ MaxPrice \in Nat \ {0} /\ LastDate \in Nat \ {0}
    /\ MaxReads \in Nat /\ MaxFailures \in Nat

VARIABLES
    utcDate,    \* the date it is
    reads,      \* pipeline.source_retrievals with their observations, by instrument
    points,     \* pipeline.regional_observations, by instrument and date
    releases,   \* pipeline.regional_publications of the point of the date
    ucpiRun,    \* the runs in progress
    failures

ucpiVars == <<utcDate, reads, points, releases, ucpiRun, failures>>

Dates == 1..LastDate
Instrument == DOMAIN Instruments
CapacitySources == {CapacitySource[s] : s \in Sellers}

Listing == [Sellers -> 0..MaxPrice]
Read == [requested : Dates, completed : Dates, listing : Listing]
NoListing == [s \in Sellers |-> 0]

\* A point without a level is an unavailable one.  Levels are doubled: the median of an
\* even number of prices lies between two.
Point == [level : 0..(2 * MaxPrice), participants : SUBSET CapacitySources,
          change : {"withheld", "annotated", "published"}, blocked : BOOLEAN]
NoLevel == [level |-> 0, participants |-> {}, change |-> "withheld", blocked |-> FALSE]
UcpiIdle == [pc |-> "idle", date |-> 1, at |-> 1, point |-> NoLevel, completed |-> 1, listing |-> NoListing]

UcpiTypeOK ==
    /\ utcDate \in Dates
    /\ reads \in [Instrument -> SUBSET Read]
    /\ \A i \in Instrument : \A d \in reads[i] : d.requested <= d.completed /\ d.completed <= utcDate
    /\ points \in [Instrument -> [Dates -> Seq(Point)]]
    /\ \A i \in Instrument, d \in Dates : Len(points[i][d]) <= 1
    /\ releases \in [Instrument -> [Dates -> {"none", "published", "delayed"}]]
    /\ ucpiRun \in [UcpiRuns ->
         [pc : {"idle", "calculate", "insert", "publish", "collect", "fetch", "store"}, date : Dates,
          at : Instrument, point : Point, completed : Dates, listing : Listing]]
    /\ failures \in 0..MaxFailures

UcpiInit ==
    /\ utcDate = 1
    /\ reads = [i \in Instrument |-> {}]
    /\ points = [i \in Instrument |-> [d \in Dates |-> <<>>]]
    /\ releases = [i \in Instrument |-> [d \in Dates |-> "none"]]
    /\ ucpiRun = [r \in UcpiRuns |-> UcpiIdle]
    /\ failures = 0

-----------------------------------------------------------------------------
(* The calculation, over the reads of one date. *)

ReadsOf(i, d) == {x \in reads[i] : x.requested = d}

\* hasProductionCoverage: a read of the date listed the instrument at all.
ReadOn(i, d) == \E x \in ReadsOf(i, d) : x.listing # NoListing

\* runPipeline: what was read before the cutoff.  Every such read counts, and a seller's
\* price is the lowest of them.
InWindow(i, d) == {x \in ReadsOf(i, d) : x.completed = d}
Listed(i, d) == {s \in Sellers : \E x \in InWindow(i, d) : x.listing[s] > 0}
Lowest(prices) == CHOOSE p \in prices : \A q \in prices : p <= q
SellerPrice(i, d, s) == Lowest({x.listing[s] : x \in {x \in InWindow(i, d) : x.listing[s] > 0}})

\* collapseCapacitySources: sellers of one source are one participant, at their lowest.
Participants(i, d) == {CapacitySource[s] : s \in Listed(i, d)}
ParticipantPrice(i, d) ==
    [c \in Participants(i, d) |-> Lowest({SellerPrice(i, d, s) : s \in {s \in Listed(i, d) : CapacitySource[s] = c}})]

\* The k-th smallest of the prices, and the sum of the two central ones.
Ranked(price, k) ==
    CHOOSE p \in 1..MaxPrice :
        /\ Cardinality({c \in DOMAIN price : price[c] < p}) < k
        /\ Cardinality({c \in DOMAIN price : price[c] <= p}) >= k
TwiceMedian(price) == LET n == Cardinality(DOMAIN price)
                      IN Ranked(price, (n + 1) \div 2) + Ranked(price, n \div 2 + 1)

\* MUTANT of Prior: a level calculated for the day before is a level to compare with.
PriorCalculated(i, d) == IF d = 1 THEN {} ELSE {points[i][d - 1][k] : k \in DOMAIN points[i][d - 1]}

\* loadPriorRegional: the day before, if its level was released in time.
Prior(i, d) ==
    IF d = 1 \/ releases[i][d - 1] # "published" THEN {}
    ELSE {points[i][d - 1][k] : k \in DOMAIN points[i][d - 1]}

\* percentageChangeDisposition: the breadth is a function of the participants.
Change(prior, participants) ==
    IF prior = {} THEN "withheld"
    ELSE IF \E p \in prior : p.participants # participants THEN "annotated" ELSE "published"

\* validateForPublication: a read of a participant's that ended past the cutoff, used or
\* not, keeps the point from being released.
InputOutsideWindow(i, d) ==
    \E x \in ReadsOf(i, d) : x.completed > d /\ \E s \in Listed(i, d) : x.listing[s] > 0

\* calculateRegion: with fewer than two participants there is no price.
Calculated(i, d) ==
    LET participants == Participants(i, d)
    IN IF Cardinality(participants) < 2
       THEN [NoLevel EXCEPT !.participants = participants]
       ELSE [level |-> TwiceMedian(ParticipantPrice(i, d)), participants |-> participants,
             change |-> Change(Prior(i, d), participants), blocked |-> InputOutsideWindow(i, d)]

-----------------------------------------------------------------------------
(* One run. *)

Midnight == utcDate < LastDate /\ utcDate' = utcDate + 1 /\ UNCHANGED <<reads, points, releases, ucpiRun, failures>>

Yesterday(r) == ucpiRun[r].date - 1
Instr(r) == ucpiRun[r].at
Goes(r, pc) == ucpiRun' = [ucpiRun EXCEPT ![r].pc = pc]

\* Calculate, for every instrument; then collect, for every instrument.
Proceeds(r, first) ==
    ucpiRun' = [ucpiRun EXCEPT ![r] =
        IF Instr(r) < Len(Instruments) THEN [UcpiIdle EXCEPT !.pc = first, !.date = ucpiRun[r].date, !.at = Instr(r) + 1]
        ELSE IF first = "calculate" THEN [UcpiIdle EXCEPT !.pc = "collect", !.date = ucpiRun[r].date]
        ELSE UcpiIdle]

\* MUTANT of DailyRun: collect first.
DailyRunCollecting(r) ==
    /\ ucpiRun[r].pc = "idle"
    /\ ucpiRun' = [ucpiRun EXCEPT ![r] = [UcpiIdle EXCEPT !.pc = "collect", !.date = utcDate]]
    /\ UNCHANGED <<utcDate, reads, points, releases, failures>>

\* runDailyUcpi: "every instrument is calculated before any is collected", and the date
\* the run is for is that of its start.
DailyRun(r) ==
    /\ ucpiRun[r].pc = "idle"
    /\ ucpiRun' = [ucpiRun EXCEPT ![r] =
         [UcpiIdle EXCEPT !.pc = IF utcDate = 1 THEN "collect" ELSE "calculate", !.date = utcDate]]
    /\ UNCHANGED <<utcDate, reads, points, releases, failures>>

\* MUTANT of CalculateDate: a date is calculated whether or not anything was read on it.
CalculateUncovered(r) ==
    /\ ucpiRun[r].pc = "calculate"
    /\ ucpiRun' = [ucpiRun EXCEPT ![r].pc = "insert", ![r].point = Calculated(Instr(r), Yesterday(r))]
    /\ UNCHANGED <<utcDate, reads, points, releases, failures>>

\* "A date Urdais did not collect for is not calculated at all."
CalculateDate(r) ==
    /\ ucpiRun[r].pc = "calculate"
    /\ IF ReadOn(Instr(r), Yesterday(r))
       THEN ucpiRun' = [ucpiRun EXCEPT ![r].pc = "insert", ![r].point = Calculated(Instr(r), Yesterday(r))]
       ELSE Proceeds(r, "calculate")
    /\ UNCHANGED <<utcDate, reads, points, releases, failures>>

\* The rows of the calculation, in one transaction.  The unique index refuses a second
\* point of a date ("already_calculated"), and then nothing is released either.
InsertPoint(r) ==
    LET i == Instr(r)  d == Yesterday(r)  point == ucpiRun[r].point
    IN /\ ucpiRun[r].pc = "insert"
       /\ IF points[i][d] = <<>>
          THEN /\ points' = [points EXCEPT ![i][d] = <<point>>]
               /\ IF point.level > 0 /\ ~point.blocked THEN Goes(r, "publish") ELSE Proceeds(r, "calculate")
          ELSE Proceeds(r, "calculate") /\ UNCHANGED points
       /\ UNCHANGED <<utcDate, reads, releases, failures>>

\* insertPublication: in time before the cutoff that follows.
PublishPoint(r) ==
    /\ ucpiRun[r].pc = "publish"
    /\ releases' = [releases EXCEPT ![Instr(r)][Yesterday(r)] =
                      IF utcDate <= ucpiRun[r].date THEN "published" ELSE "delayed"]
    /\ Proceeds(r, "calculate")
    /\ UNCHANGED <<utcDate, reads, points, failures>>

\* A statement fails: the instrument's, and the next instrument is gone on with.
CalculationFails(r) ==
    /\ ucpiRun[r].pc \in {"calculate", "insert", "publish"}
    /\ failures < MaxFailures
    /\ failures' = failures + 1
    /\ Proceeds(r, "calculate")
    /\ UNCHANGED <<utcDate, reads, points, releases>>

\* preflight: only inside the window of the date the run is for.
Request(r) ==
    /\ ucpiRun[r].pc = "collect"
    /\ utcDate = ucpiRun[r].date
    /\ Goes(r, "fetch")
    /\ UNCHANGED <<utcDate, reads, points, releases, failures>>

\* Outside the window, past the run's deadline, or no answer within it.
NotCollected(r) ==
    /\ ucpiRun[r].pc \in {"collect", "fetch"}
    /\ Proceeds(r, "collect")
    /\ UNCHANGED <<utcDate, reads, points, releases, failures>>

\* The reply, whenever it is in.
Receive(r) ==
    /\ ucpiRun[r].pc = "fetch"
    /\ Cardinality(reads[Instr(r)]) < MaxReads
    /\ \E listing \in Listing :
         ucpiRun' = [ucpiRun EXCEPT ![r].pc = "store", ![r].listing = listing, ![r].completed = utcDate]
    /\ UNCHANGED <<utcDate, reads, points, releases, failures>>

\* The retrieval with all its rows, in one transaction; the same bytes for the same date,
\* which list the same prices, are not stored twice.
StoreRead(r) ==
    LET i == Instr(r)  run == ucpiRun[r]
    IN /\ run.pc = "store"
       /\ \/ reads' = [reads EXCEPT ![i] = @ \cup {[requested |-> run.date, completed |-> run.completed,
                                                      listing |-> run.listing]}]
          \/ (\E x \in ReadsOf(i, run.date) : x.listing = run.listing) /\ UNCHANGED reads
       /\ Proceeds(r, "collect")
       /\ UNCHANGED <<utcDate, points, releases, failures>>

\* The platform ends the run: at any time while it waits for the source, or now and then.
UcpiRunDies(r) ==
    /\ \/ ucpiRun[r].pc = "fetch" /\ UNCHANGED failures
       \/ /\ ucpiRun[r].pc \notin {"idle", "fetch"}
          /\ failures < MaxFailures
          /\ failures' = failures + 1
    /\ ucpiRun' = [ucpiRun EXCEPT ![r] = UcpiIdle]
    /\ UNCHANGED <<utcDate, reads, points, releases>>

UcpiStep(r) == \/ DailyRun(r)
               \/ CalculateDate(r) \/ InsertPoint(r) \/ PublishPoint(r) \/ CalculationFails(r)
               \/ Request(r) \/ NotCollected(r) \/ Receive(r) \/ StoreRead(r)

UcpiNext == Midnight \/ \E r \in UcpiRuns : UcpiStep(r) \/ UcpiRunDies(r)

UcpiSpec == UcpiInit /\ [][UcpiNext]_ucpiVars

-----------------------------------------------------------------------------
(* What the series promises. *)

\* "A child's series begins at its first real production observation date": a point
\* stands only on a date something was read of its instrument, and its participants are
\* sources the reads of that date list -- however late it was calculated.
PointsRestOnReads ==
    \A i \in Instrument, d \in Dates : points[i][d] # <<>> =>
        /\ ReadOn(i, d)
        /\ points[i][d][1].participants \subseteq Participants(i, d)

\* "A change against an unreleased prior is withheld": the day before had a level, of
\* the same participants if the change carries no annotation, and it was released before
\* its deadline.
ChangeIsAgainstReleased ==
    \A i \in Instrument, d \in Dates \ {1} :
        LET change == points[i][d][1].change
        IN points[i][d] # <<>> /\ change # "withheld" =>
             /\ releases[i][d - 1] = "published"
             /\ points[i][d - 1][1].level > 0
             /\ change = "published" => points[i][d - 1][1].participants = points[i][d][1].participants

\* Runs keep coming, and one that is not ended goes on to its end.
UcpiFairness == \A r \in UcpiRuns : WF_ucpiVars(UcpiStep(r))
UcpiFairSpec == UcpiSpec /\ UcpiFairness

\* "A slow or failing source can delay only today's collection, never yesterday's
\* publication": were every run ended while it waits for the source, yesterday would
\* still be calculated while it is yesterday, for every instrument that was read.
CoveredIsCalculated ==
    []<>(utcDate > 1 => \A i \in Instrument :
            ReadOn(i, utcDate - 1) => points[i][utcDate - 1] # <<>>)
=============================================================================
