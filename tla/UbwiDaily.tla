----------------------------- MODULE UbwiDaily -----------------------------
(***************************************************************************)
(* The daily point of the blended wealth index.  A run (the cron, or an    *)
(* operator's command) observes the numerator, files it with the           *)
(* denominator, records the calculation, and freezes a point of the day it *)
(* was started on.  Each step looks for what an earlier run left before it *)
(* writes; there is no lock, and runs overlap and die between any two.     *)
(*                                                                         *)
(* An observation is identified by its instant (the block height belongs   *)
(* to it): two runs that observe at one instant observe the same.          *)
(***************************************************************************)
EXTENDS Naturals, Sequences

CONSTANTS
    UbwiRuns,          \* runs in progress at once
    DayLength,         \* instants in a day
    LastInstant,       \* bound: the last instant
    Passing,           \* the instants whose calculation passes the gate
    MaxObservations,   \* bound: observations filed before the sources stop answering
    MaxUbwiDeaths      \* bound: runs that do not get to their end

ASSUME UbwiAssumption ==
    /\ DayLength \in Nat \ {0} /\ LastInstant \in Nat \ {0}
    /\ MaxObservations \in Nat /\ MaxUbwiDeaths \in Nat

VARIABLES
    clock,
    vintages,      \* pipeline.wealth_vintages of the compiled-in denominator, counted
    numerators,    \* pipeline.btc_market_observations: the instant of each
    ratios,        \* pipeline.ubwi_calculations
    frozen,        \* pipeline.ubwi_publications
    ubwiRun,
    ubwiDeaths

ubwiVars == <<clock, vintages, numerators, ratios, frozen, ubwiRun, ubwiDeaths>>

Instants == 1..LastInstant
DayOf(t) == (t + DayLength - 1) \div DayLength

Unasked == [pc |-> "idle", now |-> 1, observed |-> 0, vintage |-> 0, numerator |-> 0,
            ratio |-> 0, outcome |-> "none"]

UbwiTypeOK ==
    /\ clock \in Instants
    /\ vintages \in Nat
    /\ numerators \in Seq(Instants)
    /\ ratios \in Seq([vintage : 1..vintages, numerator : DOMAIN numerators, passed : BOOLEAN])
    /\ frozen \in Seq([ratio : DOMAIN ratios, day : Nat])
    /\ ubwiRun \in [UbwiRuns ->
         [pc : {"idle", "retrieve", "day", "denominator", "numerator", "commit", "lookup", "record",
                "gate", "freeze", "converge"},
          now : Instants, observed : Instants \cup {0}, vintage : 0..vintages,
          numerator : 0..Len(numerators), ratio : 0..Len(ratios),
          outcome : {"none", "published", "already_published", "gate_refused", "retrieval_failed"}]]
    /\ ubwiDeaths \in 0..MaxUbwiDeaths

UbwiInit ==
    /\ clock = 1
    /\ vintages = 0 /\ numerators = <<>> /\ ratios = <<>> /\ frozen = <<>>
    /\ ubwiRun = [r \in UbwiRuns |-> Unasked]
    /\ ubwiDeaths = 0

-----------------------------------------------------------------------------

ClockMoves ==
    /\ clock < LastInstant
    /\ clock' = clock + 1
    /\ UNCHANGED <<vintages, numerators, ratios, frozen, ubwiRun, ubwiDeaths>>

UbwiGoes(r, known) == ubwiRun' = [ubwiRun EXCEPT ![r] = known]
Answers(r, outcome) == UbwiGoes(r, [Unasked EXCEPT !.outcome = outcome])

\* The intended instant of the observation, and so its day, is that of the invocation.
StartsUbwi(r) ==
    /\ ubwiRun[r].pc = "idle"
    /\ UbwiGoes(r, [Unasked EXCEPT !.pc = "retrieve", !.now = clock])
    /\ UNCHANGED <<clock, vintages, numerators, ratios, frozen, ubwiDeaths>>

\* The numerator, observed now; its checks and the heartbeat are behind it.
RetrieveNumerator(r) ==
    /\ ubwiRun[r].pc = "retrieve"
    /\ Len(numerators) < MaxObservations
    /\ UbwiGoes(r, [ubwiRun[r] EXCEPT !.pc = "day", !.observed = clock])
    /\ UNCHANGED <<clock, vintages, numerators, ratios, frozen, ubwiDeaths>>

\* "Fail closed, before a single row is written": no answer, none to use, or a stale one.
RetrievalFails(r) ==
    /\ ubwiRun[r].pc = "retrieve"
    /\ Answers(r, "retrieval_failed")
    /\ UNCHANGED <<clock, vintages, numerators, ratios, frozen, ubwiDeaths>>

Today(r) == DayOf(ubwiRun[r].now)
FrozenOn(day) == \E k \in DOMAIN frozen : frozen[k].day = day

\* frozenPublicationOn, before anything is written.
CheckDay(r) ==
    /\ ubwiRun[r].pc = "day"
    /\ IF FrozenOn(Today(r)) THEN Answers(r, "already_published")
       ELSE UbwiGoes(r, [ubwiRun[r] EXCEPT !.pc = "denominator"])
    /\ UNCHANGED <<clock, vintages, numerators, ratios, frozen, ubwiDeaths>>

\* loadDenominator's select: any of the vintages with this subtotal, or none (0).
LoadDenominator(r) ==
    /\ ubwiRun[r].pc = "denominator"
    /\ \E v \in 0..vintages :
         /\ v = 0 => vintages = 0
         /\ UbwiGoes(r, [ubwiRun[r] EXCEPT !.pc = "numerator", !.vintage = v])
    /\ UNCHANGED <<clock, vintages, numerators, ratios, frozen, ubwiDeaths>>

ObservedAt(t) == {k \in DOMAIN numerators : numerators[k] = t}

\* loadNumerator's select, in the same transaction.
LoadNumerator(r) ==
    LET found == ObservedAt(ubwiRun[r].observed)
    IN /\ ubwiRun[r].pc = "numerator"
       /\ \E k \in found \cup {0} :
            /\ k = 0 => found = {}
            /\ UbwiGoes(r, [ubwiRun[r] EXCEPT !.pc = "commit", !.numerator = k])
       /\ UNCHANGED <<clock, vintages, numerators, ratios, frozen, ubwiDeaths>>

\* The inserts, where the selects found nothing.  Neither table has a unique index on the
\* identity the selects ask for.
InsertVintage(r) == vintages' = IF ubwiRun[r].vintage = 0 THEN vintages + 1 ELSE vintages
InsertObservation(r) ==
    numerators' = IF ubwiRun[r].numerator = 0 THEN Append(numerators, ubwiRun[r].observed) ELSE numerators

CommitLoad(r) ==
    /\ ubwiRun[r].pc = "commit"
    /\ InsertVintage(r) /\ InsertObservation(r)
    /\ UbwiGoes(r, [ubwiRun[r] EXCEPT
         !.pc = "lookup",
         !.vintage = IF @ = 0 THEN vintages + 1 ELSE @,
         !.numerator = IF @ = 0 THEN Len(numerators) + 1 ELSE @])
    /\ UNCHANGED <<clock, ratios, frozen, ubwiDeaths>>

RatiosOf(v, k) == {c \in DOMAIN ratios : ratios[c].vintage = v /\ ratios[c].numerator = k}

\* MUTANT of LookUpRatio: what was calculated is taken to be published.
LookUpRatioAsPoint(r) ==
    LET found == RatiosOf(ubwiRun[r].vintage, ubwiRun[r].numerator)
    IN /\ ubwiRun[r].pc = "lookup"
       /\ IF found # {} THEN Answers(r, "already_published")
          ELSE UbwiGoes(r, [ubwiRun[r] EXCEPT !.pc = "record"])
       /\ UNCHANGED <<clock, vintages, numerators, ratios, frozen, ubwiDeaths>>

\* "One calculation per (vintage, numerator observation, methodology version)".
LookUpRatio(r) ==
    LET found == RatiosOf(ubwiRun[r].vintage, ubwiRun[r].numerator)
    IN /\ ubwiRun[r].pc = "lookup"
       /\ \E c \in found \cup {0} :
            /\ c = 0 => found = {}
            /\ UbwiGoes(r, [ubwiRun[r] EXCEPT !.pc = IF c = 0 THEN "record" ELSE "gate", !.ratio = c])
       /\ UNCHANGED <<clock, vintages, numerators, ratios, frozen, ubwiDeaths>>

\* The refusal of the gate is recorded with the calculation.
RecordRatio(r) ==
    /\ ubwiRun[r].pc = "record"
    /\ ratios' = Append(ratios, [vintage |-> ubwiRun[r].vintage, numerator |-> ubwiRun[r].numerator,
                                 passed |-> ubwiRun[r].observed \in Passing])
    /\ UbwiGoes(r, [ubwiRun[r] EXCEPT !.pc = "gate", !.ratio = Len(ratios) + 1])
    /\ UNCHANGED <<clock, vintages, numerators, frozen, ubwiDeaths>>

PointOf(c) == {k \in DOMAIN frozen : frozen[k].ratio = c}

\* The gate, and the point the calculation may already have.
Gate(r) ==
    /\ ubwiRun[r].pc = "gate"
    /\ IF ubwiRun[r].observed \notin Passing THEN Answers(r, "gate_refused")
       ELSE IF PointOf(ubwiRun[r].ratio) # {} THEN Answers(r, "already_published")
       ELSE UbwiGoes(r, [ubwiRun[r] EXCEPT !.pc = "freeze"])
    /\ UNCHANGED <<clock, vintages, numerators, ratios, frozen, ubwiDeaths>>

\* MUTANT of Freeze: without ubwi_publications_daily_idx.
FreezeUnindexed(r) ==
    /\ ubwiRun[r].pc = "freeze"
    /\ IF PointOf(ubwiRun[r].ratio) = {}
       THEN /\ frozen' = Append(frozen, [ratio |-> ubwiRun[r].ratio, day |-> Today(r)])
            /\ Answers(r, "published")
       ELSE UNCHANGED frozen /\ UbwiGoes(r, [ubwiRun[r] EXCEPT !.pc = "converge"])
    /\ UNCHANGED <<clock, vintages, numerators, ratios, ubwiDeaths>>

\* The insert: one point of a calculation, and one of a day.
Freeze(r) ==
    /\ ubwiRun[r].pc = "freeze"
    /\ IF PointOf(ubwiRun[r].ratio) = {} /\ ~FrozenOn(Today(r))
       THEN /\ frozen' = Append(frozen, [ratio |-> ubwiRun[r].ratio, day |-> Today(r)])
            /\ Answers(r, "published")
       ELSE UNCHANGED frozen /\ UbwiGoes(r, [ubwiRun[r] EXCEPT !.pc = "converge"])
    /\ UNCHANGED <<clock, vintages, numerators, ratios, ubwiDeaths>>

\* The loser of a unique index answers with the winner's point.
Converge(r) ==
    /\ ubwiRun[r].pc = "converge"
    /\ Answers(r, "already_published")
    /\ UNCHANGED <<clock, vintages, numerators, ratios, frozen, ubwiDeaths>>

\* The process dies or a statement fails: nothing is answered, what is committed stays.
UbwiRunDies(r) ==
    /\ ubwiRun[r].pc # "idle"
    /\ ubwiDeaths < MaxUbwiDeaths
    /\ ubwiDeaths' = ubwiDeaths + 1
    /\ UbwiGoes(r, Unasked)
    /\ UNCHANGED <<clock, vintages, numerators, ratios, frozen>>

UbwiStep(r) == \/ StartsUbwi(r) \/ RetrieveNumerator(r) \/ RetrievalFails(r) \/ CheckDay(r)
               \/ LoadDenominator(r) \/ LoadNumerator(r) \/ CommitLoad(r)
               \/ LookUpRatio(r) \/ RecordRatio(r) \/ Gate(r) \/ Freeze(r) \/ Converge(r)

UbwiNext == ClockMoves \/ \E r \in UbwiRuns : UbwiStep(r) \/ UbwiRunDies(r)

UbwiSpec == UbwiInit /\ [][UbwiNext]_ubwiVars

-----------------------------------------------------------------------------
(* What the series promises. *)

InstantOf(k) == numerators[ratios[frozen[k].ratio].numerator]

\* "At most one point per UTC day", "a real, separately verified observation" each: no two
\* points share their day or their observation's calculation, none is of a calculation the
\* gate refused, and none shows an observation made before its day -- whatever runs overlap,
\* though they may file one denominator, one observation and one calculation twice.
PointsAreOfTheirDay ==
    /\ \A j, k \in DOMAIN frozen : j # k =>
         frozen[j].day # frozen[k].day /\ frozen[j].ratio # frozen[k].ratio
    /\ \A k \in DOMAIN frozen :
         /\ ratios[frozen[k].ratio].passed /\ InstantOf(k) \in Passing
         /\ frozen[k].day <= DayOf(InstantOf(k))

\* "The run converges on the winner's point": a run that answers with a point, its own or
\* another's, finds the point of its day standing -- or one of the very observation it made,
\* frozen by a run of the day before that observed as the day changed.
AnsweredWithAPoint ==
    [][\A r \in UbwiRuns :
         ubwiRun[r].pc # "idle" /\ ubwiRun'[r].outcome \in {"published", "already_published"} =>
           \/ \E k \in DOMAIN frozen' : frozen'[k].day = Today(r)
           \/ \E k \in DOMAIN frozen : InstantOf(k) = ubwiRun[r].observed]_ubwiVars
=============================================================================
