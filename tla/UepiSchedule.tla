---------------------------- MODULE UepiSchedule ----------------------------
(***************************************************************************)
(* The daily electricity price run.  Market by market, and in each market  *)
(* day by day over a trailing window, a day not yet released is fetched,   *)
(* judged and stored in one transaction.  An operator's backfill is the    *)
(* same loop over another range, and may overlap the cron's: nothing is    *)
(* locked between the look at the table and the write.                     *)
(*                                                                         *)
(* A run is given one database client.  When a write loses the connection  *)
(* the loop over that market's days opens another, and the run itself is   *)
(* left with the client it was given.                                      *)
(***************************************************************************)
EXTENDS Naturals, Sequences, FiniteSets

CONSTANTS
    UepiRuns,       \* the cron's runs and the operator's
    Markets,        \* in the order they are run, a sequence
    LastDay,        \* bound: operating days followed
    Trailing,       \* TRAILING_REREAD_DAYS
    Attempts,       \* persistenceAttempts
    Hours,          \* hours of an operating day
    MaxEditions,    \* bound: files published, revisions included
    MaxDrops        \* bound: connections lost and sources out of reach

ASSUME UepiAssumption ==
    /\ Markets \in Seq({Markets[k] : k \in DOMAIN Markets}) /\ Markets # <<>>
    /\ LastDay \in Nat \ {0} /\ Trailing \in Nat
    /\ Attempts \in Nat \ {0} /\ Hours \in Nat \ {0}
    /\ MaxEditions \in Nat /\ MaxDrops \in Nat

Days == 1..LastDay
Market == DOMAIN Markets
Slots == Market \X Days

VARIABLES
    today,      \* the local operating date
    file,       \* what each source serves for each day
    released,   \* pipeline.uepi_daily_values: the edition each current value was made of
    uepiRun,    \* the runs in progress
    drops       \* connections lost and sources out of reach so far

uepiVars == <<today, file, released, uepiRun, drops>>

\* A day's file: how many of its hours it holds, whether one of them is suspect.
File == [edition : 0..MaxEditions, hours : 0..Hours, suspect : BOOLEAN]
NoFile == [edition |-> 0, hours |-> 0, suspect |-> FALSE]

\* given and client: is the client the run was given alive, and the one in use, which
\* own says is another.  alone: no other run was in progress during this one (a record
\* of the past, which the code does not keep).
Asleep == [pc |-> "idle", market |-> 1, day |-> 1, to |-> 1, file |-> NoFile, attempt |-> 1,
           given |-> TRUE, client |-> TRUE, own |-> FALSE, alone |-> TRUE,
           unread |-> {}, unwritten |-> {}, held |-> {}, dropped |-> 0]

UepiTypeOK ==
    /\ today \in Days
    /\ file \in [Slots -> File]
    /\ released \in [Slots -> 0..MaxEditions]
    /\ drops \in 0..MaxDrops
    /\ uepiRun \in [UepiRuns ->
         [pc : {"idle", "look", "fetch", "store", "report"}, market : Market, day : Days, to : Days,
          file : File, attempt : 1..Attempts, given : BOOLEAN, client : BOOLEAN, own : BOOLEAN, alone : BOOLEAN,
          unread : SUBSET Slots, unwritten : SUBSET Slots, held : SUBSET Slots, dropped : 0..MaxDrops]]

UepiInit ==
    /\ today = 1
    /\ file = [s \in Slots |-> NoFile]
    /\ released = [s \in Slots |-> 0]
    /\ uepiRun = [r \in UepiRuns |-> Asleep]
    /\ drops = 0

-----------------------------------------------------------------------------
(* The markets. *)

DayPasses == today < LastDay /\ today' = today + 1 /\ UNCHANGED <<file, released, uepiRun, drops>>

\* A file appears, is completed, or is revised; editions count those of all sources.
SourcePublishes(s) ==
    \E e \in 1..MaxEditions, h \in 1..Hours, q \in BOOLEAN :
        /\ \A t \in Slots : file[t].edition < e
        /\ e > 1 => \E t \in Slots : file[t].edition = e - 1
        /\ file' = [file EXCEPT ![s] = [edition |-> e, hours |-> h, suspect |-> q]]
        /\ UNCHANGED <<today, released, uepiRun, drops>>

\* evaluateRelease: the first condition a day fails, or none.  A day is its exact
\* hours, all of them accepted.
Refusal(f) == IF f.hours # Hours THEN "incomplete_intervals"
              ELSE IF f.suspect THEN "suspect_observation" ELSE "none"

Whole(f) == f.edition > 0 /\ Refusal(f) = "none"

-----------------------------------------------------------------------------
(* A run. *)

Here(r) == <<uepiRun[r].market, uepiRun[r].day>>

\* MUTANT of WindowStart: the latest day only.
WindowStartAtHead(to) == to

WindowStart(to) == IF to > Trailing THEN to - Trailing ELSE 1
Window(r) == WindowStart(uepiRun[r].to)..uepiRun[r].to

Running(r) == uepiRun[r].pc # "idle"

Starts(r) ==
    /\ ~Running(r)
    /\ uepiRun' = [q \in UepiRuns |->
         IF q = r THEN [Asleep EXCEPT !.pc = "look", !.to = today, !.day = WindowStart(today),
                                      !.alone = \A o \in UepiRuns : ~Running(o)]
         ELSE [uepiRun[q] EXCEPT !.alone = @ /\ ~Running(q)]]
    /\ UNCHANGED <<today, file, released, drops>>

\* MUTANT of After: a market that failed ends the run.
AfterStoppingAtFailure(run) ==
    IF run.day < run.to
    THEN [run EXCEPT !.pc = "look", !.day = @ + 1, !.file = NoFile, !.attempt = 1]
    ELSE IF run.market < Len(Markets) /\ run.unread = {}
    THEN [run EXCEPT !.pc = "look", !.market = @ + 1, !.day = WindowStart(run.to),
                     !.file = NoFile, !.attempt = 1, !.client = run.given, !.own = FALSE]
    ELSE [run EXCEPT !.pc = "report", !.file = NoFile, !.attempt = 1]

\* The next day, the next market with the client the run was given, or the end.
After(run) ==
    IF run.day < run.to
    THEN [run EXCEPT !.pc = "look", !.day = @ + 1, !.file = NoFile, !.attempt = 1]
    ELSE IF run.market < Len(Markets)
    THEN [run EXCEPT !.pc = "look", !.market = @ + 1, !.day = WindowStart(run.to),
                     !.file = NoFile, !.attempt = 1, !.client = run.given, !.own = FALSE]
    ELSE [run EXCEPT !.pc = "report", !.file = NoFile, !.attempt = 1]

Leaves(r, run) == uepiRun' = [uepiRun EXCEPT ![r] = After(run)]

\* MUTANT of Look: every day of the window is read again.
LookAgain(r) ==
    /\ uepiRun[r].pc = "look"
    /\ IF ~uepiRun[r].client
       THEN Leaves(r, [uepiRun[r] EXCEPT !.unwritten = @ \cup {Here(r)}])
       ELSE uepiRun' = [uepiRun EXCEPT ![r].pc = "fetch"]
    /\ UNCHANGED <<today, file, released, drops>>

\* alreadyReleased, before the fetch.  A query on a dead client fails the day, and opens
\* no other client.
Look(r) ==
    /\ uepiRun[r].pc = "look"
    /\ IF ~uepiRun[r].client
       THEN Leaves(r, [uepiRun[r] EXCEPT !.unwritten = @ \cup {Here(r)}])
       ELSE IF released[Here(r)] > 0 THEN Leaves(r, uepiRun[r])
       ELSE uepiRun' = [uepiRun EXCEPT ![r].pc = "fetch"]
    /\ UNCHANGED <<today, file, released, drops>>

\* No file yet; no answer, or one that does not parse.  The failure is the day's own.
FetchFails(r) ==
    /\ uepiRun[r].pc = "fetch"
    /\ \/ file[Here(r)].edition = 0 /\ UNCHANGED drops
       \/ file[Here(r)].edition > 0 /\ drops < MaxDrops /\ drops' = drops + 1
    /\ Leaves(r, [uepiRun[r] EXCEPT !.unread = @ \cup {Here(r)}])
    /\ UNCHANGED <<today, file, released>>

\* The file is read and judged.
Fetch(r) ==
    /\ uepiRun[r].pc = "fetch"
    /\ file[Here(r)].edition > 0
    /\ IF Refusal(file[Here(r)]) = "none"
       THEN uepiRun' = [uepiRun EXCEPT ![r].pc = "store", ![r].file = file[Here(r)]]
       ELSE Leaves(r, [uepiRun[r] EXCEPT !.held = @ \cup {Here(r)}])
    /\ UNCHANGED <<today, file, released, drops>>

\* storeOperatingDay: one transaction, which supersedes whatever value is current by
\* then if its inputs differ.
Store(r) ==
    /\ uepiRun[r].pc = "store"
    /\ uepiRun[r].client
    /\ released' = [released EXCEPT ![Here(r)] = uepiRun[r].file.edition]
    /\ Leaves(r, uepiRun[r])
    /\ UNCHANGED <<today, file, drops>>

\* The transaction ran into one that released the day since this run looked: the unique
\* index, or the trigger on a row superseded already, refuses it, and it is not retried.
StoreRefused(r) ==
    /\ uepiRun[r].pc = "store"
    /\ uepiRun[r].client
    /\ released[Here(r)] > 0
    /\ Leaves(r, [uepiRun[r] EXCEPT !.unwritten = @ \cup {Here(r)}])
    /\ UNCHANGED <<today, file, released, drops>>

\* persist: the write lost the connection; another client, up to Attempts.
StoreRetries(r) ==
    /\ uepiRun[r].pc = "store"
    /\ ~uepiRun[r].client
    /\ IF uepiRun[r].attempt < Attempts
       THEN uepiRun' = [uepiRun EXCEPT ![r].attempt = @ + 1, ![r].client = TRUE, ![r].own = TRUE]
       ELSE Leaves(r, [uepiRun[r] EXCEPT !.unwritten = @ \cup {Here(r)}])
    /\ UNCHANGED <<today, file, released, drops>>

\* The run's freshness and ledger row, on the client it was given; without it the route
\* answers 500 and no row is written.  Either way the run is over.
Report(r) ==
    /\ uepiRun[r].pc = "report"
    /\ uepiRun' = [uepiRun EXCEPT ![r] = Asleep]
    /\ UNCHANGED <<today, file, released, drops>>

\* The pooler drops the client in use.  A transaction in flight is undone, or had
\* committed and only its answer is lost.
ConnectionDrops(r) ==
    /\ uepiRun[r].pc \in {"look", "fetch", "store"}
    /\ uepiRun[r].client
    /\ drops < MaxDrops
    /\ drops' = drops + 1
    /\ uepiRun' = [uepiRun EXCEPT ![r].client = FALSE, ![r].dropped = @ + 1,
                                  ![r].given = @ /\ uepiRun[r].own]
    /\ \/ UNCHANGED released
       \/ /\ uepiRun[r].pc = "store"
          /\ released' = [released EXCEPT ![Here(r)] = uepiRun[r].file.edition]
    /\ UNCHANGED <<today, file>>

UepiStep(r) == \/ Starts(r) \/ Look(r) \/ FetchFails(r) \/ Fetch(r)
               \/ Store(r) \/ StoreRefused(r) \/ StoreRetries(r) \/ Report(r)

UepiNext == \/ DayPasses
            \/ \E s \in Slots : SourcePublishes(s)
            \/ \E r \in UepiRuns : UepiStep(r) \/ ConnectionDrops(r)

UepiSpec == UepiInit /\ [][UepiNext]_uepiVars

-----------------------------------------------------------------------------
(* What the runs promise. *)

\* "One market cannot stop the other five from advancing" (scheduled-run.ts), nor one
\* day the next: when a run reports, every day of every market's window is released,
\* or is named in the report as unreadable, withheld or not written.
EveryDayAccountedFor ==
    [][\A r \in UepiRuns : Report(r) =>
         \A s \in Market \X Window(r) :
            \/ released[s] > 0
            \/ s \in uepiRun[r].unread \cup uepiRun[r].held \cup uepiRun[r].unwritten]_uepiVars

\* A run that overlaps no other never supersedes a released value, the cron's or an
\* operator's: it does not read such a day again, and a write repeated because its answer
\* was lost writes what is there.  So a source's revision is never picked up either.
ReleasedIsFinal ==
    \A r \in UepiRuns :
        uepiRun[r].pc = "store" /\ uepiRun[r].alone =>
            released[Here(r)] \in {0, uepiRun[r].file.edition}

\* Runs keep coming, and go on to their end.
UepiFairness == \A r \in UepiRuns : WF_uepiVars(UepiStep(r))

UepiFairSpec == UepiSpec /\ UepiFairness

Awaited(s) == Whole(file[s]) /\ s[2] <= today /\ today <= s[2] + Trailing

\* "A day that previously failed was never released, so it is retried on every run while
\* it stays inside the window, and released the moment it becomes complete."
\* Days and editions being bounded, each is released once there is none still to come.
WholeDayIsReleased == []<>(\A s \in Slots : Awaited(s) => released[s] > 0)
=============================================================================
