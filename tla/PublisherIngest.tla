-------------------------- MODULE PublisherIngest --------------------------
(***************************************************************************)
(* Reading a publisher's report into the database: the capacity reports,   *)
(* and the planning forecasts by the same design.  A report's address is   *)
(* fixed for a release; what is served there may be corrected in place.  A *)
(* run of an operator's command fetches the artifact, then in one          *)
(* transaction files it as evidence, finds or creates the release's        *)
(* vintage, compares each record with the live value of its identity, and  *)
(* supersedes what changed.  Nothing prevents two runs at once: statements *)
(* see what has been committed, and unique indexes and a trigger decide.   *)
(***************************************************************************)
EXTENDS Naturals, SequencesExt

CONSTANTS
    Ingesters,       \* runs in progress at once
    Identities,      \* what a value is of: scenario, place, kind, period, unit
    Artifacts,       \* what may be published: sequences of records [identity, value]
    NoArtifact,
    MaxCorrections   \* bound: artifacts published after the first

ASSUME IngestAssumption ==
    /\ MaxCorrections \in Nat
    /\ \A a \in Artifacts : a \in Seq([identity : Identities, value : Nat \ {0}])

VARIABLES
    offered,       \* the artifact at the publisher's address
    corrections,
    evidence,        \* pipeline.source_retrievals and the raw records: artifacts filed
    vintageHeld,     \* the release has its row in pipeline.grid_capacity_vintages
    values,          \* pipeline.grid_capacity_components: rows, and what supersedes each
    ingest           \* the runs

publisherVars == <<offered, corrections, evidence, vintageHeld, values, ingest>>

NotIngesting == [pc |-> "idle", artifact |-> NoArtifact, creates |-> FALSE,
                 live |-> [i \in Identities |-> 0]]

PublisherTypeOK ==
    /\ offered \in Artifacts /\ corrections \in 0..MaxCorrections
    /\ evidence \subseteq Artifacts /\ vintageHeld \in BOOLEAN
    /\ \A k \in DOMAIN values :
         values[k] \in [identity : Identities, value : Nat, artifact : evidence, next : 0..Len(values)]
    /\ ingest \in [Ingesters ->
         [pc : {"idle", "fetched", "vintage", "create", "load", "persist"},
          artifact : Artifacts \cup {NoArtifact}, creates : BOOLEAN,
          live : [Identities -> 0..Len(values)]]]

PublisherInit ==
    /\ offered \in Artifacts /\ corrections = 0
    /\ evidence = {} /\ vintageHeld = FALSE /\ values = <<>>
    /\ ingest = [r \in Ingesters |-> NotIngesting]

AtIngest(r, pc) == ingest[r].pc = pc
Becomes(r, run) == ingest' = [ingest EXCEPT ![r] = run]

-----------------------------------------------------------------------------

\* The publisher corrects or reissues what it serves.
PublisherCorrects ==
    /\ corrections < MaxCorrections
    /\ corrections' = corrections + 1
    /\ offered' \in Artifacts \ {offered}
    /\ UNCHANGED <<evidence, vintageHeld, values, ingest>>

\* collectCapacityArtifacts, and the adapter's parse: pure, and before the transaction.
FetchArtifact(r) ==
    /\ AtIngest(r, "idle")
    /\ Becomes(r, [NotIngesting EXCEPT !.pc = "fetched", !.artifact = offered])
    /\ UNCHANGED <<offered, corrections, evidence, vintageHeld, values>>

\* Runs in their transaction that have inserted an artifact's evidence, or the vintage.
Filing(artifact) == {r \in Ingesters : ingest[r].artifact = artifact /\ ingest[r].pc \notin {"idle", "fetched"}}
Creating == {r \in Ingesters : ingest[r].creates /\ ingest[r].pc \in {"load", "persist"}}

\* "On conflict do nothing" waits for whoever is inserting the same artifact.
FileRetrieval(r) ==
    /\ AtIngest(r, "fetched")
    /\ ingest[r].artifact \in evidence \/ Filing(ingest[r].artifact) = {}
    /\ Becomes(r, [ingest[r] EXCEPT !.pc = "vintage"])
    /\ UNCHANGED <<offered, corrections, evidence, vintageHeld, values>>

FindVintage(r) ==
    /\ AtIngest(r, "vintage")
    /\ Becomes(r, [ingest[r] EXCEPT !.pc = IF vintageHeld THEN "load" ELSE "create"])
    /\ UNCHANGED <<offered, corrections, evidence, vintageHeld, values>>

\* The insert waits for another's, and is refused if that one commits.
CreateVintage(r) ==
    /\ AtIngest(r, "create")
    /\ Creating = {}
    /\ Becomes(r, IF vintageHeld THEN NotIngesting
                  ELSE [ingest[r] EXCEPT !.pc = "load", !.creates = TRUE])
    /\ UNCHANGED <<offered, corrections, evidence, vintageHeld, values>>

LiveRows(rows, i) == {k \in DOMAIN rows : rows[k].identity = i /\ rows[k].next = 0}
Live(rows) == [i \in Identities |-> IF LiveRows(rows, i) = {} THEN 0 ELSE CHOOSE k \in LiveRows(rows, i) : TRUE]

\* Every live row of the vintage, in one statement.
LoadLive(r) ==
    /\ AtIngest(r, "load")
    /\ Becomes(r, [ingest[r] EXCEPT !.pc = "persist", !.live = Live(values)])
    /\ UNCHANGED <<offered, corrections, evidence, vintageHeld, values>>

\* planCanonicalWrites walks the records in order and keeps what it inserts beside what was
\* loaded: of each identity it inserts the first record that differs from the live value ...
FirstChanges(artifact, stands) ==
    {k \in DOMAIN artifact :
       LET i == artifact[k].identity
       IN /\ artifact[k].value # stands[i]
          /\ \A j \in 1..(k - 1) : artifact[j].identity = i => artifact[j].value = stands[i]}

\* ... and a record after it that says otherwise, if only what was live, refuses the artifact.
PlanOf(artifact, stands) ==
    LET changes == FirstChanges(artifact, stands)
    IN [inserts |-> SetToSeq({artifact[k] : k \in changes}),
        refused |-> \E k \in changes : \E j \in DOMAIN artifact :
                      /\ j > k /\ artifact[j].identity = artifact[k].identity
                      /\ artifact[j].value # artifact[k].value]

\* MUTANT of PlanWrites: a value read back is not the value that was stored.
PlanWritesRounded(artifact, live) == PlanOf(artifact, [i \in Identities |-> 0])

PlanWrites(artifact, live) ==
    PlanOf(artifact, [i \in Identities |-> IF live[i] = 0 THEN 0 ELSE values[live[i]].value])

\* The rows after the plan's supersessions and inserts.
Restated(artifact, live, inserts) ==
    LET new(i) == CHOOSE k \in DOMAIN inserts : inserts[k].identity = i
        changed == {inserts[k].identity : k \in DOMAIN inserts}
    IN [k \in DOMAIN values |->
          IF \E i \in changed : live[i] = k
          THEN [values[k] EXCEPT !.next = Len(values) + new(values[k].identity)] ELSE values[k]]
       \o [k \in DOMAIN inserts |-> [identity |-> inserts[k].identity, value |-> inserts[k].value,
                                     artifact |-> artifact, next |-> 0]]

\* The trigger lets a live row be superseded and nothing else; the partial unique index
\* lets an identity have one live row.
Accepted(rows, live, inserts) ==
    \A k \in DOMAIN inserts :
      LET i == inserts[k].identity
      IN /\ live[i] # 0 => values[live[i]].next = 0
         /\ \A a, b \in LiveRows(rows, i) : a = b

\* The plan, its statements and the commit; any refusal rolls back the whole artifact.
PersistExtraction(r) ==
    LET run == ingest[r]
        plan == PlanWrites(run.artifact, run.live)
        rows == Restated(run.artifact, run.live, plan.inserts)
    IN /\ AtIngest(r, "persist")
       /\ IF ~plan.refused /\ Accepted(rows, run.live, plan.inserts)
          THEN /\ values' = rows
               /\ evidence' = evidence \cup {run.artifact}
               /\ vintageHeld' = TRUE
          ELSE UNCHANGED <<evidence, vintageHeld, values>>
       /\ Becomes(r, NotIngesting)
       /\ UNCHANGED <<offered, corrections>>

\* The publisher does not answer, the report cannot be read, or the command dies.
IngestFails(r) ==
    /\ ~AtIngest(r, "idle")
    /\ Becomes(r, NotIngesting)
    /\ UNCHANGED <<offered, corrections, evidence, vintageHeld, values>>

IngestStep(r) == \/ FetchArtifact(r) \/ FileRetrieval(r) \/ FindVintage(r) \/ CreateVintage(r)
                 \/ LoadLive(r) \/ PersistExtraction(r) \/ IngestFails(r)

PublisherNext == PublisherCorrects \/ \E r \in Ingesters : IngestStep(r)

PublisherSpec == PublisherInit /\ [][PublisherNext]_publisherVars

-----------------------------------------------------------------------------
(* What the tables promise. *)

ValuesOf(artifact, i) == {artifact[k].value : k \in {k \in DOMAIN artifact : artifact[k].identity = i}}
Value(rows, k) == IF k = 0 THEN {} ELSE {rows[k].value}

\* "Running the same artifact twice writes nothing the second time; running a corrected
\* artifact supersedes only the values that changed": of whatever runs overlap, one that files
\* an artifact leaves each value that differs from what it read live, under that artifact, and
\* every other as it is; no identity ever has two live values, and a superseded value is
\* followed by one of its own identity.
RestatesOnlyChanges ==
    [][/\ \A k \in DOMAIN values' :
            /\ values'[k].next # 0 => values'[values'[k].next].identity = values'[k].identity
            /\ values'[k].next = 0 => LiveRows(values', values'[k].identity) = {k}
       /\ \A r \in Ingesters : AtIngest(r, "persist") /\ values' # values /\ ingest'[r] # ingest[r] =>
            \A i \in Identities :
              LET said == ValuesOf(ingest[r].artifact, i)
                  now == Live(values')[i]
              IN IF said \subseteq Value(values, ingest[r].live[i]) THEN now = Live(values)[i]
                 ELSE Value(values', now) \subseteq said /\ values'[now].artifact = ingest[r].artifact
      ]_publisherVars
=============================================================================
