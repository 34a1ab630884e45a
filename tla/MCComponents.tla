----------------------------- MODULE MCComponents -----------------------------
(***************************************************************************)
(* The scheduled pipelines, the commands an operator runs, and checkout,   *)
(* on small instances.  They share no table and no lock, so nothing is     *)
(* learnt from interleaving them: the first state chooses the one that     *)
(* moves, and the others stay where they start.                            *)
(***************************************************************************)
EXTENDS UtviPublication, UmpiOperations, UepiSchedule, QueueRefresh, UcpiDaily, Checkout,
        UbwiNumerator, UbwiDaily, PublisherIngest, PlanningFreshness,
        FrontierCapability, TokenVerification, TLC

CONSTANTS one, two, three

VARIABLE moving

MCTotal == (one :> 1) @@ (two :> 2) @@ (three :> 1)
MCMarkets == <<"CAISO", "ERCOT">>
MCSources == <<"PJM", "ERCOT", "SPP">>
MCLimit == <<1, 2, 1>>
MCInstruments == <<"H100", "B200">>
MCCapacitySource == (one :> one) @@ (two :> two) @@ (three :> one)
Says(i, v) == [identity |-> i, value |-> v]
MCArtifacts == {<<Says(one, 1)>>, <<Says(one, 1), Says(two, 1)>>, <<Says(one, 2), Says(two, 1)>>,
                <<Says(one, 1), Says(two, 2)>>, <<Says(one, 1), Says(one, 2)>>}

Scores(a, b) == (one :> a) @@ (two :> b)
MCBundles == {[score |-> Scores(1, 1), eligible |-> TRUE], [score |-> Scores(2, 2), eligible |-> TRUE],
              [score |-> Scores(2, 0), eligible |-> TRUE], [score |-> Scores(1, 2), eligible |-> FALSE]}
Page(n, i, o) == [copy |-> n, rate |-> ("input" :> i) @@ ("output" :> o)]
MCPages == {Page(1, 1, 1), Page(2, 1, 1), Page(1, 2, 1), Page(1, 1, 2), Page(1, 2, 0)}

series == <<utviVars, umpiVars, uepiVars, queueVars, ucpiVars, checkoutVars>>
reports == <<numeratorVars, ubwiVars, publisherVars, freshnessVars>>
models == <<frontierVars, tokenVars>>
components == <<series, reports, models, moving>>

\* What moves, by name and scale.
Scales == {"utvi", "utvi_overlap", "umpi", "uepi", "uepi_overlap", "queue", "queue_all",
           "ucpi", "ucpi_shared", "ucpi_pair", "ucpi_overlap", "checkout",
           "numerator", "ubwi", "ubwi_overlap", "publisher", "publisher_overlap", "freshness", "freshness_overlap",
           "frontier", "frontier_overlap", "tokens", "tokens_overlap"}

\* Runs that move: two where runs overlap.
Movers == IF moving \in {"utvi", "uepi", "ucpi", "ucpi_shared", "ucpi_pair", "ubwi", "publisher", "freshness",
                         "frontier", "tokens"} THEN {one} ELSE {one, two}

MCInit ==
    /\ UtviInit /\ UmpiInit /\ UepiInit /\ QueueInit /\ UcpiInit /\ CheckoutInit
    /\ NumeratorInit /\ UbwiInit /\ PublisherInit /\ FreshnessInit
    /\ FrontierInit /\ TokenInit
    /\ moving \in Scales
    /\ moving = "utvi_overlap" => closed /\ served.content = one
    /\ moving \notin {"utvi", "utvi_overlap"} => closed /\ snapshots = <<>> /\ served.content = NoRows
    /\ moving # "umpi" => based[three]
    /\ moving # "numerator" => liar = "none"
    /\ moving # "publisher" => offered = <<Says(one, 1)>>
    /\ sourceBundle.eligible = (moving \in {"frontier", "frontier_overlap"})
    /\ sourceBundle.eligible => sourceBundle.score = Scores(1, 1)
    /\ page = Page(1, 1, 1) /\ (moving # "tokens" => designated)

\* One run that may die at each step, or two that do not, under which the source moves.
UtviMoves ==
    \/ /\ moving = "utvi" /\ UtviNext
       /\ \A r \in UtviRuns \ Movers : utviRun'[r] = utviRun[r]
    \/ /\ moving = "utvi_overlap" /\ UtviNext
       /\ deaths' = 0 /\ served'.moves <= 1 /\ served'.content # three
       /\ served' # served => \E r \in UtviRuns : utviRun[r].pc \notin {"idle", "read"}

\* The first figure with a level stated of the first month is `one`: figures are only
\* compared, so that another would be the same behaviour under another name.  Of the second
\* month one is enough, which may be revised to none; and a series without a base has no
\* points to revise.  One run waits where the other works, so that beside the first month's
\* figures two are enough.
UmpiMoves ==
    /\ moving = "umpi" /\ UmpiNext
    /\ agency'[three][1] = two => agency[three][1] # NoFigure
    /\ agency'[three][2] # two /\ (agency'[three][2] = three => agency[three][2] # NoFigure)
    /\ ~based[three] => revisions' = 0
    /\ umpiRun'[two].pc # "idle" => based[three] /\ agency'[three][2] = NoFigure

UepiMoves ==
    \/ /\ moving = "uepi" /\ UepiNext
       /\ \A r \in UepiRuns \ Movers : uepiRun'[r].pc = "idle"
    \/ /\ moving = "uepi_overlap" /\ UepiNext
       /\ drops' = 0 /\ \A d \in Days : file'[2, d] = NoFile

\* The archive by itself, whose markets are never all current, or each source in little, the
\* published ones with three artifacts between them.  What
\* a source says first is `one`: statements are only compared, and with those of their source.
QueueMoves ==
    /\ \/ /\ moving = "queue" /\ QueueNext
          /\ \A s \in Source : ~recent'[s] /\ (s # 2 => archive'[s] = <<>>)
       \/ /\ moving = "queue_all" /\ QueueNext
          /\ \A s \in Source : Len(archive'[s]) <= (IF s = 3 THEN 1 ELSE 2)
          /\ Len(archive'[1]) + Len(archive'[2]) <= 3
          /\ ~recent'[3]
    /\ \A s \in Source : archive'[s] # <<>> => archive'[s][1].says = one

\* What a source may say: of the first n instruments, up to k reads each, of the sellers
\* given and at the prices given.
Reading(n, k, sellers, top) ==
    \A r \in UcpiRuns :
        /\ ucpiRun[r].pc = "fetch" /\ ucpiRun'[r].pc = "store" =>
             Instr(r) <= n /\ Cardinality(reads[Instr(r)]) < k
        /\ \A s \in Sellers : ucpiRun'[r].listing[s] <= (IF s \in sellers THEN top ELSE 0)

UcpiMoves ==
    /\ UcpiNext
    /\ \A r \in UcpiRuns \ Movers : ucpiRun'[r].pc = "idle"
    /\ moving \in {"ucpi_shared", "ucpi_overlap"} => failures' = 0 /\ utcDate' <= 2
    /\ \/ moving = "ucpi" /\ Reading(1, 2, {one, two}, 1)
       \/ moving = "ucpi_shared" /\ Reading(1, 2, Sellers, 2)
       \/ moving = "ucpi_pair" /\ Reading(2, 1, {one, two}, 1)
       \/ moving = "ucpi_overlap" /\ Reading(1, 1, {one, two}, 1)

\* One run that observes twice, or two that observe once each.
UbwiMoves ==
    /\ moving \in {"ubwi", "ubwi_overlap"} /\ UbwiNext
    /\ \A r \in UbwiRuns \ Movers : ubwiRun'[r].pc = "idle"
    /\ moving = "ubwi_overlap" => \A r \in UbwiRuns :
         ubwiRun[r].pc = "retrieve" /\ ubwiRun'[r].pc = "day" => numerators = <<>>

\* One run over every artifact, or two over the corrections of one.
PublisherMoves ==
    /\ moving \in {"publisher", "publisher_overlap"} /\ PublisherNext
    /\ \A r \in Ingesters \ Movers : ingest'[r].pc = "idle"

\* One checker, whose probes may be refused where that makes a difference, or two whose
\* documents are all answered, that begin with a release held and end with another out.
FreshnessMoves ==
    /\ moving \in {"freshness", "freshness_overlap"} /\ FreshnessNext
    /\ \A c \in Checkers \ Movers : looks'[c].pc = "idle"
    /\ \A c \in Checkers : ~looks'[c].whole => looks'[c].found < Len(releasedAt)
    /\ moving = "freshness_overlap" =>
         /\ \A v \in DOMAIN held : held'[v] # "suspect"
         /\ looks' # looks => held[1] = "accepted" /\ \A c \in Checkers : looks'[c].whole
         /\ sourceChecks' # sourceChecks => Len(releasedAt) = 2

\* One run that fails at any step, or two that do not, of bundles that are all eligible.
FrontierMoves ==
    /\ moving \in {"frontier", "frontier_overlap"} /\ FrontierNext
    /\ \A r \in FrontierRuns \ Movers : capability'[r].pc = "idle"
    /\ catalogue' > 0 => bundleMoves' <= 1
    /\ catalogue' # catalogue => \A r \in FrontierRuns : capability[r].pc \in {"idle", "link", "prices", "select"}
    /\ lostRuns' # lostRuns => heartbeat' = "failed"
    /\ moving = "frontier_overlap" =>
         /\ lostRuns' = 0 /\ catalogue' = 0 /\ bundleMoves' <= 1 /\ sourceBundle'.eligible
         /\ \A r \in FrontierRuns :
              /\ ~capability'[r].force
              /\ capability[r].pc \in {"link", "prices", "select"} => capability'[r] # capability[r]

\* One command that may die between its transactions, or two.
TokenMoves ==
    /\ moving \in {"tokens", "tokens_overlap"} /\ TokenNext
    /\ \A r \in Verifiers \ Movers : verifier'[r].pc = "idle"
    /\ moving = "tokens_overlap" => tokenDeaths' = 0 /\ reviews' <= 2

SeriesNext ==
    \/ UtviMoves /\ UNCHANGED <<umpiVars, uepiVars, queueVars, ucpiVars, checkoutVars>>
    \/ UmpiMoves /\ UNCHANGED <<utviVars, uepiVars, queueVars, ucpiVars, checkoutVars>>
    \/ UepiMoves /\ UNCHANGED <<utviVars, umpiVars, queueVars, ucpiVars, checkoutVars>>
    \/ QueueMoves /\ UNCHANGED <<utviVars, umpiVars, uepiVars, ucpiVars, checkoutVars>>
    \/ moving = "checkout" /\ CheckoutNext /\ UNCHANGED <<utviVars, umpiVars, uepiVars, queueVars, ucpiVars>>
    \/ UcpiMoves /\ UNCHANGED <<utviVars, umpiVars, uepiVars, queueVars, checkoutVars>>

ReportsNext ==
    \/ moving = "numerator" /\ NumeratorNext /\ UNCHANGED <<ubwiVars, publisherVars, freshnessVars>>
    \/ UbwiMoves /\ UNCHANGED <<numeratorVars, publisherVars, freshnessVars>>
    \/ PublisherMoves /\ UNCHANGED <<numeratorVars, ubwiVars, freshnessVars>>
    \/ FreshnessMoves /\ UNCHANGED <<numeratorVars, ubwiVars, publisherVars>>

ModelsNext ==
    \/ FrontierMoves /\ UNCHANGED tokenVars
    \/ TokenMoves /\ UNCHANGED frontierVars

MCNext ==
    /\ \/ SeriesNext /\ UNCHANGED <<reports, models>>
       \/ ReportsNext /\ UNCHANGED <<series, models>>
       \/ ModelsNext /\ UNCHANGED <<series, reports>>
    /\ UNCHANGED moving

\* The steps of run r of the pipeline that moves.  As one pipeline moves, weak fairness
\* of their disjunction is that of each pipeline's own.
SeriesStep(r) ==
    \/ /\ moving \in {"utvi", "utvi_overlap"} /\ r \in Movers /\ IngestDate(r)
       /\ UNCHANGED <<umpiVars, uepiVars, queueVars, ucpiVars, checkoutVars>>
    \/ /\ moving = "umpi" /\ UmpiStep(r)
       /\ UNCHANGED <<utviVars, uepiVars, queueVars, ucpiVars, checkoutVars>>
    \/ /\ moving \in {"uepi", "uepi_overlap"} /\ r \in Movers /\ UepiStep(r)
       /\ UNCHANGED <<utviVars, umpiVars, queueVars, ucpiVars, checkoutVars>>
    \/ /\ moving \in {"queue", "queue_all"} /\ r \in QueueRuns /\ QueueStep(r)
       /\ UNCHANGED <<utviVars, umpiVars, uepiVars, ucpiVars, checkoutVars>>
    \/ /\ moving \in {"ucpi", "ucpi_shared", "ucpi_pair", "ucpi_overlap"} /\ r \in Movers /\ UcpiStep(r)
       /\ UNCHANGED <<utviVars, umpiVars, uepiVars, queueVars, checkoutVars>>

MCStep(r) ==
    /\ \/ SeriesStep(r) /\ UNCHANGED <<reports, models>>
       \/ /\ moving \in {"frontier", "frontier_overlap"} /\ r \in Movers /\ FrontierStep(r)
          /\ UNCHANGED <<series, reports, tokenVars>>
    /\ UNCHANGED moving

MCSpec == MCInit /\ [][MCNext]_components /\ \A r \in {one, two} : WF_components(MCStep(r))

\* Every table, run and provider keeps its shape: every row names a row there is, every run
\* is at a step there is, and the bounds are kept.
TypesOK ==
    /\ UtviTypeOK /\ UmpiTypeOK /\ UepiTypeOK /\ QueueTypeOK /\ UcpiTypeOK /\ CheckoutTypeOK
    /\ NumeratorTypeOK /\ UbwiTypeOK /\ PublisherTypeOK /\ FreshnessTypeOK
    /\ FrontierTypeOK /\ TokenTypeOK
=============================================================================
