------------------------ MODULE TokenVerification ------------------------
(***************************************************************************)
(* The production verification of token prices, for one provider: an       *)
(* operator's command reads the provider's retained pricing page, files    *)
(* the rates that changed, freezes every benchmark value they give, and    *)
(* records the attestation that the value standing was checked.  The three *)
(* writes are three transactions; the command may die between them, and    *)
(* is run again.                                                           *)
(***************************************************************************)
EXTENDS Naturals, SequencesExt

CONSTANTS
    Verifiers,       \* commands in progress at once
    Pages,           \* what a page may say: [copy, rate]; copies differ in their bytes
    NoPage,
    MaxReviews,      \* bound: reviews begun
    MaxTokenDeaths   \* bound: commands that die

Legs == {"input", "output"}

ASSUME TokenAssumption ==
    /\ MaxReviews \in Nat /\ MaxTokenDeaths \in Nat
    /\ NoPage \notin Pages
    /\ \A p \in Pages : p.rate \in [Legs -> Nat]   \* 0: the page carries no standard rate

VARIABLES
    page,           \* the retained page the command is deployed with
    designated,     \* the provider has a designated model, or is deliberately withheld
    reviews,        \* reviews begun; the date of the last (the command's default, its clock: one
                    \* that is given an earlier date by its operator is not modelled)
    retained,       \* pipeline.source_retrievals: pages, whose key is their hash
    priceRows,      \* pipeline.token_price_observations, append-only
    benchmarks,     \* pipeline.token_price_benchmarks: values by their legs, withholdings
    attested,       \* pipeline.token_price_verifications
    verifier,       \* the commands
    tokenDeaths

tokenVars == <<page, designated, reviews, retained, priceRows, benchmarks, attested, verifier, tokenDeaths>>

Unread == [pc |-> "idle", page |-> NoPage, at |-> 0, inserts |-> {}, catalog |-> {},
           again |-> FALSE, beside |-> FALSE]

NoLegs == [l \in Legs |-> 0]

TokenTypeOK ==
    /\ page \in Pages /\ designated \in BOOLEAN
    /\ reviews \in 0..MaxReviews /\ tokenDeaths \in 0..MaxTokenDeaths
    /\ retained \subseteq Pages
    /\ \A k \in DOMAIN priceRows :
         priceRows[k] \in [leg : Legs, price : Nat \ {0}, page : retained, at : 1..reviews, beside : BOOLEAN]
    /\ \A k \in DOMAIN benchmarks :
         /\ benchmarks[k] \in [kind : {"value", "withheld"}, legs : [Legs -> 0..Len(priceRows)], at : 1..reviews]
         /\ benchmarks[k].kind = "withheld" <=> benchmarks[k].legs = NoLegs
    /\ attested \subseteq [page : Pages, at : 1..reviews, benchmark : DOMAIN benchmarks,
                           again : BOOLEAN, beside : BOOLEAN]
    /\ \A r \in Verifiers :
         /\ verifier[r].pc \in {"idle", "persist", "freeze", "attest"}
         /\ verifier[r].catalog \subseteq DOMAIN priceRows
         /\ verifier[r].inserts \subseteq Legs

TokenInit ==
    /\ page \in Pages /\ designated \in BOOLEAN
    /\ reviews = 0 /\ retained = {}
    /\ priceRows = <<>> /\ benchmarks = <<>> /\ attested = {}
    /\ verifier = [r \in Verifiers |-> Unread] /\ tokenDeaths = 0

AtToken(r, pc) == verifier[r].pc = pc
Turns(r, run) == verifier' = [verifier EXCEPT ![r] = run]

\* A transaction of r's committed, beside the others.
Commits(r, run) ==
    verifier' = [q \in Verifiers |-> IF q = r THEN run
                                     ELSE IF AtToken(q, "idle") THEN verifier[q]
                                     ELSE [verifier[q] EXCEPT !.beside = TRUE]]

-----------------------------------------------------------------------------

\* The provider publishes another page, or an earlier one again, and it is deployed.
PageMoves ==
    /\ page' \in Pages \ {page}
    /\ UNCHANGED <<designated, reviews, retained, priceRows, benchmarks, attested, verifier,
                   tokenDeaths>>

OfLeg(catalog, l) == {k \in catalog : priceRows[k].leg = l}
LatestOf(ks) == CHOOSE k \in ks : \A m \in ks : priceRows[m].at <= priceRows[k].at
Observed(catalog, p) == \E k \in catalog : priceRows[k].page = p

\* detectObservationChanges: the rates that are new to their leg, or moved.
Changed(catalog, p) ==
    {l \in Legs : /\ p.rate[l] > 0
                  /\ OfLeg(catalog, l) = {} \/ priceRows[LatestOf(OfLeg(catalog, l))].price # p.rate[l]}

\* ingestTokenPricing: a page with observations of its own is not read again.
NewRates(catalog, p) == IF Observed(catalog, p) THEN {} ELSE Changed(catalog, p)

\* The catalogue is loaded, the page ingested in memory, and the legs read back: a designated
\* provider without both is refused, and nothing is written.
Verify(r) ==
    /\ AtToken(r, "idle") /\ reviews < MaxReviews
    /\ reviews' = reviews + 1
    /\ LET catalog == DOMAIN priceRows
           inserts == NewRates(catalog, page)
           readable == \A l \in Legs : l \in inserts \/ OfLeg(catalog, l) # {}
       IN IF designated /\ ~readable THEN UNCHANGED verifier
          ELSE Turns(r, [Unread EXCEPT !.pc = "persist", !.page = page, !.at = reviews + 1,
                                       !.inserts = inserts, !.catalog = catalog,
                                       !.again = Observed(catalog, page) /\ Changed(catalog, page) # {}])
    /\ UNCHANGED <<page, designated, retained, priceRows, benchmarks, attested, tokenDeaths>>

\* The first transaction.  The retrieval's insert yields to the page's own key, and then its
\* observations name a row that is not there: the foreign key refuses them.
PersistCatalog(r) ==
    /\ AtToken(r, "persist")
    /\ LET run == verifier[r]
           rows == [k \in 1..Cardinality(run.inserts) |->
                      LET l == SetToSeq(run.inserts)[k]
                      IN [leg |-> l, price |-> run.page.rate[l], page |-> run.page,
                          at |-> run.at, beside |-> run.beside]]
           added == (Len(priceRows) + 1)..(Len(priceRows) + Len(rows))
       IN IF run.inserts # {} /\ run.page \in retained
          THEN Turns(r, Unread) /\ UNCHANGED <<retained, priceRows>>
          ELSE /\ retained' = retained \cup {run.page}
               /\ priceRows' = priceRows \o rows
               /\ Commits(r, [run EXCEPT !.pc = "freeze", !.catalog = @ \cup added])
    /\ UNCHANGED <<page, designated, reviews, benchmarks, attested, tokenDeaths>>

\* benchmarkPoints: each moment at which both legs were known and their price had moved.
KnownAt(catalog, l, t) == {k \in OfLeg(catalog, l) : priceRows[k].at <= t}
LegsAt(catalog, t) == [l \in Legs |-> LatestOf(KnownAt(catalog, l, t))]
Blend(legs) == priceRows[legs["input"]].price + priceRows[legs["output"]].price
Events(catalog) ==
    {t \in {priceRows[k].at : k \in catalog} : \A l \in Legs : KnownAt(catalog, l, t) # {}}
MovedAt(catalog, t) ==
    LET earlier == {e \in Events(catalog) : e < t}
    IN earlier = {} \/ Blend(LegsAt(catalog, Max(earlier))) # Blend(LegsAt(catalog, t))
Points(catalog) == {t \in Events(catalog) : MovedAt(catalog, t)}

\* What of the catalogue is not frozen yet: values by their legs, or the decision to withhold.
Due(catalog) ==
    IF designated
    THEN {[kind |-> "value", legs |-> LegsAt(catalog, t), at |-> t] :
            t \in {e \in Points(catalog) :
                     \A k \in DOMAIN benchmarks : benchmarks[k].legs # LegsAt(catalog, e)}}
    ELSE IF catalog = {} \/ benchmarks # <<>> THEN {}
    ELSE {[kind |-> "withheld", legs |-> NoLegs, at |-> Max({priceRows[k].at : k \in catalog})]}

\* The second transaction.
\* MUTANT of FreezeBenchmarks: only a command that filed observations freezes anything.
FreezeBenchmarksOfRun(r) ==
    /\ AtToken(r, "freeze")
    /\ benchmarks' = benchmarks \o (IF verifier[r].inserts = {} THEN <<>>
                                    ELSE SetToSeq(Due(verifier[r].catalog)))
    /\ Commits(r, [verifier[r] EXCEPT !.pc = "attest"])
    /\ UNCHANGED <<page, designated, reviews, retained, priceRows, attested, tokenDeaths>>

FreezeBenchmarks(r) ==
    /\ AtToken(r, "freeze")
    /\ benchmarks' = benchmarks \o SetToSeq(Due(verifier[r].catalog))
    /\ Commits(r, [verifier[r] EXCEPT !.pc = "attest"])
    /\ UNCHANGED <<page, designated, reviews, retained, priceRows, attested, tokenDeaths>>

Standing == {k \in DOMAIN benchmarks : \A m \in DOMAIN benchmarks : benchmarks[m].at <= benchmarks[k].at}

\* The third transaction: about the newest value or withholding; none, and it is skipped.
RecordAttestation(r) ==
    /\ AtToken(r, "attest")
    /\ LET run == verifier[r]
       IN attested' \in IF Standing = {} THEN {attested}
                        ELSE {attested \cup {[page |-> run.page, at |-> run.at, benchmark |-> k,
                                              again |-> run.again,
                                              beside |-> run.beside \/ \E m \in run.catalog : priceRows[m].beside]} :
                                 k \in Standing}
    /\ Turns(r, Unread)
    /\ UNCHANGED <<page, designated, reviews, retained, priceRows, benchmarks, tokenDeaths>>

VerifierDies(r) ==
    /\ ~AtToken(r, "idle") /\ tokenDeaths < MaxTokenDeaths
    /\ tokenDeaths' = tokenDeaths + 1
    /\ Turns(r, Unread)
    /\ UNCHANGED <<page, designated, reviews, retained, priceRows, benchmarks, attested>>

TokenNext ==
    \/ PageMoves
    \/ \E r \in Verifiers :
         Verify(r) \/ PersistCatalog(r) \/ FreezeBenchmarks(r) \/ RecordAttestation(r) \/ VerifierDies(r)

TokenSpec == TokenInit /\ [][TokenNext]_tokenVars

-----------------------------------------------------------------------------

PageBlend(p) == p.rate["input"] + p.rate["output"]
ListsBoth(p) == \A l \in Legs : p.rate[l] > 0

\* verifyProviderProduction reads the legs back from the store "so what is verified is what
\* will publish".  However commands die between their transactions and are run again, and
\* whatever the pages change, an attestation of a page that carries both rates names a value
\* that is the page's own, unless the page had been read before a rate moved and is not
\* read again, or another command wrote beside this one or beside one that filed an
\* observation of its catalogue.  (A command that files its observations late freezes a
\* second value of a moment another command has frozen: what stands is then a draw.)
AttestedAsRead ==
    \A a \in attested :
      LET value == benchmarks[a.benchmark]
      IN value.kind = "value" /\ ListsBoth(a.page) /\ ~a.again /\ ~a.beside
           => Blend(value.legs) = PageBlend(a.page)
=============================================================================
