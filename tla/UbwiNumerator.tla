--------------------------- MODULE UbwiNumerator ---------------------------
(***************************************************************************)
(* One retrieval of the blended wealth index's numerator: the height of    *)
(* the Bitcoin chain from two sources that must agree, then the latest     *)
(* round of the price feed from an Ethereum endpoint, read at one pinned   *)
(* block and confirmed by a second endpoint, which may lag.  Both chains   *)
(* move meanwhile, and one of the four answers what it likes.              *)
(*                                                                         *)
(* An instant is one Ethereum block; a round opens with a block.  What is  *)
(* checked of the feed's identity (chain, proxy, pair, decimals, phase) is *)
(* the liar's to satisfy, and so left out.  The chains do not fork.        *)
(***************************************************************************)
EXTENDS Naturals, Sequences

CONSTANTS
    LegWindow,        \* OBSERVATION_WINDOW_SECONDS, in instants
    Heartbeat,     \* the feed's heartbeat, in instants
    MaxInstant,    \* bound: the last instant
    MaxLag,        \* bound: blocks an honest endpoint may be behind
    NoObservation

ASSUME NumeratorAssumption ==
    /\ LegWindow \in Nat /\ Heartbeat \in Nat
    /\ MaxInstant \in Nat \ {0} /\ MaxLag \in Nat

VARIABLES
    instant,
    heights,       \* the Bitcoin chain: the instant of each block
    rounds,        \* the feed: the instant each round opened
    liar,          \* the source that answers what it likes, if any
    retrieval,     \* what the retrieval has read
    observation    \* what it answered

numeratorVars == <<instant, heights, rounds, liar, retrieval, observation>>

HeightSources == <<"first", "second">>
Moments == 1..MaxInstant
Claims == [id : 1..(MaxInstant + 1), at : Moments]

Nothing == [pc |-> "height", read |-> <<>>, since |-> 0, block |-> 0, round |-> [id |-> 0, at |-> 0]]

NumeratorTypeOK ==
    /\ instant \in Moments
    /\ heights \in Seq(Moments) /\ rounds \in Seq(Moments)
    /\ liar \in {"none", "first", "second", "primary", "secondary"}
    /\ retrieval.pc \in {"height", "block", "round", "confirm", "own_head", "stamp", "refused", "answered"}
    /\ retrieval.read \in Seq(1..MaxInstant + 1) /\ Len(retrieval.read) <= 2
    /\ retrieval.since \in 0..instant /\ retrieval.block \in 0..MaxInstant
    /\ observation = NoObservation \/ observation \in [height : Nat, round : Claims, read : Moments]

NumeratorInit ==
    /\ instant = 1 /\ heights = <<1>> /\ rounds = <<1>>
    /\ liar \in {"none", "first", "second", "primary", "secondary"}
    /\ retrieval = Nothing /\ observation = NoObservation

Knows(known) == retrieval' = known
Refuse == Knows([Nothing EXCEPT !.pc = "refused"]) /\ UNCHANGED observation

\* The round the feed held at block n.
RoundAt(n) ==
    LET id == CHOOSE k \in DOMAIN rounds : rounds[k] <= n /\ \A j \in DOMAIN rounds : rounds[j] <= n => j <= k
    IN [id |-> id, at |-> rounds[id]]

-----------------------------------------------------------------------------

\* The world: a block of Ethereum, perhaps with a round, perhaps one of Bitcoin.
InstantPasses ==
    /\ instant < MaxInstant
    /\ instant' = instant + 1
    /\ heights' \in {heights, Append(heights, instant')}
    /\ rounds' \in {rounds, Append(rounds, instant')}
    /\ UNCHANGED <<liar, retrieval, observation>>

\* readBlockHeight, one source; the first reading dates the height.
ReadHeight ==
    LET source == HeightSources[Len(retrieval.read) + 1]
    IN /\ retrieval.pc = "height" /\ Len(retrieval.read) < 2
       /\ \E height \in IF liar = source THEN 1..(MaxInstant + 1) ELSE {Len(heights)} :
            Knows([retrieval EXCEPT !.read = Append(@, height),
                                    !.since = IF @ = 0 THEN instant ELSE @])
       /\ UNCHANGED <<instant, heights, rounds, liar, observation>>

\* "No height is assumed" where the sources disagree.
AgreeOnHeight ==
    /\ retrieval.pc = "height" /\ Len(retrieval.read) = 2
    /\ IF retrieval.read[1] = retrieval.read[2]
       THEN Knows([retrieval EXCEPT !.pc = "block"]) /\ UNCHANGED observation
       ELSE Refuse
    /\ UNCHANGED <<instant, heights, rounds, liar>>

\* A block an endpoint may take for the head.
Heads(endpoint) == IF liar = endpoint THEN Moments
                   ELSE {n \in 1..instant : n + MaxLag >= instant}

PinBlock ==
    /\ retrieval.pc = "block"
    /\ \E n \in Heads("primary") : Knows([retrieval EXCEPT !.pc = "round", !.block = n])
    /\ UNCHANGED <<instant, heights, rounds, liar, observation>>

\* latestRoundData() at the pinned block, whatever the head has become.
ReadRound ==
    /\ retrieval.pc = "round"
    /\ \E round \in IF liar = "primary" THEN Claims ELSE {RoundAt(retrieval.block)} :
         Knows([retrieval EXCEPT !.pc = "confirm", !.round = round])
    /\ UNCHANGED <<instant, heights, rounds, liar, observation>>

Compared(confirmation) ==
    IF confirmation = retrieval.round
    THEN Knows([retrieval EXCEPT !.pc = "stamp"]) /\ UNCHANGED observation
    ELSE Refuse

\* MUTANT of CrossCheckRound: an endpoint that cannot serve the block is not asked again.
CrossCheckUnlessLagging ==
    /\ retrieval.pc = "confirm"
    /\ IF liar = "secondary" THEN \E claim \in Claims : Compared(claim)
       ELSE \E head \in Heads("secondary") :
              IF head >= retrieval.block THEN Compared(RoundAt(retrieval.block))
              ELSE Compared(retrieval.round)
    /\ UNCHANGED <<instant, heights, rounds, liar>>

\* The second endpoint about the same block, if it has it.
CrossCheckRound ==
    /\ retrieval.pc = "confirm"
    /\ IF liar = "secondary" THEN \E claim \in Claims : Compared(claim)
       ELSE \E head \in Heads("secondary") :
              IF head >= retrieval.block THEN Compared(RoundAt(retrieval.block))
              ELSE Knows([retrieval EXCEPT !.pc = "own_head"]) /\ UNCHANGED observation
    /\ UNCHANGED <<instant, heights, rounds, liar>>

\* A node behind it is asked again, at its own head.
CrossCheckOwnHead ==
    /\ retrieval.pc = "own_head"
    /\ \E head \in Heads("secondary") : Compared(RoundAt(head))
    /\ UNCHANGED <<instant, heights, rounds, liar>>

\* A round from the future and one past the heartbeat are refused.
IsFresh(round) == round.at <= instant /\ instant - round.at <= Heartbeat

\* The read is dated, and its two legs must not have been read too far apart.
Stamp ==
    /\ retrieval.pc = "stamp"
    /\ IF IsFresh(retrieval.round) /\ instant - retrieval.since <= LegWindow
       THEN /\ observation' = [height |-> retrieval.read[1], round |-> retrieval.round, read |-> instant]
            /\ Knows([Nothing EXCEPT !.pc = "answered"])
       ELSE Refuse
    /\ UNCHANGED <<instant, heights, rounds, liar>>

\* A source that does not answer, in time or at all, or answers what cannot be decoded.
ReadFails ==
    /\ retrieval.pc \notin {"refused", "answered"}
    /\ Refuse
    /\ UNCHANGED <<instant, heights, rounds, liar>>

\* Another run asks the provider.
AskAgain ==
    /\ retrieval.pc \in {"refused", "answered"}
    /\ Knows(Nothing) /\ observation' = NoObservation
    /\ UNCHANGED <<instant, heights, rounds, liar>>

NumeratorNext ==
    \/ InstantPasses \/ AskAgain
    \/ ReadHeight \/ AgreeOnHeight
    \/ PinBlock \/ ReadRound
    \/ CrossCheckRound \/ CrossCheckOwnHead
    \/ Stamp \/ ReadFails

NumeratorSpec == NumeratorInit /\ [][NumeratorNext]_numeratorVars

-----------------------------------------------------------------------------
(* What the retrieval promises. *)

\* The height was the tip, for one source at least, no more than the window before the price
\* was read; the price is of a round the feed really had, opened no more than a heartbeat
\* before: "one instant, not two", though one source of the four answers what it likes and
\* both chains move between the reads.
ObservationIsReal ==
    observation # NoObservation =>
      /\ observation.height \in DOMAIN heights
      /\ heights[observation.height] <= observation.read
      /\ observation.height = Len(heights) \/ heights[observation.height + 1] + LegWindow >= observation.read
      /\ observation.round.id \in DOMAIN rounds
      /\ observation.round.at = rounds[observation.round.id]
      /\ observation.round.at <= observation.read
      /\ observation.read - observation.round.at <= Heartbeat
=============================================================================
