-------------------------- MODULE PublishedSeries --------------------------
(***************************************************************************)
(* What one date of a published series promises a reader, whichever        *)
(* pipeline keeps it: a value appears once and never disappears, and a new *)
(* revision is either a new value or the same value moved onto evidence    *)
(* the database still serves.  A revision that says nothing is never made. *)
(***************************************************************************)
EXTENDS Naturals

CONSTANTS Values, NoValue

VARIABLES value, revision, anchored

series == <<value, revision, anchored>>

Init == value = NoValue /\ revision = 0 /\ anchored

First == /\ revision = 0
         /\ value' \in Values
         /\ revision' = 1

\* A revision of the source: the new point has another value.
Revise == /\ revision > 0
          /\ value' \in Values \ {value}
          /\ revision' = revision + 1

\* The same number again, because its evidence had been superseded under it.
Repoint == /\ revision > 0
           /\ ~anchored
           /\ value' = value
           /\ revision' = revision + 1

\* The evidence is superseded, or served again; the reader's number stands.
EvidenceMoves == revision > 0 /\ anchored' # anchored /\ UNCHANGED <<value, revision>>

Next == First \/ Revise \/ Repoint \/ EvidenceMoves

Spec == Init /\ [][Next]_series
=============================================================================
