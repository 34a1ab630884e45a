------------------------- MODULE MCAccountLifecycle -------------------------
(***************************************************************************)
(* AccountLifecycle on two small instances, one of which each behaviour    *)
(* keeps to: both at once are more than can be explored.                   *)
(***************************************************************************)
EXTENDS AccountLifecycle, TLC

CONSTANTS p1, p2, h1, h2, r1, s1

VARIABLE scale

\* Paid, then cancelled.
MCMoves == {<<"none", "active">>, <<"active", "canceled">>}
MCSymmetry == Permutations({p1, p2})

MCInit == Init /\ scale \in {"reconciled", "recreated"}

\* A handler beside a reconciliation, and one request at a time; or beside two requests,
\* of which one may provision an account after the other's deletion removed the first.
MCNext ==
    /\ Next /\ UNCHANGED scale
    /\ scale = "reconciled" => \E p \in Requests : \A q \in Requests \ {p} : req'[q].pc = "idle"
    /\ scale = "recreated" => \A w \in Reconcilers : worker'[w].pc = "idle"

MCSpec == MCInit /\ [][MCNext]_<<vars, scale>>
=============================================================================
