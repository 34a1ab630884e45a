------------------------- MODULE MCAccountDeletion -------------------------
(***************************************************************************)
(* AccountDeletion on a small instance.                                    *)
(***************************************************************************)
EXTENDS AccountDeletion, TLC

CONSTANTS p1, p2, c1, c2, s1, s2

\* Paid at creation, lapsed, ended: one status of each kind that deletion tells apart.
MCMoves == {<<"none", "active">>, <<"active", "past_due">>, <<"past_due", "canceled">>}
\* Paid, then cancelled.
MCPaidMoves == {<<"none", "active">>, <<"active", "canceled">>}

MCSymmetry == Permutations({p1, p2}) \cup Permutations({s1, s2})
=============================================================================
