-------------------------- MODULE MCBillingEvents --------------------------
(***************************************************************************)
(* BillingEvents on a small instance.                                      *)
(***************************************************************************)
EXTENDS BillingEvents, TLC

CONSTANTS h1, h2, r1, s1, s2

\* Created unpaid, paid, lapsed, recovered, ended.
MCMoves == {<<"none", "incomplete">>, <<"incomplete", "active">>, <<"active", "past_due">>,
            <<"past_due", "active">>, <<"active", "canceled">>, <<"past_due", "canceled">>}
MCShortMoves == {<<"none", "active">>, <<"active", "past_due">>, <<"past_due", "canceled">>}
\* Paid, then cancelled.
MCPaidMoves == {<<"none", "active">>, <<"active", "canceled">>}
=============================================================================
