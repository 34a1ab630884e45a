--------------------------- MODULE Subscriptions ---------------------------
(***************************************************************************)
(* Stripe subscription statuses and the three decisions Urdais takes on a  *)
(* status: does it entitle, may it still bill, is it final.  The set of    *)
(* moves Stripe may make on its own is a constant, assumed only to respect *)
(* the final statuses.                                                     *)
(***************************************************************************)

CONSTANT StripeMoves   \* pairs <<from, to>>: what Stripe may do to a subscription unasked

Status == {"incomplete", "incomplete_expired", "trialing", "active",
           "past_due", "canceled", "unpaid", "paused"}

\* What Stripe holds for a subscription id: "none" until it is created.
StripeStatus == Status \cup {"none"}

ENTITLING == {"active", "trialing"}
StatusEntitles(st) == st \in ENTITLING

TERMINAL == {"canceled", "incomplete_expired"}
IsPotentiallyBillable(st) == st \in Status \ TERMINAL

ASSUME StripeMovesAssumption ==
    /\ StripeMoves \subseteq StripeStatus \X Status
    /\ \A m \in StripeMoves : m[1] \notin TERMINAL
=============================================================================
