-------------------------- MODULE DeletionWorkflow --------------------------
(***************************************************************************)
(* What account deletion promises, for one deletion record: the stages of  *)
(* `identity.account_deletions` in their order, each tied to the effect it *)
(* records.  Nothing here says who takes a step, how often it is tried or  *)
(* what crashes in between; AccountDeletion implements it.                 *)
(***************************************************************************)

CONSTANT ErasureRequired      \* analytics is in use on this deployment

VARIABLES stage,      \* the record's state, "absent" before it is opened
          account,    \* the reader's account has not been deleted
          signIn,     \* the Supabase Auth user exists
          erased      \* the analytics provider accepted the erasure

workflow == <<stage, account, signIn, erased>>

Init == /\ stage = "absent"
        /\ account = TRUE
        /\ signIn = TRUE
        /\ erased = FALSE

Advance(from, to) == stage = from /\ stage' = to

Open == Advance("absent", "requested") /\ UNCHANGED <<account, signIn, erased>>

TerminateBilling == /\ Advance("requested", "billing_terminated")
                    /\ UNCHANGED <<account, signIn, erased>>

\* The account goes in the very step that records it gone.
RemoveAccount == /\ Advance("billing_terminated", "local_cleanup_complete")
                 /\ account' = FALSE
                 /\ UNCHANGED <<signIn, erased>>

\* Supabase is another system: its deletion and the record of it are two steps.
DeleteSignIn == /\ stage = "local_cleanup_complete"
                /\ signIn /\ signIn' = FALSE
                /\ UNCHANGED <<stage, account, erased>>

RecordSignInGone == /\ Advance("local_cleanup_complete", "auth_deleted")
                    /\ ~signIn
                    /\ UNCHANGED <<account, signIn, erased>>

Erase == /\ stage = "auth_deleted"
         /\ ErasureRequired /\ ~erased /\ erased' = TRUE
         /\ UNCHANGED <<stage, account, signIn>>

Finish == /\ Advance("auth_deleted", "complete")
          /\ ErasureRequired => erased
          /\ UNCHANGED <<account, signIn, erased>>

Next == \/ Open \/ TerminateBilling \/ RemoveAccount \/ DeleteSignIn
        \/ RecordSignInGone \/ Erase \/ Finish

Spec == Init /\ [][Next]_workflow
=============================================================================
