-------------------------- MODULE MCStripeWebhooks --------------------------
(* Model of StripeWebhooks for TLC. *)
EXTENDS StripeWebhooks

\* Claims with a failure and a crash or a lost session, usage around its quota, and
\* usage over the turn of a month.
MCBudgets == {[months |-> 0, admissions |-> 0, failures |-> 1, crashes |-> 1],
              [months |-> 0, admissions |-> 2, failures |-> 0, crashes |-> 0],
              [months |-> 1, admissions |-> 1, failures |-> 0, crashes |-> 0]}

OneFailure == {[months |-> 0, admissions |-> 2, failures |-> 1, crashes |-> 0]}
=============================================================================
