--------------------------- MODULE MCSubscriptions ---------------------------
(* One subscriber, who acts or only signs, and plans that are alike. *)
EXTENDS Subscriptions, TLC

Plans == Permutations(Plan)

=============================================================================
