------------------------------ MODULE ReplayStore ------------------------------
(***************************************************************************)
(* replayStore.ts over postgresReplayStore.ts, with the namespaces that      *)
(* nullifierStore.ts and subjectStore.ts give it: what may be used once is    *)
(* claimed in a table with a unique key that every instance shares.  With no  *)
(* table the routes refuse to verify anything.                                *)
(***************************************************************************)
VARIABLE claims      \* the slots claimed: an action and a nullifier, or an issuer and a subject

\* claim: INSERT ... ON CONFLICT DO NOTHING RETURNING, in one statement.
Wins(slot) == slot \notin claims

Claimed(slot) == claims \cup {slot}

\* What the caller hears of a statement that ran or not: its result, or an error.
Verdict(slot, told) ==
    IF ~told THEN "failed" ELSE IF Wins(slot) THEN "won" ELSE "lost"

=============================================================================
