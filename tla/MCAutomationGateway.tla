------------------------ MODULE MCAutomationGateway ------------------------
(* Up to four ids, of which a round sees two. *)
EXTENDS AutomationGateway

\* A caller that moves the cursor on without renewing, or renews what it likes.
Strangers == {[ids |-> << >>, scanned |-> 9], [ids |-> <<2, 2, 1>>, scanned |-> 0]}
Nobody == {}

=============================================================================
