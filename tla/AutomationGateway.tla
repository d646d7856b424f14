-------------------------- MODULE AutomationGateway --------------------------
(***************************************************************************)
(* AutomationGateway: a registry of subscription ids anyone may edit, and   *)
(* the two entry points of a keeper.  checkUpkeep is simulated off-chain: a *)
(* keeper reads a window of the registry at the cursor, and performs later, *)
(* on whatever the registry, the cursor and the subscriptions have become.  *)
(*                                                                          *)
(* Of Subscriptions the gateway sees isDue and calls renew: an id falls due *)
(* and is settled at any time, and a renew of one leaves it due (dunned,    *)
(* still behind, or a failure that renew bubbles up) or does not.           *)
(***************************************************************************)
EXTENDS Integers, Sequences, FiniteSets

CONSTANTS
    Id,
    Keeper,
    MAX_SCAN, MAX_BATCH,
    Forged,          \* perform data that is not a keeper's: <<ids, scanned>>
    MaxChanges       \* bound: changes of the registry and calls by others

ASSUME GatewayAssumption ==
    /\ IsFiniteSet(Id)
    /\ MAX_SCAN \in Nat \ {0}
    /\ MAX_BATCH \in Nat \ {0}
    /\ \A data \in Forged : data.scanned \in Nat
    /\ MaxChanges \in Nat

VARIABLES
    watched,       \* _watched, in the order EnumerableSet keeps
    scanCursor,
    due,           \* the ids isDue holds of
    simulated,     \* keeper -> the performData it holds, or none
    reached,       \* history: ids renew was called on since they fell due
    overlooked,    \* history: id -> rounds that left it out since it fell due,
                   \* counted up to the number of ids
    changes        \* registry changes so far

gatewayVars == <<watched, scanCursor, due, simulated, reached, overlooked, changes>>

NoData == [ids |-> << >>, scanned |-> -1]

InitGateway ==
    /\ watched = << >>
    /\ scanCursor = 0
    /\ due = {}
    /\ simulated = [k \in Keeper |-> NoData]
    /\ reached = {}
    /\ overlooked = [id \in Id |-> 0]
    /\ changes = 0

Watched == {watched[i] : i \in DOMAIN watched}
AtMost(n, limit) == IF n < limit THEN n ELSE limit

-----------------------------------------------------------------------------
(* The registry. *)

\* EnumerableSet.remove: the last member takes the place of the one removed.
Without(list, id) ==
    [i \in 1..(Len(list) - 1) |-> IF list[i] = id THEN list[Len(list)] ELSE list[i]]

Changes(list) ==
    /\ changes < MaxChanges
    /\ changes' = changes + 1
    /\ watched' = list
    /\ overlooked' = [id \in Id |-> 0]
    /\ UNCHANGED <<scanCursor, due, simulated, reached>>

Register(id) == id \notin Watched /\ Changes(Append(watched, id))

Deregister(id) == id \in Watched /\ Changes(Without(watched, id))

-----------------------------------------------------------------------------
(* The keepers. *)

Scan == AtMost(Len(watched), MAX_SCAN)

\* The ids at the cursor, wrapping around; the sequence is indexed from 1.
Window ==
    LET start == scanCursor % Len(watched)
    IN  [i \in 1..Scan |-> watched[1 + ((start + i - 1) % Len(watched))]]

IsDue(id) == id \in due

\* The places of the window whose ids are due.
DuePlaces == {i \in 1..Scan : IsDue(Window[i])}

\* The first of them, as many as a batch holds, in the order of the window.
DueIds ==
    LET place(n) == CHOOSE i \in DuePlaces : Cardinality({j \in DuePlaces : j < i}) = n - 1
    IN  [n \in 1..AtMost(Cardinality(DuePlaces), MAX_BATCH) |-> Window[place(n)]]

Members(list) == {list[i] : i \in DOMAIN list}

\* checkUpkeep, run off-chain on the state of the moment.
CheckUpkeep(k) ==
    /\ simulated[k] = NoData
    /\ DueIds # << >> \/ Len(watched) > Scan
    /\ simulated' = [simulated EXCEPT ![k] = [ids |-> DueIds, scanned |-> Scan]]
    /\ overlooked' = [id \in Id |->
           IF id \in (Watched \cap due) \ (reached \cup Members(DueIds))
           THEN AtMost(overlooked[id] + 1, Cardinality(Id)) ELSE overlooked[id]]
    /\ UNCHANGED <<watched, scanCursor, due, reached, changes>>

\* Mutant: the cursor moves past the ids renewed, not past those looked at.
PastBatch(data) == (scanCursor + AtMost(Len(data.ids), MAX_SCAN)) % Len(watched)

\* Mutant: each round starts from the front, as it did before there was a cursor.
FromFront(data) == 0

PastScanned(data) == (scanCursor + AtMost(data.scanned, MAX_SCAN)) % Len(watched)

\* performUpkeep: first the cursor moves on, then each id of the batch that is
\* due by now is renewed, a failure of one not touching the others.
PerformUpkeep(data) ==
    LET batch == SubSeq(data.ids, 1, AtMost(Len(data.ids), MAX_BATCH))
        renewed == Members(batch) \cap due
    IN  /\ scanCursor' = IF watched = << >> THEN scanCursor ELSE PastScanned(data)
        /\ \E settled \in SUBSET renewed : due' = due \ settled
        /\ reached' = reached \cup renewed
        /\ UNCHANGED watched

KeeperPerforms(k) ==
    /\ simulated[k] # NoData
    /\ PerformUpkeep(simulated[k])
    /\ simulated' = [simulated EXCEPT ![k] = NoData]
    /\ UNCHANGED <<overlooked, changes>>

\* Anyone may call it, with any data.
AnyonePerforms(data) ==
    /\ changes < MaxChanges
    /\ changes' = changes + 1
    /\ PerformUpkeep(data)
    /\ overlooked' = [id \in Id |-> 0]
    /\ UNCHANGED simulated

-----------------------------------------------------------------------------
(* The subscriptions. *)

FallsDue(id) ==
    /\ id \notin due
    /\ due' = due \cup {id}
    /\ reached' = reached \ {id}
    /\ overlooked' = [overlooked EXCEPT ![id] = 0]
    /\ UNCHANGED <<watched, scanCursor, simulated, changes>>

\* Cancelled, or renewed by someone else.
NoLongerDue(id) ==
    /\ id \in due
    /\ due' = due \ {id}
    /\ UNCHANGED <<watched, scanCursor, simulated, reached, overlooked, changes>>

NextGateway ==
    \/ \E id \in Id :
          \/ Register(id)
          \/ Deregister(id)
          \/ FallsDue(id)
          \/ NoLongerDue(id)
    \/ \E k \in Keeper : CheckUpkeep(k) \/ KeeperPerforms(k)
    \/ \E data \in Forged : AnyonePerforms(data)

GatewaySpec == InitGateway /\ [][NextGateway]_gatewayVars

\* A keeper network simulates whenever it may and performs what it simulated.
Fairness ==
    \A k \in Keeper : WF_gatewayVars(CheckUpkeep(k)) /\ WF_gatewayVars(KeeperPerforms(k))

FairSpec == GatewaySpec /\ Fairness

-----------------------------------------------------------------------------
GatewayTypeOK ==
    /\ watched \in Seq(Id) /\ Cardinality(Watched) = Len(watched)
    /\ scanCursor \in Nat
    /\ due \subseteq Id
    /\ \A k \in Keeper :
          /\ simulated[k].ids \in Seq(Id)
          /\ simulated[k].scanned \in -1..MAX_SCAN
    /\ reached \subseteq Id
    /\ overlooked \in [Id -> Nat]
    /\ changes \in 0..MaxChanges

Ceiling(a, b) == (a + b - 1) \div b

\* The sweep is as short as the comment on scanCursor has it: in a gateway left
\* alone a due id is in the batch of one of any ceil(length / MAX_SCAN) rounds,
\* however many ids before it are never due or always due.
ReachedInTime ==
    \A id \in Watched : overlooked[id] < Ceiling(Len(watched), MAX_SCAN)

\* No id is starved: renew is called on every watched id that is due and stays so.
EventuallyReached ==
    \A id \in Id :
        (id \in Watched /\ id \in due)
            ~> (id \in reached \/ id \notin Watched \/ id \notin due)

=============================================================================
