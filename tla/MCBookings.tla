------------------------------ MODULE MCBookings ------------------------------
(* Two bookings of one place by one payer, on the terms of two policies; or the     *)
(* session grants by themselves, which a late cancellation rests on: an account    *)
(* that acts and one that only signs, a session of each, or two of one of them.    *)
(* A behaviour is of one, and a delegate has a client nonce's name, so that one    *)
(* symmetry permutes both.                                                         *)
EXTENDS Bookings, TLC

CONSTANTS alice, relay, host, rail, pay

MCEndowment ==
    [token \in Token |-> [h \in Holder |-> IF h \in Payer THEN 8 ELSE 0]]

\* No late cancellation and a forfeit above the deposit; a late fee and no forfeit.
MCPolicy ==
    {[cancelWindowSecs |-> 1, lateFeeUsd8 |-> 0, noShowFeeUsd8 |-> 9],
     [cancelWindowSecs |-> 2, lateFeeUsd8 |-> 2, noShowFeeUsd8 |-> 0]}

VARIABLES which, opened, nextNonces, authorised, opening, clock

granted == <<opened, nextNonces, authorised, opening, clock>>

\* Those of some accounts, of which some only sign, opening so many sessions each.
G(owners, signers, uses) == INSTANCE SessionGrant WITH
    Owner <- owners, Counterfactual <- signers, MaxNonce <- uses, Delegate <- ClientNonce,
    Cap <- {3}, Expiry <- {1}, Spending <- {2}, MaxGrants <- 2, MaxDepth <- 2, MaxTime <- 2,
    sessions <- opened, nonces <- nextNonces, grants <- authorised, frames <- opening,
    now <- clock

ASSUME G({"alice", "wallet"}, {"wallet"}, 1)!SessionAssumption

\* The one a behaviour does not take stays as it begins.
MCInit ==
    \/ which \in {"bookings", "two"} /\ Init /\ G({"alice", "wallet"}, {"wallet"}, 1)!Init
    \/ which = "alice" /\ Init /\ G({"alice"}, {}, 2)!Init
    \/ which = "wallet" /\ Init /\ G({"wallet"}, {"wallet"}, 2)!Init

MCNext ==
    /\ UNCHANGED which
    /\ \/ which = "bookings" /\ Next /\ UNCHANGED granted
       \/ which = "two" /\ G({"alice", "wallet"}, {"wallet"}, 1)!Next /\ UNCHANGED vars
       \/ which = "alice" /\ G({"alice"}, {}, 2)!Next /\ UNCHANGED vars
       \/ which = "wallet" /\ G({"wallet"}, {"wallet"}, 2)!Next /\ UNCHANGED vars

MCSpec == MCInit /\ [][MCNext]_<<which, vars, granted>>

OneSessionPerGrant ==
    /\ which = "two" => G({"alice", "wallet"}, {"wallet"}, 1)!OneSessionPerGrant
    /\ which = "alice" => G({"alice"}, {}, 2)!OneSessionPerGrant
    /\ which = "wallet" => G({"wallet"}, {"wallet"}, 2)!OneSessionPerGrant

RemainingIsSpendable ==
    /\ which = "two" => G({"alice", "wallet"}, {"wallet"}, 1)!RemainingIsSpendable
    /\ which = "alice" => G({"alice"}, {}, 2)!RemainingIsSpendable
    /\ which = "wallet" => G({"wallet"}, {"wallet"}, 2)!RemainingIsSpendable

Nonces == Permutations(ClientNonce)

=============================================================================
