------------------------------- MODULE MCEscrow -------------------------------
(* Two escrows of one buyer; the seller's account rejects pushes. *)
EXTENDS Escrow

CONSTANTS buyer, seller, arbiter, vault, coin

MCEndowment ==
    [asset \in Asset |-> [h \in Holder |-> IF h = buyer THEN 10 ELSE 0]]

=============================================================================
