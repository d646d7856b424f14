------------------------------ MODULE IdealRail ------------------------------
(***************************************************************************)
(* What the payment rail promises: a payment is one atomic step that takes  *)
(* exactly the price from the buyer and hands all of it out, at most        *)
(* MAX_FEE_BPS of it as fees and the rest to the merchant.  Nothing else    *)
(* moves money and nothing stays behind.                                    *)
(***************************************************************************)
EXTENDS Integers

CONSTANTS Asset, Holder, Price, MAX_FEE_BPS, FEE_DENOMINATOR, Endowment

VARIABLE wealth      \* what each holder has or can claim without anyone's leave

Init == wealth = [asset \in Asset |-> [h \in Holder |-> Endowment[asset][h]]]

\* What holder h gets of a payment with these legs.
Got(h, payee, net, treasury, platformFee, dest, merchantFee) ==
      (IF h = payee THEN net ELSE 0)
    + (IF h = treasury THEN platformFee ELSE 0)
    + (IF h = dest THEN merchantFee ELSE 0)

Pay(asset, buyer, price, platformFee, merchantFee, payee, treasury, dest) ==
    /\ (platformFee + merchantFee) * FEE_DENOMINATOR <= price * MAX_FEE_BPS
    /\ wealth[asset][buyer] >= price
    /\ wealth' = [wealth EXCEPT ![asset] = [h \in Holder |->
           @[h] - (IF h = buyer THEN price ELSE 0)
                + Got(h, payee, price - platformFee - merchantFee,
                      treasury, platformFee, dest, merchantFee)]]

Next ==
    /\ wealth' # wealth
    /\ \E asset \in {a \in Asset : wealth'[a] # wealth[a]}, price \in Price,
          buyer, payee, treasury, dest \in Holder :
         \E platformFee, merchantFee \in 0..((price * MAX_FEE_BPS) \div FEE_DENOMINATOR) :
             Pay(asset, buyer, price, platformFee, merchantFee, payee, treasury, dest)

Spec == Init /\ [][Next]_wealth

=============================================================================
