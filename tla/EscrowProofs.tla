---------------------------- MODULE EscrowProofs ----------------------------
(***************************************************************************)
(* For every set of accounts, every amount and every number of escrows, the *)
(* contract is well typed and implements IdealEscrow.  The argument is the  *)
(* payout lemma: whether a push lands or fails, the payee is richer by the  *)
(* payout and nobody else's wealth changes.                                 *)
(***************************************************************************)
EXTENDS Escrow, BankProofs

\* An id that has not been handed out holds nothing.
Fresh == \A id \in EscrowId : id >= nextEscrowId => escrows[id] = None

IInv == TypeOK /\ Fresh

Table == [Asset -> [Address -> Nat]]

\* The ideal's update of a table, entry by entry.
LEMMA GainsPointwise ==
    ASSUME NEW w \in Table, NEW asset \in Asset, NEW h \in Address, NEW n \in Int
    PROVE  Ideal!Gains(w, asset, h, n) =
               [x \in Asset |-> [y \in Address |->
                    IF x = asset /\ y = h THEN w[x][y] + n ELSE w[x][y]]]
BY DEF Ideal!Gains, Table

\* A purse is worth a natural number to every account.
LEMMA WealthTyped ==
    ASSUME NEW p \in Purse
    PROVE  WealthOf(p) \in Table
<1>1. ASSUME NEW x \in Asset, NEW y \in Address
      PROVE  p.bank[x][y] + p.queue[y][x] \in Nat
  <2>1. p.bank[x] \in [Holder -> Nat] /\ p.queue[y] \in [Asset -> Nat] /\ y \in Holder
    BY DEF Purse, Balances, Holder
  <2>2. QED
    BY <2>1
<1>2. QED
  BY <1>1 DEF WealthOf, Table

\* A payout, pushed or queued, enriches its payee and nobody else.
LEMMA PayoutEnriches ==
    ASSUME NEW p \in Purse, NEW to \in Address, NEW asset \in Asset, NEW n \in Nat,
           NEW q \in PayoutOrQueue(p, to, asset, n)
    PROVE  /\ q \in Purse
           /\ WealthOf(q) = Ideal!Gains(WealthOf(p), asset, to, n)
<1> DEFINE more == [p.queue[to] EXCEPT ![asset] = p.queue[to][asset] + n]
           queued == [p.queue EXCEPT ![to] = more]
           moved == Moved(p.bank, asset, Self, to, n)
<1>1. /\ p.bank \in Balances(Asset, Holder) /\ p.queue \in [Address -> [Asset -> Nat]]
      /\ p = [bank |-> p.bank, queue |-> p.queue]
  BY DEF Purse
<1>2. to \in Holder /\ Self \in Holder /\ Self # to
  BY EscrowAssumption DEF Holder
<1>3. /\ WealthOf(p) \in Table
      /\ \A x \in Asset, y \in Address : WealthOf(p)[x][y] = p.bank[x][y] + p.queue[y][x]
  BY WealthTyped DEF WealthOf
<1>4. \A x \in Asset, y \in Address :
          p.bank[x][y] \in Nat /\ p.queue[y][x] \in Nat
  BY <1>1 DEF Balances, Holder
<1>5. Ideal!Gains(WealthOf(p), asset, to, n) =
          [x \in Asset |-> [y \in Address |->
              IF x = asset /\ y = to THEN WealthOf(p)[x][y] + n ELSE WealthOf(p)[x][y]]]
  BY <1>3, GainsPointwise
<1>6. CASE n = 0
  <2>1. q = p
    BY <1>6 DEF PayoutOrQueue
  <2>2. ASSUME NEW x \in Asset, NEW y \in Address
        PROVE  (IF x = asset /\ y = to THEN WealthOf(p)[x][y] + n ELSE WealthOf(p)[x][y])
                   = p.bank[x][y] + p.queue[y][x]
    BY <1>3, <1>4, <1>6
  <2>3. QED
    BY <1>5, <2>1, <2>2 DEF WealthOf
<1>7. CASE n # 0 /\ q = [bank |-> p.bank, queue |-> queued]
  <2>1. more \in [Asset -> Nat]
    <3>1. p.queue[to] \in [Asset -> Nat] /\ p.queue[to][asset] + n \in Nat
      BY <1>1, <1>4
    <3>2. QED
      BY <3>1
  <2>2. queued \in [Address -> [Asset -> Nat]]
    BY <1>1, <2>1
  <2>3. ASSUME NEW x \in Asset, NEW y \in Address
        PROVE  queued[y][x] = IF x = asset /\ y = to
                              THEN p.queue[y][x] + n ELSE p.queue[y][x]
    BY <1>1
  <2> HIDE DEF more, queued
  <2>4. q \in Purse /\ q.bank = p.bank /\ q.queue = queued
    BY <1>1, <1>7, <2>2 DEF Purse
  <2>5. ASSUME NEW x \in Asset, NEW y \in Address
        PROVE  q.bank[x][y] + q.queue[y][x] =
                   IF x = asset /\ y = to THEN WealthOf(p)[x][y] + n ELSE WealthOf(p)[x][y]
    BY <1>3, <1>4, <2>3, <2>4
  <2>6. QED
    BY <1>5, <2>4, <2>5 DEF WealthOf
<1>8. CASE n # 0 /\ q = [bank |-> moved, queue |-> p.queue]
           /\ Affords(p.bank, asset, Self, n)
  <2>1. /\ moved \in Balances(Asset, Holder)
        /\ moved[asset][to] = p.bank[asset][to] + n
        /\ \A h \in Holder : h \notin {Self, to} => moved[asset][h] = p.bank[asset][h]
        /\ \A x \in Asset : x # asset => moved[x] = p.bank[x]
    BY <1>1, <1>2, <1>8, MovedTyped
  <2> HIDE DEF moved
  <2>2. ASSUME NEW x \in Asset, NEW y \in Address
        PROVE  moved[x][y] = IF x = asset /\ y = to
                             THEN p.bank[x][y] + n ELSE p.bank[x][y]
    BY <2>1, EscrowAssumption DEF Holder
  <2>3. q \in Purse /\ q.bank = moved /\ q.queue = p.queue
    BY <1>1, <1>8, <2>1 DEF Purse
  <2>4. ASSUME NEW x \in Asset, NEW y \in Address
        PROVE  q.bank[x][y] + q.queue[y][x] =
                   IF x = asset /\ y = to THEN WealthOf(p)[x][y] + n ELSE WealthOf(p)[x][y]
    BY <1>3, <1>4, <2>2, <2>3
  <2>5. QED
    BY <1>5, <2>3, <2>4 DEF WealthOf
<1>9. \/ n = 0
      \/ n # 0 /\ q = [bank |-> p.bank, queue |-> queued]
      \/ n # 0 /\ q = [bank |-> moved, queue |-> p.queue] /\ Affords(p.bank, asset, Self, n)
  BY DEF PayoutOrQueue
<1>10. QED
  BY <1>6, <1>7, <1>8, <1>9

\* The platform's fee is within its cap, and so within the deposit.
LEMMA FeeFits ==
    ASSUME TypeOK, NEW amount \in Nat
    PROVE  /\ Fee(amount) \in 0..amount
           /\ Fee(amount) * FEE_DENOMINATOR <= amount * MAX_FEE_BPS
<1> DEFINE fee == Fee(amount)
<1>1. /\ platformFeeBps \in Nat /\ MAX_FEE_BPS \in Nat /\ FEE_DENOMINATOR \in Nat \ {0}
      /\ platformFeeBps <= MAX_FEE_BPS /\ MAX_FEE_BPS <= FEE_DENOMINATOR
  BY EscrowAssumption DEF TypeOK
<1>2. fee \in Nat /\ fee * FEE_DENOMINATOR <= amount * platformFeeBps
  BY <1>1, PortionRoundsDown DEF Fee
<1>3. /\ amount * platformFeeBps <= amount * MAX_FEE_BPS
      /\ amount * MAX_FEE_BPS <= amount * FEE_DENOMINATOR
  BY <1>1, TimesMonotone
<1> HIDE DEF fee
<1>4. fee * FEE_DENOMINATOR <= amount * MAX_FEE_BPS
  <2> DEFINE f == fee * FEE_DENOMINATOR
             b == amount * platformFeeBps
             m == amount * MAX_FEE_BPS
  <2>1. f \in Int /\ b \in Int /\ m \in Int
    BY <1>1, <1>2
  <2>2. f <= b /\ b <= m
    BY <1>2, <1>3
  <2> HIDE DEF f, b, m
  <2>3. f <= m
    BY <2>1, <2>2
  <2>4. QED
    BY <2>3 DEF f, m
<1>5. fee <= amount
  <2>1. SUFFICES ASSUME amount + 1 <= fee PROVE FALSE
    BY <1>2
  <2>2. FEE_DENOMINATOR * (amount + 1) <= FEE_DENOMINATOR * fee
    BY <1>1, <1>2, <2>1, TimesMonotone
  <2>3. FEE_DENOMINATOR * (amount + 1) = amount * FEE_DENOMINATOR + FEE_DENOMINATOR
    BY <1>1
  <2>4. FEE_DENOMINATOR * fee = fee * FEE_DENOMINATOR
    BY <1>1, <1>2
  <2> DEFINE a == amount * FEE_DENOMINATOR
             f == fee * FEE_DENOMINATOR
             m == amount * MAX_FEE_BPS
  <2>5. a \in Int /\ f \in Int /\ m \in Int
    BY <1>1, <1>2
  <2>6. f <= m /\ m <= a /\ a + FEE_DENOMINATOR <= f
    BY <1>3, <1>4, <2>2, <2>3, <2>4
  <2> HIDE DEF a, f, m
  <2>7. QED
    BY <1>1, <2>5, <2>6
<1>6. QED
  BY <1>2, <1>4, <1>5 DEF fee

-----------------------------------------------------------------------------
(* Facts about the state that several actions use. *)

LEMMA PurseTyped ==
    ASSUME TypeOK
    PROVE  purse \in Purse /\ Wealth \in Table
<1>1. purse \in Purse
  BY DEF TypeOK, purse, Purse
<1>2. QED
  BY <1>1, WealthTyped DEF Wealth

\* An open escrow is a complete set of terms.
LEMMA OpenTerms ==
    ASSUME TypeOK, NEW id \in EscrowId, IsOpen(id)
    PROVE  /\ escrows[id] \in Terms
           /\ id < nextEscrowId \/ ~Fresh
<1>1. escrows[id] \in {None} \cup Terms /\ escrows[id] # None
  BY DEF TypeOK, IsOpen, None
<1>2. id \in Nat /\ nextEscrowId \in Nat
  BY EscrowAssumption DEF EscrowId, TypeOK
<1>3. QED
  BY <1>1, <1>2 DEF Fresh

\* Closing an open escrow keeps the table of escrows typed.
LEMMA Closes ==
    ASSUME IInv, NEW id \in EscrowId, IsOpen(id), NEW s \in {"released", "refunded"},
           escrows' = [escrows EXCEPT ![id].state = s], UNCHANGED nextEscrowId
    PROVE  escrows' \in [EscrowId -> {None} \cup Terms] /\ Fresh'
<1> DEFINE closed == [escrows[id] EXCEPT !.state = s]
<1>1. escrows[id] \in Terms /\ id < nextEscrowId
  BY OpenTerms DEF IInv
<1>2. closed \in Terms
  BY <1>1 DEF Terms
<1>3. escrows' = [escrows EXCEPT ![id] = closed]
  OBVIOUS
<1> HIDE DEF closed
<1>4. escrows' \in [EscrowId -> {None} \cup Terms]
  BY <1>2, <1>3 DEF IInv, TypeOK
<1>5. nextEscrowId \in Nat /\ id \in Nat
  BY EscrowAssumption DEF IInv, TypeOK, EscrowId
<1>6. ASSUME NEW k \in EscrowId, k >= nextEscrowId'
      PROVE  escrows'[k] = None
  BY <1>1, <1>3, <1>5, <1>6 DEF IInv, TypeOK, Fresh, EscrowId
<1>7. QED
  BY <1>4, <1>6 DEF Fresh

\* The state after a settlement to a purse.
LEMMA Settled ==
    ASSUME NEW p \in Purse, SettleTo(p)
    PROVE  /\ bank' \in Balances(Asset, Holder)
           /\ withdrawable' \in [Address -> [Asset -> Nat]]
           /\ Wealth' = WealthOf(p)
<1>1. p.bank \in Balances(Asset, Holder) /\ p.queue \in [Address -> [Asset -> Nat]]
  BY DEF Purse
<1>2. bank' = p.bank /\ withdrawable' = p.queue
  BY DEF SettleTo
<1>3. QED
  BY <1>1, <1>2 DEF Wealth, WealthOf, purse

-----------------------------------------------------------------------------
(* Each function keeps the invariant and is a step of the ideal escrow. *)

LEMMA OpenStep ==
    ASSUME IInv, NEW buyer \in Buyer, NEW seller \in Seller, NEW asset \in Asset,
           NEW amount \in Amount, NEW arbiter \in Arbiter \cup {NoAddress},
           NEW deadline \in Deadline,
           Open(buyer, seller, asset, amount, arbiter, deadline)
    PROVE  IInv' /\ Ideal!Next
<1> DEFINE id == nextEscrowId
           terms == [buyer |-> buyer, seller |-> seller, asset |-> asset,
                     amount |-> amount, arbiter |-> arbiter, deadline |-> deadline,
                     state |-> "open"]
<1> USE DEF IInv
<1>1. /\ buyer \in Address /\ seller \in Address /\ arbiter \in Address \cup {NoAddress}
      /\ amount \in Nat \ {0} /\ deadline \in Nat
      /\ buyer \in Holder /\ Self \in Holder /\ buyer # Self
  BY EscrowAssumption DEF Holder
<1>2. /\ id \in EscrowId /\ id \in Nat /\ nextEscrowId' = id + 1
      /\ escrows' = [escrows EXCEPT ![id] = terms]
      /\ bank' = Moved(bank, asset, buyer, Self, amount)
      /\ deadline > now /\ Affords(bank, asset, buyer, amount)
      /\ UNCHANGED <<resolver, withdrawable, platformFeeBps, platformTreasury,
                     signed, now>>
  BY EscrowAssumption DEF Open, TypeOK, EscrowId, router
<1>3. terms \in Terms
  BY <1>1 DEF Terms
<1>t. /\ terms.buyer = buyer /\ terms.asset = asset /\ terms.amount = amount
      /\ terms.deadline = deadline /\ terms.state = "open"
  OBVIOUS
<1> HIDE DEF terms
<1>4. /\ escrows' \in [EscrowId -> {None} \cup Terms]
      /\ escrows'[id] = terms
  BY <1>2, <1>3 DEF TypeOK
<1>5. nextEscrowId' \in 1..(MaxEscrows + 1)
  BY <1>2, EscrowAssumption DEF EscrowId
<1>6. Fresh'
  <2>1. SUFFICES ASSUME NEW k \in EscrowId, k >= id + 1 PROVE escrows'[k] = None
    BY <1>2 DEF Fresh
  <2>2. k \in Nat /\ k # id /\ k >= id
    BY <1>2, <2>1, EscrowAssumption DEF EscrowId
  <2>3. QED
    BY <1>2, <2>2 DEF Fresh, TypeOK
<1>7. /\ bank' \in Balances(Asset, Holder)
      /\ bank'[asset][buyer] = bank[asset][buyer] - amount
      /\ \A h \in Holder : h \notin {buyer, Self} => bank'[asset][h] = bank[asset][h]
      /\ \A x \in Asset : x # asset => bank'[x] = bank[x]
  <2>1. bank \in Balances(Asset, Holder)
    BY DEF TypeOK
  <2>2. QED
    BY <1>1, <1>2, <2>1, MovedTyped
<1>8. IInv'
  BY <1>2, <1>4, <1>5, <1>6, <1>7 DEF TypeOK
<1>9. Wealth \in Table
      /\ \A x \in Asset, y \in Address : Wealth[x][y] = bank[x][y] + withdrawable[y][x]
  BY PurseTyped DEF Wealth, WealthOf, purse
<1>10. \A x \in Asset, y \in Address : bank[x][y] \in Nat /\ withdrawable[y][x] \in Nat
  BY DEF TypeOK, Balances, Holder
<1>11. Wealth' = Ideal!Gains(Wealth, asset, buyer, -amount)
  <2>1. ASSUME NEW x \in Asset, NEW y \in Address
        PROVE  bank'[x][y] = IF x = asset /\ y = buyer
                             THEN bank[x][y] - amount ELSE bank[x][y]
    BY <1>7, EscrowAssumption DEF Holder
  <2>2. ASSUME NEW x \in Asset, NEW y \in Address
        PROVE  bank'[x][y] + withdrawable'[y][x] =
                   IF x = asset /\ y = buyer THEN Wealth[x][y] + (-amount) ELSE Wealth[x][y]
    BY <1>1, <1>2, <1>9, <1>10, <2>1
  <2>3. Ideal!Gains(Wealth, asset, buyer, -amount) =
            [x \in Asset |-> [y \in Address |->
                IF x = asset /\ y = buyer THEN Wealth[x][y] + (-amount) ELSE Wealth[x][y]]]
    <3>1. buyer \in Address /\ -amount \in Int
      BY <1>1
    <3>2. QED
      BY <1>9, <3>1, GainsPointwise
  <2>4. QED
    BY <2>2, <2>3 DEF Wealth, WealthOf, purse
<1>12. Wealth[asset][buyer] >= amount
  BY <1>1, <1>2, <1>9, <1>10 DEF Affords
<1>13. escrows[id].state = "none"
  BY <1>2 DEF Fresh, None
<1>14. Ideal!Open(id, escrows'[id])
  BY <1>2, <1>4, <1>11, <1>12, <1>13, <1>t DEF Ideal!Open
<1>15. QED
  BY <1>1, <1>2, <1>4, <1>8, <1>14, <1>t DEF Ideal!Next

\* A release that the ideal escrow would allow the caller.
LEMMA ReleaseStep ==
    ASSUME IInv, NEW id \in EscrowId, NEW caller \in Address, IsOpen(id),
           Ideal!MayRelease(id, caller), Release(id, caller)
    PROVE  IInv' /\ Ideal!Next
<1> DEFINE e == escrows[id]
           fee == Fee(e.amount)
<1> USE DEF IInv
<1>1. /\ e \in Terms
      /\ e.seller \in Address /\ e.asset \in Asset /\ e.amount \in Nat
      /\ platformTreasury \in Address
  BY OpenTerms DEF Terms, TypeOK
<1>2. /\ fee \in 0..e.amount /\ fee \in Nat /\ e.amount - fee \in Nat
      /\ fee * FEE_DENOMINATOR <= e.amount * MAX_FEE_BPS
  BY <1>1, FeeFits
<1>3. PICK p \in PayoutOrQueue(purse, platformTreasury, e.asset, fee) :
         \E q \in PayoutOrQueue(p, e.seller, e.asset, e.amount - fee) : SettleTo(q)
  BY DEF Release
<1>4. PICK q \in PayoutOrQueue(p, e.seller, e.asset, e.amount - fee) : SettleTo(q)
  BY <1>3
<1>5. /\ escrows' = [escrows EXCEPT ![id].state = "released"]
      /\ resolver' = [resolver EXCEPT ![id] = caller]
      /\ UNCHANGED <<nextEscrowId, platformFeeBps, platformTreasury, signed, now>>
  BY DEF Release, router
<1> HIDE DEF fee
<1>6. p \in Purse /\ WealthOf(p) = Ideal!Gains(Wealth, e.asset, platformTreasury, fee)
  BY <1>1, <1>2, <1>3, PurseTyped, PayoutEnriches DEF Wealth
<1>7. q \in Purse /\ WealthOf(q) = Ideal!Gains(WealthOf(p), e.asset, e.seller, e.amount - fee)
  BY <1>1, <1>2, <1>4, <1>6, PayoutEnriches
<1>8. /\ bank' \in Balances(Asset, Holder)
      /\ withdrawable' \in [Address -> [Asset -> Nat]]
      /\ Wealth' = WealthOf(q)
  BY <1>4, <1>7, Settled
<1>9. escrows' \in [EscrowId -> {None} \cup Terms] /\ Fresh'
  BY <1>5, Closes
<1>10. IInv'
  BY <1>5, <1>8, <1>9 DEF TypeOK
<1>11. Wealth' = Ideal!Gains(Ideal!Gains(Wealth, e.asset, platformTreasury, fee),
                             e.asset, e.seller, e.amount - fee)
  BY <1>6, <1>7, <1>8
<1>12. Ideal!Release(id, caller, fee, platformTreasury)
  BY <1>2, <1>5, <1>11 DEF Ideal!Release, IsOpen
<1>13. fee \in 0..(IF escrows[id].state = "open" THEN escrows[id].amount ELSE 0)
  BY <1>2 DEF IsOpen
<1>14. QED
  BY <1>1, <1>10, <1>12, <1>13 DEF Ideal!Next

\* A refund that the ideal escrow would allow the caller.
LEMMA RefundStep ==
    ASSUME IInv, NEW id \in EscrowId, NEW caller \in Address, IsOpen(id),
           caller \in {escrows[id].seller, escrows[id].arbiter}, Refund(id, caller)
    PROVE  IInv' /\ Ideal!Next
<1> DEFINE e == escrows[id]
<1> USE DEF IInv
<1>1. e \in Terms /\ e.buyer \in Address /\ e.asset \in Asset /\ e.amount \in Nat
  BY OpenTerms DEF Terms
<1>2. PICK q \in PayoutOrQueue(purse, e.buyer, e.asset, e.amount) : SettleTo(q)
  BY DEF Refund
<1>3. /\ escrows' = [escrows EXCEPT ![id].state = "refunded"]
      /\ resolver' = [resolver EXCEPT ![id] = caller]
      /\ UNCHANGED <<nextEscrowId, platformFeeBps, platformTreasury, signed, now>>
  BY DEF Refund, router
<1>4. q \in Purse /\ WealthOf(q) = Ideal!Gains(Wealth, e.asset, e.buyer, e.amount)
  BY <1>1, <1>2, PurseTyped, PayoutEnriches DEF Wealth
<1>5. /\ bank' \in Balances(Asset, Holder)
      /\ withdrawable' \in [Address -> [Asset -> Nat]]
      /\ Wealth' = WealthOf(q)
  BY <1>2, <1>4, Settled
<1>6. escrows' \in [EscrowId -> {None} \cup Terms] /\ Fresh'
  BY <1>3, Closes
<1>7. IInv'
  BY <1>3, <1>5, <1>6 DEF TypeOK
<1>8. Ideal!Refund(id, caller)
  BY <1>3, <1>4, <1>5 DEF Ideal!Refund, IsOpen
<1>9. QED
  BY <1>7, <1>8 DEF Ideal!Next

\* A withdrawal gives what one has: the queue entry pays for the push.
LEMMA WithdrawStep ==
    ASSUME IInv, NEW caller \in Address, NEW asset \in Asset,
           NEW to \in Outlet \cup {caller}, WithdrawTo(caller, asset, to)
    PROVE  IInv' /\ Ideal!Next
<1> DEFINE n == withdrawable[caller][asset]
           emptied == [withdrawable[caller] EXCEPT ![asset] = 0]
<1> USE DEF IInv
<1>1. /\ to \in Address /\ to \in Holder /\ Self \in Holder /\ Self # to
      /\ bank \in Balances(Asset, Holder)
      /\ withdrawable \in [Address -> [Asset -> Nat]]
  BY EscrowAssumption DEF Holder, TypeOK
<1>2. /\ n \in Nat /\ n > 0 /\ Affords(bank, asset, Self, n)
      /\ withdrawable' = [withdrawable EXCEPT ![caller] = emptied]
      /\ bank' = Moved(bank, asset, Self, to, n)
      /\ UNCHANGED <<escrows, nextEscrowId, resolver, platformFeeBps, platformTreasury,
                     signed, now>>
  BY <1>1 DEF WithdrawTo, router, deals
<1>3. /\ emptied \in [Asset -> Nat]
      /\ withdrawable' \in [Address -> [Asset -> Nat]]
      /\ \A x \in Asset, y \in Address :
            withdrawable'[y][x] =
                IF x = asset /\ y = caller THEN 0 ELSE withdrawable[y][x]
  <2>1. emptied \in [Asset -> Nat]
    BY <1>1
  <2>2. QED
    BY <1>1, <1>2, <2>1
<1> HIDE DEF emptied, n
<1>n. -n \in Int /\ n \in Int
  BY <1>2
<1>4. /\ bank' \in Balances(Asset, Holder)
      /\ bank'[asset][to] = bank[asset][to] + n
      /\ \A h \in Holder : h \notin {Self, to} => bank'[asset][h] = bank[asset][h]
      /\ \A x \in Asset : x # asset => bank'[x] = bank[x]
  BY <1>1, <1>2, MovedTyped
<1>5. ASSUME NEW x \in Asset, NEW y \in Address
      PROVE  bank'[x][y] = IF x = asset /\ y = to THEN bank[x][y] + n ELSE bank[x][y]
  BY <1>4, EscrowAssumption DEF Holder
<1>6. IInv'
  BY <1>2, <1>3, <1>4 DEF TypeOK, Fresh
<1>7. Wealth \in Table
      /\ \A x \in Asset, y \in Address : Wealth[x][y] = bank[x][y] + withdrawable[y][x]
  BY PurseTyped DEF Wealth, WealthOf, purse
<1>8. \A x \in Asset, y \in Address : bank[x][y] \in Nat /\ withdrawable[y][x] \in Nat
  BY DEF TypeOK, Balances, Holder
<1> DEFINE poorer == Ideal!Gains(Wealth, asset, caller, -n)
<1>9. /\ poorer = [x \in Asset |-> [y \in Address |->
              IF x = asset /\ y = caller THEN Wealth[x][y] + (-n) ELSE Wealth[x][y]]]
  BY <1>n, <1>7, GainsPointwise
<1>10. poorer \in Table
  <2>1. ASSUME NEW x \in Asset, NEW y \in Address
        PROVE  (IF x = asset /\ y = caller THEN Wealth[x][y] + (-n) ELSE Wealth[x][y]) \in Nat
    <3>1. withdrawable[caller][asset] = n
      BY DEF n
    <3>2. QED
      BY <1>n, <1>7, <1>8, <3>1
  <2>2. QED
    BY <1>9, <2>1 DEF Table
<1> HIDE DEF poorer
<1>11. Wealth' = Ideal!Gains(poorer, asset, to, n)
  <2>1. Ideal!Gains(poorer, asset, to, n) =
            [x \in Asset |-> [y \in Address |->
                IF x = asset /\ y = to THEN poorer[x][y] + n ELSE poorer[x][y]]]
    BY <1>1, <1>n, <1>10, GainsPointwise
  <2>2. ASSUME NEW x \in Asset, NEW y \in Address
        PROVE  bank'[x][y] + withdrawable'[y][x] =
                   IF x = asset /\ y = to THEN poorer[x][y] + n ELSE poorer[x][y]
    <3>1. withdrawable'[y][x] = IF x = asset /\ y = caller THEN 0 ELSE withdrawable[y][x]
      BY <1>3
    <3>2. poorer[x][y] = IF x = asset /\ y = caller
                         THEN bank[x][y] + withdrawable[y][x] - n
                         ELSE bank[x][y] + withdrawable[y][x]
      BY <1>n, <1>7, <1>8, <1>9
    <3>3. withdrawable[caller][asset] = n
      BY DEF n
    <3>4. QED
      BY <1>n, <1>5, <1>8, <3>1, <3>2, <3>3
  <2>3. QED
    BY <2>1, <2>2 DEF Wealth, WealthOf, purse
<1>12. Wealth[asset][caller] >= n /\ n \in 1..Wealth[asset][caller]
  <2>1. withdrawable[caller][asset] = n
    BY DEF n
  <2>2. QED
    BY <1>2, <1>7, <1>8, <2>1
<1>13. Ideal!Give(asset, caller, to, n)
  BY <1>2, <1>11, <1>12 DEF Ideal!Give, poorer
<1>14. QED
  BY <1>1, <1>6, <1>12, <1>13 DEF Ideal!Next

-----------------------------------------------------------------------------
LEMMA InitStep ==
    ASSUME Init
    PROVE  IInv /\ Ideal!Init
<1>1. /\ Endowment \in [Asset -> [Holder -> Nat]] /\ 1 \in 1..(MaxEscrows + 1)
      /\ \A t \in Treasury : t \in Address
      /\ \A b \in Bps : b \in 0..MAX_FEE_BPS
  BY EscrowAssumption DEF Balances
<1>2. IInv
  BY <1>1 DEF Init, IInv, TypeOK, Fresh, None, Balances
<1>3. ASSUME NEW x \in Asset, NEW y \in Address
      PROVE  bank[x][y] + withdrawable[y][x] = Endowment[x][y]
  BY <1>1 DEF Init, Holder
<1>4. Wealth = [x \in Asset |-> [y \in Address |-> Endowment[x][y]]]
  BY <1>3 DEF Wealth, WealthOf, purse
<1>5. QED
  BY <1>2, <1>4 DEF Init, Ideal!Init, None

LEMMA NextStep ==
    ASSUME IInv, [Next]_vars
    PROVE  IInv' /\ [Ideal!Next]_Ideal!idealVars
<1> USE DEF IInv
<1>1. ASSUME NEW buyer \in Buyer, NEW seller \in Seller, NEW asset \in Asset,
             NEW amount \in Amount, NEW arbiter \in Arbiter \cup {NoAddress},
             NEW deadline \in Deadline,
             Open(buyer, seller, asset, amount, arbiter, deadline)
      PROVE  IInv' /\ Ideal!Next
  BY <1>1, OpenStep
<1>2. ASSUME NEW id \in EscrowId, NEW caller \in Caller, Resolve(id, caller)
      PROVE  IInv' /\ Ideal!Next
  <2>1. caller \in Address
    BY EscrowAssumption DEF Caller
  <2>2. CASE Confirm(id, caller)
    BY <2>1, <2>2, ReleaseStep DEF Confirm, Ideal!MayRelease
  <2>3. CASE ClaimAfterTimeout(id, caller)
    BY <2>1, <2>3, ReleaseStep DEF ClaimAfterTimeout, Ideal!MayRelease
  <2>4. CASE ReleaseWithSig(id, caller)
    BY <2>1, <2>4, ReleaseStep DEF ReleaseWithSig, Ideal!MayRelease
  <2>5. CASE Cancel(id, caller)
    BY <2>1, <2>5, RefundStep DEF Cancel
  <2>6. CASE Arbitrate(id, caller)
    BY <2>1, <2>6, ReleaseStep, RefundStep DEF Arbitrate, Ideal!MayRelease
  <2>7. QED
    BY <1>2, <2>2, <2>3, <2>4, <2>5, <2>6 DEF Resolve
<1>3. ASSUME NEW caller \in Address, NEW asset \in Asset,
             NEW to \in Outlet \cup {caller}, WithdrawTo(caller, asset, to)
      PROVE  IInv' /\ Ideal!Next
  BY <1>3, WithdrawStep
<1>4. ASSUME NEW id \in EscrowId, NEW account \in Buyer, Sign(id, account)
      PROVE  IInv' /\ Ideal!Next
  <2>1. account \in Address
    BY EscrowAssumption
  <2>2. IInv'
    BY <1>4, <2>1 DEF Sign, TypeOK, Fresh, router, deals
  <2>3. Wealth' = Wealth
    BY <1>4 DEF Sign, deals, Wealth, WealthOf, purse
  <2>4. Ideal!Sign(id, account)
    BY <1>4, <2>3 DEF Sign, deals, Ideal!Sign
  <2>5. QED
    BY <2>1, <2>2, <2>4 DEF Ideal!Next
<1>5. ASSUME RouterChanges
      PROVE  IInv' /\ UNCHANGED Ideal!idealVars
  <2>1. platformFeeBps' \in 0..MAX_FEE_BPS /\ platformTreasury' \in Address
    BY <1>5, EscrowAssumption DEF RouterChanges, deals, TypeOK
  <2>2. IInv'
    BY <1>5, <2>1 DEF RouterChanges, TypeOK, Fresh, deals
  <2>3. QED
    BY <1>5, <2>2 DEF RouterChanges, deals, Ideal!idealVars, Wealth, WealthOf, purse
<1>6. ASSUME Tick
      PROVE  IInv' /\ Ideal!Next
  <2>1. IInv'
    BY <1>6 DEF Tick, TypeOK, Fresh, router, deals
  <2>2. Ideal!Tick
    BY <1>6 DEF Tick, deals, Ideal!Tick, Wealth, WealthOf, purse
  <2>3. QED
    BY <2>1, <2>2 DEF Ideal!Next
<1>7. ASSUME UNCHANGED vars
      PROVE  IInv' /\ UNCHANGED Ideal!idealVars
  BY <1>7 DEF vars, deals, router, TypeOK, Fresh, Ideal!idealVars, Wealth, WealthOf, purse
<1>8. QED
  BY <1>1, <1>2, <1>3, <1>4, <1>5, <1>6, <1>7 DEF Next

\* Every variable of the contract keeps its type: no fee above the cap and no
\* negative balance or queue entry is ever stored.
THEOREM EscrowTypes == Spec => []TypeOK
<1>1. Init => IInv
  BY InitStep
<1>2. IInv /\ [Next]_vars => IInv'
  BY NextStep
<1>3. IInv => TypeOK
  BY DEF IInv
<1>4. QED
  BY <1>1, <1>2, <1>3, PTL DEF Spec

\* The contract honours its deals: with queued money counted as its payee's, a
\* behaviour of the contract is one of the ideal escrow.  A deposit leaves once,
\* to the party the terms name, with the leave the terms ask for.
THEOREM EscrowHonoursDeals == Spec => HonoursDeals
<1>1. Init => IInv /\ Ideal!Init
  BY InitStep
<1>2. IInv /\ [Next]_vars => IInv' /\ [Ideal!Next]_Ideal!idealVars
  BY NextStep
<1>3. QED
  BY <1>1, <1>2, PTL DEF Spec, HonoursDeals, Ideal!Spec

-----------------------------------------------------------------------------
(* The contract's solvency: every function changes what is locked in open   *)
(* escrows by what leaves the spare money of the contract.                  *)

\* What the open escrows of a table hold of an asset, escrow by escrow.
Locked(es, x) ==
    [id \in EscrowId |->
        IF es[id].state = "open" /\ es[id].asset = x THEN es[id].amount ELSE 0]

QueueOf(queue, x) == [a \in Address |-> queue[a][x]]

\* What the contract holds of an asset beyond the queued payouts.
Spare(p, x) == p.bank[x][Self] - SumFunction(QueueOf(p.queue, x))

LEMMA LockedTyped ==
    ASSUME NEW es \in [EscrowId -> {None} \cup Terms], NEW x \in Asset
    PROVE  /\ IsFiniteSet(EscrowId)
           /\ Locked(es, x) \in [EscrowId -> Nat]
           /\ SumFunction(Locked(es, x)) \in Nat
<1>1. IsFiniteSet(EscrowId)
  <2>1. 1 \in Int /\ MaxEscrows \in Int
    BY EscrowAssumption
  <2>2. QED
    BY <2>1, FS_Interval DEF EscrowId
<1>2. ASSUME NEW id \in EscrowId
      PROVE  (IF es[id].state = "open" /\ es[id].asset = x THEN es[id].amount ELSE 0) \in Nat
  <2>1. es[id] \in Terms \/ es[id].state # "open"
    BY DEF None
  <2>2. QED
    BY <2>1 DEF Terms
<1>3. Locked(es, x) \in [EscrowId -> Nat]
  BY <1>2 DEF Locked
<1>4. QED
  BY <1>1, <1>3, SumNat

\* One escrow changes: what is locked changes by what this one locks.
LEMMA LockedChanges ==
    ASSUME NEW es \in [EscrowId -> {None} \cup Terms], NEW x \in Asset,
           NEW id \in EscrowId, NEW t \in {None} \cup Terms,
           NEW new \in [EscrowId -> {None} \cup Terms],
           new[id] = t, \A k \in EscrowId : k # id => new[k] = es[k]
    PROVE  SumFunction(Locked(new, x)) =
               SumFunction(Locked(es, x))
             + (IF t.state = "open" /\ t.asset = x THEN t.amount ELSE 0)
             - (IF es[id].state = "open" /\ es[id].asset = x THEN es[id].amount ELSE 0)
<1>1. /\ Locked(es, x) \in [EscrowId -> Int] /\ Locked(new, x) \in [EscrowId -> Int]
      /\ IsFiniteSet(EscrowId)
  BY LockedTyped
<1>2. \A k \in EscrowId : k # id => Locked(new, x)[k] = Locked(es, x)[k]
  BY DEF Locked
<1>3. SumFunction(Locked(new, x)) =
          SumFunction(Locked(es, x)) + Locked(new, x)[id] - Locked(es, x)[id]
  BY <1>1, <1>2, SumChange
<1>4. QED
  BY <1>3 DEF Locked

LEMMA QueueTyped ==
    ASSUME NEW p \in Purse, NEW x \in Asset
    PROVE  /\ QueueOf(p.queue, x) \in [Address -> Nat]
           /\ SumFunction(QueueOf(p.queue, x)) \in Nat
           /\ p.bank[x][Self] \in Nat
           /\ Spare(p, x) \in Int
<1>1. QueueOf(p.queue, x) \in [Address -> Nat]
  BY DEF QueueOf, Purse
<1>2. SumFunction(QueueOf(p.queue, x)) \in Nat
  BY <1>1, SumNat, EscrowAssumption
<1>3. p.bank[x][Self] \in Nat
  BY DEF Purse, Balances, Holder
<1>4. QED
  BY <1>1, <1>2, <1>3 DEF Spare

\* One entry of the queue changes.
LEMMA QueueChanges ==
    ASSUME NEW p \in Purse, NEW q \in Purse, NEW asset \in Asset, NEW a \in Address,
           NEW n \in Nat,
           \A x \in Asset, y \in Address :
               q.queue[y][x] = IF x = asset /\ y = a THEN n ELSE p.queue[y][x],
           NEW x \in Asset
    PROVE  SumFunction(QueueOf(q.queue, x)) =
               SumFunction(QueueOf(p.queue, x))
             + (IF x = asset THEN n - p.queue[a][x] ELSE 0)
<1>1. /\ QueueOf(p.queue, x) \in [Address -> Int] /\ QueueOf(q.queue, x) \in [Address -> Int]
      /\ IsFiniteSet(Address)
  BY QueueTyped, EscrowAssumption
<1>2. \A y \in Address : y # a => QueueOf(q.queue, x)[y] = QueueOf(p.queue, x)[y]
  BY DEF QueueOf
<1>3. SumFunction(QueueOf(q.queue, x)) =
          SumFunction(QueueOf(p.queue, x)) + QueueOf(q.queue, x)[a] - QueueOf(p.queue, x)[a]
  BY <1>1, <1>2, SumChange
<1>4. /\ QueueOf(q.queue, x)[a] = q.queue[a][x] /\ QueueOf(p.queue, x)[a] = p.queue[a][x]
      /\ SumFunction(QueueOf(p.queue, x)) \in Nat
      /\ p.queue[a][x] \in Nat
  BY QueueTyped DEF QueueOf, Purse
<1>5. q.queue[a][x] = IF x = asset THEN n ELSE p.queue[a][x]
  OBVIOUS
<1>6. QED
  BY <1>3, <1>4, <1>5

\* A payout, pushed or queued, costs the contract its amount once.
LEMMA PayoutSpends ==
    ASSUME NEW p \in Purse, NEW to \in Address, NEW asset \in Asset, NEW n \in Nat,
           NEW q \in PayoutOrQueue(p, to, asset, n), NEW x \in Asset
    PROVE  Spare(q, x) = Spare(p, x) - (IF x = asset THEN n ELSE 0)
<1> DEFINE more == [p.queue[to] EXCEPT ![asset] = p.queue[to][asset] + n]
           queued == [p.queue EXCEPT ![to] = more]
           moved == Moved(p.bank, asset, Self, to, n)
<1>1. /\ p.bank \in Balances(Asset, Holder) /\ p.queue \in [Address -> [Asset -> Nat]]
      /\ Spare(p, x) \in Int /\ q \in Purse
  BY QueueTyped, PayoutEnriches DEF Purse
<1>2. to \in Holder /\ Self \in Holder /\ Self # to
  BY EscrowAssumption DEF Holder
<1>3. CASE n = 0
  BY <1>1, <1>3 DEF PayoutOrQueue
<1>4. CASE q = [bank |-> p.bank, queue |-> queued]
  <2>1. q.bank = p.bank /\ q.queue = queued
    BY <1>4
  <2>2. \A z \in Asset, y \in Address :
            queued[y][z] = IF z = asset /\ y = to THEN p.queue[to][asset] + n ELSE p.queue[y][z]
    BY <1>1
  <2>3. p.queue[to][asset] + n \in Nat /\ p.queue[to][asset] \in Nat
    BY <1>1
  <2> HIDE DEF queued
  <2> DEFINE m == p.queue[to][asset] + n
  <2>m. \A z \in Asset, y \in Address :
            q.queue[y][z] = IF z = asset /\ y = to THEN m ELSE p.queue[y][z]
    BY <2>1, <2>2
  <2>n. m \in Nat
    BY <2>3
  <2> HIDE DEF m
  <2>4. SumFunction(QueueOf(q.queue, x)) =
            SumFunction(QueueOf(p.queue, x)) + (IF x = asset THEN m - p.queue[to][x] ELSE 0)
    BY <1>1, <2>m, <2>n, QueueChanges
  <2>5. SumFunction(QueueOf(p.queue, x)) \in Nat /\ p.bank[x][Self] \in Nat
    BY QueueTyped
  <2>6. QED
    BY <2>1, <2>3, <2>4, <2>5 DEF Spare, m
<1>5. CASE q = [bank |-> moved, queue |-> p.queue] /\ Affords(p.bank, asset, Self, n)
  <2>1. /\ moved[asset][Self] = p.bank[asset][Self] - n
        /\ \A z \in Asset : z # asset => moved[z] = p.bank[z]
    BY <1>1, <1>2, <1>5, MovedTyped
  <2>2. q.bank = moved /\ q.queue = p.queue
    BY <1>5
  <2> HIDE DEF moved
  <2>3. SumFunction(QueueOf(p.queue, x)) \in Nat /\ p.bank[x][Self] \in Nat
    BY QueueTyped
  <2>4. QED
    BY <2>1, <2>2, <2>3 DEF Spare
<1>6. QED
  BY <1>3, <1>4, <1>5 DEF PayoutOrQueue

\* Solvency, of any table of escrows and any purse.
Backs(p, es) ==
    \A x \in Asset :
        p.bank[x][Self] = SumFunction(Locked(es, x)) + SumFunction(QueueOf(p.queue, x))

\* It says that nothing is spare but what is locked.
LEMMA BacksForm ==
    ASSUME NEW p \in Purse, NEW es \in [EscrowId -> {None} \cup Terms]
    PROVE  Backs(p, es) <=> \A x \in Asset : Spare(p, x) = SumFunction(Locked(es, x))
<1>1. ASSUME NEW x \in Asset
      PROVE  p.bank[x][Self] = SumFunction(Locked(es, x)) + SumFunction(QueueOf(p.queue, x))
                 <=> Spare(p, x) = SumFunction(Locked(es, x))
  <2>1. /\ SumFunction(Locked(es, x)) \in Nat /\ SumFunction(QueueOf(p.queue, x)) \in Nat
        /\ p.bank[x][Self] \in Nat
    BY QueueTyped, LockedTyped
  <2>2. QED
    BY <2>1 DEF Spare
<1>2. QED
  BY <1>1 DEF Backs

LEMMA SolventBacks == Solvent <=> Backs(purse, escrows)
BY DEF Solvent, Backs, Locked, QueueOf, IsOpen, purse

\* An open escrow closes and its deposit leaves the contract.
LEMMA ClosedIsPaid ==
    ASSUME IInv, IInv', Backs(purse, escrows), NEW id \in EscrowId, IsOpen(id),
           NEW s \in {"released", "refunded"},
           escrows'[id] = [escrows[id] EXCEPT !.state = s],
           \A k \in EscrowId : k # id => escrows'[k] = escrows[k],
           NEW q \in Purse, SettleTo(q),
           \A x \in Asset : Spare(q, x) = Spare(purse, x)
                 - (IF x = escrows[id].asset THEN escrows[id].amount ELSE 0)
    PROVE  Backs(purse', escrows')
<1> DEFINE closed == [escrows[id] EXCEPT !.state = s]
<1>1. escrows[id] \in Terms /\ escrows \in [EscrowId -> {None} \cup Terms]
  BY OpenTerms DEF IInv, TypeOK
<1>2. closed \in Terms /\ closed.state # "open"
  BY <1>1 DEF Terms
<1>3. /\ escrows' \in [EscrowId -> {None} \cup Terms]
      /\ escrows'[id] = closed /\ \A k \in EscrowId : k # id => escrows'[k] = escrows[k]
  BY DEF IInv, TypeOK
<1> HIDE DEF closed
<1>4. purse' = q
  BY DEF SettleTo, purse, Purse
<1>5. ASSUME NEW x \in Asset
      PROVE  Spare(q, x) = SumFunction(Locked(escrows', x))
  <2>1. SumFunction(Locked(escrows', x)) = SumFunction(Locked(escrows, x))
            + (IF closed.state = "open" /\ closed.asset = x THEN closed.amount ELSE 0)
            - (IF escrows[id].state = "open" /\ escrows[id].asset = x
               THEN escrows[id].amount ELSE 0)
    BY <1>1, <1>2, <1>3, LockedChanges
  <2>2. Spare(purse, x) = SumFunction(Locked(escrows, x))
    BY BacksForm, PurseTyped DEF IInv, TypeOK
  <2>3. escrows[id].amount \in Nat /\ SumFunction(Locked(escrows, x)) \in Nat
    BY <1>1, LockedTyped DEF Terms
  <2>4. QED
    BY <1>2, <2>1, <2>2, <2>3 DEF IsOpen
<1>6. \A x \in Asset : Spare(purse', x) = SumFunction(Locked(escrows', x))
  BY <1>4, <1>5
<1>7. QED
  <2>1. purse' \in Purse /\ escrows' \in [EscrowId -> {None} \cup Terms]
    BY DEF purse, Purse, IInv, TypeOK
  <2>2. QED
    BY <1>6, <2>1, BacksForm

LEMMA ReleasePays ==
    ASSUME IInv, IInv', Backs(purse, escrows), NEW id \in EscrowId, NEW caller, IsOpen(id),
           Release(id, caller)
    PROVE  Backs(purse', escrows')
<1> DEFINE e == escrows[id]
           fee == Fee(e.amount)
<1>1. /\ e.seller \in Address /\ e.asset \in Asset /\ e.amount \in Nat
      /\ platformTreasury \in Address /\ purse \in Purse
  BY OpenTerms, PurseTyped DEF Terms, TypeOK, IInv
<1>2. fee \in Nat /\ e.amount - fee \in Nat
  BY <1>1, FeeFits DEF IInv
<1>3. PICK p \in PayoutOrQueue(purse, platformTreasury, e.asset, fee) :
         \E q \in PayoutOrQueue(p, e.seller, e.asset, e.amount - fee) : SettleTo(q)
  BY DEF Release
<1>4. PICK q \in PayoutOrQueue(p, e.seller, e.asset, e.amount - fee) : SettleTo(q)
  BY <1>3
<1>5. /\ escrows'[id] = [escrows[id] EXCEPT !.state = "released"]
      /\ \A k \in EscrowId : k # id => escrows'[k] = escrows[k]
  BY DEF IInv, TypeOK, Release
<1> HIDE DEF fee
<1>6. p \in Purse
  BY <1>1, <1>2, PayoutEnriches
<1>7. q \in Purse
  BY <1>1, <1>2, <1>6, PayoutEnriches
<1>8. ASSUME NEW x \in Asset
      PROVE  Spare(q, x) = Spare(purse, x) - (IF x = e.asset THEN e.amount ELSE 0)
  <2>1. Spare(p, x) = Spare(purse, x) - (IF x = e.asset THEN fee ELSE 0)
    BY <1>1, <1>2, PayoutSpends
  <2>2. Spare(q, x) = Spare(p, x) - (IF x = e.asset THEN e.amount - fee ELSE 0)
    BY <1>1, <1>2, <1>6, PayoutSpends
  <2>3. Spare(purse, x) \in Int
    BY <1>1, QueueTyped
  <2>4. QED
    BY <1>1, <1>2, <2>1, <2>2, <2>3
<1>9. QED
  BY <1>4, <1>5, <1>7, <1>8, ClosedIsPaid

LEMMA RefundPays ==
    ASSUME IInv, IInv', Backs(purse, escrows), NEW id \in EscrowId, NEW caller, IsOpen(id),
           Refund(id, caller)
    PROVE  Backs(purse', escrows')
<1> DEFINE e == escrows[id]
<1>1. e.buyer \in Address /\ e.asset \in Asset /\ e.amount \in Nat /\ purse \in Purse
  BY OpenTerms, PurseTyped DEF Terms, IInv
<1>2. PICK q \in PayoutOrQueue(purse, e.buyer, e.asset, e.amount) : SettleTo(q)
  BY DEF Refund
<1>3. /\ escrows'[id] = [escrows[id] EXCEPT !.state = "refunded"]
      /\ \A k \in EscrowId : k # id => escrows'[k] = escrows[k]
  BY DEF IInv, TypeOK, Refund
<1>4. q \in Purse /\ \A x \in Asset :
          Spare(q, x) = Spare(purse, x) - (IF x = e.asset THEN e.amount ELSE 0)
  BY <1>1, PayoutEnriches, PayoutSpends
<1>5. QED
  BY <1>2, <1>3, <1>4, ClosedIsPaid

\* The deposit that comes in is what the new escrow locks.
LEMMA OpenIsFunded ==
    ASSUME IInv, IInv', Backs(purse, escrows),
           NEW buyer \in Buyer, NEW seller \in Seller, NEW asset \in Asset,
           NEW amount \in Amount, NEW arbiter \in Arbiter \cup {NoAddress},
           NEW deadline \in Deadline,
           Open(buyer, seller, asset, amount, arbiter, deadline)
    PROVE  Backs(purse', escrows')
<1> DEFINE id == nextEscrowId
           terms == [buyer |-> buyer, seller |-> seller, asset |-> asset,
                     amount |-> amount, arbiter |-> arbiter, deadline |-> deadline,
                     state |-> "open"]
<1>1. /\ id \in EscrowId /\ amount \in Nat /\ buyer \in Holder /\ Self \in Holder
      /\ buyer # Self /\ bank \in Balances(Asset, Holder)
      /\ escrows \in [EscrowId -> {None} \cup Terms] /\ escrows[id] = None
  BY EscrowAssumption DEF Holder, Open, IInv, TypeOK, EscrowId, Fresh
<1>2. /\ escrows' = [escrows EXCEPT ![id] = terms]
      /\ bank' = Moved(bank, asset, buyer, Self, amount) /\ Affords(bank, asset, buyer, amount)
      /\ withdrawable' = withdrawable
  BY DEF Open
<1>3. terms \in Terms
  BY EscrowAssumption DEF Terms
<1>4. terms.state = "open" /\ terms.asset = asset /\ terms.amount = amount
  OBVIOUS
<1> HIDE DEF terms
<1>5. /\ bank'[asset][Self] = bank[asset][Self] + amount
      /\ \A x \in Asset : x # asset => bank'[x] = bank[x]
  BY <1>1, <1>2, MovedTyped
<1>e. /\ escrows' \in [EscrowId -> {None} \cup Terms]
      /\ escrows'[id] = terms /\ \A k \in EscrowId : k # id => escrows'[k] = escrows[k]
  BY <1>1, <1>2, <1>3
<1>6. ASSUME NEW x \in Asset
      PROVE  Spare(purse', x) = SumFunction(Locked(escrows', x))
  <2>1. SumFunction(Locked(escrows', x)) = SumFunction(Locked(escrows, x))
            + (IF terms.state = "open" /\ terms.asset = x THEN terms.amount ELSE 0)
            - (IF escrows[id].state = "open" /\ escrows[id].asset = x
               THEN escrows[id].amount ELSE 0)
    BY <1>1, <1>3, <1>e, LockedChanges
  <2>2. Spare(purse, x) = SumFunction(Locked(escrows, x))
    BY BacksForm, PurseTyped DEF IInv, TypeOK
  <2>3. /\ purse.bank = bank /\ purse.queue = withdrawable
        /\ purse'.bank = bank' /\ purse'.queue = withdrawable
    BY <1>2 DEF purse
  <2>4. bank[x][Self] \in Nat /\ SumFunction(QueueOf(withdrawable, x)) \in Nat
    BY PurseTyped, QueueTyped, <2>3 DEF IInv
  <2>5. bank'[x][Self] = bank[x][Self] + (IF x = asset THEN amount ELSE 0)
    BY <1>5, <2>4
  <2>6. SumFunction(Locked(escrows, x)) \in Nat
    BY <1>1, LockedTyped
  <2>7. Spare(purse', x) = Spare(purse, x) + (IF x = asset THEN amount ELSE 0)
    BY <1>1, <2>3, <2>4, <2>5 DEF Spare
  <2>8. QED
    BY <1>1, <1>4, <2>1, <2>2, <2>6, <2>7 DEF None
<1>7. QED
  <2>1. purse' \in Purse /\ escrows' \in [EscrowId -> {None} \cup Terms]
    BY DEF purse, Purse, IInv, TypeOK
  <2>2. QED
    BY <1>6, <2>1, BacksForm

\* A withdrawal empties its queue entry and takes as much from the balance.
LEMMA WithdrawIsQueued ==
    ASSUME IInv, IInv', Backs(purse, escrows), NEW caller \in Address, NEW asset \in Asset,
           NEW to \in Outlet \cup {caller}, WithdrawTo(caller, asset, to)
    PROVE  Backs(purse', escrows')
<1> DEFINE n == withdrawable[caller][asset]
           emptied == [withdrawable[caller] EXCEPT ![asset] = 0]
<1>1. /\ to \in Holder /\ Self \in Holder /\ Self # to
      /\ bank \in Balances(Asset, Holder) /\ n \in Nat
      /\ withdrawable \in [Address -> [Asset -> Nat]]
  BY EscrowAssumption DEF Holder, IInv, TypeOK
<1>2. /\ Affords(bank, asset, Self, n)
      /\ withdrawable' = [withdrawable EXCEPT ![caller] = emptied]
      /\ bank' = Moved(bank, asset, Self, to, n)
      /\ escrows' = escrows
  BY DEF WithdrawTo, deals
<1>3. \A x \in Asset, y \in Address :
          withdrawable'[y][x] = IF x = asset /\ y = caller THEN 0 ELSE withdrawable[y][x]
  BY <1>1, <1>2
<1>4. /\ bank'[asset][Self] = bank[asset][Self] - n
      /\ \A x \in Asset : x # asset => bank'[x] = bank[x]
  BY <1>1, <1>2, MovedTyped
<1>5. /\ purse \in Purse /\ purse' \in Purse
      /\ purse.bank = bank /\ purse.queue = withdrawable
      /\ purse'.bank = bank' /\ purse'.queue = withdrawable'
  BY DEF purse, Purse, IInv, TypeOK
<1>6. ASSUME NEW x \in Asset
      PROVE  Spare(purse', x) = Spare(purse, x)
  <2>1. SumFunction(QueueOf(withdrawable', x)) =
            SumFunction(QueueOf(withdrawable, x))
          + (IF x = asset THEN 0 - withdrawable[caller][x] ELSE 0)
    <3>1. \A z \in Asset, y \in Address :
              purse'.queue[y][z] = IF z = asset /\ y = caller THEN 0 ELSE purse.queue[y][z]
      BY <1>3, <1>5
    <3>2. SumFunction(QueueOf(purse'.queue, x)) =
              SumFunction(QueueOf(purse.queue, x))
            + (IF x = asset THEN 0 - purse.queue[caller][x] ELSE 0)
      BY <1>5, <3>1, QueueChanges, 0 \in Nat
    <3>3. QED
      BY <1>5, <3>2
  <2>2. SumFunction(QueueOf(withdrawable, x)) \in Nat /\ bank[x][Self] \in Nat
    BY <1>5, QueueTyped
  <2>3. bank'[x][Self] = bank[x][Self] - (IF x = asset THEN n ELSE 0)
    BY <1>4, <2>2
  <2>4. QED
    BY <1>1, <1>5, <2>1, <2>2, <2>3 DEF Spare
<1>7. \A x \in Asset : Spare(purse', x) = SumFunction(Locked(escrows', x))
  BY <1>2, <1>5, <1>6, BacksForm DEF IInv, TypeOK
<1>8. QED
  <2>1. escrows' \in [EscrowId -> {None} \cup Terms]
    BY DEF IInv, TypeOK
  <2>2. QED
    BY <1>5, <1>7, <2>1, BacksForm

LEMMA SolventStep ==
    ASSUME IInv, IInv', Backs(purse, escrows), [Next]_vars
    PROVE  Backs(purse', escrows')
<1>1. ASSUME NEW id \in EscrowId, NEW caller \in Caller, Resolve(id, caller)
      PROVE  Backs(purse', escrows')
  BY <1>1, ReleasePays, RefundPays
     DEF IInv, Resolve, Confirm, ClaimAfterTimeout, ReleaseWithSig, Cancel, Arbitrate
<1>2. ASSUME UNCHANGED <<escrows, bank, withdrawable>>
      PROVE  Backs(purse', escrows')
  BY <1>2 DEF purse
<1>3. CASE \E id \in EscrowId, account \in Buyer : Sign(id, account)
  BY <1>2, <1>3 DEF Sign, deals
<1>4. CASE RouterChanges
  BY <1>2, <1>4 DEF RouterChanges, deals
<1>5. CASE Tick
  BY <1>2, <1>5 DEF Tick, deals
<1>6. CASE UNCHANGED vars
  BY <1>2, <1>6 DEF vars, deals
<1>7. QED
  BY <1>1, <1>3, <1>4, <1>5, <1>6, OpenIsFunded, WithdrawIsQueued DEF Next, IInv

LEMMA InitSolvent ==
    ASSUME Init
    PROVE  Backs(purse, escrows)
<1>1. IInv
  BY InitStep
<1>2. ASSUME NEW x \in Asset
      PROVE  Spare(purse, x) = SumFunction(Locked(escrows, x))
  <2>1. Locked(escrows, x) \in [EscrowId -> Int] /\ IsFiniteSet(EscrowId)
    BY <1>1, LockedTyped DEF IInv, TypeOK
  <2>2. \A id \in EscrowId : Locked(escrows, x)[id] = 0
    BY DEF Init, Locked, None
  <2>3. SumFunction(Locked(escrows, x)) = 0
    BY <2>1, <2>2, SumZero
  <2>4. QueueOf(withdrawable, x) \in [Address -> Int]
        /\ \A a \in Address : QueueOf(withdrawable, x)[a] = 0
    BY DEF Init, QueueOf
  <2>5. SumFunction(QueueOf(withdrawable, x)) = 0
    BY <2>4, SumZero, EscrowAssumption
  <2>6. bank[x][Self] = 0 /\ purse.bank = bank /\ purse.queue = withdrawable
    BY EscrowAssumption DEF Init, purse
  <2>7. QED
    BY <2>3, <2>5, <2>6 DEF Spare
<1>3. QED
  BY <1>1, <1>2, BacksForm, PurseTyped DEF IInv, TypeOK

\* The contract's books balance: whatever pushes fail, whatever the fee or the
\* treasury becomes, of every asset it holds exactly the open deposits and the
\* queued payouts, for any number of accounts, assets and escrows.
THEOREM EscrowSolvent == Spec => []Solvent
<1> DEFINE Backed == Backs(purse, escrows)
<1>1. Init => IInv /\ Backed
  BY InitStep, InitSolvent
<1>2. IInv /\ Backed /\ [Next]_vars => IInv' /\ Backed'
  BY NextStep, SolventStep
<1>3. Backed => Solvent
  BY SolventBacks
<1>4. QED
  BY <1>1, <1>2, <1>3, PTL DEF Spec

=============================================================================
