---------------------------- MODULE RouterProofs ----------------------------
(***************************************************************************)
(* Proofs about the router, for every set of accounts, tokens and merchants, *)
(* every fee and every amount: its type invariant, zero custody of tokens    *)
(* and backing of the rescue queue, the buyer's fee cap, the pinned routing  *)
(* of a payment in flight, and that the router implements the ideal rail.    *)
(* Then the router with its lanes: the lanes stay backed and every receipt    *)
(* can be claimed, and the two contracts implement the ideal rail.            *)
(***************************************************************************)
EXTENDS Rail, BankProofs

USE RouterAssumption

-----------------------------------------------------------------------------
(* Arithmetic of the split. *)

\* With a platform fee under the cap, the squeezed surcharge keeps the sum there.
LEMMA SqueezeKeepsCap ==
    ASSUME NEW mBps \in Nat, platformFeeBps \in 0..MAX_FEE_BPS
    PROVE  /\ SqueezedBps(mBps) \in Nat
           /\ platformFeeBps + SqueezedBps(mBps) <= MAX_FEE_BPS
BY DEF SqueezedBps

\* The legs of a split are natural numbers, sum to the gross, and the fees
\* respect the cap.
LEMMA SplitIsFair ==
    ASSUME NEW gross \in Nat, NEW mBps \in Nat,
           platformFeeBps \in 0..MAX_FEE_BPS
    PROVE  LET p == Share(gross, platformFeeBps)
               m == Share(gross, SqueezedBps(mBps))
           IN  /\ p \in Nat
               /\ m \in Nat
               /\ gross - p - m \in Nat
               /\ (p + m) * FEE_DENOMINATOR <= gross * MAX_FEE_BPS
<1> DEFINE q == SqueezedBps(mBps)
           p == Share(gross, platformFeeBps)
           m == Share(gross, q)
           d == FEE_DENOMINATOR
           f == p + m
<1>1. q \in Nat /\ platformFeeBps \in Nat /\ platformFeeBps + q <= MAX_FEE_BPS
  BY SqueezeKeepsCap
<1>2. p \in Nat /\ p * d <= gross * platformFeeBps
  BY <1>1, PortionRoundsDown DEF Share
<1>3. m \in Nat /\ m * d <= gross * q
  BY <1>1, PortionRoundsDown DEF Share
<1> HIDE DEF q, p, m
<1>4. gross * (platformFeeBps + q) <= gross * MAX_FEE_BPS
  BY <1>1, TimesMonotone
<1>5. gross * (platformFeeBps + q) = gross * platformFeeBps + gross * q
  BY <1>1
<1>6. f * d = p * d + m * d
  BY <1>2, <1>3
<1>7. f * d <= gross * MAX_FEE_BPS
  BY <1>1, <1>2, <1>3, <1>4, <1>5, <1>6
<1>8. gross * MAX_FEE_BPS <= gross * d
  BY TimesMonotone
<1>9. f * d <= gross * d
  BY <1>2, <1>3, <1>7, <1>8
<1>10. f <= gross
  <2>1. SUFFICES ASSUME f >= gross + 1 PROVE FALSE
    BY <1>2, <1>3
  <2>2. d * (gross + 1) <= d * f
    BY <2>1, <1>2, <1>3, TimesMonotone
  <2>3. d * (gross + 1) = gross * d + d
    OBVIOUS
  <2>4. d * f = f * d
    BY <1>2, <1>3
  <2>5. d > 0
    OBVIOUS
  <2>6. gross * d \in Int /\ f * d \in Int
    BY <1>2, <1>3
  <2>7. QED
    BY <1>9, <2>2, <2>3, <2>4, <2>5, <2>6
<1>11. QED
  BY <1>2, <1>3, <1>7, <1>10 DEF q, p, m

-----------------------------------------------------------------------------
(* The inductive invariant. *)

\* A receipt obeys the cap; a storage's receipt, its registry and the tokens it
\* leaves in the router, as predicates of the values, so that they can be said
\* of the current storage and of the one a revert would restore.
CapHolds(r) ==
    r # <<>> =>
        /\ r.fee * FEE_DENOMINATOR <= r.gross * MAX_FEE_BPS
        /\ r.fee + r.net = r.gross
        /\ r.net >= 0

RegistryOK(ms, pending, next) ==
    \A id \in MerchantId :
        /\ ms[id].owner # NoAddress => id < next /\ ms[id].payout \in Payee
        /\ pending[id] # NoAddress => ms[id].owner # NoAddress

NoTokens(b) == \A token \in Token : b[token][Self] = 0

\* Legs are paid in order, and only native payments have an excess.
LegsInOrder ==
    /\ call.pc \in {"idle", "pull", "platform", "merchant", "refund"} => call.net = 0
    /\ call.pc \in {"idle", "pull", "merchant", "refund"} => call.platformFee = 0
    /\ call.pc \in {"idle", "pull", "refund"} => call.merchantFee = 0
    /\ call.asset # Native => call.refund = 0
    /\ call.pc = "idle" => call.refund = 0 /\ call.merchantId = 0
    /\ call.pc = "pull" => call.asset # Native
    /\ call.asset = Native => call.pc # "credit"
    /\ call.merchantId = 0 => call.pc \in {"idle", "refund"}

FrameOK ==
    /\ call.pc # "idle" => call.payer \in Address
    /\ call.merchantId # 0 =>
           /\ merchants[call.merchantId].owner # NoAddress
           /\ call.payout \in Payee

SavedOK ==
    saved # <<>> =>
        /\ CapHolds(saved.receipt)
        /\ RegistryOK(saved.merchants, saved.pendingMerchantOwner, saved.nextMerchantId)
        /\ NoTokens(saved.bank)

IInv ==
    /\ TypeOK
    /\ TokenCustody
    /\ FeeWithinCap
    /\ RoutingPinned
    /\ RegistryOK(merchants, pendingMerchantOwner, nextMerchantId)
    /\ LegsInOrder
    /\ FrameOK
    /\ SavedOK

\* Changes of the registry and of the settings that a function without the lock
\* may make: they leave the money, the frame and the merchants in flight alone.
LEMMA RegisterStep ==
    ASSUME IInv, NEW caller \in Operator, NEW payout \in Payee,
           NEW feeRecipient \in MaybePayee, NEW bps \in Bps,
           RegisterMerchant(caller, payout, feeRecipient, bps)
    PROVE  IInv'
<1> USE DEF IInv, RegisterMerchant
<1>1. TypeOK'
  <2>1. merchants' \in [MerchantId -> Merchant]
    BY DEF TypeOK, Merchant, MaybeAddress, MaybePayee
  <2>2. nextMerchantId' \in 1..(MaxMerchants + 1)
    BY DEF TypeOK
  <2>3. QED
    BY <2>1, <2>2 DEF TypeOK, settings
<1>2. TokenCustody'
  BY DEF TokenCustody, InFlight
<1>3. FeeWithinCap' /\ LegsInOrder' /\ SavedOK'
  BY DEF FeeWithinCap, LegsInOrder, SavedOK
<1>4. nextMerchantId \in MerchantId /\ merchants \in [MerchantId -> Merchant]
  BY DEF TypeOK, MerchantId
<1>5. merchants[nextMerchantId].owner = NoAddress
  BY <1>4 DEF RegistryOK, MerchantId
<1>6. RoutingPinned' /\ FrameOK'
  BY <1>4, <1>5 DEF RoutingPinned, FrameOK, TypeOK, Frame
<1>7. RegistryOK(merchants, pendingMerchantOwner, nextMerchantId)'
  BY <1>4 DEF RegistryOK, MerchantId
<1>8. QED
  BY <1>1, <1>2, <1>3, <1>6, <1>7

\* With no function in flight, a change of the registry keeps the invariant if
\* it keeps the types and the shape of the registry.
LEMMA UnlockedStep ==
    ASSUME IInv, Unlocked, TypeOK', RegistryOK(merchants, pendingMerchantOwner, nextMerchantId)',
           UNCHANGED <<bank, receipt, call, saved>>
    PROVE  IInv'
<1>1. call.merchantId = 0
  BY DEF Unlocked, Idle
<1>2. QED
  BY <1>1 DEF IInv, TokenCustody, InFlight, FeeWithinCap, RoutingPinned,
              LegsInOrder, FrameOK, SavedOK

LEMMA UpdateStep ==
    ASSUME IInv, NEW caller \in Operator, NEW id \in MerchantId, NEW payout \in Payee,
           NEW feeRecipient \in MaybePayee, NEW bps \in Bps, NEW active \in BOOLEAN,
           UpdateMerchant(caller, id, payout, feeRecipient, bps, active)
    PROVE  IInv'
<1> USE DEF UpdateMerchant
<1>1. merchants' \in [MerchantId -> Merchant]
  BY DEF IInv, TypeOK, Merchant, MaybeAddress, MaybePayee
<1>2. TypeOK'
  BY <1>1 DEF IInv, TypeOK, settings
<1>3. RegistryOK(merchants, pendingMerchantOwner, nextMerchantId)'
  BY DEF IInv, TypeOK, RegistryOK
<1>4. QED
  BY <1>2, <1>3, UnlockedStep

LEMMA ProposeStep ==
    ASSUME IInv, NEW caller \in Operator, NEW id \in MerchantId,
           NEW newOwner \in Operator \cup {NoAddress},
           ProposeMerchantOwner(caller, id, newOwner)
    PROVE  IInv'
<1> USE DEF ProposeMerchantOwner
<1>1. pendingMerchantOwner' \in [MerchantId -> MaybeAddress]
  BY DEF IInv, TypeOK, MaybeAddress
<1>2. TypeOK'
  BY <1>1 DEF IInv, TypeOK, settings
<1>3. RegistryOK(merchants, pendingMerchantOwner, nextMerchantId)'
  BY DEF IInv, RegistryOK
<1>4. QED
  BY <1>2, <1>3, UnlockedStep

\* Accepting cannot bring an unregistered id to life: only registered ones have
\* a nominee.
LEMMA AcceptStep ==
    ASSUME IInv, NEW caller \in Operator, NEW id \in MerchantId,
           AcceptMerchantOwner(caller, id)
    PROVE  IInv'
<1> USE DEF AcceptMerchantOwner
<1>1. merchants' \in [MerchantId -> Merchant]
  <2>1. caller \in MaybeAddress /\ merchants \in [MerchantId -> Merchant]
    BY DEF IInv, TypeOK, MaybeAddress
  <2>2. [merchants[id] EXCEPT !.owner = caller] \in Merchant
    BY <2>1 DEF Merchant
  <2>3. QED
    BY <2>1, <2>2
<1>2. pendingMerchantOwner' \in [MerchantId -> MaybeAddress]
  BY DEF IInv, TypeOK, MaybeAddress
<1>3. TypeOK'
  BY <1>1, <1>2 DEF IInv, TypeOK, settings
<1>4. RegistryOK(merchants, pendingMerchantOwner, nextMerchantId)'
  BY DEF IInv, TypeOK, RegistryOK, Merchant
<1>5. QED
  BY <1>3, <1>4, UnlockedStep

LEMMA AdministerStep ==
    ASSUME IInv, Administer
    PROVE  IInv'
<1>1. UNCHANGED <<registry, rescue, bank, receipt, call, saved>>
  BY DEF Administer
<1>2. ASSUME NEW token \in Token, NEW allowed \in BOOLEAN, SetTokenAllowed(token, allowed)
      PROVE  TypeOK'
  BY <1>1, <1>2 DEF SetTokenAllowed, IInv, TypeOK, registry
<1>3. ASSUME NEW bps \in Bps, SetPlatformFee(bps)
      PROVE  TypeOK'
  BY <1>1, <1>3 DEF SetPlatformFee, IInv, TypeOK, registry
<1>4. ASSUME NEW treasury \in Payee, SetTreasury(treasury)
      PROVE  TypeOK'
  BY <1>1, <1>4 DEF SetTreasury, IInv, TypeOK, registry
<1>5. ASSUME Pause
      PROVE  TypeOK'
  BY <1>1, <1>5 DEF Pause, IInv, TypeOK, registry
<1>6. ASSUME Unpause
      PROVE  TypeOK'
  BY <1>1, <1>6 DEF Unpause, IInv, TypeOK, registry
<1>7. ASSUME NEW lanes \in LanesOption, SetPaymentLanes(lanes)
      PROVE  TypeOK'
  BY <1>1, <1>7 DEF SetPaymentLanes, IInv, TypeOK, registry
<1>8. TypeOK'
  BY <1>2, <1>3, <1>4, <1>5, <1>6, <1>7 DEF Administer
<1>9. QED
  BY <1>1, <1>8 DEF IInv, registry, TokenCustody, InFlight, FeeWithinCap, RoutingPinned,
         RegistryOK, LegsInOrder, FrameOK, SavedOK

-----------------------------------------------------------------------------
(* The steps of a locked function. *)

\* What a function entered now would save for its revert is a typed storage
\* with the properties of a quiet router.
LEMMA SavedAtEntry ==
    ASSUME IInv, Unlocked
    PROVE  /\ storage \in Storage
           /\ storage # <<>>
           /\ CapHolds(storage.receipt)
           /\ RegistryOK(storage.merchants, storage.pendingMerchantOwner,
                         storage.nextMerchantId)
           /\ NoTokens(storage.bank)
<1>1. storage \in Storage
  BY DEF IInv, TypeOK, storage, Storage
<1>2. storage # <<>>
  BY DEF storage
<1>3. \A token \in Token : bank[token][Self] = 0
  BY DEF IInv, TokenCustody, Unlocked, Idle
<1>4. QED
  BY <1>1, <1>2, <1>3 DEF IInv, FeeWithinCap, CapHolds, NoTokens, storage

\* The frame a payment starts with.
LEMMA EnteredFrame ==
    ASSUME IInv, NEW id \in MerchantId, MayPay(id), NEW asset \in Asset,
           NEW payer \in Buyer, NEW gross \in Gross, NEW excess \in Nat
    PROVE  Entered(id, asset, payer, gross, excess) \in Frame /\ id # 0
<1>1. merchants[id] \in Merchant /\ id # 0 /\ gross \in Nat /\ payer \in MaybeAddress
  BY DEF IInv, TypeOK, MerchantId, MaybeAddress
<1>2. QED
  BY <1>1 DEF Entered, Frame, Merchant

\* The frame and the receipt after the split of gross.
LEMMA SplitFrame ==
    ASSUME TypeOK, NEW f \in Frame, NEW mBps \in Nat, f.merchantId \in MerchantId
    PROVE  LET g == SplitFee(f, f.gross, mBps)
           IN  /\ g \in Frame
               /\ g.pc = "net" /\ g.asset = f.asset /\ g.merchantId = f.merchantId
               /\ g.payer = f.payer /\ g.payout = f.payout
               /\ g.feeRecipient = f.feeRecipient /\ g.feeBps = f.feeBps
               /\ g.gross = f.gross /\ g.refund = f.refund
               /\ g.net + g.platformFee + g.merchantFee = f.gross
               /\ ReceiptOf(g) \in Receipt
               /\ CapHolds(ReceiptOf(g))
<1> DEFINE p == Share(f.gross, platformFeeBps)
           m == Share(f.gross, SqueezedBps(mBps))
           n == f.gross - p - m
           g == SplitFee(f, f.gross, mBps)
<1>1. f.gross \in Nat /\ platformFeeBps \in 0..MAX_FEE_BPS
  BY DEF Frame, TypeOK
<1>2. /\ p \in Nat /\ m \in Nat /\ n \in Nat
      /\ (p + m) * FEE_DENOMINATOR <= f.gross * MAX_FEE_BPS
  BY <1>1, SplitIsFair
<1>3. g = [f EXCEPT !.pc = "net", !.platformFee = p, !.merchantFee = m, !.net = n]
  BY DEF SplitFee
<1> HIDE DEF p, m, n, g
<1>4. /\ g \in Frame
      /\ g.pc = "net" /\ g.asset = f.asset /\ g.merchantId = f.merchantId
      /\ g.payer = f.payer /\ g.payout = f.payout
      /\ g.feeRecipient = f.feeRecipient /\ g.feeBps = f.feeBps
      /\ g.gross = f.gross /\ g.refund = f.refund
      /\ g.net = n /\ g.platformFee = p /\ g.merchantFee = m
  BY <1>2, <1>3 DEF Frame
<1>5. n + p + m = f.gross
  BY <1>1, <1>2 DEF n
<1>6. ReceiptOf(g) \in Receipt
  BY <1>1, <1>2, <1>4 DEF ReceiptOf, Receipt
<1>7. CapHolds(ReceiptOf(g))
  BY <1>1, <1>2, <1>4, <1>5 DEF ReceiptOf, CapHolds
<1>8. QED
  BY <1>1, <1>2, <1>4, <1>5, <1>6, <1>7 DEF g

LEMMA PayNativeStep ==
    ASSUME IInv, NEW buyer \in Buyer, NEW id \in MerchantId, NEW gross \in Gross,
           NEW excess \in Excess, PayNative(buyer, id, gross, excess)
    PROVE  IInv'
<1> DEFINE e == Entered(id, Native, buyer, gross, excess)
           f == SplitFee(e, gross, merchants[id].feeBps)
<1>1. /\ MayPay(id) /\ Unlocked
      /\ Affords(bank, Native, buyer, gross + excess)
      /\ bank' = Moved(bank, Native, buyer, Self, gross + excess)
      /\ call' = f
      /\ receipt' = ReceiptOf(f)
      /\ saved' = storage
      /\ UNCHANGED <<registry, settings, rescue>>
  BY DEF PayNative, MayPay
<1>2. /\ e \in Frame /\ e.asset = Native /\ e.merchantId = id /\ id # 0
      /\ e.payer = buyer /\ e.payout = merchants[id].payout
      /\ e.feeRecipient = merchants[id].feeRecipient
      /\ e.feeBps = merchants[id].feeBps /\ e.gross = gross
  <2>1. e \in Frame /\ id # 0
    BY <1>1, EnteredFrame DEF Asset
  <2>2. QED
    BY <2>1 DEF Entered
<1>3. merchants[id].feeBps \in Nat /\ merchants[id].owner # NoAddress
      /\ merchants[id].payout \in Payee /\ merchants[id].active
  BY <1>1 DEF MayPay, IInv, TypeOK, Merchant, RegistryOK
<1> HIDE DEF e
<1>4. /\ f \in Frame /\ f.pc = "net" /\ f.asset = Native /\ f.merchantId = id
      /\ f.payer = buyer /\ f.payout = merchants[id].payout
      /\ f.feeRecipient = merchants[id].feeRecipient
      /\ f.feeBps = merchants[id].feeBps
      /\ ReceiptOf(f) \in Receipt /\ CapHolds(ReceiptOf(f))
  BY <1>2, <1>3, SplitFrame DEF IInv
<1> HIDE DEF f
<1>5. /\ bank' \in Balances(Asset, Holder)
      /\ \A a \in Asset : a # Native => bank'[a] = bank[a]
  <2>1. /\ Native \in Asset /\ buyer \in Holder /\ Self \in Holder /\ buyer # Self
        /\ gross + excess \in Nat /\ bank \in Balances(Asset, Holder)
    BY DEF IInv, TypeOK, Holder, Asset
  <2>2. QED
    BY <1>1, <2>1, MovedTyped
<1>6. f # Idle
  BY <1>4 DEF Idle
<1>7. TypeOK'
  BY <1>1, <1>4, <1>5, <1>6, SavedAtEntry DEF IInv, TypeOK, registry, settings
<1>8. TokenCustody'
  BY <1>1, <1>4, <1>5, SavedAtEntry DEF TokenCustody, NoTokens, storage, Asset
<1>9. FeeWithinCap'
  BY <1>1, <1>4 DEF FeeWithinCap, CapHolds
<1>10. RoutingPinned' /\ FrameOK'
  BY <1>1, <1>3, <1>4 DEF RoutingPinned, FrameOK, registry
<1>11. LegsInOrder'
  BY <1>1, <1>2, <1>4 DEF LegsInOrder
<1>12. SavedOK' /\ RegistryOK(merchants, pendingMerchantOwner, nextMerchantId)'
  BY <1>1, SavedAtEntry DEF SavedOK, IInv, registry
<1>13. QED
  BY <1>7, <1>8, <1>9, <1>10, <1>11, <1>12 DEF IInv

LEMMA PayTokenStep ==
    ASSUME IInv, NEW buyer \in Buyer, NEW id \in MerchantId, NEW gross \in Gross,
           NEW token \in Token, PayToken(buyer, id, token, gross)
    PROVE  IInv'
<1> DEFINE e == Entered(id, token, buyer, gross, 0)
<1>1. /\ MayPay(id) /\ Unlocked
      /\ call' = e
      /\ saved' = storage
      /\ UNCHANGED <<registry, settings, rescue, bank, receipt>>
  BY DEF PayToken, MayPay
<1>2. /\ e \in Frame /\ e.pc = "pull" /\ e.asset = token /\ e.merchantId = id
      /\ e.payer = buyer /\ e.payout = merchants[id].payout /\ id # 0
      /\ e.feeRecipient = merchants[id].feeRecipient
      /\ e.feeBps = merchants[id].feeBps /\ e.refund = 0
      /\ e.net = 0 /\ e.platformFee = 0 /\ e.merchantFee = 0
  <2>1. token \in Asset /\ 0 \in Nat /\ MayPay(id)
    BY <1>1 DEF Asset
  <2>2. e \in Frame /\ id # 0
    BY <2>1, EnteredFrame
  <2>3. QED
    BY <2>2 DEF Entered
<1>3. merchants[id].owner # NoAddress
      /\ merchants[id].payout \in Payee /\ merchants[id].active
  BY <1>1 DEF MayPay, IInv, TypeOK, Merchant, RegistryOK
<1> HIDE DEF e
<1>4. e # Idle
  BY <1>2 DEF Idle
<1>5. TypeOK'
  BY <1>1, <1>2, <1>4, SavedAtEntry DEF IInv, TypeOK, registry, settings
<1>6. TokenCustody'
  BY <1>1, <1>2, SavedAtEntry DEF TokenCustody, InFlight, NoTokens, storage
<1>7. FeeWithinCap'
  BY <1>1 DEF IInv, FeeWithinCap
<1>8. RoutingPinned' /\ FrameOK'
  BY <1>1, <1>2, <1>3 DEF RoutingPinned, FrameOK, registry
<1>9. LegsInOrder'
  BY <1>1, <1>2 DEF LegsInOrder
<1>10. SavedOK' /\ RegistryOK(merchants, pendingMerchantOwner, nextMerchantId)'
  BY <1>1, SavedAtEntry DEF SavedOK, IInv, registry
<1>11. QED
  BY <1>5, <1>6, <1>7, <1>8, <1>9, <1>10 DEF IInv

LEMMA PullExactStep ==
    ASSUME IInv, PullExact
    PROVE  IInv'
<1> DEFINE f == SplitFee(call, call.gross, call.feeBps)
<1>1. /\ call.pc = "pull"
      /\ Affords(bank, call.asset, call.payer, call.gross)
      /\ bank' = Moved(bank, call.asset, call.payer, Self, call.gross)
      /\ call' = f
      /\ receipt' = ReceiptOf(f)
      /\ UNCHANGED <<registry, settings, rescue, saved>>
  BY DEF PullExact
<1>2. /\ call \in Frame /\ call.merchantId \in MerchantId /\ call.asset \in Token
      /\ call.payer \in Address /\ call.payer \in Holder /\ call.payer # Self
      /\ call.feeBps \in Nat /\ call.gross \in Nat /\ call.refund = 0
  BY <1>1 DEF IInv, TypeOK, Frame, LegsInOrder, FrameOK, Holder, Asset
<1>3. /\ f \in Frame /\ f.pc = "net" /\ f.asset = call.asset
      /\ f.merchantId = call.merchantId /\ f.payer = call.payer
      /\ f.payout = call.payout /\ f.feeRecipient = call.feeRecipient
      /\ f.feeBps = call.feeBps /\ f.refund = call.refund
      /\ f.net + f.platformFee + f.merchantFee = call.gross
      /\ ReceiptOf(f) \in Receipt /\ CapHolds(ReceiptOf(f))
  BY <1>2, SplitFrame DEF IInv
<1> HIDE DEF f
<1>4. /\ bank' \in Balances(Asset, Holder)
      /\ bank'[call.asset][Self] = bank[call.asset][Self] + call.gross
      /\ \A a \in Asset : a # call.asset => bank'[a] = bank[a]
  <2>1. call.asset \in Asset /\ Self \in Holder /\ bank \in Balances(Asset, Holder)
    BY <1>2 DEF IInv, TypeOK, Holder, Asset
  <2>2. QED
    BY <1>1, <1>2, <2>1, MovedTyped
<1>5. f # Idle /\ call # Idle
  BY <1>1, <1>3 DEF Idle
<1>6. TypeOK'
  BY <1>1, <1>3, <1>4, <1>5 DEF IInv, TypeOK, registry, settings
<1>7. bank[call.asset][Self] = 0 /\ \A t \in Token : t # call.asset => bank[t][Self] = 0
  BY <1>1, <1>2 DEF IInv, TokenCustody, InFlight, LegsInOrder
<1>8. TokenCustody'
  BY <1>1, <1>2, <1>3, <1>4, <1>7 DEF TokenCustody, InFlight, Asset, Frame
<1>9. FeeWithinCap'
  BY <1>1, <1>3 DEF FeeWithinCap, CapHolds
<1>10. RoutingPinned' /\ FrameOK'
  BY <1>1, <1>3 DEF IInv, RoutingPinned, FrameOK, registry
<1>11. LegsInOrder'
  BY <1>1, <1>2, <1>3 DEF LegsInOrder, MerchantId
<1>12. SavedOK' /\ RegistryOK(merchants, pendingMerchantOwner, nextMerchantId)'
  BY <1>1 DEF SavedOK, IInv, registry
<1>13. QED
  BY <1>6, <1>8, <1>9, <1>10, <1>11, <1>12 DEF IInv

\* What the frame tells while a function is in flight.
LEMMA FrameFacts ==
    ASSUME IInv, call.pc # "idle"
    PROVE  /\ call \in Frame /\ call # Idle /\ saved # <<>>
           /\ call.payer \in Address
           /\ call.asset \in Asset
           /\ call.net \in Nat /\ call.platformFee \in Nat
           /\ call.merchantFee \in Nat /\ call.refund \in Nat
           /\ call.pc # "refund" =>
                  /\ call.merchantId # 0
                  /\ call.payout \in Payee /\ call.payout \in Address
                  /\ MerchantFeeDest \in Address
<1>1. call \in Frame /\ call # Idle /\ saved # <<>> /\ call.payer \in Address
  BY DEF IInv, TypeOK, FrameOK, Idle
<1>2. call.pc # "refund" => call.merchantId # 0 /\ call.payout \in Payee
  BY DEF IInv, FrameOK, LegsInOrder
<1>3. QED
  BY <1>1, <1>2 DEF Frame, MerchantFeeDest, MaybeAddress

\* A step that pays n of the legs in flight to someone else, or queues a native
\* leg, and goes on with the frame f.
LEMMA LegStep ==
    ASSUME IInv, call.pc \notin {"idle", "pull"},
           NEW to \in Holder, to # Self, NEW n \in Nat, NEW f \in Frame,
           f.pc \notin {"idle", "pull"},
           f.asset = call.asset, f.merchantId = call.merchantId,
           f.payer = call.payer, f.payout = call.payout,
           f.feeRecipient = call.feeRecipient, f.feeBps = call.feeBps,
           f.net + f.platformFee + f.merchantFee + f.refund
               = call.net + call.platformFee + call.merchantFee + call.refund - n,
           call' = f,
           \/ /\ Affords(bank, call.asset, Self, n)
              /\ bank' = Moved(bank, call.asset, Self, to, n)
              /\ rescue' = rescue
           \/ /\ call.asset = Native
              /\ rescue' \in [Address -> Nat]
              /\ bank' = bank,
           LegsInOrder',
           UNCHANGED <<registry, settings, receipt, saved>>
    PROVE  IInv'
<1>1. /\ bank \in Balances(Asset, Holder) /\ call.asset \in Asset /\ Self \in Holder
      /\ Native \in Asset
  BY DEF IInv, TypeOK, Frame, Holder, Asset
<1>2. /\ bank' \in Balances(Asset, Holder)
      /\ rescue' \in [Address -> Nat]
      /\ \A a \in Asset : a # call.asset => bank'[a] = bank[a]
      /\ call.asset # Native => bank'[call.asset][Self] = bank[call.asset][Self] - n
  <2>1. CASE call.asset = Native /\ rescue' \in [Address -> Nat] /\ bank' = bank
    BY <1>1, <2>1
  <2>2. CASE /\ Affords(bank, call.asset, Self, n)
             /\ bank' = Moved(bank, call.asset, Self, to, n)
             /\ rescue' = rescue
    <3>1. rescue' \in [Address -> Nat]
      BY <2>2 DEF IInv, TypeOK
    <3>2. QED
      BY <1>1, <2>2, <3>1, MovedTyped
  <2>3. QED
    BY <2>1, <2>2
<1>3. f # Idle /\ call # Idle
  BY DEF Idle
<1>4. TypeOK'
  BY <1>2, <1>3 DEF IInv, TypeOK, registry, settings
<1>5. TokenCustody'
  <2>1. ASSUME NEW t \in Token
        PROVE  bank'[t][Self] = IF call'.asset = t THEN InFlight' ELSE 0
    <3>1. t \in Asset /\ bank[t][Self] = IF call.asset = t THEN InFlight ELSE 0
      BY DEF IInv, TokenCustody, Asset
    <3>2. CASE call.asset = t
      <4>1. /\ InFlight = call.net + call.platformFee + call.merchantFee + call.refund
            /\ InFlight' = f.net + f.platformFee + f.merchantFee + f.refund
        BY DEF InFlight
      <4>2. InFlight' = InFlight - n /\ InFlight \in Int
        <5>1. call.net \in Nat /\ call.platformFee \in Nat /\ call.merchantFee \in Nat
              /\ call.refund \in Nat
          BY DEF IInv, TypeOK, Frame
        <5>2. QED
          BY <4>1, <5>1
      <4>3. bank'[t][Self] = bank[t][Self] - n
        BY <1>2, <3>2
      <4>4. QED
        BY <3>1, <3>2, <4>2, <4>3
    <3>3. CASE call.asset # t
      BY <1>2, <3>1, <3>3
    <3>4. QED
      BY <3>2, <3>3
  <2>2. QED
    BY <2>1 DEF TokenCustody
<1>6. FeeWithinCap' /\ SavedOK' /\ RegistryOK(merchants, pendingMerchantOwner, nextMerchantId)'
  BY DEF IInv, FeeWithinCap, SavedOK, registry
<1>7. RoutingPinned' /\ FrameOK'
  BY DEF IInv, RoutingPinned, FrameOK, registry
<1>8. QED
  BY <1>4, <1>5, <1>6, <1>7 DEF IInv

\* Deliver is such a step, whichever way it ends.
LEMMA DeliverForms ==
    ASSUME TypeOK, NEW to \in Address, NEW n \in Nat, Deliver(to, n)
    PROVE  \/ /\ Affords(bank, call.asset, Self, n)
              /\ bank' = Moved(bank, call.asset, Self, to, n)
              /\ rescue' = rescue
           \/ /\ call.asset = Native
              /\ rescue' \in [Address -> Nat]
              /\ bank' = bank
BY DEF Deliver, TypeOK

LEMMA SettleNetStep ==
    ASSUME IInv, SettleNet
    PROVE  IInv'
<1> DEFINE f == [call EXCEPT !.pc = "platform", !.net = 0]
<1>1. call.pc = "net" /\ call' = f /\ Deliver(call.payout, call.net)
      /\ UNCHANGED <<registry, settings, receipt, saved>>
  BY DEF SettleNet
<1>2. /\ call.payout \in Address /\ call.payout \in Holder /\ call.payout # Self
      /\ call.net \in Nat /\ call \in Frame /\ call.merchantId # 0
  BY <1>1, FrameFacts DEF Holder
<1>3. /\ f \in Frame /\ f.pc = "platform" /\ f.net = 0
      /\ f.asset = call.asset /\ f.merchantId = call.merchantId
      /\ f.payer = call.payer /\ f.payout = call.payout
      /\ f.feeRecipient = call.feeRecipient /\ f.feeBps = call.feeBps
      /\ f.platformFee = call.platformFee /\ f.merchantFee = call.merchantFee
      /\ f.refund = call.refund
  BY <1>2 DEF Frame
<1> HIDE DEF f
<1>4. LegsInOrder'
  BY <1>1, <1>2, <1>3 DEF IInv, LegsInOrder
<1>5. f.net + f.platformFee + f.merchantFee + f.refund
        = call.net + call.platformFee + call.merchantFee + call.refund - call.net
  BY <1>2, <1>3 DEF Frame
<1>6. \/ /\ Affords(bank, call.asset, Self, call.net)
         /\ bank' = Moved(bank, call.asset, Self, call.payout, call.net)
         /\ rescue' = rescue
      \/ /\ call.asset = Native
         /\ rescue' \in [Address -> Nat]
         /\ bank' = bank
  BY <1>1, <1>2, DeliverForms DEF IInv
<1>7. QED
  BY <1>1, <1>2, <1>3, <1>4, <1>5, <1>6, LegStep

LEMMA CreditTakenStep ==
    ASSUME IInv, CreditTaken
    PROVE  IInv'
<1> DEFINE f == [call EXCEPT !.pc = "platform", !.net = 0]
<1>1. /\ call.pc = "credit" /\ call' = f
      /\ Affords(bank, call.asset, Self, call.net)
      /\ bank' = Moved(bank, call.asset, Self, Lanes, call.net)
      /\ rescue' = rescue
      /\ UNCHANGED <<registry, settings, receipt, saved>>
  BY DEF CreditTaken
<1>2. Lanes \in Holder /\ Lanes # Self /\ call.net \in Nat /\ call \in Frame
      /\ call.merchantId # 0
  BY <1>1, FrameFacts DEF Holder
<1>3. /\ f \in Frame /\ f.pc = "platform" /\ f.net = 0
      /\ f.asset = call.asset /\ f.merchantId = call.merchantId
      /\ f.payer = call.payer /\ f.payout = call.payout
      /\ f.feeRecipient = call.feeRecipient /\ f.feeBps = call.feeBps
      /\ f.platformFee = call.platformFee /\ f.merchantFee = call.merchantFee
      /\ f.refund = call.refund
  BY <1>2 DEF Frame
<1> HIDE DEF f
<1>4. LegsInOrder'
  BY <1>1, <1>2, <1>3 DEF IInv, LegsInOrder
<1>5. f.net + f.platformFee + f.merchantFee + f.refund
        = call.net + call.platformFee + call.merchantFee + call.refund - call.net
  BY <1>2, <1>3 DEF Frame
<1>6. QED
  BY <1>1, <1>2, <1>3, <1>4, <1>5, LegStep

LEMMA CreditCaughtStep ==
    ASSUME IInv, CreditCaught
    PROVE  IInv'
<1> DEFINE f == [call EXCEPT !.pc = "platform", !.net = 0]
<1>1. /\ call.pc = "credit" /\ call' = f
      /\ Affords(bank, call.asset, Self, call.net)
      /\ bank' = Moved(bank, call.asset, Self, call.payout, call.net)
      /\ rescue' = rescue
      /\ UNCHANGED <<registry, settings, receipt, saved>>
  BY DEF CreditCaught
<1>2. call.payout \in Holder /\ call.payout # Self /\ call.net \in Nat
      /\ call \in Frame /\ call.merchantId # 0
  BY <1>1, FrameFacts DEF Holder
<1>3. /\ f \in Frame /\ f.pc = "platform" /\ f.net = 0
      /\ f.asset = call.asset /\ f.merchantId = call.merchantId
      /\ f.payer = call.payer /\ f.payout = call.payout
      /\ f.feeRecipient = call.feeRecipient /\ f.feeBps = call.feeBps
      /\ f.platformFee = call.platformFee /\ f.merchantFee = call.merchantFee
      /\ f.refund = call.refund
  BY <1>2 DEF Frame
<1> HIDE DEF f
<1>4. LegsInOrder'
  BY <1>1, <1>2, <1>3 DEF IInv, LegsInOrder
<1>5. f.net + f.platformFee + f.merchantFee + f.refund
        = call.net + call.platformFee + call.merchantFee + call.refund - call.net
  BY <1>2, <1>3 DEF Frame
<1>6. QED
  BY <1>1, <1>2, <1>3, <1>4, <1>5, LegStep

LEMMA PlatformLegStep ==
    ASSUME IInv, PlatformLeg
    PROVE  IInv'
<1> DEFINE f == [call EXCEPT !.pc = "merchant", !.platformFee = 0]
<1>1. call.pc = "platform" /\ call' = f /\ Deliver(platformTreasury, call.platformFee)
      /\ UNCHANGED <<registry, settings, receipt, saved>>
  BY DEF PlatformLeg
<1>2. /\ platformTreasury \in Address /\ platformTreasury \in Holder
      /\ platformTreasury # Self
      /\ call.platformFee \in Nat /\ call \in Frame /\ call.merchantId # 0
  BY <1>1, FrameFacts DEF Holder, IInv, TypeOK
<1>3. /\ f \in Frame /\ f.pc = "merchant" /\ f.net = call.net
      /\ f.asset = call.asset /\ f.merchantId = call.merchantId
      /\ f.payer = call.payer /\ f.payout = call.payout
      /\ f.feeRecipient = call.feeRecipient /\ f.feeBps = call.feeBps
      /\ f.platformFee = 0 /\ f.merchantFee = call.merchantFee
      /\ f.refund = call.refund
  BY <1>2 DEF Frame
<1> HIDE DEF f
<1>4. LegsInOrder'
  BY <1>1, <1>2, <1>3 DEF IInv, LegsInOrder
<1>5. f.net + f.platformFee + f.merchantFee + f.refund
        = call.net + call.platformFee + call.merchantFee + call.refund - call.platformFee
  BY <1>2, <1>3 DEF Frame
<1>6. \/ /\ Affords(bank, call.asset, Self, call.platformFee)
         /\ bank' = Moved(bank, call.asset, Self, platformTreasury, call.platformFee)
         /\ rescue' = rescue
      \/ /\ call.asset = Native
         /\ rescue' \in [Address -> Nat]
         /\ bank' = bank
  BY <1>1, <1>2, DeliverForms DEF IInv
<1>7. QED
  BY <1>1, <1>2, <1>3, <1>4, <1>5, <1>6, LegStep

LEMMA MerchantLegStep ==
    ASSUME IInv, MerchantLeg
    PROVE  IInv'
<1> DEFINE f == [call EXCEPT !.pc = "refund", !.merchantFee = 0]
<1>1. call.pc = "merchant" /\ call' = f /\ Deliver(MerchantFeeDest, call.merchantFee)
      /\ UNCHANGED <<registry, settings, receipt, saved>>
  BY DEF MerchantLeg
<1>2. /\ MerchantFeeDest \in Address /\ MerchantFeeDest \in Holder
      /\ MerchantFeeDest # Self
      /\ call.merchantFee \in Nat /\ call \in Frame /\ call.merchantId # 0
  BY <1>1, FrameFacts DEF Holder
<1>3. /\ f \in Frame /\ f.pc = "refund" /\ f.net = call.net
      /\ f.asset = call.asset /\ f.merchantId = call.merchantId
      /\ f.payer = call.payer /\ f.payout = call.payout
      /\ f.feeRecipient = call.feeRecipient /\ f.feeBps = call.feeBps
      /\ f.platformFee = call.platformFee /\ f.merchantFee = 0
      /\ f.refund = call.refund
  BY <1>2 DEF Frame
<1> HIDE DEF f
<1>4. LegsInOrder'
  BY <1>1, <1>2, <1>3 DEF IInv, LegsInOrder
<1>5. f.net + f.platformFee + f.merchantFee + f.refund
        = call.net + call.platformFee + call.merchantFee + call.refund - call.merchantFee
  BY <1>2, <1>3 DEF Frame
<1>6. \/ /\ Affords(bank, call.asset, Self, call.merchantFee)
         /\ bank' = Moved(bank, call.asset, Self, MerchantFeeDest, call.merchantFee)
         /\ rescue' = rescue
      \/ /\ call.asset = Native
         /\ rescue' \in [Address -> Nat]
         /\ bank' = bank
  BY <1>1, <1>2, DeliverForms DEF IInv
<1>7. QED
  BY <1>1, <1>2, <1>3, <1>4, <1>5, <1>6, LegStep

LEMMA CallCreditStep ==
    ASSUME IInv, CallCredit
    PROVE  IInv'
<1> DEFINE f == [call EXCEPT !.pc = "credit"]
<1>1. call.pc = "net" /\ call' = f /\ call.asset # Native
      /\ UNCHANGED <<registry, settings, rescue, bank, receipt, saved>>
  BY DEF CallCredit
<1>2. call \in Frame /\ call # Idle
  BY <1>1, FrameFacts
<1>3. /\ f \in Frame /\ f.pc = "credit" /\ f.net = call.net
      /\ f.asset = call.asset /\ f.merchantId = call.merchantId
      /\ f.payer = call.payer /\ f.payout = call.payout
      /\ f.feeRecipient = call.feeRecipient /\ f.feeBps = call.feeBps
      /\ f.platformFee = call.platformFee /\ f.merchantFee = call.merchantFee
      /\ f.refund = call.refund
  BY <1>2 DEF Frame
<1> HIDE DEF f
<1>4. LegsInOrder'
  BY <1>1, <1>2, <1>3 DEF IInv, LegsInOrder
<1>5. f # Idle
  BY <1>3 DEF Idle
<1>6. TypeOK'
  BY <1>1, <1>2, <1>3, <1>5 DEF IInv, TypeOK, registry, settings
<1>7. TokenCustody'
  BY <1>1, <1>3 DEF IInv, TokenCustody, InFlight
<1>8. FeeWithinCap' /\ SavedOK' /\ RegistryOK(merchants, pendingMerchantOwner, nextMerchantId)'
  BY <1>1 DEF IInv, FeeWithinCap, SavedOK, registry
<1>9. RoutingPinned' /\ FrameOK'
  BY <1>1, <1>3 DEF IInv, RoutingPinned, FrameOK, registry
<1>10. QED
  BY <1>4, <1>6, <1>7, <1>8, <1>9 DEF IInv

\* A frame is gone: what is left to show of a step that ends a function.
LEMMA EndStep ==
    ASSUME TypeOK', call' = Idle, saved' = <<>>,
           \A t \in Token : bank'[t][Self] = 0,
           CapHolds(receipt'),
           RegistryOK(merchants, pendingMerchantOwner, nextMerchantId)'
    PROVE  IInv'
<1>1. TokenCustody'
  BY DEF TokenCustody, Idle
<1>2. FeeWithinCap' /\ RoutingPinned' /\ LegsInOrder' /\ FrameOK' /\ SavedOK'
  BY DEF FeeWithinCap, CapHolds, RoutingPinned, LegsInOrder, FrameOK, SavedOK, Idle
<1>3. QED
  BY <1>1, <1>2 DEF IInv

LEMMA SendBackStep ==
    ASSUME IInv, SendBack
    PROVE  IInv'
<1>1. /\ call.pc = "refund"
      /\ Affords(bank, call.asset, Self, call.refund)
      /\ bank' = Moved(bank, call.asset, Self, call.payer, call.refund)
      /\ call' = Idle /\ saved' = <<>>
      /\ UNCHANGED <<registry, settings, rescue, receipt>>
  BY DEF SendBack
<1>2. /\ call.payer \in Holder /\ call.payer # Self /\ call.asset \in Asset
      /\ call.refund \in Nat /\ Self \in Holder /\ bank \in Balances(Asset, Holder)
      /\ call \in Frame
  BY <1>1, FrameFacts DEF Holder, IInv, TypeOK
<1>3. /\ bank' \in Balances(Asset, Holder)
      /\ bank'[call.asset][Self] = bank[call.asset][Self] - call.refund
      /\ \A a \in Asset : a # call.asset => bank'[a] = bank[a]
  BY <1>1, <1>2, MovedTyped
<1>4. Idle \in Frame
  BY DEF Idle, Frame, Asset, MaybeAddress, MerchantId
<1>5. TypeOK'
  BY <1>1, <1>3, <1>4 DEF IInv, TypeOK, registry, settings
<1>6. call.net = 0 /\ call.platformFee = 0 /\ call.merchantFee = 0
      /\ (call.asset # Native => call.refund = 0)
  BY <1>1 DEF IInv, LegsInOrder
<1>7. InFlight = call.refund
  BY <1>1, <1>2, <1>6 DEF InFlight
<1>8. ASSUME NEW t \in Token
      PROVE  bank'[t][Self] = 0
  <2>1. t \in Asset /\ t # Native /\ bank[t][Self] = IF call.asset = t THEN InFlight ELSE 0
    BY DEF IInv, TokenCustody, Asset
  <2>2. CASE call.asset = t
    BY <1>3, <1>6, <1>7, <2>1, <2>2
  <2>3. CASE call.asset # t
    BY <1>3, <2>1, <2>3
  <2>4. QED
    BY <2>2, <2>3
<1>9. CapHolds(receipt') /\ RegistryOK(merchants, pendingMerchantOwner, nextMerchantId)'
  BY <1>1 DEF IInv, FeeWithinCap, CapHolds, registry
<1>10. QED
  BY <1>1, <1>5, <1>8, <1>9, EndStep

LEMMA ClaimRescueStep ==
    ASSUME IInv, NEW claimant \in Payee, ClaimRescue(claimant)
    PROVE  IInv'
<1> DEFINE f == [Idle EXCEPT !.pc = "refund", !.payer = claimant, !.refund = rescue[claimant]]
<1>1. /\ Unlocked
      /\ rescue' = [rescue EXCEPT ![claimant] = 0]
      /\ call' = f /\ saved' = storage
      /\ UNCHANGED <<registry, settings, bank, receipt>>
  BY DEF ClaimRescue
<1>2. claimant \in Address /\ rescue[claimant] \in Nat /\ rescue' \in [Address -> Nat]
  BY <1>1 DEF IInv, TypeOK
<1>3. Idle \in Frame
  BY DEF Idle, Frame, Asset, MaybeAddress, MerchantId
<1>4. f \in Frame
  BY <1>2, <1>3 DEF Frame, MaybeAddress
<1>5. /\ f.pc = "refund" /\ f.asset = Native /\ f.merchantId = 0
      /\ f.payer = claimant /\ f.net = 0 /\ f.platformFee = 0 /\ f.merchantFee = 0
      /\ f.refund = rescue[claimant]
  BY DEF Idle
<1> HIDE DEF f
<1>6. f # Idle
  BY <1>5 DEF Idle
<1>7. TypeOK'
  BY <1>1, <1>2, <1>4, <1>6, SavedAtEntry DEF IInv, TypeOK, registry, settings
<1>8. TokenCustody'
  BY <1>1, <1>5, SavedAtEntry DEF TokenCustody, NoTokens, storage
<1>9. FeeWithinCap'
  BY <1>1 DEF IInv, FeeWithinCap
<1>10. RoutingPinned' /\ FrameOK' /\ LegsInOrder'
  BY <1>1, <1>2, <1>5 DEF RoutingPinned, FrameOK, LegsInOrder
<1>11. SavedOK' /\ RegistryOK(merchants, pendingMerchantOwner, nextMerchantId)'
  BY <1>1, SavedAtEntry DEF SavedOK, IInv, registry
<1>12. QED
  BY <1>7, <1>8, <1>9, <1>10, <1>11 DEF IInv

\* A revert lands in the storage saved at entry, which had the properties.
LEMMA RevertStep ==
    ASSUME IInv, Revert
    PROVE  IInv'
<1>1. call # Idle /\ saved # <<>> /\ saved \in Storage
  BY DEF IInv, TypeOK, Revert, Unlocked
<1>2. Idle \in Frame
  BY DEF Idle, Frame, Asset, MaybeAddress, MerchantId
<1>3. TypeOK'
  BY <1>1, <1>2 DEF Revert, TypeOK, Storage
<1>4. /\ CapHolds(saved.receipt)
      /\ RegistryOK(saved.merchants, saved.pendingMerchantOwner, saved.nextMerchantId)
      /\ NoTokens(saved.bank)
  BY <1>1 DEF IInv, SavedOK
<1>5. CapHolds(receipt') /\ RegistryOK(merchants, pendingMerchantOwner, nextMerchantId)'
  BY <1>4 DEF Revert
<1>6. \A t \in Token : bank'[t][Self] = 0
  BY <1>4 DEF Revert, NoTokens
<1>7. QED
  BY <1>3, <1>5, <1>6, EndStep DEF Revert

-----------------------------------------------------------------------------
LEMMA InitEstablishesIInv == Init => IInv
<1> SUFFICES ASSUME Init PROVE IInv
  OBVIOUS
<1>1. Idle \in Frame
  BY DEF Idle, Frame, Asset, MaybeAddress, MerchantId
<1>2. Unregistered \in Merchant
  BY DEF Unregistered, Merchant, MaybeAddress
<1>3. TypeOK
  <2>1. merchants \in [MerchantId -> Merchant]
    BY <1>2 DEF Init
  <2>2. pendingMerchantOwner \in [MerchantId -> MaybeAddress]
    BY DEF Init, MaybeAddress
  <2>3. nextMerchantId \in 1..(MaxMerchants + 1) /\ platformTreasury \in Address
    BY DEF Init
  <2>4. QED
    BY <1>1, <2>1, <2>2, <2>3 DEF Init, TypeOK
<1>4. TokenCustody
  BY DEF Init, TokenCustody, Idle, Asset
<1>5. FeeWithinCap /\ RoutingPinned /\ LegsInOrder /\ FrameOK /\ SavedOK
  BY DEF Init, FeeWithinCap, RoutingPinned, LegsInOrder, FrameOK, SavedOK, Idle
<1>6. RegistryOK(merchants, pendingMerchantOwner, nextMerchantId)
  BY DEF Init, RegistryOK, Unregistered
<1>7. QED
  BY <1>3, <1>4, <1>5, <1>6 DEF IInv

LEMMA NextKeepsIInv == IInv /\ [Next]_vars => IInv'
<1> SUFFICES ASSUME IInv, [Next]_vars PROVE IInv'
  OBVIOUS
<1>1. ASSUME Register PROVE IInv'
  BY <1>1, RegisterStep DEF Register
<1>2. ASSUME Manage PROVE IInv'
  BY <1>2, UpdateStep, ProposeStep, AcceptStep DEF Manage
<1>3. ASSUME Administer PROVE IInv'
  BY <1>3, AdministerStep
<1>4. ASSUME Pay PROVE IInv'
  BY <1>4, PayNativeStep, PayTokenStep DEF Pay
<1>5. ASSUME Settle PROVE IInv'
  BY <1>5, PullExactStep, SettleNetStep, CallCreditStep, CreditTakenStep,
     CreditCaughtStep, PlatformLegStep, MerchantLegStep, SendBackStep, RevertStep
     DEF Settle
<1>6. ASSUME NEW claimant \in Payee, ClaimRescue(claimant) PROVE IInv'
  BY <1>6, ClaimRescueStep
<1>7. ASSUME UNCHANGED vars PROVE IInv'
  <2>1. UNCHANGED <<registry, settings, rescue, bank, receipt, call, saved>>
    BY <1>7 DEF vars
  <2>2. TypeOK'
    BY <2>1 DEF IInv, TypeOK, registry, settings
  <2>3. QED
    BY <2>1, <2>2 DEF IInv, registry, TokenCustody, InFlight, FeeWithinCap, RoutingPinned,
       RegistryOK, LegsInOrder, FrameOK, SavedOK
<1>8. QED
  BY <1>1, <1>2, <1>3, <1>4, <1>5, <1>6, <1>7 DEF Next

LEMMA Invariance == Spec => []IInv
BY InitEstablishesIInv, NextKeepsIInv, PTL DEF Spec

\* The router's storage, frame and saved storage keep their types.
THEOREM RouterTypes == Spec => []TypeOK
<1>1. IInv => TypeOK
  BY DEF IInv
<1>2. QED
  BY <1>1, Invariance, PTL

\* The router keeps no token: at any moment it holds exactly the undelivered
\* legs of the payment in flight, for payToken with or without lanes.
THEOREM RouterTokenCustody == Spec => []TokenCustody
<1>1. IInv => TokenCustody
  BY DEF IInv
<1>2. QED
  BY <1>1, Invariance, PTL

\* No receipt charges more than the cap, whatever the fees are changed to.
THEOREM RouterFeeCap == Spec => []FeeWithinCap
<1>1. IInv => FeeWithinCap
  BY DEF IInv
<1>2. QED
  BY <1>1, Invariance, PTL

\* The routing a payment was validated with is the merchant's to the end.
THEOREM RouterRoutingPinned == Spec => []RoutingPinned
<1>1. IInv => RoutingPinned
  BY DEF IInv
<1>2. QED
  BY <1>1, Invariance, PTL

-----------------------------------------------------------------------------
(* The queued rescue money is in the router's account. *)

\* What the frame still owes in the native coin.
Due == IF call.asset = Native THEN InFlight ELSE 0

\* The storage a revert would restore is backed too, with nothing in flight.
SavedBacked == saved # <<>> => saved.bank[Native][Self] = SumFunction(saved.rescue)

LEMMA BackedForm == RescueBacked <=> bank[Native][Self] = SumFunction(rescue) + Due
BY DEF RescueBacked, Due

\* The amounts are natural numbers, and a quiet router owes nothing.
LEMMA DueFacts ==
    ASSUME IInv
    PROVE  /\ Due \in Nat /\ SumFunction(rescue) \in Nat /\ bank[Native][Self] \in Nat
           /\ Unlocked => Due = 0
           /\ call.asset = Native /\ call.pc # "pull" =>
                  Due = call.net + call.platformFee + call.merchantFee + call.refund
<1>1. call \in Frame /\ rescue \in [Address -> Nat] /\ bank \in Balances(Asset, Holder)
  BY DEF IInv, TypeOK
<1>2. SumFunction(rescue) \in Nat
  BY <1>1, SumNat
<1>3. bank[Native][Self] \in Nat
  BY <1>1 DEF Balances, Asset, Holder
<1>4. /\ call.net \in Nat /\ call.platformFee \in Nat /\ call.merchantFee \in Nat
      /\ call.refund \in Nat
  BY <1>1 DEF Frame
<1>5. Due \in Nat
  BY <1>4 DEF Due, InFlight
<1>6. Unlocked => Due = 0
  BY DEF Unlocked, Idle, Due, InFlight
<1>7. QED
  BY <1>2, <1>3, <1>4, <1>5, <1>6 DEF Due, InFlight

\* Steps that leave the money and the debt alone.
LEMMA NoMoneyMoves ==
    ASSUME RescueBacked, SavedBacked, bank'[Native] = bank[Native], rescue' = rescue,
           Due' = Due, saved' = saved
    PROVE  RescueBacked' /\ SavedBacked'
BY BackedForm DEF SavedBacked, RescueBacked, Due

\* A quiet router enters a function: the storage it saves is backed.
LEMMA EntryBacked ==
    ASSUME IInv, RescueBacked, Unlocked, saved' = storage
    PROVE  SavedBacked' /\ bank[Native][Self] = SumFunction(rescue)
<1>1. bank[Native][Self] = SumFunction(rescue)
  BY BackedForm, DueFacts
<1>2. QED
  BY <1>1 DEF SavedBacked, storage

\* A delivered leg leaves the account with its debt; a queued one becomes a
\* queued credit of the same amount.
LEMMA DeliveryBacked ==
    ASSUME IInv, IInv', RescueBacked, NEW to \in Address, NEW n \in Nat, Deliver(to, n),
           call.asset = Native => Due' = Due - n,
           call.asset # Native => Due' = 0 /\ Due = 0
    PROVE  RescueBacked'
<1>1. /\ rescue \in [Address -> Nat] /\ rescue' \in [Address -> Nat]
      /\ bank \in Balances(Asset, Holder)
      /\ Native \in Asset /\ call.asset \in Asset /\ Self \in Holder /\ to \in Holder /\ to # Self
  BY DEF IInv, TypeOK, Frame, Asset, Holder
<1>2. Due \in Nat /\ SumFunction(rescue) \in Nat /\ bank[Native][Self] \in Nat
  BY DueFacts
<1>3. bank[Native][Self] = SumFunction(rescue) + Due
  BY BackedForm
<1>4. CASE Affords(bank, call.asset, Self, n) /\ UNCHANGED rescue
             /\ bank' = Moved(bank, call.asset, Self, to, n)
  <2>1. /\ bank'[call.asset][Self] = bank[call.asset][Self] - n
        /\ \A a \in Asset : a # call.asset => bank'[a] = bank[a]
    BY <1>1, <1>4, MovedTyped
  <2>2. bank'[Native][Self] = SumFunction(rescue') + Due'
    BY <1>1, <1>2, <1>3, <1>4, <2>1
  <2>3. QED
    BY <2>2 DEF RescueBacked, Due
<1>5. CASE call.asset = Native /\ UNCHANGED bank
             /\ rescue'[to] = rescue[to] + n
             /\ \A a \in Address : a # to => rescue'[a] = rescue[a]
  <2>1. SumFunction(rescue') = SumFunction(rescue) + rescue'[to] - rescue[to]
    BY <1>1, <1>5, SumChange
  <2>2. bank'[Native][Self] = SumFunction(rescue') + Due'
    BY <1>1, <1>2, <1>3, <1>5, <2>1
  <2>3. QED
    BY <2>2 DEF RescueBacked, Due
<1>6. QED
  BY <1>1, <1>4, <1>5 DEF Deliver

\* A native payment brings in exactly what its legs and its refund take out.
LEMMA PayNativeBacked ==
    ASSUME IInv, IInv', RescueBacked, NEW buyer \in Buyer, NEW id \in MerchantId,
           NEW gross \in Gross, NEW excess \in Excess,
           PayNative(buyer, id, gross, excess)
    PROVE  RescueBacked' /\ SavedBacked'
<1> DEFINE e == Entered(id, Native, buyer, gross, excess)
           f == SplitFee(e, gross, merchants[id].feeBps)
<1>1. /\ MayPay(id) /\ Unlocked /\ Affords(bank, Native, buyer, gross + excess)
      /\ bank' = Moved(bank, Native, buyer, Self, gross + excess)
      /\ call' = f /\ saved' = storage /\ rescue' = rescue
  BY DEF PayNative, MayPay
<1>2. /\ e \in Frame /\ e.asset = Native /\ e.merchantId \in MerchantId /\ e.gross = gross
      /\ e.refund = excess
  <2>1. Native \in Asset /\ excess \in Nat
    BY DEF Asset
  <2>2. e \in Frame
    BY <1>1, <2>1, EnteredFrame
  <2>3. QED
    BY <2>2 DEF Entered
<1>3. merchants[id].feeBps \in Nat
  BY DEF IInv, TypeOK, Merchant
<1> HIDE DEF e
<1>4. /\ f \in Frame /\ f.pc = "net" /\ f.asset = Native /\ f.refund = excess
      /\ f.net + f.platformFee + f.merchantFee = gross
  BY <1>2, <1>3, SplitFrame DEF IInv
<1> HIDE DEF f
<1>5. Due' = gross + excess
  BY <1>1, <1>4 DEF Due, InFlight
<1>6. bank'[Native][Self] = bank[Native][Self] + (gross + excess)
  <2>1. /\ Native \in Asset /\ buyer \in Holder /\ Self \in Holder /\ buyer # Self
        /\ gross + excess \in Nat /\ bank \in Balances(Asset, Holder)
    BY DEF IInv, TypeOK, Holder, Asset
  <2>2. QED
    BY <1>1, <2>1, MovedTyped
<1>7. SavedBacked' /\ bank[Native][Self] = SumFunction(rescue)
  BY <1>1, EntryBacked
<1>8. bank'[Native][Self] = SumFunction(rescue') + Due'
  BY <1>1, <1>5, <1>6, <1>7
<1>9. QED
  BY <1>7, <1>8 DEF RescueBacked, Due

\* Tokens are another row of the bank.
LEMMA TokenStepBacked ==
    ASSUME IInv, IInv', RescueBacked, SavedBacked, PullExact \/ CreditTaken \/ CreditCaught
    PROVE  RescueBacked' /\ SavedBacked'
<1>1. /\ call.asset \in Token /\ call.asset # Native /\ call.pc \in {"pull", "credit"}
      /\ call \in Frame
  BY DEF IInv, LegsInOrder, TypeOK, Frame, Asset, PullExact, CreditTaken, CreditCaught
<1>2. rescue' = rescue /\ saved' = saved
  BY DEF PullExact, CreditTaken, CreditCaught
<1>3. call'.asset = call.asset
  BY <1>1 DEF PullExact, CreditTaken, CreditCaught, SplitFee, Frame
<1>4. Due = 0 /\ Due' = 0
  BY <1>1, <1>3 DEF Due
<1>5. ASSUME NEW from, NEW to, NEW n, bank' = Moved(bank, call.asset, from, to, n)
      PROVE  bank'[Native] = bank[Native]
  <2>1. bank \in Balances(Asset, Holder) /\ Native \in Asset
    BY DEF IInv, TypeOK, Asset
  <2>2. QED
    BY <1>1, <1>5, <2>1 DEF Moved, Balances
<1>6. bank'[Native] = bank[Native]
  BY <1>5 DEF PullExact, CreditTaken, CreditCaught
<1>7. QED
  BY <1>2, <1>4, <1>6, NoMoneyMoves

\* The legs that are delivered: the net, the platform's and the merchant's.
LEMMA LegBacked ==
    ASSUME IInv, IInv', RescueBacked, SavedBacked, SettleNet \/ PlatformLeg \/ MerchantLeg
    PROVE  RescueBacked' /\ SavedBacked'
<1>1. /\ call \in Frame /\ call.pc \in {"net", "platform", "merchant"}
      /\ call.payout \in Address /\ MerchantFeeDest \in Address /\ platformTreasury \in Address
      /\ call.net \in Nat /\ call.platformFee \in Nat /\ call.merchantFee \in Nat
      /\ call.refund \in Nat
  <2>1. call.pc \in {"net", "platform", "merchant"}
    BY DEF SettleNet, PlatformLeg, MerchantLeg
  <2>2. QED
    BY <2>1, FrameFacts DEF IInv, TypeOK
<1>2. saved' = saved
  BY DEF SettleNet, PlatformLeg, MerchantLeg
<1>3. call.asset = Native =>
          Due = call.net + call.platformFee + call.merchantFee + call.refund
  BY <1>1, DueFacts
<1>4. CASE SettleNet
  <2>1. Deliver(call.payout, call.net) /\ call' = [call EXCEPT !.pc = "platform", !.net = 0]
    BY <1>4 DEF SettleNet
  <2>2. /\ call'.asset = call.asset
        /\ call.asset = Native => Due' = call.platformFee + call.merchantFee + call.refund
    BY <1>1, <2>1 DEF Due, InFlight, Frame
  <2>3. QED
    BY <1>1, <1>2, <1>3, <2>1, <2>2, DeliveryBacked DEF Due, SavedBacked
<1>5. CASE PlatformLeg
  <2>1. /\ Deliver(platformTreasury, call.platformFee) /\ call.net = 0
        /\ call' = [call EXCEPT !.pc = "merchant", !.platformFee = 0]
    BY <1>5 DEF PlatformLeg, IInv, LegsInOrder
  <2>2. /\ call'.asset = call.asset
        /\ call.asset = Native => Due' = call.net + call.merchantFee + call.refund
    BY <1>1, <2>1 DEF Due, InFlight, Frame
  <2>3. QED
    BY <1>1, <1>2, <1>3, <2>1, <2>2, DeliveryBacked DEF Due, SavedBacked
<1>6. CASE MerchantLeg
  <2>1. /\ Deliver(MerchantFeeDest, call.merchantFee)
        /\ call' = [call EXCEPT !.pc = "refund", !.merchantFee = 0]
    BY <1>6 DEF MerchantLeg
  <2>2. /\ call'.asset = call.asset
        /\ call.asset = Native => Due' = call.net + call.platformFee + call.refund
    BY <1>1, <2>1 DEF Due, InFlight, Frame
  <2>3. QED
    BY <1>1, <1>2, <1>3, <2>1, <2>2, DeliveryBacked DEF Due, SavedBacked
<1>7. QED
  BY <1>4, <1>5, <1>6

\* The last leg takes the rest of the debt with it.
LEMMA SendBackBacked ==
    ASSUME IInv, IInv', RescueBacked, SavedBacked, SendBack
    PROVE  RescueBacked' /\ SavedBacked'
<1>1. /\ call.pc = "refund" /\ Affords(bank, call.asset, Self, call.refund)
      /\ bank' = Moved(bank, call.asset, Self, call.payer, call.refund)
      /\ call' = Idle /\ saved' = <<>> /\ rescue' = rescue
  BY DEF SendBack
<1>2. /\ call.payer \in Holder /\ call.payer # Self /\ call.asset \in Asset
      /\ call.refund \in Nat /\ Self \in Holder /\ Native \in Asset
      /\ bank \in Balances(Asset, Holder) /\ call \in Frame
  BY <1>1, FrameFacts DEF Holder, IInv, TypeOK, Asset
<1>3. /\ bank'[call.asset][Self] = bank[call.asset][Self] - call.refund
      /\ \A a \in Asset : a # call.asset => bank'[a] = bank[a]
  BY <1>1, <1>2, MovedTyped
<1>4. call.net = 0 /\ call.platformFee = 0 /\ call.merchantFee = 0
  BY <1>1 DEF IInv, LegsInOrder
<1>5. Due = IF call.asset = Native THEN call.refund ELSE 0
  BY <1>1, <1>2, <1>4, DueFacts DEF Due
<1>6. Due' = 0
  BY <1>1 DEF Due, InFlight, Idle
<1>7. bank[Native][Self] = SumFunction(rescue) + Due
  BY BackedForm
<1>8. SumFunction(rescue) \in Nat /\ bank[Native][Self] \in Nat
  BY DueFacts
<1>9. bank'[Native][Self] = SumFunction(rescue') + Due'
  BY <1>1, <1>2, <1>3, <1>5, <1>6, <1>7, <1>8
<1>10. QED
  BY <1>1, <1>9 DEF RescueBacked, Due, SavedBacked

\* A claimed credit becomes the debt of the frame that pays it.
LEMMA ClaimBacked ==
    ASSUME IInv, IInv', RescueBacked, NEW claimant \in Payee, ClaimRescue(claimant)
    PROVE  RescueBacked' /\ SavedBacked'
<1>1. /\ Unlocked /\ bank' = bank /\ saved' = storage /\ claimant \in Address
      /\ call' = [Idle EXCEPT !.pc = "refund", !.payer = claimant,
                              !.refund = rescue[claimant]]
  BY DEF ClaimRescue
<1>2. /\ rescue \in [Address -> Nat] /\ rescue' \in [Address -> Nat]
      /\ rescue'[claimant] = 0
      /\ \A a \in Address : a # claimant => rescue'[a] = rescue[a]
  BY <1>1 DEF IInv, TypeOK, ClaimRescue
<1>3. SumFunction(rescue') = SumFunction(rescue) + rescue'[claimant] - rescue[claimant]
  BY <1>1, <1>2, SumChange
<1>4. Due' = rescue[claimant]
  BY <1>1, <1>2 DEF Due, InFlight, Idle
<1>5. SavedBacked' /\ bank[Native][Self] = SumFunction(rescue)
  BY <1>1, EntryBacked
<1>6. SumFunction(rescue) \in Nat /\ rescue[claimant] \in Nat
  BY <1>1, <1>2, DueFacts
<1>7. bank'[Native][Self] = SumFunction(rescue') + Due'
  BY <1>1, <1>2, <1>3, <1>4, <1>5, <1>6
<1>8. QED
  BY <1>5, <1>7 DEF RescueBacked, Due

\* A revert lands in the storage of the entry, which was backed.
LEMMA RevertBacked ==
    ASSUME IInv, SavedBacked, Revert
    PROVE  RescueBacked' /\ SavedBacked'
<1>1. saved # <<>>
  BY DEF IInv, TypeOK, Revert, Unlocked
<1>2. bank'[Native][Self] = SumFunction(rescue') /\ Due' = 0 /\ saved' = <<>>
  BY <1>1 DEF SavedBacked, Revert, Due, InFlight, Idle
<1>3. rescue' = saved.rescue /\ saved \in Storage
  BY <1>1 DEF Revert, IInv, TypeOK
<1>4. SumFunction(rescue') \in Nat
  BY <1>3, SumNat DEF Storage
<1>5. bank'[Native][Self] = SumFunction(rescue') + Due'
  BY <1>2, <1>4
<1>6. QED
  BY <1>2, <1>5 DEF RescueBacked, Due, SavedBacked

LEMMA NextKeepsBacked ==
    ASSUME IInv, IInv', RescueBacked, SavedBacked, [Next]_vars
    PROVE  RescueBacked' /\ SavedBacked'
<1>1. ASSUME UNCHANGED <<bank, rescue, call, saved>> PROVE RescueBacked' /\ SavedBacked'
  BY <1>1, NoMoneyMoves DEF Due, InFlight
<1>2. CASE Register \/ Manage \/ Administer
  BY <1>1, <1>2 DEF Register, Manage, Administer, RegisterMerchant, UpdateMerchant,
     ProposeMerchantOwner, AcceptMerchantOwner
<1>3. ASSUME NEW buyer \in Buyer, NEW id \in MerchantId, NEW gross \in Gross,
             NEW token \in Token, PayToken(buyer, id, token, gross)
      PROVE  RescueBacked' /\ SavedBacked'
  <2>1. /\ Unlocked /\ saved' = storage /\ bank' = bank /\ rescue' = rescue
        /\ call'.asset = token
    BY <1>3 DEF PayToken, MayPay, Entered
  <2>2. SavedBacked' /\ bank[Native][Self] = SumFunction(rescue)
    BY <2>1, EntryBacked
  <2>3. Due' = 0 /\ SumFunction(rescue) \in Nat
    BY <2>1, DueFacts DEF Due
  <2>4. bank'[Native][Self] = SumFunction(rescue') + Due'
    BY <2>1, <2>2, <2>3
  <2>5. QED
    BY <2>2, <2>4 DEF RescueBacked, Due
<1>4. CASE Pay
  BY <1>3, <1>4, PayNativeBacked DEF Pay
<1>5. CASE CallCredit
  <2>1. /\ call' = [call EXCEPT !.pc = "credit"] /\ call.asset # Native
        /\ UNCHANGED <<rescue, bank, saved>> /\ call \in Frame
    BY <1>5 DEF CallCredit, IInv, TypeOK
  <2>2. Due' = Due
    BY <2>1 DEF Due, Frame
  <2>3. QED
    BY <2>1, <2>2, NoMoneyMoves
<1>6. CASE Settle
  BY <1>5, <1>6, TokenStepBacked, LegBacked, SendBackBacked, RevertBacked DEF Settle
<1>7. ASSUME NEW claimant \in Payee, ClaimRescue(claimant)
      PROVE  RescueBacked' /\ SavedBacked'
  BY <1>7, ClaimBacked
<1>8. CASE UNCHANGED vars
  BY <1>1, <1>8 DEF vars
<1>9. QED
  BY <1>2, <1>4, <1>6, <1>7, <1>8 DEF Next

LEMMA InitBacked == Init => RescueBacked /\ SavedBacked
<1> SUFFICES ASSUME Init PROVE RescueBacked /\ SavedBacked
  OBVIOUS
<1>1. bank[Native][Self] = 0 /\ Due = 0 /\ saved = <<>>
  BY DEF Init, Due, InFlight, Idle, Asset
<1>2. rescue \in [Address -> Int] /\ \A a \in Address : rescue[a] = 0
  BY DEF Init
<1>3. SumFunction(rescue) = 0
  BY <1>2, SumZero
<1>4. QED
  BY <1>1, <1>3, BackedForm DEF SavedBacked

\* Of the native coin the router holds exactly the queued rescue money and the
\* legs in flight: every queued payee can be paid, whatever ran inside a payment
\* and whichever payments reverted.
THEOREM RouterRescueBacked == Spec => []RescueBacked
<1> DEFINE Good == IInv /\ RescueBacked /\ SavedBacked
<1>1. Init => Good
  BY InitEstablishesIInv, InitBacked
<1>2. Good /\ [Next]_vars => Good'
  BY NextKeepsIInv, NextKeepsBacked
<1>3. Good => RescueBacked
  OBVIOUS
<1>4. QED
  BY <1>1, <1>2, <1>3, PTL DEF Spec

-----------------------------------------------------------------------------
(* Payments are atomic.  What a payment in flight has done so far is not said by  *)
(* the frame alone: the treasury may have changed since its leg was pushed.  So     *)
(* the invariant says that some payees got the legs which the frame no longer       *)
(* owes.  The lemmas speak of one row of a ledger, before the payment and now.      *)

\* A fee within the cap is at most the capped portion.
LEMMA FeeBelowPortion ==
    ASSUME NEW n \in Nat, NEW x \in Nat, NEW d \in Nat \ {0}, n * d <= x
    PROVE  n <= x \div d
<1> DEFINE q == x \div d
<1>1. q \in Nat /\ x < d * (q + 1)
  OBVIOUS
<1> HIDE DEF q
<1>2. SUFFICES ASSUME n >= q + 1 PROVE FALSE
  BY <1>1 DEF q
<1>3. d * (q + 1) <= d * n
  BY <1>1, <1>2, TimesMonotone
<1>4. d * n = n * d /\ d * n \in Nat /\ d * (q + 1) \in Nat
  BY <1>1
<1>5. QED
  BY <1>1, <1>3, <1>4

\* The legs of the frame f are those of a fair split, up to the one it has come to.
LegsOf(f, p, m) ==
    /\ (p + m) * FEE_DENOMINATOR <= f.gross * MAX_FEE_BPS
    /\ f.net = IF f.pc \in {"net", "credit"} THEN f.gross - p - m ELSE 0
    /\ f.platformFee = IF f.pc \in {"net", "credit", "platform"} THEN p ELSE 0
    /\ f.merchantFee = IF f.pc # "refund" THEN m ELSE 0

\* What the payees have got of those legs.
PaidOut(f, p, m, payee, treasury, dest, h) ==
      (IF h = payee THEN f.gross - p - m - f.net ELSE 0)
    + (IF h = treasury THEN p - f.platformFee ELSE 0)
    + (IF h = dest THEN m - f.merchantFee ELSE 0)

TalliedTo(f, old, new, H, p, m, payee, treasury, dest) ==
    /\ LegsOf(f, p, m)
    /\ \A h \in H : new[h] = old[h] - (IF h = f.payer THEN f.gross + f.refund ELSE 0)
                                + PaidOut(f, p, m, payee, treasury, dest, h)

\* The row of holders H was old when the payment began, and new is what the legs paid
\* since then have made of it.
Tallied(f, old, new, H) ==
    /\ old[f.payer] >= f.gross
    /\ \E p, m \in Nat, payee, treasury, dest \in H :
          TalliedTo(f, old, new, H, p, m, payee, treasury, dest)

\* After the split no leg is paid.
LEMMA SplitTallied ==
    ASSUME NEW f \in Frame, f.pc = "net", CapHolds(ReceiptOf(f)),
           f.net + f.platformFee + f.merchantFee = f.gross,
           NEW H, f.payer \in H, NEW old \in [H -> Nat], NEW new \in [H -> Nat],
           old[f.payer] >= f.gross,
           \A h \in H : new[h] = old[h] - (IF h = f.payer THEN f.gross + f.refund ELSE 0)
    PROVE  Tallied(f, old, new, H)
<1>1. /\ f.net \in Nat /\ f.platformFee \in Nat /\ f.merchantFee \in Nat
      /\ f.gross \in Nat /\ f.refund \in Nat
  BY DEF Frame
<1>2. f.net = f.gross - f.platformFee - f.merchantFee
  BY <1>1
<1>3. LegsOf(f, f.platformFee, f.merchantFee)
  BY <1>2 DEF LegsOf, CapHolds, ReceiptOf
<1>4. ASSUME NEW h \in H
      PROVE  PaidOut(f, f.platformFee, f.merchantFee, f.payer, f.payer, f.payer, h) = 0
  BY <1>1, <1>2 DEF PaidOut
<1>5. \A h \in H : old[h] \in Nat /\ new[h] \in Nat
  OBVIOUS
<1>6. ASSUME NEW h \in H
      PROVE  new[h] = old[h] - (IF h = f.payer THEN f.gross + f.refund ELSE 0)
                   + PaidOut(f, f.platformFee, f.merchantFee, f.payer, f.payer, f.payer, h)
  BY <1>1, <1>4, <1>5
<1>7. TalliedTo(f, old, new, H, f.platformFee, f.merchantFee, f.payer, f.payer, f.payer)
  BY ONLY <1>3, <1>6 DEF TalliedTo
<1>8. QED
  BY <1>1, <1>7 DEF Tallied

\* The frame g is f with the leg that it has come to paid, which is this much.
LegPaid(f, g) ==
    /\ g.payer = f.payer /\ g.gross = f.gross /\ g.refund = f.refund
    /\ \/ /\ f.pc \in {"net", "credit"} /\ g.pc = "platform"
          /\ g.net = 0 /\ g.platformFee = f.platformFee /\ g.merchantFee = f.merchantFee
       \/ /\ f.pc = "platform" /\ g.pc = "merchant"
          /\ g.net = f.net /\ g.platformFee = 0 /\ g.merchantFee = f.merchantFee
       \/ /\ f.pc = "merchant" /\ g.pc = "refund"
          /\ g.net = f.net /\ g.platformFee = f.platformFee /\ g.merchantFee = 0

LegOf(f, g) ==
    f.net - g.net + f.platformFee - g.platformFee + f.merchantFee - g.merchantFee

Gains(old, new, H, to, n) ==
    \A h \in H : new[h] = old[h] + (IF h = to THEN n ELSE 0)

\* A leg that is paid is tallied, to whoever was read as its payee when it was.
LEMMA LegTallied ==
    ASSUME NEW f \in Frame, NEW g \in Frame, NEW H, NEW to \in H,
           NEW old \in [H -> Nat], NEW new \in [H -> Nat], NEW later \in [H -> Nat],
           Tallied(f, old, new, H), LegPaid(f, g), Gains(new, later, H, to, LegOf(f, g))
    PROVE  Tallied(g, old, later, H)
<1>1. PICK p \in Nat, m \in Nat, payee \in H, treasury \in H, dest \in H :
          TalliedTo(f, old, new, H, p, m, payee, treasury, dest)
  BY DEF Tallied
<1>2. /\ f.gross \in Nat /\ f.refund \in Nat
      /\ \A h \in H : old[h] \in Nat /\ new[h] \in Nat /\ later[h] \in Nat
  BY DEF Frame
<1>3. LegsOf(f, p, m) /\ LegsOf(g, p, m)
  BY <1>1 DEF LegsOf, TalliedTo, LegPaid
<1>4. ASSUME NEW a \in H, NEW t \in H, NEW d \in H,
             \A h \in H : PaidOut(g, p, m, a, t, d, h) =
                 PaidOut(f, p, m, payee, treasury, dest, h) + (later[h] - new[h])
      PROVE  Tallied(g, old, later, H)
  <2>1. ASSUME NEW h \in H PROVE PaidOut(f, p, m, payee, treasury, dest, h) \in Int
    <3>1. f.net \in Int /\ f.platformFee \in Int /\ f.merchantFee \in Int
      BY DEF Frame
    <3>2. QED
      BY <1>2, <3>1 DEF PaidOut
  <2>2. ASSUME NEW h \in H
        PROVE  later[h] = old[h] - (IF h = g.payer THEN g.gross + g.refund ELSE 0)
                              + PaidOut(g, p, m, a, t, d, h)
    <3>1. new[h] = old[h] - (IF h = f.payer THEN f.gross + f.refund ELSE 0)
                       + PaidOut(f, p, m, payee, treasury, dest, h)
      BY <1>1 DEF TalliedTo
    <3>2. PaidOut(g, p, m, a, t, d, h) =
              PaidOut(f, p, m, payee, treasury, dest, h) + (later[h] - new[h])
      BY <1>4
    <3>3. QED
      BY <1>2, <2>1, <3>1, <3>2 DEF LegPaid
  <2>3. TalliedTo(g, old, later, H, p, m, a, t, d)
    BY <1>3, <2>2 DEF TalliedTo
  <2>4. old[g.payer] >= g.gross
    BY DEF Tallied, LegPaid
  <2>5. QED
    BY <2>3, <2>4 DEF Tallied
<1>5. CASE f.pc \in {"net", "credit"}
  <2>1. /\ f.net = f.gross - p - m /\ g.net = 0
        /\ f.platformFee = p /\ g.platformFee = p
        /\ f.merchantFee = m /\ g.merchantFee = m
    BY <1>3, <1>5 DEF LegsOf, LegPaid
  <2>2. ASSUME NEW h \in H
        PROVE  PaidOut(g, p, m, to, treasury, dest, h) = PaidOut(f, p, m, payee, treasury, dest, h)
                   + (later[h] - new[h])
    <3>1. LegOf(f, g) = f.gross - p - m
      BY ONLY <1>2, <2>1, p \in Nat, m \in Nat DEF LegOf
    <3>2. later[h] = new[h] + (IF h = to THEN f.gross - p - m ELSE 0)
      BY <3>1 DEF Gains
    <3>3. g.gross = f.gross
      BY DEF LegPaid
    <3>4. QED
      BY ONLY <1>2, <2>1, <3>2, p \in Nat, m \in Nat, h \in H, <3>3 DEF PaidOut
  <2>3. QED
    BY <1>4, <2>2
<1>6. CASE f.pc = "platform"
  <2>1. /\ f.net = 0 /\ g.net = 0 /\ f.platformFee = p /\ g.platformFee = 0
        /\ f.merchantFee = m /\ g.merchantFee = m
    BY <1>3, <1>6 DEF LegsOf, LegPaid
  <2>2. ASSUME NEW h \in H
        PROVE  PaidOut(g, p, m, payee, to, dest, h) = PaidOut(f, p, m, payee, treasury, dest, h)
                   + (later[h] - new[h])
    <3>1. LegOf(f, g) = p
      BY ONLY <2>1, p \in Nat, m \in Nat DEF LegOf
    <3>2. later[h] = new[h] + (IF h = to THEN p ELSE 0)
      BY <3>1 DEF Gains
    <3>3. g.gross = f.gross
      BY DEF LegPaid
    <3>4. QED
      BY ONLY <1>2, <2>1, <3>2, p \in Nat, m \in Nat, h \in H, <3>3 DEF PaidOut
  <2>3. QED
    BY <1>4, <2>2
<1>7. CASE f.pc = "merchant"
  <2>1. /\ f.net = 0 /\ g.net = 0 /\ f.platformFee = 0 /\ g.platformFee = 0
        /\ f.merchantFee = m /\ g.merchantFee = 0
    BY <1>3, <1>7 DEF LegsOf, LegPaid
  <2>2. ASSUME NEW h \in H
        PROVE  PaidOut(g, p, m, payee, treasury, to, h) = PaidOut(f, p, m, payee, treasury, dest, h)
                   + (later[h] - new[h])
    <3>1. LegOf(f, g) = m
      BY ONLY <2>1, p \in Nat, m \in Nat DEF LegOf
    <3>2. later[h] = new[h] + (IF h = to THEN m ELSE 0)
      BY <3>1 DEF Gains
    <3>3. g.gross = f.gross
      BY DEF LegPaid
    <3>4. QED
      BY ONLY <1>2, <2>1, <3>2, p \in Nat, m \in Nat, h \in H, <3>3 DEF PaidOut
  <2>3. QED
    BY <1>4, <2>2
<1>8. QED
  BY <1>5, <1>6, <1>7 DEF LegPaid

\* The row when one payment has been made.
MaxFees(gross) == (gross * MAX_FEE_BPS) \div FEE_DENOMINATOR

EndedTo(f, old, new, H, p, m, payee, treasury, dest) ==
    /\ (p + m) * FEE_DENOMINATOR <= f.gross * MAX_FEE_BPS
    /\ \A h \in H : new[h] = old[h] - (IF h = f.payer THEN f.gross ELSE 0)
                                + (IF h = payee THEN f.gross - p - m ELSE 0)
                                + (IF h = treasury THEN p ELSE 0) + (IF h = dest THEN m ELSE 0)

\* With the refund sent the row is as one payment leaves it.
LEMMA EndTallied ==
    ASSUME NEW f \in Frame, f.pc = "refund", NEW H, f.payer \in H,
           NEW old \in [H -> Nat], NEW new \in [H -> Nat], NEW later \in [H -> Nat],
           Tallied(f, old, new, H), Gains(new, later, H, f.payer, f.refund)
    PROVE  \E p, m \in 0..MaxFees(f.gross), payee, treasury, dest \in H :
               EndedTo(f, old, later, H, p, m, payee, treasury, dest)
<1>1. PICK p \in Nat, m \in Nat, payee \in H, treasury \in H, dest \in H :
          TalliedTo(f, old, new, H, p, m, payee, treasury, dest)
  BY DEF Tallied
<1>2. /\ f.gross \in Nat /\ f.refund \in Nat
      /\ \A h \in H : old[h] \in Nat /\ new[h] \in Nat /\ later[h] \in Nat
  BY DEF Frame
<1>3. /\ f.net = 0 /\ f.platformFee = 0 /\ f.merchantFee = 0
      /\ (p + m) * FEE_DENOMINATOR <= f.gross * MAX_FEE_BPS
  BY <1>1 DEF LegsOf, TalliedTo
<1>4. ASSUME NEW h \in H
      PROVE  later[h] = old[h] - (IF h = f.payer THEN f.gross ELSE 0)
                        + (IF h = payee THEN f.gross - p - m ELSE 0)
                        + (IF h = treasury THEN p ELSE 0) + (IF h = dest THEN m ELSE 0)
  <2>1. later[h] = new[h] + (IF h = f.payer THEN f.refund ELSE 0)
    BY DEF Gains
  <2>2. new[h] = old[h] - (IF h = f.payer THEN f.gross + f.refund ELSE 0)
                     + PaidOut(f, p, m, payee, treasury, dest, h)
    BY <1>1 DEF TalliedTo
  <2>3. QED
    BY ONLY <1>2, <1>3, <2>1, <2>2, p \in Nat, m \in Nat, h \in H DEF PaidOut
<1>5. p + m <= MaxFees(f.gross)
  <2> DEFINE x == f.gross * MAX_FEE_BPS
  <2>1. x \in Nat /\ (p + m) * FEE_DENOMINATOR <= x
    BY <1>2, <1>3
  <2> HIDE DEF x
  <2>a. p + m \in Nat /\ FEE_DENOMINATOR \in Nat \ {0}
    BY RouterAssumption
  <2>2. p + m <= x \div FEE_DENOMINATOR
    BY ONLY <2>1, <2>a, FeeBelowPortion
  <2>3. QED
    BY <2>2 DEF x, MaxFees
<1>6. p \in 0..MaxFees(f.gross) /\ m \in 0..MaxFees(f.gross)
  <2>1. MaxFees(f.gross) \in Int
    BY <1>2 DEF MaxFees
  <2>2. QED
    BY ONLY <1>5, <2>1, p \in Nat, m \in Nat
<1>7. EndedTo(f, old, later, H, p, m, payee, treasury, dest)
  BY ONLY <1>3, <1>4 DEF EndedTo
<1>8. QED
  BY <1>6, <1>7

-----------------------------------------------------------------------------
(* The holdings of the router's world. *)

Party == Address \cup {Lanes}

\* What a holder has of an asset, a credit in the rescue queue included.
HoldingsOf(b, r) ==
    [asset \in Asset |-> [h \in Party |->
        b[asset][h] + (IF asset = Native /\ h # Lanes THEN r[h] ELSE 0)]]

\* A claim of rescue money owes it; a payment before its pull has moved nothing.
RowNow(f, old, new) ==
    IF f.merchantId = 0
    THEN \A h \in Party : new[h] = old[h] - (IF h = f.payer THEN f.refund ELSE 0)
    ELSE /\ f.gross \in Gross
         /\ IF f.pc = "pull" THEN new = old ELSE Tallied(f, old, new, Party)

\* Since the function in flight was entered, only it has moved money.
Ledger ==
    LET before == HoldingsOf(saved.bank, saved.rescue)
        now == HoldingsOf(bank, rescue)
    IN  saved # <<>> =>
            /\ \A asset \in Asset : asset # call.asset => now[asset] = before[asset]
            /\ RowNow(call, before[call.asset], now[call.asset])

LEMMA HoldingsTyped ==
    ASSUME NEW b \in Balances(Asset, Holder), NEW r \in [Address -> Nat]
    PROVE  /\ HoldingsOf(b, r) \in [Asset -> [Party -> Nat]]
           /\ \A asset \in Asset, h \in Party : HoldingsOf(b, r)[asset][h] =
                  b[asset][h] + (IF asset = Native /\ h # Lanes THEN r[h] ELSE 0)
<1>1. ASSUME NEW asset \in Asset, NEW h \in Party
      PROVE  b[asset][h] + (IF asset = Native /\ h # Lanes THEN r[h] ELSE 0) \in Nat
  <2>1. b[asset][h] \in Nat
    BY DEF Balances, Party, Holder
  <2>2. h # Lanes => r[h] \in Nat
    BY DEF Party
  <2>3. QED
    BY <2>1, <2>2
<1>2. QED
  BY <1>1 DEF HoldingsOf

\* The refinement mapping reads the holdings now or at the entry.
LEMMA WealthReads ==
    /\ call = Idle => Wealth = HoldingsOf(bank, rescue)
    /\ call # Idle => Wealth = HoldingsOf(saved.bank, saved.rescue)
BY DEF Wealth, HoldingsOf, Party

\* The holder to has n more of an asset, and nothing else has changed.
Enriches(b, r, c, q, asset, to, n) ==
    /\ \A a \in Asset : a # asset => HoldingsOf(c, q)[a] = HoldingsOf(b, r)[a]
    /\ Gains(HoldingsOf(b, r)[asset], HoldingsOf(c, q)[asset], Party, to, n)

\* A transfer from the router enriches the one who gets it.
LEMMA MovedOut ==
    ASSUME NEW b \in Balances(Asset, Holder), NEW r \in [Address -> Nat], NEW asset \in Asset,
           NEW to \in Party, NEW n \in Nat, Affords(b, asset, Self, n)
    PROVE  Enriches(b, r, Moved(b, asset, Self, to, n), r, asset, to, n)
<1> DEFINE c == Moved(b, asset, Self, to, n)
<1>1. Self \in Holder /\ to \in Holder /\ to # Self /\ \A h \in Party : h \in Holder /\ h # Self
  BY DEF Holder, Party
<1>2. /\ c \in Balances(Asset, Holder)
      /\ c[asset][to] = b[asset][to] + n
      /\ \A h \in Holder : h \notin {Self, to} => c[asset][h] = b[asset][h]
      /\ \A a \in Asset : a # asset => c[a] = b[a]
  BY <1>1, MovedTyped
<1> HIDE DEF c
<1>3. ASSUME NEW a \in Asset, a # asset
      PROVE  HoldingsOf(c, r)[a] = HoldingsOf(b, r)[a]
  BY <1>2, <1>3 DEF HoldingsOf
<1>4. ASSUME NEW h \in Party
      PROVE  HoldingsOf(c, r)[asset][h] =
                 HoldingsOf(b, r)[asset][h] + (IF h = to THEN n ELSE 0)
  <2>1. b[asset][h] \in Nat /\ (h # Lanes => r[h] \in Nat)
    BY <1>1 DEF Balances, Party
  <2>2. c[asset][h] = b[asset][h] + (IF h = to THEN n ELSE 0)
    BY <1>1, <1>2, <2>1
  <2>3. QED
    BY <1>2, <2>1, <2>2, HoldingsTyped
<1>5. QED
  BY <1>3, <1>4 DEF c, Enriches, Gains

\* A pull takes it from the payer.
LEMMA MovedIn ==
    ASSUME NEW b \in Balances(Asset, Holder), NEW r \in [Address -> Nat], NEW asset \in Asset,
           NEW from \in Party, NEW n \in Nat, Affords(b, asset, from, n)
    PROVE  LET c == Moved(b, asset, from, Self, n)
           IN  /\ \A a \in Asset : a # asset => HoldingsOf(c, r)[a] = HoldingsOf(b, r)[a]
               /\ \A h \in Party : HoldingsOf(c, r)[asset][h] =
                      HoldingsOf(b, r)[asset][h] - (IF h = from THEN n ELSE 0)
               /\ HoldingsOf(b, r)[asset][from] >= n
<1> DEFINE c == Moved(b, asset, from, Self, n)
<1>1. /\ Self \in Holder /\ from \in Holder /\ from # Self
      /\ \A h \in Party : h \in Holder /\ h # Self
  BY DEF Holder, Party
<1>2. /\ c \in Balances(Asset, Holder)
      /\ c[asset][from] = b[asset][from] - n
      /\ \A h \in Holder : h \notin {from, Self} => c[asset][h] = b[asset][h]
      /\ \A a \in Asset : a # asset => c[a] = b[a]
  BY <1>1, MovedTyped
<1>3. b[asset][from] >= n
  BY DEF Affords
<1> HIDE DEF c
<1>4. ASSUME NEW a \in Asset, a # asset
      PROVE  HoldingsOf(c, r)[a] = HoldingsOf(b, r)[a]
  BY <1>2, <1>4 DEF HoldingsOf
<1>5. ASSUME NEW h \in Party
      PROVE  HoldingsOf(c, r)[asset][h] =
                 HoldingsOf(b, r)[asset][h] - (IF h = from THEN n ELSE 0)
  <2>1. b[asset][h] \in Nat /\ (h # Lanes => r[h] \in Nat)
    BY <1>1 DEF Balances, Party
  <2>2. c[asset][h] = b[asset][h] - (IF h = from THEN n ELSE 0)
    BY <1>1, <1>2, <2>1
  <2>3. QED
    BY <1>2, <2>1, <2>2, HoldingsTyped
<1>6. HoldingsOf(b, r)[asset][from] >= n
  <2>1. b[asset][from] \in Nat /\ (from # Lanes => r[from] \in Nat)
    BY <1>1 DEF Balances, Party
  <2>2. QED
    BY <1>3, <2>1, HoldingsTyped
<1>7. QED
  BY <1>4, <1>5, <1>6 DEF c

\* So does a delivered leg, whether it is pushed or queued.
LEMMA DeliveredOut ==
    ASSUME IInv, IInv', NEW to \in Address, NEW n \in Nat, Deliver(to, n)
    PROVE  Enriches(bank, rescue, bank', rescue', call.asset, to, n)
<1>1. /\ bank \in Balances(Asset, Holder) /\ bank' \in Balances(Asset, Holder)
      /\ rescue \in [Address -> Nat] /\ rescue' \in [Address -> Nat]
      /\ call.asset \in Asset /\ to \in Party /\ to # Lanes
  BY DEF IInv, TypeOK, Frame, Party
<1>2. CASE Affords(bank, call.asset, Self, n) /\ rescue' = rescue
           /\ bank' = Moved(bank, call.asset, Self, to, n)
  BY <1>1, <1>2, MovedOut
<1>3. CASE call.asset = Native /\ bank' = bank /\ rescue' = [rescue EXCEPT ![to] = @ + n]
  <2>1. ASSUME NEW a \in Asset, a # Native
        PROVE  HoldingsOf(bank', rescue')[a] = HoldingsOf(bank, rescue)[a]
    BY <1>3, <2>1 DEF HoldingsOf
  <2>2. ASSUME NEW h \in Party
        PROVE  HoldingsOf(bank', rescue')[Native][h] =
                   HoldingsOf(bank, rescue)[Native][h] + (IF h = to THEN n ELSE 0)
    <3>1. bank[Native][h] \in Nat /\ Native \in Asset
      BY <1>1 DEF Balances, Party, Holder, Asset
    <3>2. h # Lanes => h \in Address /\ rescue[h] \in Nat
                         /\ rescue'[h] = rescue[h] + (IF h = to THEN n ELSE 0)
      BY <1>1, <1>3 DEF Party
    <3>3. HoldingsOf(bank', rescue')[Native][h] = bank'[Native][h]
              + (IF h # Lanes THEN rescue'[h] ELSE 0)
      BY <1>1, <3>1, HoldingsTyped
    <3>4. HoldingsOf(bank, rescue)[Native][h] = bank[Native][h]
              + (IF h # Lanes THEN rescue[h] ELSE 0)
      BY <1>1, <3>1, HoldingsTyped
    <3>5. QED
      BY <1>1, <1>3, <3>1, <3>2, <3>3, <3>4
  <2>3. QED
    BY <1>3, <2>1, <2>2 DEF Enriches, Gains
<1>4. QED
  BY <1>2, <1>3 DEF Deliver

\* Steps that leave the money alone.
LEMMA LedgerStands ==
    ASSUME Ledger, UNCHANGED <<bank, rescue, call, saved>>
    PROVE  Ledger' /\ Wealth' = Wealth
BY DEF Ledger, Wealth

\* A function that is entered has the storage of its entry, from which the wealth is read.
LEMMA EntryMapped ==
    ASSUME Unlocked, call' # Idle, saved' = storage
    PROVE  /\ Wealth' = Wealth
           /\ HoldingsOf(saved'.bank, saved'.rescue) = HoldingsOf(bank, rescue)
BY DEF Unlocked, Wealth, HoldingsOf, storage

LEMMA PayNativeLedger ==
    ASSUME IInv, IInv', NEW buyer \in Buyer, NEW id \in MerchantId, NEW gross \in Gross,
           NEW excess \in Excess, PayNative(buyer, id, gross, excess)
    PROVE  Ledger' /\ Wealth' = Wealth
<1> DEFINE e == Entered(id, Native, buyer, gross, excess)
           f == SplitFee(e, gross, merchants[id].feeBps)
           before == HoldingsOf(bank, rescue)
           now == HoldingsOf(bank', rescue)
<1>1. /\ MayPay(id) /\ Unlocked /\ Affords(bank, Native, buyer, gross + excess)
      /\ bank' = Moved(bank, Native, buyer, Self, gross + excess)
      /\ call' = f /\ saved' = storage /\ rescue' = rescue
  BY DEF PayNative, MayPay
<1>2. /\ e \in Frame /\ e.asset = Native /\ e.merchantId = id /\ id # 0
      /\ id \in MerchantId /\ e.gross = gross /\ e.refund = excess /\ e.payer = buyer
  <2>1. Native \in Asset /\ excess \in Nat
    BY DEF Asset
  <2>2. e \in Frame /\ id # 0
    BY <1>1, <2>1, EnteredFrame
  <2>3. QED
    BY <2>2 DEF Entered
<1>3. merchants[id].feeBps \in Nat
  BY DEF IInv, TypeOK, Merchant
<1> HIDE DEF e
<1>4. /\ f \in Frame /\ f.pc = "net" /\ f.asset = Native /\ f.merchantId = id
      /\ f.payer = buyer /\ f.gross = gross /\ f.refund = excess
      /\ f.net + f.platformFee + f.merchantFee = gross /\ CapHolds(ReceiptOf(f))
  BY <1>2, <1>3, SplitFrame DEF IInv
<1> HIDE DEF f
<1>5. f # Idle
  BY <1>4 DEF Idle
<1>6. /\ Native \in Asset /\ buyer \in Party /\ gross \in Nat /\ excess \in Nat
      /\ gross + excess \in Nat
      /\ bank \in Balances(Asset, Holder) /\ bank' \in Balances(Asset, Holder)
      /\ rescue \in [Address -> Nat]
  BY DEF IInv, TypeOK, Party, Asset
<1>7. /\ before[Native] \in [Party -> Nat] /\ now[Native] \in [Party -> Nat]
  BY <1>6, HoldingsTyped
<1>8. /\ \A a \in Asset : a # Native => now[a] = before[a]
      /\ \A h \in Party :
             now[Native][h] = before[Native][h] - (IF h = buyer THEN gross + excess ELSE 0)
      /\ before[Native][buyer] >= gross + excess
  BY <1>1, <1>6, MovedIn
<1>9. /\ Wealth' = Wealth /\ HoldingsOf(saved'.bank, saved'.rescue) = before
  BY <1>1, <1>5, EntryMapped
<1> HIDE DEF before, now
<1>10. before[Native][buyer] >= gross
  BY <1>6, <1>7, <1>8
<1>11. Tallied(f, before[Native], now[Native], Party)
  BY <1>4, <1>6, <1>7, <1>8, <1>10, SplitTallied
<1>12. RowNow(f, before[Native], now[Native])
  BY <1>2, <1>4, <1>11 DEF RowNow
<1>13. HoldingsOf(bank, rescue)' = now
  BY <1>1 DEF now
<1>14. QED
  BY <1>1, <1>4, <1>8, <1>9, <1>12, <1>13 DEF Ledger

LEMMA PayTokenLedger ==
    ASSUME IInv, NEW buyer \in Buyer, NEW id \in MerchantId, NEW gross \in Gross,
           NEW token \in Token, PayToken(buyer, id, token, gross)
    PROVE  Ledger' /\ Wealth' = Wealth
<1>1. /\ Unlocked /\ saved' = storage /\ bank' = bank /\ rescue' = rescue
      /\ call'.pc = "pull" /\ call'.merchantId = id /\ call'.gross = gross /\ id # 0
  BY DEF PayToken, MayPay, Entered, MerchantId
<1>2. call' # Idle
  BY <1>1 DEF Idle
<1>3. /\ Wealth' = Wealth
      /\ HoldingsOf(saved'.bank, saved'.rescue) = HoldingsOf(bank, rescue)
  BY <1>1, <1>2, EntryMapped
<1>4. QED
  BY <1>1, <1>3 DEF Ledger, RowNow

LEMMA ClaimLedger ==
    ASSUME IInv, NEW claimant \in Payee, ClaimRescue(claimant)
    PROVE  Ledger' /\ Wealth' = Wealth
<1>1. /\ Unlocked /\ saved' = storage /\ bank' = bank /\ claimant \in Address
      /\ rescue' = [rescue EXCEPT ![claimant] = 0]
      /\ call' = [Idle EXCEPT !.pc = "refund", !.payer = claimant,
                              !.refund = rescue[claimant]]
  BY DEF ClaimRescue
<1>2. /\ call'.pc = "refund" /\ call'.merchantId = 0 /\ call'.payer = claimant
      /\ call'.refund = rescue[claimant] /\ call'.asset = Native /\ call' # Idle
  BY <1>1 DEF Idle
<1>3. /\ Wealth' = Wealth
      /\ HoldingsOf(saved'.bank, saved'.rescue) = HoldingsOf(bank, rescue)
  BY <1>1, <1>2, EntryMapped
<1>4. /\ bank \in Balances(Asset, Holder) /\ rescue \in [Address -> Nat]
      /\ rescue' \in [Address -> Nat] /\ Native \in Asset
  BY <1>1 DEF IInv, TypeOK, Asset
<1>5. ASSUME NEW a \in Asset, a # Native
      PROVE  HoldingsOf(bank, rescue')[a] = HoldingsOf(bank, rescue)[a]
  BY <1>5 DEF HoldingsOf
<1>6. ASSUME NEW h \in Party
      PROVE  HoldingsOf(bank, rescue')[Native][h] = HoldingsOf(bank, rescue)[Native][h]
                 - (IF h = claimant THEN rescue[claimant] ELSE 0)
  <2>1. bank[Native][h] \in Nat
    BY <1>4 DEF Balances, Party, Holder
  <2>2. claimant # Lanes
    BY <1>1
  <2>3. h # Lanes => rescue[h] \in Nat
                       /\ rescue'[h] = IF h = claimant THEN 0 ELSE rescue[h]
    BY <1>1, <1>4 DEF Party
  <2>4. /\ HoldingsOf(bank, rescue')[Native][h] = bank[Native][h]
               + (IF h # Lanes THEN rescue'[h] ELSE 0)
        /\ HoldingsOf(bank, rescue)[Native][h] = bank[Native][h]
               + (IF h # Lanes THEN rescue[h] ELSE 0)
    BY <1>4, HoldingsTyped
  <2>5. QED
    BY <2>1, <2>2, <2>3, <2>4
<1>7. RowNow(call', HoldingsOf(bank, rescue)[Native], HoldingsOf(bank, rescue')[Native])
  BY ONLY <1>2, <1>6 DEF RowNow
<1>8. HoldingsOf(bank, rescue)' = HoldingsOf(bank, rescue')
  BY <1>1
<1>9. QED
  BY <1>1, <1>2, <1>3, <1>5, <1>7, <1>8 DEF Ledger

LEMMA PullLedger ==
    ASSUME IInv, IInv', Ledger, PullExact
    PROVE  Ledger' /\ Wealth' = Wealth
<1> DEFINE f == SplitFee(call, call.gross, call.feeBps)
           before == HoldingsOf(saved.bank, saved.rescue)
           now == HoldingsOf(bank, rescue)
           later == HoldingsOf(bank', rescue)
<1>1. /\ call.pc = "pull" /\ Affords(bank, call.asset, call.payer, call.gross)
      /\ bank' = Moved(bank, call.asset, call.payer, Self, call.gross)
      /\ call' = f /\ rescue' = rescue /\ saved' = saved
  BY DEF PullExact
<1>2. /\ call \in Frame /\ call.merchantId \in MerchantId /\ call.merchantId # 0
      /\ call.asset \in Asset /\ call # Idle /\ saved # <<>>
      /\ call.payer \in Party /\ call.feeBps \in Nat /\ call.gross \in Nat
      /\ call.refund = 0
  BY <1>1, FrameFacts DEF IInv, LegsInOrder, Frame, Party, MerchantId, Idle
<1>3. /\ f \in Frame /\ f.pc = "net" /\ f.asset = call.asset
      /\ f.merchantId = call.merchantId /\ f.payer = call.payer
      /\ f.refund = 0 /\ f.gross = call.gross
      /\ f.net + f.platformFee + f.merchantFee = call.gross /\ CapHolds(ReceiptOf(f))
  BY <1>2, SplitFrame DEF IInv
<1> HIDE DEF f
<1>4. f # Idle
  BY <1>3 DEF Idle
<1>5. /\ bank \in Balances(Asset, Holder) /\ bank' \in Balances(Asset, Holder)
      /\ rescue \in [Address -> Nat]
      /\ saved.bank \in Balances(Asset, Holder) /\ saved.rescue \in [Address -> Nat]
  BY <1>2 DEF IInv, TypeOK, Storage
<1>6. /\ before \in [Asset -> [Party -> Nat]] /\ now \in [Asset -> [Party -> Nat]]
      /\ later \in [Asset -> [Party -> Nat]]
  BY <1>5, HoldingsTyped
<1>7. /\ \A a \in Asset : a # call.asset => later[a] = now[a]
      /\ \A h \in Party : later[call.asset][h] =
             now[call.asset][h] - (IF h = call.payer THEN call.gross ELSE 0)
      /\ now[call.asset][call.payer] >= call.gross
  BY <1>1, <1>2, <1>5, MovedIn
<1>8. /\ call.gross \in Gross /\ now[call.asset] = before[call.asset]
      /\ \A a \in Asset : a # call.asset => now[a] = before[a]
  BY <1>1, <1>2 DEF Ledger, RowNow
<1>9. Wealth' = Wealth
  BY <1>1, <1>2, <1>4 DEF Wealth
<1> HIDE DEF before, now, later
<1>10. Tallied(f, before[call.asset], later[call.asset], Party)
  <2>1. /\ before[call.asset] \in [Party -> Nat] /\ later[call.asset] \in [Party -> Nat]
        /\ before[call.asset][f.payer] >= f.gross
    BY <1>2, <1>3, <1>6, <1>7, <1>8
  <2>2. \A h \in Party : later[call.asset][h] = before[call.asset][h]
            - (IF h = f.payer THEN f.gross + f.refund ELSE 0)
    BY <1>2, <1>3, <1>7, <1>8
  <2>3. QED
    BY <1>2, <1>3, <2>1, <2>2, SplitTallied
<1>11. RowNow(f, before[call.asset], later[call.asset])
  BY <1>2, <1>3, <1>8, <1>10 DEF RowNow
<1>12. /\ HoldingsOf(bank, rescue)' = later
       /\ HoldingsOf(saved.bank, saved.rescue)' = before
  BY <1>1 DEF later, before
<1>13. QED
  BY <1>1, <1>3, <1>7, <1>8, <1>9, <1>11, <1>12 DEF Ledger

\* A leg goes to someone, and the frame no longer owes it.
LEMMA LegLedger ==
    ASSUME IInv, IInv', Ledger, call.pc \in {"net", "credit", "platform", "merchant"},
           NEW to \in Party, saved' = saved, LegPaid(call, call'),
           call'.asset = call.asset, call'.merchantId = call.merchantId,
           Enriches(bank, rescue, bank', rescue', call.asset, to, LegOf(call, call'))
    PROVE  Ledger' /\ Wealth' = Wealth
<1>1. /\ call \in Frame /\ call' \in Frame /\ call # Idle /\ call' # Idle /\ saved # <<>>
      /\ call.merchantId # 0 /\ call.asset \in Asset
  BY FrameFacts DEF IInv, TypeOK, Idle, LegPaid
<1>2. /\ bank \in Balances(Asset, Holder) /\ bank' \in Balances(Asset, Holder)
      /\ rescue \in [Address -> Nat] /\ rescue' \in [Address -> Nat]
      /\ saved.bank \in Balances(Asset, Holder) /\ saved.rescue \in [Address -> Nat]
  BY <1>1 DEF IInv, TypeOK, Storage
<1>a. PICK before : before = HoldingsOf(saved.bank, saved.rescue)
  OBVIOUS
<1>b. PICK now : now = HoldingsOf(bank, rescue)
  OBVIOUS
<1>c. PICK later : later = HoldingsOf(bank', rescue')
  OBVIOUS
<1>3. /\ before \in [Asset -> [Party -> Nat]] /\ now \in [Asset -> [Party -> Nat]]
      /\ later \in [Asset -> [Party -> Nat]]
  BY <1>2, <1>a, <1>b, <1>c, HoldingsTyped
<1>4. /\ call.gross \in Gross /\ Tallied(call, before[call.asset], now[call.asset], Party)
      /\ \A a \in Asset : a # call.asset => now[a] = before[a]
  BY <1>1, <1>a, <1>b DEF Ledger, RowNow
<1>5. /\ \A a \in Asset : a # call.asset => later[a] = now[a]
      /\ Gains(now[call.asset], later[call.asset], Party, to, LegOf(call, call'))
  BY <1>b, <1>c DEF Enriches
<1>6. /\ HoldingsOf(saved.bank, saved.rescue)' = before
      /\ HoldingsOf(bank, rescue)' = later
  BY <1>a, <1>c
<1>7. Wealth' = Wealth
  BY <1>1 DEF Wealth
<1>8. /\ before[call.asset] \in [Party -> Nat] /\ now[call.asset] \in [Party -> Nat]
      /\ later[call.asset] \in [Party -> Nat]
  BY <1>1, <1>3
<1>9. Tallied(call', before[call.asset], later[call.asset], Party)
  <2>1. call \in Frame /\ call' \in Frame /\ to \in Party /\ LegPaid(call, call')
    BY <1>1
  <2>2. QED
    BY ONLY <1>4, <1>5, <1>8, <2>1, LegTallied
<1>10. RowNow(call', before[call.asset], later[call.asset])
  BY <1>1, <1>4, <1>9 DEF RowNow, LegPaid
<1>11. QED
  BY <1>4, <1>5, <1>6, <1>7, <1>10 DEF Ledger

LEMMA PaidLegLedger ==
    ASSUME IInv, IInv', Ledger,
           SettleNet \/ CreditTaken \/ CreditCaught \/ PlatformLeg \/ MerchantLeg
    PROVE  Ledger' /\ Wealth' = Wealth
<1>1. /\ call.pc \in {"net", "credit", "platform", "merchant"} /\ saved' = saved
  BY DEF SettleNet, CreditTaken, CreditCaught, PlatformLeg, MerchantLeg
<1>2. /\ call \in Frame /\ call.asset \in Asset
      /\ call.net \in Nat /\ call.platformFee \in Nat /\ call.merchantFee \in Nat
      /\ call.payout \in Address /\ MerchantFeeDest \in Address
      /\ platformTreasury \in Address
      /\ bank \in Balances(Asset, Holder) /\ rescue \in [Address -> Nat]
  BY <1>1, FrameFacts DEF IInv, TypeOK
<1>3. Address \subseteq Party /\ Lanes \in Party
  BY DEF Party
<1>4. CASE SettleNet
  <2>1. /\ Deliver(call.payout, call.net) /\ call.pc = "net"
        /\ call' = [call EXCEPT !.pc = "platform", !.net = 0]
    BY <1>4 DEF SettleNet
  <2>2. /\ call'.pc = "platform" /\ call'.net = 0
        /\ call'.asset = call.asset /\ call'.merchantId = call.merchantId
        /\ call'.payer = call.payer /\ call'.gross = call.gross /\ call'.refund = call.refund
        /\ call'.platformFee = call.platformFee /\ call'.merchantFee = call.merchantFee
    BY <1>2, <2>1 DEF Frame
  <2>3. LegPaid(call, call')
    BY ONLY <2>1, <2>2 DEF LegPaid
  <2>4. LegOf(call, call') = call.net
    BY ONLY <1>2, <2>2 DEF LegOf
  <2>5. Enriches(bank, rescue, bank', rescue', call.asset, call.payout, LegOf(call, call'))
    BY <1>2, <2>1, <2>4, DeliveredOut
  <2>6. QED
    BY <1>1, <1>2, <1>3, <2>2, <2>3, <2>5, LegLedger
<1>5. CASE CreditTaken \/ CreditCaught
  <2>1. PICK to \in Party :
            /\ call.pc = "credit" /\ Affords(bank, call.asset, Self, call.net)
            /\ bank' = Moved(bank, call.asset, Self, to, call.net) /\ rescue' = rescue
            /\ call' = [call EXCEPT !.pc = "platform", !.net = 0]
    BY <1>2, <1>3, <1>5 DEF CreditTaken, CreditCaught
  <2>2. /\ call'.pc = "platform" /\ call'.net = 0
        /\ call'.asset = call.asset /\ call'.merchantId = call.merchantId
        /\ call'.payer = call.payer /\ call'.gross = call.gross /\ call'.refund = call.refund
        /\ call'.platformFee = call.platformFee /\ call'.merchantFee = call.merchantFee
    BY <1>2, <2>1 DEF Frame
  <2>3. LegPaid(call, call')
    BY ONLY <2>1, <2>2 DEF LegPaid
  <2>4. LegOf(call, call') = call.net
    BY ONLY <1>2, <2>2 DEF LegOf
  <2>5. Enriches(bank, rescue, bank', rescue', call.asset, to, LegOf(call, call'))
    BY <1>2, <2>1, <2>4, MovedOut
  <2>6. QED
    BY <1>1, <2>2, <2>3, <2>5, LegLedger
<1>6. CASE PlatformLeg
  <2>1. /\ Deliver(platformTreasury, call.platformFee) /\ call.pc = "platform"
        /\ call' = [call EXCEPT !.pc = "merchant", !.platformFee = 0]
    BY <1>6 DEF PlatformLeg
  <2>2. /\ call'.pc = "merchant" /\ call'.platformFee = 0
        /\ call'.asset = call.asset /\ call'.merchantId = call.merchantId
        /\ call'.payer = call.payer /\ call'.gross = call.gross /\ call'.refund = call.refund
        /\ call'.net = call.net /\ call'.merchantFee = call.merchantFee
    BY <1>2, <2>1 DEF Frame
  <2>3. LegPaid(call, call')
    BY ONLY <2>1, <2>2 DEF LegPaid
  <2>4. LegOf(call, call') = call.platformFee
    BY ONLY <1>2, <2>2 DEF LegOf
  <2>5. Enriches(bank, rescue, bank', rescue', call.asset, platformTreasury, LegOf(call, call'))
    BY <1>2, <2>1, <2>4, DeliveredOut
  <2>6. QED
    BY <1>1, <1>2, <1>3, <2>2, <2>3, <2>5, LegLedger
<1>7. CASE MerchantLeg
  <2>1. /\ Deliver(MerchantFeeDest, call.merchantFee) /\ call.pc = "merchant"
        /\ call' = [call EXCEPT !.pc = "refund", !.merchantFee = 0]
    BY <1>7 DEF MerchantLeg
  <2>2. /\ call'.pc = "refund" /\ call'.merchantFee = 0
        /\ call'.asset = call.asset /\ call'.merchantId = call.merchantId
        /\ call'.payer = call.payer /\ call'.gross = call.gross /\ call'.refund = call.refund
        /\ call'.net = call.net /\ call'.platformFee = call.platformFee
    BY <1>2, <2>1 DEF Frame
  <2>3. LegPaid(call, call')
    BY ONLY <2>1, <2>2 DEF LegPaid
  <2>4. LegOf(call, call') = call.merchantFee
    BY ONLY <1>2, <2>2 DEF LegOf
  <2>5. Enriches(bank, rescue, bank', rescue', call.asset, MerchantFeeDest, LegOf(call, call'))
    BY <1>2, <2>1, <2>4, DeliveredOut
  <2>6. QED
    BY <1>1, <1>2, <1>3, <2>2, <2>3, <2>5, LegLedger
<1>8. QED
  BY <1>4, <1>5, <1>6, <1>7

\* The call of credit moves no leg.
LEMMA CalledTallied ==
    ASSUME NEW f \in Frame, NEW g \in Frame, f.pc = "net", g.pc = "credit",
           g.payer = f.payer, g.gross = f.gross, g.refund = f.refund, g.net = f.net,
           g.platformFee = f.platformFee, g.merchantFee = f.merchantFee,
           NEW H, NEW old, NEW new, Tallied(f, old, new, H)
    PROVE  Tallied(g, old, new, H)
<1>1. PICK p \in Nat, m \in Nat, payee \in H, treasury \in H, dest \in H :
          TalliedTo(f, old, new, H, p, m, payee, treasury, dest)
  BY DEF Tallied
<1>2. LegsOf(g, p, m)
  BY <1>1 DEF TalliedTo, LegsOf
<1>3. ASSUME NEW h \in H
      PROVE  new[h] = old[h] - (IF h = g.payer THEN g.gross + g.refund ELSE 0)
                          + PaidOut(g, p, m, payee, treasury, dest, h)
  <2>1. PaidOut(g, p, m, payee, treasury, dest, h) = PaidOut(f, p, m, payee, treasury, dest, h)
    BY DEF PaidOut
  <2> QED
    BY <1>1, <2>1 DEF TalliedTo
<1>4. TalliedTo(g, old, new, H, p, m, payee, treasury, dest)
  BY <1>2, <1>3 DEF TalliedTo
<1> QED
  BY <1>4 DEF Tallied

\* The call of credit moves nothing yet.
LEMMA CreditCallLedger ==
    ASSUME IInv, IInv', Ledger, CallCredit
    PROVE  Ledger' /\ Wealth' = Wealth
<1>1. /\ call.pc = "net" /\ call' = [call EXCEPT !.pc = "credit"] /\ call \in Frame
      /\ UNCHANGED <<rescue, bank, saved>>
  BY DEF CallCredit, IInv, TypeOK
<1>2. /\ call'.pc = "credit" /\ call'.asset = call.asset
      /\ call'.merchantId = call.merchantId /\ call'.payer = call.payer
      /\ call'.gross = call.gross /\ call'.refund = call.refund /\ call'.net = call.net
      /\ call'.platformFee = call.platformFee /\ call'.merchantFee = call.merchantFee
  BY <1>1 DEF Frame
<1>3. call # Idle /\ call' # Idle /\ call.merchantId # 0
  BY <1>1, <1>2, FrameFacts DEF Idle
<1>4. ASSUME NEW old, NEW new, Tallied(call, old, new, Party)
      PROVE  Tallied(call', old, new, Party)
  <2>1. call' \in Frame
    BY DEF IInv, TypeOK
  <2> QED
    BY ONLY <1>1, <1>2, <1>4, <2>1, CalledTallied
<1>5. \A old, new : RowNow(call, old, new) => RowNow(call', old, new)
  BY <1>1, <1>2, <1>3, <1>4 DEF RowNow
<1>6. QED
  BY <1>1, <1>2, <1>3, <1>5 DEF Ledger, Wealth

\* A revert has happened before it began.
LEMMA RevertLedger ==
    ASSUME IInv, Revert
    PROVE  Ledger' /\ Wealth' = Wealth
<1>1. call # Idle /\ call' = Idle /\ saved' = <<>> /\ bank' = saved.bank /\ rescue' = saved.rescue
  BY DEF Revert, Unlocked
<1>2. QED
  BY <1>1, WealthReads DEF Ledger, Wealth

\* When the function returns, the payment becomes the one step that it is; a claim of
\* rescue money was its claimant's all along.
LEMMA ReturnLedger ==
    ASSUME IInv, IInv', Ledger, SendBack
    PROVE  Ledger' /\ [Ideal!Next]_Wealth
<1> DEFINE before == HoldingsOf(saved.bank, saved.rescue)
           now == HoldingsOf(bank, rescue)
           later == HoldingsOf(bank', rescue)
           A == call.asset
<1>1. /\ call.pc = "refund" /\ Affords(bank, call.asset, Self, call.refund)
      /\ bank' = Moved(bank, call.asset, Self, call.payer, call.refund)
      /\ call' = Idle /\ saved' = <<>> /\ rescue' = rescue
  BY DEF SendBack
<1>2. /\ call \in Frame /\ call # Idle /\ saved # <<>> /\ call.payer \in Party
      /\ A \in Asset /\ call.refund \in Nat
  BY <1>1, FrameFacts DEF Party
<1>3. /\ bank \in Balances(Asset, Holder) /\ bank' \in Balances(Asset, Holder)
      /\ rescue \in [Address -> Nat]
      /\ saved.bank \in Balances(Asset, Holder) /\ saved.rescue \in [Address -> Nat]
  BY <1>2 DEF IInv, TypeOK, Storage
<1>4. /\ before \in [Asset -> [Party -> Nat]] /\ now \in [Asset -> [Party -> Nat]]
      /\ later \in [Asset -> [Party -> Nat]]
  BY <1>3, HoldingsTyped
<1>5. /\ \A a \in Asset : a # A => later[a] = now[a]
      /\ Gains(now[A], later[A], Party, call.payer, call.refund)
  <2>1. Enriches(bank, rescue, bank', rescue, A, call.payer, call.refund)
    BY <1>1, <1>2, <1>3, MovedOut
  <2>2. QED
    BY <2>1 DEF Enriches
<1>6. /\ \A a \in Asset : a # A => now[a] = before[a]
      /\ RowNow(call, before[A], now[A])
  BY <1>2 DEF Ledger
<1>7. Wealth = before /\ Wealth' = later
  BY <1>1, <1>2, WealthReads DEF Wealth, HoldingsOf, Party
<1>8. Ledger'
  BY <1>1 DEF Ledger
<1> HIDE DEF before, now, later, A
<1>9. /\ before[A] \in [Party -> Nat] /\ now[A] \in [Party -> Nat]
      /\ later[A] \in [Party -> Nat]
  BY <1>2, <1>4
<1>10. CASE call.merchantId = 0
  <2>1. \A h \in Party : later[A][h] = before[A][h]
    <3>1. \A h \in Party : now[A][h] \in Nat /\ before[A][h] \in Nat
      BY <1>9
    <3>2. QED
      BY <1>2, <1>5, <1>6, <1>10, <3>1 DEF RowNow, Gains
  <2>2. later[A] = before[A]
    BY <1>9, <2>1
  <2>3. later = before
    BY <1>4, <1>5, <1>6, <2>2
  <2>4. QED
    BY <1>7, <1>8, <2>3
<1>11. CASE call.merchantId # 0 /\ later # before
  <2>1. call.gross \in Gross /\ Tallied(call, before[A], now[A], Party)
    BY <1>1, <1>6, <1>11 DEF RowNow
  <2>2. PICK p \in 0..MaxFees(call.gross), m \in 0..MaxFees(call.gross),
             payee \in Party, treasury \in Party, dest \in Party :
                 EndedTo(call, before[A], later[A], Party, p, m, payee, treasury, dest)
    BY ONLY <1>1, <1>2, <1>5, <1>9, <2>1, EndTallied
  <2>3. before[A][call.payer] >= call.gross
    BY <2>1 DEF Tallied
  <2>4. A \in {a \in Asset : Wealth'[a] # Wealth[a]}
    <3>1. SUFFICES ASSUME later[A] = before[A] PROVE FALSE
      BY <1>2, <1>7
    <3>2. later = before
      BY <1>4, <1>5, <1>6, <3>1
    <3>3. QED
      BY <1>11, <3>2
  <2>5. later = [before EXCEPT ![A] = [h \in Party |->
            before[A][h] - (IF h = call.payer THEN call.gross ELSE 0)
                + Ideal!Got(h, payee, call.gross - p - m, treasury, p, dest, m)]]
    <3> DEFINE row == [h \in Party |->
                   before[A][h] - (IF h = call.payer THEN call.gross ELSE 0)
                       + Ideal!Got(h, payee, call.gross - p - m, treasury, p, dest, m)]
    <3>1. ASSUME NEW h \in Party PROVE later[A][h] = row[h]
      <4>1. before[A][h] \in Nat /\ call.gross \in Nat
        BY ONLY <1>2, <1>9, h \in Party DEF Frame
      <4>2. p \in Int /\ m \in Int
        <5>1. MaxFees(call.gross) \in Int
          BY <4>1 DEF MaxFees
        <5>2. QED
          BY <5>1
      <4>3. later[A][h] = before[A][h] - (IF h = call.payer THEN call.gross ELSE 0)
                + (IF h = payee THEN call.gross - p - m ELSE 0)
                + (IF h = treasury THEN p ELSE 0) + (IF h = dest THEN m ELSE 0)
        BY <2>2 DEF EndedTo
      <4>4. QED
        BY <4>1, <4>2, <4>3 DEF Ideal!Got
    <3>2. later[A] = row
      BY <1>9, <3>1
    <3> HIDE DEF row
    <3>3. later = [before EXCEPT ![A] = row]
      BY <1>2, <1>4, <1>5, <1>6, <3>2
    <3>4. QED
      BY <3>3 DEF row
  <2>6. Ideal!Pay(A, call.payer, call.gross, p, m, payee, treasury, dest)
    BY <1>7, <2>2, <2>3, <2>5 DEF Ideal!Pay, Party, EndedTo
  <2>7. Ideal!Next
    BY <1>2, <1>7, <1>11, <2>1, <2>2, <2>4, <2>6 DEF Ideal!Next, Party, MaxFees
  <2>8. QED
    BY <1>8, <2>7
<1>12. QED
  BY <1>7, <1>8, <1>10, <1>11

LEMMA NextIsAtomic ==
    ASSUME IInv, IInv', Ledger, [Next]_vars
    PROVE  Ledger' /\ [Ideal!Next]_Wealth
<1>1. ASSUME Register \/ Manage \/ Administer \/ UNCHANGED vars
      PROVE  UNCHANGED <<bank, rescue, call, saved>>
  BY <1>1 DEF Register, Manage, Administer, RegisterMerchant, UpdateMerchant,
     ProposeMerchantOwner, AcceptMerchantOwner, vars
<1>2. CASE Register \/ Manage \/ Administer \/ UNCHANGED vars
  BY <1>1, <1>2, LedgerStands
<1>3. CASE Pay
  BY <1>3, PayNativeLedger, PayTokenLedger DEF Pay
<1>4. CASE Settle
  BY <1>4, PullLedger, PaidLegLedger, CreditCallLedger, RevertLedger, ReturnLedger DEF Settle
<1>5. ASSUME NEW claimant \in Payee, ClaimRescue(claimant)
      PROVE  Ledger' /\ [Ideal!Next]_Wealth
  BY <1>5, ClaimLedger
<1>6. QED
  BY <1>2, <1>3, <1>4, <1>5 DEF Next

LEMMA InitIsIdeal == Init => Ledger /\ Ideal!Init
<1> SUFFICES ASSUME Init PROVE Ledger /\ Ideal!Init
  OBVIOUS
<1>1. saved = <<>> /\ call = Idle /\ bank = Endowment /\ \A h \in Address : rescue[h] = 0
  BY DEF Init
<1>2. ASSUME NEW asset \in Asset, NEW h \in Party
      PROVE  Endowment[asset][h] + (IF asset = Native /\ h # Lanes THEN rescue[h] ELSE 0)
                 = Endowment[asset][h]
  <2>1. Endowment[asset][h] \in Nat
    BY DEF Balances, Party, Holder
  <2>2. h # Lanes => rescue[h] = 0
    BY <1>1 DEF Party
  <2>3. QED
    BY <2>1, <2>2
<1>3. Wealth = [asset \in Asset |-> [h \in Party |-> Endowment[asset][h]]]
  BY <1>1, <1>2, WealthReads DEF HoldingsOf
<1>4. QED
  BY <1>1, <1>3 DEF Ledger, Ideal!Init, Party

\* Every behaviour of the router is one of atomic payments that conserve the money: a
\* payment takes its price from the buyer and gives all of it to the payees, with fees
\* within the cap, whatever ran inside it; and nothing else moves anyone's wealth.
THEOREM RouterPaysAtomically == Spec => PaymentsAreAtomic
<1>1. Init => IInv /\ Ledger /\ Ideal!Init
  BY InitEstablishesIInv, InitIsIdeal
<1>2. IInv /\ Ledger /\ [Next]_vars => IInv' /\ Ledger' /\ [Ideal!Next]_Wealth
  BY NextKeepsIInv, NextIsAtomic
<1>3. QED
  BY <1>1, <1>2, PTL DEF Spec, PaymentsAreAtomic, Ideal!Spec

-----------------------------------------------------------------------------
(* The lanes behind the router.  Their money and receipts are sound at every     *)
(* moment if they are in the three storages a step may bring back as well: the    *)
(* one the router's function began with, the one the lanes function began with    *)
(* and the one there is.                                                          *)

LaneReceipts == ReceiptsOf(Address, Token, Payee)

OwedIn(b, asset) == SumOn(b, asset, Address, Payee)

\* Receipts and the bindings under them: a lane is bound to the asset of its name or not
\* at all, and it is when somebody has its receipt.
SoundLanes(b, bound) ==
    /\ b \in LaneReceipts
    /\ bound \in [Token \X Payee -> Token \cup {NoAddress}]
    /\ \A l \in Token \X Payee : bound[l] \in {NoAddress, l[1]}
    /\ \A o \in Address, l \in Token \X Payee : b[o][l] > 0 => bound[l] = l[1]

\* The balances k hold for the lanes what the receipts b are worth.
Covers(k, b) == \A asset \in Token : OwedIn(b, asset) = k[asset][Lanes]

CreditFlight == [op : {"credit"}, who : {Self}, asset : Token, amount : Nat]
ClaimFlight == [op : {"claim"}, who : Address, asset : Token, amount : Nat]

\* What the lanes function f in flight has yet to take or to send of an asset.
Moving(f, asset, op) == IF f.op = op /\ f.asset = asset THEN f.amount ELSE 0

BackedBy(k, b, f) ==
    \A asset \in Token :
        k[asset][Lanes] + Moving(f, asset, "credit") = OwedIn(b, asset) + Moving(f, asset, "claim")

UndoCovered ==
    ~LanesFree => SoundLanes(undo.balanceOf, undo.laneAsset) /\ Covers(bank, undo.balanceOf)

SavedCovered ==
    call # Idle =>
        SoundLanes(laneSaved.balanceOf, laneSaved.laneAsset) /\ Covers(saved.bank, laneSaved.balanceOf)

LanesInv ==
    /\ SoundLanes(balanceOf, laneAsset)
    /\ frame \in CreditFlight \cup ClaimFlight \cup {L!Free}
    /\ BackedBy(bank, balanceOf, frame)
    /\ UndoCovered
    /\ SavedCovered

LEMMA PartiesFinite == IsFiniteSet(Address) /\ IsFiniteSet(Payee)
BY FS_Subset

\* The sum the lanes' module reads is the sum of the library.
LEMMA SameSum ==
    ASSUME NEW f
    PROVE  L!SumFunction(f) = SumFunction(f)
BY DEF L!SumFunction, L!SumFunctionOnSet, L!FoldFunctionOnSet, L!MapThenFoldSet,
       SumFunction, SumFunctionOnSet, FoldFunctionOnSet, MapThenFoldSet

LEMMA LanesBackedForm == L!Backed <=> BackedBy(bank, balanceOf, frame)
<1>1. ASSUME NEW asset \in Token
      PROVE  /\ L!Outstanding(asset) = OwedIn(balanceOf, asset)
             /\ L!InTransit(asset, "credit") = Moving(frame, asset, "credit")
             /\ L!InTransit(asset, "claim") = Moving(frame, asset, "claim")
  BY SameSum DEF L!InTransit, L!Outstanding, Moving, OwedIn, SumOn, ReceiptsOn
<1> QED
  BY <1>1 DEF L!Backed, BackedBy

LEMMA OwedTyped ==
    ASSUME NEW b \in LaneReceipts, NEW asset \in Token
    PROVE  OwedIn(b, asset) \in Nat
BY PartiesFinite, SumOnNat DEF LaneReceipts, OwedIn

\* At rest the lanes are backed exactly.
LEMMA CoveredAtRest ==
    ASSUME NEW k \in Balances(Asset, Holder), NEW b \in LaneReceipts
    PROVE  BackedBy(k, b, L!Free) <=> Covers(k, b)
<1>1. ASSUME NEW asset \in Token
      PROVE  /\ k[asset][Lanes] \in Nat /\ OwedIn(b, asset) \in Nat
             /\ Moving(L!Free, asset, "credit") = 0 /\ Moving(L!Free, asset, "claim") = 0
  BY OwedTyped DEF Balances, Asset, Holder, L!Free, Moving
<1> QED
  BY <1>1 DEF BackedBy, Covers

\* A transfer between two others leaves the lanes' column alone.
LEMMA MovedAside ==
    ASSUME NEW b \in Balances(Asset, Holder), NEW asset \in Asset, NEW n \in Nat,
           NEW from \in Address \cup {Self}, NEW to \in Address \cup {Self}, from # to,
           Affords(b, asset, from, n)
    PROVE  \A t \in Token : Moved(b, asset, from, to, n)[t][Lanes] = b[t][Lanes]
<1>1. from \in Holder /\ to \in Holder /\ Lanes \in Holder /\ Lanes \notin {from, to}
  BY DEF Holder
<1>2. /\ Moved(b, asset, from, to, n)[asset][Lanes] = b[asset][Lanes]
      /\ \A a \in Asset : a # asset => Moved(b, asset, from, to, n)[a] = b[a]
  BY <1>1, MovedTyped
<1> QED
  BY <1>2 DEF Asset

LaneColumnStays == \A t \in Token : bank'[t][Lanes] = bank[t][Lanes]

\* The router's own legs and its fallback pay nothing to the lanes and take nothing.
LEMMA RouterMovesAside ==
    ASSUME IInv, PullExact \/ SettleNet \/ PlatformLeg \/ MerchantLeg \/ CreditCaught \/ SendBack
    PROVE  LaneColumnStays
<1>1. call.pc # "idle"
  BY DEF PullExact, SettleNet, PlatformLeg, MerchantLeg, CreditCaught, SendBack
<1>2. /\ bank \in Balances(Asset, Holder) /\ call.asset \in Asset /\ call.payer \in Address
      /\ call.net \in Nat /\ call.platformFee \in Nat /\ call.merchantFee \in Nat
      /\ call.refund \in Nat /\ call.gross \in Nat /\ platformTreasury \in Address
      /\ call.pc # "refund" => call.payout \in Address /\ MerchantFeeDest \in Address
  BY <1>1, FrameFacts DEF IInv, TypeOK, Frame
<1>3. ASSUME NEW to \in Address, NEW n \in Nat, Deliver(to, n)
      PROVE  LaneColumnStays
  <2>1. CASE Affords(bank, call.asset, Self, n) /\ bank' = Moved(bank, call.asset, Self, to, n)
    BY <1>2, <2>1, MovedAside DEF LaneColumnStays
  <2>2. CASE bank' = bank
    BY <2>2 DEF LaneColumnStays
  <2> QED
    BY <1>3, <2>1, <2>2 DEF Deliver
<1>4. CASE PullExact
  BY <1>2, <1>4, MovedAside DEF PullExact, LaneColumnStays
<1>5. CASE SettleNet
  BY <1>2, <1>3, <1>5 DEF SettleNet
<1>6. CASE PlatformLeg
  BY <1>2, <1>3, <1>6 DEF PlatformLeg
<1>7. CASE MerchantLeg
  BY <1>2, <1>3, <1>7 DEF MerchantLeg
<1>8. CASE CreditCaught
  BY <1>2, <1>8, MovedAside DEF CreditCaught, LaneColumnStays
<1>9. CASE SendBack
  BY <1>2, <1>9, MovedAside DEF SendBack, LaneColumnStays
<1> QED
  BY <1>4, <1>5, <1>6, <1>7, <1>8, <1>9

\* The receipts b after n are given to owner o, or taken from it, on the lane l.
Given(b, o, l, n) == [b EXCEPT ![o][l] = b[o][l] + n]
Taken(b, o, l, n) == [b EXCEPT ![o][l] = b[o][l] - n]

\* A mint binds the lane and adds to what is owed in the asset of its name.
LEMMA MintSound ==
    ASSUME NEW b, NEW bound, SoundLanes(b, bound), NEW o \in Address,
           NEW l \in Token \X Payee, NEW n \in Nat
    PROVE  /\ SoundLanes(Given(b, o, l, n), [bound EXCEPT ![l] = l[1]])
           /\ \A asset \in Token : OwedIn(Given(b, o, l, n), asset)
                  = OwedIn(b, asset) + (IF l[1] = asset THEN n ELSE 0)
<1>a. PICK c : c = Given(b, o, l, n)
  OBVIOUS
<1>b. PICK to : to = [bound EXCEPT ![l] = l[1]]
  OBVIOUS
<1>1. b \in LaneReceipts /\ b[o][l] \in Nat /\ bound \in [Token \X Payee -> Token \cup {NoAddress}]
      /\ l[1] \in Token
  BY DEF SoundLanes, LaneReceipts, ReceiptsOf
<1>2. /\ c \in LaneReceipts /\ c[o][l] = b[o][l] + n
      /\ \A h \in Address, k \in Token \X Payee : h # o \/ k # l => c[h][k] = b[h][k]
  BY <1>1, <1>a DEF Given, LaneReceipts, ReceiptsOf
<1>3. /\ to \in [Token \X Payee -> Token \cup {NoAddress}] /\ to[l] = l[1]
      /\ \A k \in Token \X Payee : k # l => to[k] = bound[k]
  BY <1>1, <1>b
<1>4. SoundLanes(c, to)
  BY <1>2, <1>3 DEF SoundLanes
<1>5. ASSUME NEW asset \in Token
      PROVE  OwedIn(c, asset) = OwedIn(b, asset) + (IF l[1] = asset THEN n ELSE 0)
  <2>1. DifferAt(b, c, Address, Token \X Payee, o, l)
    BY <1>2 DEF DifferAt
  <2>2. /\ l[1] = asset => OwedIn(c, asset) = OwedIn(b, asset) + c[o][l] - b[o][l]
        /\ l[1] # asset => OwedIn(c, asset) = OwedIn(b, asset)
    BY <1>1, <1>2, <2>1, PartiesFinite, SumOnAfter DEF LaneReceipts, OwedIn
  <2>3. OwedIn(b, asset) \in Nat
    BY <1>1, OwedTyped
  <2> QED
    BY <1>1, <1>2, <2>2, <2>3
<1> QED
  BY <1>a, <1>b, <1>4, <1>5

\* A burn leaves every other receipt on its bound lane.
LEMMA BurnSound ==
    ASSUME NEW b, NEW bound, SoundLanes(b, bound), NEW o \in Address,
           NEW l \in Token \X Payee, NEW n \in Nat, n <= b[o][l]
    PROVE  /\ SoundLanes(Taken(b, o, l, n), bound)
           /\ \A asset \in Token : OwedIn(b, asset)
                  = OwedIn(Taken(b, o, l, n), asset) + (IF l[1] = asset THEN n ELSE 0)
<1>a. PICK c : c = Taken(b, o, l, n)
  OBVIOUS
<1>1. b \in LaneReceipts /\ b[o][l] \in Nat /\ b[o][l] - n \in Nat /\ l[1] \in Token
  BY DEF SoundLanes, LaneReceipts, ReceiptsOf
<1>2. /\ c \in LaneReceipts /\ c[o][l] = b[o][l] - n
      /\ \A h \in Address, k \in Token \X Payee : h # o \/ k # l => c[h][k] = b[h][k]
  BY <1>1, <1>a DEF Taken, LaneReceipts, ReceiptsOf
<1>3. ASSUME NEW h \in Address, NEW k \in Token \X Payee, c[h][k] > 0 PROVE b[h][k] > 0
  <2>1. CASE h = o /\ k = l
    BY <1>1, <1>2, <1>3, <2>1
  <2>2. CASE h # o \/ k # l
    BY <1>2, <1>3, <2>2
  <2> QED
    BY <2>1, <2>2
<1>4. SoundLanes(c, bound)
  BY <1>2, <1>3 DEF SoundLanes
<1>5. ASSUME NEW asset \in Token
      PROVE  OwedIn(b, asset) = OwedIn(c, asset) + (IF l[1] = asset THEN n ELSE 0)
  <2>1. DifferAt(b, c, Address, Token \X Payee, o, l)
    BY <1>2 DEF DifferAt
  <2>2. /\ l[1] = asset => OwedIn(c, asset) = OwedIn(b, asset) + c[o][l] - b[o][l]
        /\ l[1] # asset => OwedIn(c, asset) = OwedIn(b, asset)
    BY <1>1, <1>2, <2>1, PartiesFinite, SumOnAfter DEF LaneReceipts, OwedIn
  <2>3. OwedIn(b, asset) \in Nat
    BY <1>1, OwedTyped
  <2> QED
    BY <1>1, <1>2, <2>2, <2>3
<1> QED
  BY <1>a, <1>4, <1>5

\* The storage of the payment in flight stays sound while the payment goes on.
LEMMA SavedStays ==
    ASSUME SavedCovered, UNCHANGED <<saved, laneSaved>>, call' # Idle => call # Idle
    PROVE  SavedCovered'
BY DEF SavedCovered, SoundLanes, Covers

\* A step of the router outside the lanes.
LEMMA LanesStill ==
    ASSUME LanesInv, UNCHANGED <<laneLedger, frame, undo>>, LaneColumnStays, SavedCovered'
    PROVE  LanesInv'
<1>1. /\ balanceOf' = balanceOf /\ laneAsset' = laneAsset /\ frame' = frame /\ undo' = undo
      /\ \A t \in Token : bank'[t][Lanes] = bank[t][Lanes]
  BY DEF laneLedger, LaneColumnStays
<1>2. SoundLanes(balanceOf, laneAsset)'
  BY <1>1 DEF LanesInv, SoundLanes
<1>3. BackedBy(bank, balanceOf, frame)'
  BY <1>1 DEF LanesInv, BackedBy
<1>4. UndoCovered'
  BY <1>1 DEF LanesInv, UndoCovered, LanesFree, Covers, SoundLanes
<1> QED
  BY <1>1, <1>2, <1>3, <1>4 DEF LanesInv

\* The lanes at rest hold what they owe.
LEMMA RestCovered ==
    ASSUME IInv, LanesInv, LanesFree
    PROVE  Covers(bank, balanceOf)
BY CoveredAtRest DEF IInv, TypeOK, LanesInv, LanesFree, SoundLanes

\* A lanes function begins: it has written one balance, and what it moves is on its way.
LEMMA EntryKeeps ==
    ASSUME IInv, LanesInv, LanesFree, undo' = L!storage, bank' = bank, SavedCovered',
           frame' \in CreditFlight \cup ClaimFlight, SoundLanes(balanceOf', laneAsset'),
           \A asset \in Token :
               OwedIn(balanceOf', asset) + Moving(frame', asset, "claim")
                   = OwedIn(balanceOf, asset) + Moving(frame', asset, "credit")
    PROVE  LanesInv'
<1>1. Covers(bank, balanceOf)
  BY RestCovered
<1>2. undo'.balanceOf = balanceOf /\ undo'.laneAsset = laneAsset
  BY DEF L!storage
<1>3. UndoCovered'
  BY <1>1, <1>2 DEF UndoCovered, LanesInv, SoundLanes, Covers
<1>4. BackedBy(bank', balanceOf', frame')
  BY <1>1 DEF BackedBy, Covers
<1> QED
  BY <1>3, <1>4 DEF LanesInv

\* Functions of the router that leave the lanes alone.
LEMMA RouterAloneKeeps ==
    ASSUME IInv, LanesInv, RouterAlone
    PROVE  LanesInv'
<1>1. UNCHANGED <<laneLedger, frame, undo, laneSaved>>
  BY DEF RouterAlone, laneVars
<1>2. CASE Register
  <2>1. bank' = bank /\ call' = call /\ saved' = saved
    BY <1>2 DEF Register, RegisterMerchant
  <2> QED
    BY <1>1, <2>1, SavedStays, LanesStill DEF LanesInv, LaneColumnStays
<1>3. CASE Administer
  <2>1. bank' = bank /\ call' = call /\ saved' = saved
    BY <1>3 DEF Administer
  <2> QED
    BY <1>1, <2>1, SavedStays, LanesStill DEF LanesInv, LaneColumnStays
<1>4. CASE Manage
  <2>1. bank' = bank /\ call' = call /\ saved' = saved
    BY <1>4 DEF Manage, UpdateMerchant, ProposeMerchantOwner, AcceptMerchantOwner
  <2> QED
    BY <1>1, <2>1, SavedStays, LanesStill DEF LanesInv, LaneColumnStays
<1>5. CASE SettleNet \/ PullExact \/ PlatformLeg \/ MerchantLeg
  <2>1. LaneColumnStays
    BY <1>5, RouterMovesAside
  <2>2. saved' = saved /\ call # Idle
    BY <1>5 DEF SettleNet, PullExact, PlatformLeg, MerchantLeg, Idle
  <2> QED
    BY <1>1, <2>1, <2>2, SavedStays, LanesStill DEF LanesInv
<1> QED
  BY <1>2, <1>3, <1>4, <1>5 DEF RouterAlone

\* A payment begins when the lanes are at rest, so what it remembers is covered.
LEMMA PaymentKeeps ==
    ASSUME IInv, LanesInv, Enter
    PROVE  LanesInv'
<1>1. /\ LanesFree /\ laneSaved' = L!storage /\ UNCHANGED <<laneLedger, frame, undo>>
      /\ saved' = storage /\ bank' = bank
  BY DEF Enter, PayToken
<1>2. Covers(bank, balanceOf)
  BY <1>1, RestCovered
<1>3. laneSaved'.balanceOf = balanceOf /\ laneSaved'.laneAsset = laneAsset
      /\ saved'.bank = bank
  BY <1>1 DEF L!storage, storage
<1>4. SavedCovered'
  BY <1>2, <1>3 DEF SavedCovered, LanesInv, SoundLanes, Covers
<1> QED
  BY <1>1, <1>4, LanesStill DEF LaneColumnStays

\* It returns, or reverts with the lane receipt of its net leg.
LEMMA PaymentReturnKeeps ==
    ASSUME IInv, LanesInv, Return
    PROVE  LanesInv'
<1>1. UNCHANGED <<laneLedger, frame, undo>> /\ SendBack /\ call' = Idle
  BY DEF Return, SendBack
<1>2. LaneColumnStays
  BY <1>1, RouterMovesAside
<1> QED
  BY <1>1, <1>2, LanesStill DEF SavedCovered

LEMMA PaymentRevertKeeps ==
    ASSUME IInv, LanesInv, RevertAll
    PROVE  LanesInv'
<1>1. /\ LanesFree /\ frame' = frame /\ undo' = undo /\ call # Idle /\ call' = Idle
      /\ bank' = saved.bank
      /\ balanceOf' = laneSaved.balanceOf /\ laneAsset' = laneSaved.laneAsset
  BY DEF RevertAll, Revert, Unlocked, L!RestoreTo
<1>2. SoundLanes(balanceOf', laneAsset') /\ Covers(bank', balanceOf')
  BY <1>1 DEF LanesInv, SavedCovered
<1>3. bank' \in Balances(Asset, Holder)
  BY <1>1 DEF IInv, TypeOK, Storage
<1>4. BackedBy(bank', balanceOf', frame')
  BY <1>1, <1>2, <1>3, CoveredAtRest DEF LanesFree, SoundLanes
<1> QED
  BY <1>1, <1>2, <1>4 DEF LanesInv, LanesFree, UndoCovered, SavedCovered, SoundLanes

\* The router calls credit, which mints the receipt or reverts at once.
LEMMA CreditBeginsKeeps ==
    ASSUME IInv, LanesInv, CreditBegins
    PROVE  LanesInv'
<1>1. /\ LanesFree /\ laneSaved' = laneSaved /\ saved' = saved /\ bank' = bank /\ call # Idle
      /\ call.pc # "idle" /\ call.pc # "refund" /\ call.asset # Native
  BY DEF CreditBegins, CallCredit, Idle
<1>2. SavedCovered'
  BY <1>1, SavedStays DEF LanesInv
<1>3. CASE UNCHANGED <<laneLedger, frame, undo>>
  BY <1>1, <1>2, <1>3, LanesStill DEF LaneColumnStays
<1>4. CASE L!Credit(Self, call.payout, call.asset, call.net)
  <2>1. call.asset \in Token /\ call.net \in Nat /\ call.payout \in Payee
        /\ call.payout \in Address
    BY <1>1, FrameFacts DEF Asset
  <2>2. PICK l \in Token \X Payee : l = <<call.asset, call.payout>>
    BY <2>1
  <2>3. l[1] = call.asset
    BY <2>2
  <2>4. /\ frame' = [op |-> "credit", who |-> Self, asset |-> call.asset, amount |-> call.net]
        /\ balanceOf' = Given(balanceOf, call.payout, l, call.net)
        /\ laneAsset' = [laneAsset EXCEPT ![l] = l[1]]
        /\ undo' = L!storage
    BY <1>4, <2>2, <2>3 DEF L!Credit, Given
  <2>5. /\ SoundLanes(balanceOf', laneAsset')
        /\ \A asset \in Token : OwedIn(balanceOf', asset)
               = OwedIn(balanceOf, asset) + (IF l[1] = asset THEN call.net ELSE 0)
    <3>1. SoundLanes(balanceOf, laneAsset)
      BY DEF LanesInv
    <3>2. /\ SoundLanes(Given(balanceOf, call.payout, l, call.net), [laneAsset EXCEPT ![l] = l[1]])
          /\ \A asset \in Token : OwedIn(Given(balanceOf, call.payout, l, call.net), asset)
                 = OwedIn(balanceOf, asset) + (IF l[1] = asset THEN call.net ELSE 0)
      BY <2>1, <3>1, MintSound
    <3> QED
      BY <2>4, <3>2
  <2>6. \A asset \in Token :
            /\ Moving(frame', asset, "claim") = 0
            /\ Moving(frame', asset, "credit") = IF l[1] = asset THEN call.net ELSE 0
            /\ OwedIn(balanceOf', asset) \in Nat
    BY <2>3, <2>4, <2>5, OwedTyped DEF Moving, SoundLanes
  <2>7. \A asset \in Token :
            OwedIn(balanceOf', asset) + Moving(frame', asset, "claim")
                = OwedIn(balanceOf, asset) + Moving(frame', asset, "credit")
    BY <2>5, <2>6
  <2>8. frame' \in CreditFlight
    BY <2>1, <2>4 DEF CreditFlight
  <2> QED
    BY <1>1, <1>2, <2>4, <2>5, <2>7, <2>8, EntryKeeps
<1> QED
  BY <1>3, <1>4 DEF CreditBegins

\* What was on its way arrives at the lanes, or at the claimant, and the lanes rest.
LEMMA ArrivalKeeps ==
    ASSUME IInv, LanesInv, L!CreditPulled \/ L!ClaimSent, SavedCovered'
    PROVE  LanesInv'
<1>1. PICK from \in Holder, to \in Holder :
          /\ frame \in CreditFlight \cup ClaimFlight /\ from # to
          /\ \/ frame.op = "credit" /\ to = Lanes
             \/ frame.op = "claim" /\ from = Lanes
          /\ Affords(bank, frame.asset, from, frame.amount)
          /\ bank' = Moved(bank, frame.asset, from, to, frame.amount)
  <2>1. frame \in CreditFlight \cup ClaimFlight
    BY DEF LanesInv, L!CreditPulled, L!ClaimSent, L!Free
  <2>2. frame.who \in Holder /\ Lanes \in Holder /\ frame.who # Lanes
    BY <2>1 DEF CreditFlight, ClaimFlight, Holder
  <2>3. CASE L!CreditPulled
    BY <2>1, <2>2, <2>3 DEF L!CreditPulled, L!Affords, L!Moved, Affords, Moved
  <2>4. CASE L!ClaimSent
    BY <2>1, <2>2, <2>4 DEF L!ClaimSent, L!Affords, L!Moved, Affords, Moved
  <2> QED
    BY <2>3, <2>4
<1>2. frame' = L!Free /\ balanceOf' = balanceOf /\ laneAsset' = laneAsset
  BY DEF L!CreditPulled, L!ClaimSent, L!ledger
<1>3. /\ bank \in Balances(Asset, Holder) /\ frame.asset \in Asset /\ frame.asset \in Token
      /\ frame.amount \in Nat /\ Lanes \in Holder
  BY <1>1 DEF IInv, TypeOK, CreditFlight, ClaimFlight, Holder, Asset
<1>4. /\ bank'[frame.asset][from] = bank[frame.asset][from] - frame.amount
      /\ bank'[frame.asset][to] = bank[frame.asset][to] + frame.amount
      /\ \A t \in Asset : t # frame.asset => bank'[t] = bank[t]
  BY <1>1, <1>3, MovedTyped
<1>5. ASSUME NEW asset \in Token
      PROVE  bank'[asset][Lanes] + Moving(frame', asset, "credit")
                 = OwedIn(balanceOf', asset) + Moving(frame', asset, "claim")
  <2>1. bank[asset][Lanes] + Moving(frame, asset, "credit")
            = OwedIn(balanceOf, asset) + Moving(frame, asset, "claim")
    BY DEF LanesInv, BackedBy
  <2>2. OwedIn(balanceOf, asset) \in Nat /\ bank[asset][Lanes] \in Nat
    BY <1>3, OwedTyped DEF LanesInv, SoundLanes, Balances, Asset
  <2>3. Moving(frame', asset, "credit") = 0 /\ Moving(frame', asset, "claim") = 0
    BY <1>2 DEF Moving, L!Free
  <2>4. CASE asset # frame.asset
    <3>1. Moving(frame, asset, "credit") = 0 /\ Moving(frame, asset, "claim") = 0
      BY <2>4 DEF Moving
    <3> QED
      BY <1>2, <1>4, <2>1, <2>2, <2>3, <2>4, <3>1 DEF Asset
  <2>5. CASE asset = frame.asset /\ frame.op = "credit" /\ to = Lanes
    <3>1. Moving(frame, asset, "credit") = frame.amount /\ Moving(frame, asset, "claim") = 0
      BY <2>5 DEF Moving
    <3> QED
      BY <1>2, <1>3, <1>4, <2>1, <2>2, <2>3, <2>5, <3>1
  <2>6. CASE asset = frame.asset /\ frame.op = "claim" /\ from = Lanes
    <3>1. Moving(frame, asset, "credit") = 0 /\ Moving(frame, asset, "claim") = frame.amount
      BY <2>6 DEF Moving
    <3> QED
      BY <1>2, <1>3, <1>4, <2>1, <2>2, <2>3, <2>6, <3>1
  <2> QED
    BY <1>1, <2>4, <2>5, <2>6
<1>6. BackedBy(bank', balanceOf', frame') /\ UndoCovered'
  BY <1>2, <1>5 DEF BackedBy, UndoCovered, LanesFree
<1> QED
  BY <1>2, <1>6 DEF LanesInv, SoundLanes

\* A reverted lanes function brings back what its undo remembers.
LEMMA UndoneKeeps ==
    ASSUME IInv, LanesInv, L!Undone, LaneColumnStays, IInv', SavedCovered'
    PROVE  LanesInv'
<1>1. /\ ~LanesFree /\ frame' = L!Free
      /\ balanceOf' = undo.balanceOf /\ laneAsset' = undo.laneAsset
  BY DEF L!Undone, L!RestoreTo, LanesFree
<1>2. SoundLanes(balanceOf', laneAsset') /\ Covers(bank', balanceOf')
  BY <1>1 DEF LanesInv, UndoCovered, LaneColumnStays, Covers
<1>3. BackedBy(bank', balanceOf', frame')
  BY <1>1, <1>2, CoveredAtRest DEF IInv, TypeOK, SoundLanes
<1> QED
  BY <1>1, <1>2, <1>3 DEF LanesInv, UndoCovered, LanesFree

\* A claim moves none of the money the router answers for.
LEMMA ClaimKeepsIInv ==
    ASSUME IInv, LanesInv, L!ClaimSent, UNCHANGED <<registry, settings, rescue, receipt, call, saved>>
    PROVE  IInv'
<1>1. frame \in ClaimFlight
  BY DEF LanesInv, L!ClaimSent, CreditFlight, L!Free
<1>2. /\ bank \in Balances(Asset, Holder) /\ frame.asset \in Asset /\ frame.amount \in Nat
      /\ Lanes \in Holder /\ frame.who \in Holder /\ Self \in Holder /\ Lanes # frame.who
      /\ Self \notin {Lanes, frame.who}
      /\ Affords(bank, frame.asset, Lanes, frame.amount)
      /\ bank' = Moved(bank, frame.asset, Lanes, frame.who, frame.amount)
  BY <1>1 DEF IInv, TypeOK, ClaimFlight, Holder, Asset, L!ClaimSent, L!Affords, L!Moved, Affords, Moved
<1>3. /\ bank' \in Balances(Asset, Holder)
      /\ bank'[frame.asset][Self] = bank[frame.asset][Self]
      /\ \A a \in Asset : a # frame.asset => bank'[a] = bank[a]
  BY <1>2, MovedTyped
<1>4. TypeOK'
  BY <1>3 DEF IInv, TypeOK, registry, settings
<1>5. TokenCustody'
  BY <1>3 DEF IInv, TokenCustody, InFlight, Asset
<1> QED
  BY <1>4, <1>5 DEF IInv, registry, FeeWithinCap, RoutingPinned, RegistryOK, LegsInOrder,
                    FrameOK, SavedOK

\* A claim burns the receipt of a lane that is bound to the asset it asks for, or to none,
\* in which case nobody has a receipt; so what it will send is in the lane's own asset.
LEMMA ClaimBeginsKeeps ==
    ASSUME RailAssumption, IInv, LanesInv, NEW caller \in Address, NEW l \in Token \X Payee,
           NEW token \in Token, NEW max \in ClaimBound \cup {Unlimited},
           L!Claim(caller, l, token, max), SavedCovered'
    PROVE  LanesInv'
<1>a. PICK n : n = L!AtMost(max, balanceOf[caller][l])
  OBVIOUS
<1>1. SoundLanes(balanceOf, laneAsset) /\ balanceOf[caller][l] \in Nat
  BY DEF LanesInv, SoundLanes, LaneReceipts, ReceiptsOf
<1>2. n \in Nat /\ n <= balanceOf[caller][l]
  <2>1. max # Unlimited => max \in Nat
    BY DEF RailAssumption
  <2> QED
    BY <1>a, <1>1, <2>1 DEF L!AtMost
<1>3. /\ LanesFree /\ n > 0 /\ undo' = L!storage /\ bank' = bank /\ laneAsset' = laneAsset
      /\ laneAsset[l] \in {NoAddress, token}
      /\ balanceOf' = Taken(balanceOf, caller, l, n)
      /\ frame' = [op |-> "claim", who |-> caller, asset |-> token, amount |-> n]
  BY <1>a DEF L!Claim, L!Releases, Taken, LanesFree
<1>4. l[1] = token
  <2>1. laneAsset[l] = l[1] /\ l[1] \in Token
    BY <1>1, <1>2, <1>3 DEF SoundLanes
  <2> QED
    BY <1>3, <2>1 DEF RailAssumption
<1>5. /\ SoundLanes(balanceOf', laneAsset')
      /\ \A asset \in Token : OwedIn(balanceOf, asset)
             = OwedIn(balanceOf', asset) + (IF l[1] = asset THEN n ELSE 0)
  <2>1. /\ SoundLanes(Taken(balanceOf, caller, l, n), laneAsset)
        /\ \A asset \in Token : OwedIn(balanceOf, asset)
               = OwedIn(Taken(balanceOf, caller, l, n), asset) + (IF l[1] = asset THEN n ELSE 0)
    BY <1>1, <1>2, BurnSound
  <2> QED
    BY <1>3, <2>1
<1>6. \A asset \in Token :
          /\ Moving(frame', asset, "credit") = 0
          /\ Moving(frame', asset, "claim") = IF l[1] = asset THEN n ELSE 0
          /\ OwedIn(balanceOf, asset) \in Nat
  BY <1>1, <1>3, <1>4, OwedTyped DEF Moving, SoundLanes
<1>7. \A asset \in Token :
          OwedIn(balanceOf', asset) + Moving(frame', asset, "claim")
              = OwedIn(balanceOf, asset) + Moving(frame', asset, "credit")
  BY <1>5, <1>6
<1>8. frame' \in ClaimFlight
  BY <1>2, <1>3 DEF ClaimFlight
<1> QED
  BY <1>3, <1>5, <1>7, <1>8, EntryKeeps

\* Every step of the router and the lanes together is one of the router alone, but for
\* the lanes' own functions.
LEMMA RailSteps ==
    ASSUME RailNext
    PROVE  Next \/ ClaimLane \/ AuthorizeRouter
BY DEF RailNext, RouterAlone, Enter, Return, RevertAll, CreditBegins, CreditReturns, CreditReverts,
       Next, Settle, Pay

RailInv == IInv /\ LanesInv

LEMMA ClaimLaneKeeps ==
    ASSUME RailAssumption, RailInv, ClaimLane
    PROVE  RailInv'
<1> USE DEF RailInv
<1>1. UNCHANGED <<registry, settings, rescue, receipt, call, saved, laneSaved>>
  BY DEF ClaimLane
<1>2. SavedCovered'
  BY <1>1, SavedStays DEF LanesInv
<1>3. ASSUME bank' = bank PROVE IInv'
  BY <1>1, <1>3, NextKeepsIInv DEF vars
<1>4. CASE L!ClaimSent
  BY <1>1, <1>2, <1>4, ClaimKeepsIInv, ArrivalKeeps
<1>5. ASSUME NEW caller \in Address, NEW l \in Token \X Payee, NEW token \in Token,
             NEW max \in ClaimBound \cup {Unlimited}, L!Claim(caller, l, token, max)
      PROVE  RailInv'
  <2>1. bank' = bank
    BY <1>5 DEF L!Claim
  <2> QED
    BY <1>2, <1>3, <1>5, <2>1, ClaimBeginsKeeps
<1>6. CASE L!Revert
  <2>1. bank' = bank /\ L!Undone
    BY <1>6 DEF L!Revert
  <2> QED
    BY <1>2, <1>3, <2>1, UndoneKeeps DEF LaneColumnStays
<1> QED
  BY <1>4, <1>5, <1>6 DEF ClaimLane, L!Redeem, L!Lane

\* The router and the lanes keep the invariant in every step.
LEMMA NextKeepsRailInv ==
    ASSUME RailAssumption, RailInv, [RailNext]_railVars
    PROVE  RailInv'
<1> USE DEF RailInv
<1>1. CASE ClaimLane
  BY <1>1, ClaimLaneKeeps
<1>2. CASE AuthorizeRouter
  <2>1. UNCHANGED vars /\ UNCHANGED <<balanceOf, laneAsset, frame, undo, laneSaved, bank, call, saved>>
    BY <1>2 DEF AuthorizeRouter, L!SetRouter, vars
  <2> QED
    BY <2>1, NextKeepsIInv, SavedStays DEF LanesInv, SoundLanes, BackedBy, UndoCovered, LanesFree, Covers
<1>3. CASE UNCHANGED railVars
  <2>1. UNCHANGED vars /\ UNCHANGED <<balanceOf, laneAsset, frame, undo, laneSaved, bank, call, saved>>
    BY <1>3 DEF railVars, laneVars, laneLedger, vars
  <2> QED
    BY <2>1, NextKeepsIInv, SavedStays DEF LanesInv, SoundLanes, BackedBy, UndoCovered, LanesFree, Covers
<1>4. CASE RailNext /\ ~ClaimLane /\ ~AuthorizeRouter
  <2>1. IInv'
    BY <1>4, RailSteps, NextKeepsIInv
  <2>2. CASE RouterAlone
    BY <2>1, <2>2, RouterAloneKeeps
  <2>3. CASE Enter
    BY <2>1, <2>3, PaymentKeeps
  <2>4. CASE Return
    BY <2>1, <2>4, PaymentReturnKeeps
  <2>5. CASE RevertAll
    BY <2>1, <2>5, PaymentRevertKeeps
  <2>6. CASE CreditBegins
    BY <2>1, <2>6, CreditBeginsKeeps
  <2>7. CASE CreditReturns
    <3>1. SavedCovered'
      BY <2>7, SavedStays DEF CreditReturns, CreditTaken, Idle, LanesInv
    <3> QED
      BY <2>1, <2>7, <3>1, ArrivalKeeps DEF CreditReturns
  <2>8. CASE CreditReverts
    <3>1. SavedCovered' /\ LaneColumnStays
      BY <2>8, SavedStays, RouterMovesAside DEF CreditReverts, CreditCaught, Idle, LanesInv
    <3> QED
      BY <2>1, <2>8, <3>1, UndoneKeeps, LanesStill DEF CreditReverts
  <2> QED
    BY <1>4, <2>2, <2>3, <2>4, <2>5, <2>6, <2>7, <2>8 DEF RailNext
<1> QED
  BY <1>1, <1>2, <1>3, <1>4

\* Fresh lanes owe nothing and hold nothing.
LEMMA RailInitially ==
    ASSUME RailAssumption, RailInit
    PROVE  RailInv
<1>1. /\ balanceOf = [o \in Address |-> [l \in Token \X Payee |-> 0]]
      /\ laneAsset = [l \in Token \X Payee |-> NoAddress]
      /\ frame = L!Free /\ bank = Endowment /\ call = Idle /\ Init
  BY DEF RailInit, L!Fresh, L!Lane, Init
<1>2. SoundLanes(balanceOf, laneAsset)
  BY <1>1 DEF SoundLanes, LaneReceipts, ReceiptsOf
<1>3. ASSUME NEW asset \in Token PROVE OwedIn(balanceOf, asset) = 0
  <2>1. \A o \in Address, l \in Token \X Payee : balanceOf[o][l] = 0
    BY <1>1
  <2> QED
    BY <1>2, <2>1, PartiesFinite, SumOnZero DEF OwedIn, SoundLanes, LaneReceipts
<1>4. IInv
  BY <1>1, InitEstablishesIInv
<1>5. BackedBy(bank, balanceOf, frame)
  BY <1>1, <1>2, <1>3, CoveredAtRest DEF Covers, RailAssumption, SoundLanes
<1> QED
  BY <1>1, <1>2, <1>4, <1>5 DEF RailInv, LanesInv, UndoCovered, SavedCovered, LanesFree

\* The two contracts keep the invariant for ever.
LEMMA RailInvariance ==
    ASSUME RailAssumption
    PROVE  RailSpec => []RailInv
<1>1. RailInit => RailInv
  BY RailInitially
<1>2. RailInv /\ [RailNext]_railVars => RailInv'
  BY NextKeepsRailInv
<1> QED
  BY <1>1, <1>2, PTL DEF RailSpec

\* Receive in any coin, for any tokens, payees and amounts: while the router funds them
\* from payments that credit, fall back to the push or revert after the credit, and while
\* payees claim inside those payments, the lanes hold of every token exactly the receipts
\* outstanding in it, and every receipt can be claimed in the asset of its lane.
THEOREM RailKeepsLanesBacked ==
    ASSUME RailAssumption
    PROVE  RailSpec => []LanesBacked
<1>1. RailInv => LanesBacked
  <2>1. LanesInv => L!Redeemable
    BY DEF LanesInv, SoundLanes, L!Redeemable, L!Lane
  <2>2. LanesInv => L!Backed
    BY LanesBackedForm DEF LanesInv
  <2> QED
    BY <2>1, <2>2 DEF RailInv, LanesBacked
<1> QED
  BY <1>1, RailInvariance, PTL

-----------------------------------------------------------------------------
(* Payments through the lanes are atomic.  What a holder can take out of the two  *)
(* contracts counts the receipts as they were when the lanes were last at rest:    *)
(* a claim in flight has not paid yet and a credit in flight is not paid for yet.   *)

\* What the receipts b of an asset are worth to h.
LaneWorth(b, asset, h) == SumFunction([p \in Payee |-> b[h][<<asset, p>>]])

\* What every holder can take out, of these balances, rescue queue and receipts.
WorthOf(k, r, b) ==
    [asset \in Asset |-> [h \in Address |->
        k[asset][h] + (IF asset = Native THEN r[h] ELSE LaneWorth(b, asset, h))]]

Settled == IF LanesFree THEN balanceOf ELSE undo.balanceOf

LEMMA LaneWorthNat ==
    ASSUME NEW b \in LaneReceipts, NEW asset \in Token, NEW h \in Address
    PROVE  LaneWorth(b, asset, h) \in Nat
<1>1. [p \in Payee |-> b[h][<<asset, p>>]] \in [Payee -> Nat]
  BY DEF LaneReceipts, ReceiptsOf
<1> QED
  BY <1>1, PartiesFinite, SumNat DEF LaneWorth

\* One receipt that changes is worth the difference to its owner, in the lane's asset.
LEMMA LaneWorthAfter ==
    ASSUME NEW b \in LaneReceipts, NEW c \in LaneReceipts, NEW o \in Address,
           NEW l \in L!Lane, DifferAt(b, c, Address, L!Lane, o, l),
           NEW asset \in Token, NEW h \in Address, NEW d, c[o][l] - b[o][l] = d
    PROVE  LaneWorth(c, asset, h) = LaneWorth(b, asset, h)
               + (IF h = o /\ l[1] = asset THEN d ELSE 0)
<1>a. PICK f : f = [p \in Payee |-> b[h][<<asset, p>>]]
  OBVIOUS
<1>b. PICK g : g = [p \in Payee |-> c[h][<<asset, p>>]]
  OBVIOUS
<1>1. f \in [Payee -> Nat] /\ g \in [Payee -> Nat]
  BY <1>a, <1>b DEF LaneReceipts, ReceiptsOf
<1>2. LaneWorth(b, asset, h) = SumFunction(f) /\ LaneWorth(c, asset, h) = SumFunction(g)
  BY <1>a, <1>b DEF LaneWorth
<1>3. SumFunction(f) \in Nat
  BY <1>1, PartiesFinite, SumNat
<1>4. l = <<l[1], l[2]>> /\ l[2] \in Payee
  BY DEF L!Lane
<1>5. ASSUME NEW p \in Payee, h # o \/ <<asset, p>> # l PROVE g[p] = f[p]
  <2>1. <<asset, p>> \in L!Lane
    BY DEF L!Lane
  <2> QED
    BY <1>5, <1>a, <1>b, <2>1 DEF DifferAt
<1>6. CASE h = o /\ l[1] = asset
  <2>1. f[l[2]] = b[o][l] /\ g[l[2]] = c[o][l]
    BY <1>4, <1>6, <1>a, <1>b
  <2>2. \A p \in Payee : p # l[2] => g[p] = f[p]
    BY <1>4, <1>5
  <2>3. SumFunction(g) = SumFunction(f) + g[l[2]] - f[l[2]]
    BY <1>1, <1>4, <2>2, PartiesFinite, SumChange
  <2>4. f[l[2]] \in Nat /\ g[l[2]] \in Nat
    BY <1>1, <1>4
  <2> QED
    BY <1>2, <1>3, <1>6, <2>1, <2>3, <2>4
<1>7. CASE ~(h = o /\ l[1] = asset)
  <2>1. f = g
    BY <1>1, <1>4, <1>5, <1>7
  <2> QED
    BY <1>2, <1>3, <1>7, <2>1
<1> QED
  BY <1>6, <1>7

LEMMA WorthTyped ==
    ASSUME NEW k \in Balances(Asset, Holder), NEW r \in [Address -> Nat], NEW b \in LaneReceipts
    PROVE  /\ WorthOf(k, r, b) \in [Asset -> [Address -> Nat]]
           /\ \A asset \in Asset, h \in Address :
                  /\ k[asset][h] \in Nat
                  /\ WorthOf(k, r, b)[asset][h] = k[asset][h]
                         + (IF asset = Native THEN r[h] ELSE LaneWorth(b, asset, h))
<1>1. ASSUME NEW asset \in Asset, NEW h \in Address
      PROVE  /\ k[asset][h] \in Nat
             /\ k[asset][h] + (IF asset = Native THEN r[h] ELSE LaneWorth(b, asset, h)) \in Nat
  <2>1. k[asset][h] \in Nat /\ r[h] \in Nat
    BY DEF Balances, Holder
  <2>2. asset # Native => LaneWorth(b, asset, h) \in Nat
    BY LaneWorthNat DEF Asset
  <2> QED
    BY <2>1, <2>2
<1> QED
  BY <1>1 DEF WorthOf

\* What a lanes function in flight has done to its owner's receipts since its entry.
FlightOf(f, now, then, asset, h) ==
    LaneWorth(now, asset, h) = LaneWorth(then, asset, h)
        + (IF f.op = "credit" /\ f.asset = asset /\ h = call.payout THEN f.amount ELSE 0)
        - (IF f.op = "claim" /\ f.asset = asset /\ h = f.who THEN f.amount ELSE 0)

\* A credit in flight is the net leg of the payment in flight.
FlightTold ==
    ~LanesFree =>
        /\ \A asset \in Token, h \in Address : FlightOf(frame, balanceOf, undo.balanceOf, asset, h)
        /\ frame.op = "credit" =>
               call.pc = "credit" /\ frame.asset = call.asset /\ frame.amount = call.net

\* A payment of the rail is one of a token; before its pull it has moved nothing.
RailRow(f, old, new) ==
    /\ f.merchantId # 0
    /\ f.gross \in Gross
    /\ f.asset \in Token
    /\ IF f.pc = "pull" THEN new = old ELSE Tallied(f, old, new, Address)

Before == WorthOf(saved.bank, saved.rescue, laneSaved.balanceOf)
Now == WorthOf(bank, rescue, Settled)

\* Since the payment in flight was entered, only it has moved what holders can take out.
RailLedger ==
    call # Idle =>
        /\ \A asset \in Asset : asset # call.asset => Now[asset] = Before[asset]
        /\ RailRow(call, Before[call.asset], Now[call.asset])

RailMap == IF call = Idle THEN Now ELSE Before

LEMMA SettledTyped ==
    ASSUME RailInv
    PROVE  /\ Settled \in LaneReceipts
           /\ balanceOf \in LaneReceipts
           /\ Now \in [Asset -> [Address -> Nat]]
           /\ call # Idle => laneSaved.balanceOf \in LaneReceipts /\ saved # <<>>
                               /\ Before \in [Asset -> [Address -> Nat]]
<1>1. Settled \in LaneReceipts /\ balanceOf \in LaneReceipts
  BY DEF RailInv, LanesInv, SoundLanes, UndoCovered, Settled
<1>2. Now \in [Asset -> [Address -> Nat]]
  BY <1>1, WorthTyped DEF RailInv, IInv, TypeOK, Now
<1>3. ASSUME call # Idle
      PROVE  /\ laneSaved.balanceOf \in LaneReceipts /\ saved # <<>>
             /\ saved.bank \in Balances(Asset, Holder) /\ saved.rescue \in [Address -> Nat]
  BY <1>3 DEF RailInv, IInv, TypeOK, Storage, LanesInv, SavedCovered, SoundLanes
<1>4. call # Idle => Before \in [Asset -> [Address -> Nat]]
  BY <1>3, WorthTyped DEF Before
<1> QED
  BY <1>1, <1>2, <1>3, <1>4

LEMMA SettledTypedNext ==
    ASSUME RailInv'
    PROVE  Now' \in [Asset -> [Address -> Nat]]
<1>1. Settled' \in LaneReceipts
  BY DEF RailInv, LanesInv, SoundLanes, UndoCovered, Settled
<1> QED
  BY <1>1, WorthTyped DEF RailInv, IInv, TypeOK, Now

\* The refinement mapping: a claim in flight outside a payment pays what its receipt was
\* worth.
LEMMA MappedWealth ==
    ASSUME RailInv, FlightTold
    PROVE  RailWealth = RailMap
<1>1. CASE call = Idle
  <2>1. ASSUME NEW asset \in Asset, NEW h \in Address
        PROVE  Claimable(bank, rescue, balanceOf, asset, h) + ClaimInTransit(asset, h)
                   = Now[asset][h]
    <3>1. /\ Now[asset][h] = bank[asset][h]
                 + (IF asset = Native THEN rescue[h] ELSE LaneWorth(Settled, asset, h))
          /\ bank[asset][h] \in Nat /\ rescue[h] \in Nat
      <4>1. /\ bank \in Balances(Asset, Holder) /\ rescue \in [Address -> Nat]
            /\ Settled \in LaneReceipts
        BY SettledTyped DEF RailInv, IInv, TypeOK
      <4> QED
        BY <4>1, WorthTyped DEF Now
    <3>2. Claimable(bank, rescue, balanceOf, asset, h) = bank[asset][h]
                 + (IF asset = Native THEN rescue[h] ELSE LaneWorth(balanceOf, asset, h))
      BY DEF Claimable, LaneWorth
    <3>3. CASE LanesFree
      <4>1. ClaimInTransit(asset, h) = 0 /\ Settled = balanceOf
        BY <3>3 DEF ClaimInTransit, LanesFree, L!Free, Settled
      <4>2. asset # Native => LaneWorth(balanceOf, asset, h) \in Nat
        BY SettledTyped, LaneWorthNat DEF Asset
      <4> QED
        BY <3>1, <3>2, <4>1, <4>2
    <3>4. CASE ~LanesFree
      <4>1. frame.op = "claim" /\ frame.asset \in Token /\ frame.amount \in Nat
            /\ Settled = undo.balanceOf
        BY <1>1, <3>4 DEF FlightTold, RailInv, LanesInv, LanesFree, CreditFlight, ClaimFlight,
                          Idle, Settled
      <4>2. CASE asset = Native
        <5>1. ClaimInTransit(asset, h) = 0
          BY <4>1, <4>2 DEF ClaimInTransit
        <5> QED
          BY <3>1, <3>2, <4>2, <5>1
      <4>3. CASE asset \in Token
        <5>1. LaneWorth(balanceOf, asset, h) \in Nat /\ LaneWorth(Settled, asset, h) \in Nat
          BY <4>3, SettledTyped, LaneWorthNat
        <5>2. LaneWorth(balanceOf, asset, h)
                  = LaneWorth(Settled, asset, h) - ClaimInTransit(asset, h)
          BY <3>4, <4>1, <4>3, <5>1 DEF FlightTold, FlightOf, ClaimInTransit
        <5>3. ClaimInTransit(asset, h) \in Nat
          BY <4>1 DEF ClaimInTransit
        <5> QED
          BY <3>1, <3>2, <4>3, <5>1, <5>2, <5>3
      <4> QED
        BY <4>2, <4>3 DEF Asset
    <3> QED
      BY <3>3, <3>4
  <2> QED
    BY <1>1, <2>1, SettledTyped DEF RailWealth, RailMap, Now, WorthOf
<1>2. CASE call # Idle
  BY <1>2 DEF RailWealth, RailMap, Before, WorthOf, Claimable, LaneWorth
<1> QED
  BY <1>1, <1>2

\* The holder to can take out n more of an asset, and nothing else has changed.
Pays(now, later, asset, to, n) ==
    /\ \A a \in Asset : a # asset => later[a] = now[a]
    /\ Gains(now[asset], later[asset], Address, to, n)

\* Two worths that agree everywhere but where to gains n.
LEMMA PaysByPoints ==
    ASSUME NEW now \in [Asset -> [Address -> Nat]], NEW later \in [Asset -> [Address -> Nat]],
           NEW asset \in Asset, NEW to, NEW n,
           \A a \in Asset, h \in Address :
               later[a][h] = now[a][h] + (IF a = asset /\ h = to THEN n ELSE 0)
    PROVE  Pays(now, later, asset, to, n)
<1>1. ASSUME NEW a \in Asset, a # asset PROVE later[a] = now[a]
  <2>1. now[a] \in [Address -> Nat] /\ later[a] \in [Address -> Nat]
    OBVIOUS
  <2>2. \A h \in Address : later[a][h] = now[a][h] /\ now[a][h] \in Nat
    BY <1>1, <2>1
  <2> QED
    BY <2>1, <2>2
<1>2. \A h \in Address : later[asset][h] = now[asset][h] + (IF h = to THEN n ELSE 0)
  OBVIOUS
<1> QED
  BY <1>1, <1>2 DEF Pays, Gains

\* A transfer from the router pays the one who gets it.
LEMMA PaidOutWorth ==
    ASSUME NEW k \in Balances(Asset, Holder), NEW r \in [Address -> Nat], NEW b \in LaneReceipts,
           NEW asset \in Asset, NEW to \in Address, NEW n \in Nat, Affords(k, asset, Self, n)
    PROVE  Pays(WorthOf(k, r, b), WorthOf(Moved(k, asset, Self, to, n), r, b), asset, to, n)
<1>a. PICK c : c = Moved(k, asset, Self, to, n)
  OBVIOUS
<1>1. /\ Self \in Holder /\ to \in Holder /\ to # Self
      /\ \A h \in Address : h \in Holder /\ h # Self
  BY DEF Holder
<1>2. /\ c \in Balances(Asset, Holder)
      /\ c[asset][to] = k[asset][to] + n
      /\ \A h \in Holder : h \notin {Self, to} => c[asset][h] = k[asset][h]
      /\ \A a \in Asset : a # asset => c[a] = k[a]
  BY <1>1, <1>a, MovedTyped
<1>3. ASSUME NEW a \in Asset, NEW h \in Address
      PROVE  WorthOf(c, r, b)[a][h]
                 = WorthOf(k, r, b)[a][h] + (IF a = asset /\ h = to THEN n ELSE 0)
  <2>1. k[a][h] \in Nat /\ r[h] \in Nat /\ (a # Native => LaneWorth(b, a, h) \in Nat)
    BY <1>1, LaneWorthNat DEF Balances, Asset
  <2>2. c[a][h] = k[a][h] + (IF a = asset /\ h = to THEN n ELSE 0)
    BY <1>1, <1>2, <2>1
  <2> QED
    BY <1>2, <2>1, <2>2 DEF WorthOf
<1>4. WorthOf(k, r, b) \in [Asset -> [Address -> Nat]] /\ WorthOf(c, r, b) \in [Asset -> [Address -> Nat]]
  BY <1>2, WorthTyped
<1> QED
  BY <1>a, <1>3, <1>4, PaysByPoints

\* A pull takes it from the payer.
LEMMA PulledWorth ==
    ASSUME NEW k \in Balances(Asset, Holder), NEW r \in [Address -> Nat], NEW b \in LaneReceipts,
           NEW asset \in Asset, NEW from \in Address, NEW n \in Nat, Affords(k, asset, from, n)
    PROVE  LET c == Moved(k, asset, from, Self, n)
           IN  /\ \A a \in Asset : a # asset => WorthOf(c, r, b)[a] = WorthOf(k, r, b)[a]
               /\ \A h \in Address : WorthOf(c, r, b)[asset][h] =
                      WorthOf(k, r, b)[asset][h] - (IF h = from THEN n ELSE 0)
               /\ WorthOf(k, r, b)[asset][from] >= n
<1>a. PICK c : c = Moved(k, asset, from, Self, n)
  OBVIOUS
<1>1. /\ Self \in Holder /\ from \in Holder /\ from # Self
      /\ \A h \in Address : h \in Holder /\ h # Self
  BY DEF Holder
<1>2. /\ c \in Balances(Asset, Holder)
      /\ c[asset][from] = k[asset][from] - n
      /\ \A h \in Holder : h \notin {Self, from} => c[asset][h] = k[asset][h]
      /\ \A a \in Asset : a # asset => c[a] = k[a]
  BY <1>1, <1>a, MovedTyped
<1>3. ASSUME NEW a \in Asset, a # asset PROVE WorthOf(c, r, b)[a] = WorthOf(k, r, b)[a]
  BY <1>2, <1>3 DEF WorthOf
<1>4. ASSUME NEW h \in Address
      PROVE  /\ k[asset][h] \in Nat /\ r[h] \in Nat
             /\ (asset # Native => LaneWorth(b, asset, h) \in Nat)
             /\ WorthOf(k, r, b)[asset][h]
                    = k[asset][h] + (IF asset = Native THEN r[h] ELSE LaneWorth(b, asset, h))
             /\ WorthOf(c, r, b)[asset][h]
                    = c[asset][h] + (IF asset = Native THEN r[h] ELSE LaneWorth(b, asset, h))
  BY <1>1, LaneWorthNat DEF Balances, Asset, WorthOf
<1>5. ASSUME NEW h \in Address
      PROVE  WorthOf(c, r, b)[asset][h]
                 = WorthOf(k, r, b)[asset][h] - (IF h = from THEN n ELSE 0)
  <2>1. c[asset][h] = k[asset][h] - (IF h = from THEN n ELSE 0)
    BY <1>1, <1>2, <1>4
  <2> QED
    BY <1>4, <2>1
<1>6. WorthOf(k, r, b)[asset][from] >= n
  BY <1>4 DEF Affords
<1> QED
  BY <1>a, <1>3, <1>5, <1>6

\* The receipt of a credit is paid for: the payee can take out the net leg from now on.
LEMMA CreditPays ==
    ASSUME RailInv, RailInv', FlightTold, CreditReturns
    PROVE  Pays(Now, Now', call.asset, call.payout, call.net)
<1>1. /\ ~LanesFree /\ frame.op = "credit" /\ call.pc = "credit"
      /\ LanesFree' /\ balanceOf' = balanceOf /\ rescue' = rescue
      /\ bank' = Moved(bank, call.asset, Self, Lanes, call.net)
      /\ Affords(bank, call.asset, Self, call.net)
  BY DEF CreditReturns, CreditTaken, L!CreditPulled, L!ledger, LanesFree, L!Free
<1>2. /\ frame.asset = call.asset /\ frame.amount = call.net /\ frame.asset \in Token
      /\ frame.amount \in Nat
      /\ \A asset \in Token, h \in Address : FlightOf(frame, balanceOf, undo.balanceOf, asset, h)
  BY <1>1 DEF FlightTold, RailInv, LanesInv, LanesFree, CreditFlight, ClaimFlight
<1>3. /\ bank \in Balances(Asset, Holder) /\ rescue \in [Address -> Nat]
      /\ bank' \in Balances(Asset, Holder)
      /\ balanceOf \in LaneReceipts /\ undo.balanceOf \in LaneReceipts
      /\ Settled = undo.balanceOf /\ Settled' = balanceOf
  BY <1>1, SettledTyped DEF RailInv, IInv, TypeOK, Settled
<1>4. Now = WorthOf(bank, rescue, undo.balanceOf) /\ Now' = WorthOf(bank', rescue, balanceOf)
  BY <1>1, <1>3 DEF Now
<1>5. ASSUME NEW a \in Asset, NEW h \in Address PROVE bank'[a][h] = bank[a][h]
  <2>1. /\ call.asset \in Asset /\ call.net \in Nat /\ Self \in Holder /\ Lanes \in Holder
        /\ Self # Lanes /\ h \in Holder /\ h \notin {Self, Lanes}
    BY <1>2 DEF Holder, Asset
  <2> QED
    BY <1>1, <1>3, <2>1, MovedTyped
<1>6. ASSUME NEW a \in Asset, NEW h \in Address
      PROVE  Now'[a][h] = Now[a][h]
                 + (IF a = call.asset /\ h = call.payout THEN call.net ELSE 0)
  <2>1. /\ Now[a][h] = bank[a][h]
               + (IF a = Native THEN rescue[h] ELSE LaneWorth(undo.balanceOf, a, h))
        /\ Now'[a][h] = bank'[a][h]
               + (IF a = Native THEN rescue[h] ELSE LaneWorth(balanceOf, a, h))
        /\ bank[a][h] \in Nat /\ rescue[h] \in Nat
    BY <1>3, <1>4, WorthTyped
  <2>2. CASE a = Native
    BY <1>2, <1>5, <2>1, <2>2
  <2>3. CASE a \in Token
    <3>1. LaneWorth(undo.balanceOf, a, h) \in Nat
      BY <1>3, <2>3, LaneWorthNat
    <3>2. LaneWorth(balanceOf, a, h) = LaneWorth(undo.balanceOf, a, h)
              + (IF a = call.asset /\ h = call.payout THEN call.net ELSE 0)
      BY <1>1, <1>2, <2>3, <3>1 DEF FlightOf
    <3>3. a # Native
      BY <2>3
    <3> QED
      BY <1>2, <1>5, <2>1, <3>1, <3>2, <3>3
  <2> QED
    BY <2>2, <2>3 DEF Asset
<1>7. call.asset \in Asset /\ Now \in [Asset -> [Address -> Nat]] /\ Now' \in [Asset -> [Address -> Nat]]
  BY <1>2, <1>3, <1>4, WorthTyped DEF Asset
<1> QED
  BY ONLY <1>6, <1>7, PaysByPoints

\* The claimant of a claim that is sent has what the receipt was worth.
LEMMA ClaimPays ==
    ASSUME RailInv, RailInv', FlightTold, L!ClaimSent, rescue' = rescue
    PROVE  Now' = Now
<1>1. /\ ~LanesFree /\ frame.op = "claim" /\ LanesFree' /\ balanceOf' = balanceOf
      /\ bank' = Moved(bank, frame.asset, Lanes, frame.who, frame.amount)
      /\ Affords(bank, frame.asset, Lanes, frame.amount)
  BY DEF L!ClaimSent, L!ledger, LanesFree, L!Free, L!Affords, L!Moved, Affords, Moved
<1>2. /\ frame.asset \in Token /\ frame.amount \in Nat /\ frame.who \in Address
      /\ \A asset \in Token, h \in Address : FlightOf(frame, balanceOf, undo.balanceOf, asset, h)
  BY <1>1 DEF FlightTold, RailInv, LanesInv, LanesFree, CreditFlight, ClaimFlight
<1>3. /\ bank \in Balances(Asset, Holder) /\ rescue \in [Address -> Nat]
      /\ bank' \in Balances(Asset, Holder)
      /\ balanceOf \in LaneReceipts /\ undo.balanceOf \in LaneReceipts
      /\ Settled = undo.balanceOf /\ Settled' = balanceOf
  BY <1>1, SettledTyped DEF RailInv, IInv, TypeOK, Settled
<1>4. Now = WorthOf(bank, rescue, undo.balanceOf) /\ Now' = WorthOf(bank', rescue, balanceOf)
  BY <1>1, <1>3 DEF Now
<1>5. ASSUME NEW a \in Asset, NEW h \in Address
      PROVE  bank'[a][h] = bank[a][h]
                 + (IF a = frame.asset /\ h = frame.who THEN frame.amount ELSE 0)
  <2>1. /\ frame.asset \in Asset /\ frame.who \in Holder /\ Lanes \in Holder
        /\ Lanes # frame.who /\ h \in Holder /\ h # Lanes /\ bank[a][h] \in Nat
    BY <1>2, <1>3 DEF Holder, Asset, Balances
  <2>2. /\ bank'[frame.asset][frame.who] = bank[frame.asset][frame.who] + frame.amount
        /\ \A g \in Holder : g \notin {Lanes, frame.who} => bank'[frame.asset][g] = bank[frame.asset][g]
        /\ \A t \in Asset : t # frame.asset => bank'[t] = bank[t]
    BY <1>1, <1>2, <1>3, <2>1, MovedTyped
  <2> QED
    BY <2>1, <2>2
<1>6. ASSUME NEW a \in Asset, NEW h \in Address PROVE Now'[a][h] = Now[a][h]
  <2>1. /\ Now[a][h] = bank[a][h]
               + (IF a = Native THEN rescue[h] ELSE LaneWorth(undo.balanceOf, a, h))
        /\ Now'[a][h] = bank'[a][h]
               + (IF a = Native THEN rescue[h] ELSE LaneWorth(balanceOf, a, h))
        /\ bank[a][h] \in Nat /\ rescue[h] \in Nat
    BY <1>3, <1>4, WorthTyped
  <2>2. CASE a = Native
    BY <1>2, <1>5, <2>1, <2>2
  <2>3. CASE a \in Token
    <3>1. LaneWorth(undo.balanceOf, a, h) \in Nat /\ LaneWorth(balanceOf, a, h) \in Nat
      BY <1>3, <2>3, LaneWorthNat
    <3>2. LaneWorth(balanceOf, a, h) = LaneWorth(undo.balanceOf, a, h)
              - (IF a = frame.asset /\ h = frame.who THEN frame.amount ELSE 0)
      BY <1>1, <1>2, <2>3, <3>1 DEF FlightOf
    <3>3. a # Native
      BY <2>3
    <3> QED
      BY <1>2, <1>5, <2>1, <3>1, <3>2, <3>3
  <2> QED
    BY <2>2, <2>3 DEF Asset
<1>7. Now \in [Asset -> [Address -> Nat]] /\ Now' \in [Asset -> [Address -> Nat]]
  BY <1>3, <1>4, WorthTyped
<1> QED
  BY ONLY <1>6, <1>7

\* Steps that leave the money, the receipts and the frames alone.
LEMMA RailStands ==
    ASSUME FlightTold, RailLedger,
           UNCHANGED <<bank, rescue, call, saved, balanceOf, frame, undo, laneSaved>>
    PROVE  FlightTold' /\ RailLedger' /\ RailMap' = RailMap
<1>1. Now' = Now /\ Before' = Before
  BY DEF Now, Before, Settled, LanesFree
<1>2. FlightTold'
  BY DEF FlightTold, FlightOf, LanesFree
<1> QED
  BY <1>1, <1>2 DEF RailLedger, RailMap

\* A payment that is entered has moved nothing yet.
LEMMA RailEnterLedger ==
    ASSUME RailInv, RailInv', FlightTold, Enter
    PROVE  FlightTold' /\ RailLedger' /\ RailMap' = RailMap
<1>1. PICK buyer \in Buyer, id \in MerchantId, token \in Token, gross \in Gross :
          PayToken(buyer, id, token, gross)
  BY DEF Enter
<1>2. /\ LanesFree /\ LanesFree' /\ Unlocked /\ saved' = storage /\ bank' = bank /\ rescue' = rescue
      /\ laneSaved' = L!storage /\ balanceOf' = balanceOf
      /\ call'.pc = "pull" /\ call'.merchantId = id /\ call'.gross = gross /\ call'.asset = token
      /\ id # 0
  BY <1>1 DEF Enter, PayToken, MayPay, Entered, MerchantId, LanesFree, laneLedger
<1>3. call = Idle /\ call' # Idle
  BY <1>2 DEF Idle, Unlocked
<1>4. Now' = Now /\ Before' = Now
  BY <1>2 DEF Now, Before, Settled, storage, L!storage
<1> QED
  BY <1>2, <1>3, <1>4 DEF FlightTold, RailLedger, RailMap, RailRow

\* The pull takes the gross from the payer.
LEMMA RailPullLedger ==
    ASSUME RailInv, RailInv', RailLedger, PullExact,
           UNCHANGED <<balanceOf, frame, undo, laneSaved>>
    PROVE  RailLedger' /\ RailMap' = RailMap
<1>a. PICK f : f = SplitFee(call, call.gross, call.feeBps)
  OBVIOUS
<1>b. PICK before : before = Before
  OBVIOUS
<1>c. PICK now : now = Now
  OBVIOUS
<1>d. PICK later : later = Now'
  OBVIOUS
<1>1. /\ call.pc = "pull" /\ Affords(bank, call.asset, call.payer, call.gross)
      /\ bank' = Moved(bank, call.asset, call.payer, Self, call.gross)
      /\ call' = f /\ rescue' = rescue /\ saved' = saved
  BY <1>a DEF PullExact
<1>2. /\ call \in Frame /\ call.merchantId \in MerchantId /\ call.merchantId # 0
      /\ call.asset \in Asset /\ call # Idle
      /\ call.payer \in Address /\ call.feeBps \in Nat /\ call.gross \in Nat
      /\ call.refund = 0
  BY <1>1, FrameFacts DEF RailInv, IInv, LegsInOrder, Frame, MerchantId, Idle
<1>3. /\ f \in Frame /\ f.pc = "net" /\ f.asset = call.asset
      /\ f.merchantId = call.merchantId /\ f.payer = call.payer
      /\ f.refund = 0 /\ f.gross = call.gross
      /\ f.net + f.platformFee + f.merchantFee = call.gross /\ CapHolds(ReceiptOf(f))
  BY <1>2, <1>a, SplitFrame DEF RailInv, IInv
<1>4. f # Idle
  BY <1>3 DEF Idle
<1>5. /\ before \in [Asset -> [Address -> Nat]] /\ now \in [Asset -> [Address -> Nat]]
      /\ later \in [Asset -> [Address -> Nat]]
  BY <1>2, <1>b, <1>c, <1>d, SettledTyped, SettledTypedNext
<1>6. /\ \A a \in Asset : a # call.asset => later[a] = now[a]
      /\ \A h \in Address : later[call.asset][h] =
             now[call.asset][h] - (IF h = call.payer THEN call.gross ELSE 0)
      /\ now[call.asset][call.payer] >= call.gross
  <2>1. /\ bank \in Balances(Asset, Holder) /\ rescue \in [Address -> Nat] /\ Settled \in LaneReceipts
    BY SettledTyped DEF RailInv, IInv, TypeOK
  <2>2. now = WorthOf(bank, rescue, Settled) /\ later = WorthOf(bank', rescue, Settled)
    BY <1>1, <1>c, <1>d DEF Now, Settled, LanesFree
  <2> QED
    BY <1>1, <1>2, <2>1, <2>2, PulledWorth
<1>7. /\ call.gross \in Gross /\ call.asset \in Token /\ now[call.asset] = before[call.asset]
      /\ \A a \in Asset : a # call.asset => now[a] = before[a]
  BY <1>1, <1>2, <1>b, <1>c DEF RailLedger, RailRow
<1>8. RailMap' = RailMap /\ Before' = before
  BY <1>1, <1>2, <1>4, <1>b DEF RailMap, Before
<1>9. Tallied(f, before[call.asset], later[call.asset], Address)
  <2>1. /\ before[call.asset] \in [Address -> Nat] /\ later[call.asset] \in [Address -> Nat]
        /\ before[call.asset][f.payer] >= f.gross
    BY <1>2, <1>3, <1>5, <1>6, <1>7
  <2>2. \A h \in Address : later[call.asset][h] = before[call.asset][h]
            - (IF h = f.payer THEN f.gross + f.refund ELSE 0)
    BY <1>2, <1>3, <1>6, <1>7
  <2> QED
    BY <1>2, <1>3, <2>1, <2>2, SplitTallied
<1>10. RailRow(f, before[call.asset], later[call.asset])
  BY <1>2, <1>3, <1>7, <1>9 DEF RailRow
<1> QED
  BY <1>1, <1>3, <1>6, <1>7, <1>8, <1>10, <1>d DEF RailLedger

\* A leg goes to someone, and the frame no longer owes it.
LEMMA RailLegLedger ==
    ASSUME RailInv, RailInv', RailLedger, call.pc \in {"net", "credit", "platform", "merchant"},
           NEW to \in Address, saved' = saved, laneSaved' = laneSaved, LegPaid(call, call'),
           call'.asset = call.asset, call'.merchantId = call.merchantId,
           Pays(Now, Now', call.asset, to, LegOf(call, call'))
    PROVE  RailLedger' /\ RailMap' = RailMap
<1>b. PICK before : before = Before
  OBVIOUS
<1>c. PICK now : now = Now
  OBVIOUS
<1>d. PICK later : later = Now'
  OBVIOUS
<1>1. /\ call \in Frame /\ call' \in Frame /\ call # Idle /\ call' # Idle
      /\ call.asset \in Asset
  BY FrameFacts DEF RailInv, IInv, TypeOK, Idle, LegPaid
<1>2. /\ before \in [Asset -> [Address -> Nat]] /\ now \in [Asset -> [Address -> Nat]]
      /\ later \in [Asset -> [Address -> Nat]]
  BY <1>1, <1>b, <1>c, <1>d, SettledTyped, SettledTypedNext
<1>3. /\ call.gross \in Gross /\ call.asset \in Token /\ call.merchantId # 0
      /\ Tallied(call, before[call.asset], now[call.asset], Address)
      /\ \A a \in Asset : a # call.asset => now[a] = before[a]
  BY <1>1, <1>b, <1>c DEF RailLedger, RailRow
<1>4. /\ \A a \in Asset : a # call.asset => later[a] = now[a]
      /\ Gains(now[call.asset], later[call.asset], Address, to, LegOf(call, call'))
  BY <1>c, <1>d DEF Pays
<1>5. RailMap' = RailMap /\ Before' = before
  BY <1>1, <1>b DEF RailMap, Before
<1>6. /\ before[call.asset] \in [Address -> Nat] /\ now[call.asset] \in [Address -> Nat]
      /\ later[call.asset] \in [Address -> Nat]
  BY <1>1, <1>2
<1>7. Tallied(call', before[call.asset], later[call.asset], Address)
  <2>1. call \in Frame /\ call' \in Frame /\ to \in Address /\ LegPaid(call, call')
    BY <1>1
  <2> QED
    BY ONLY <1>3, <1>4, <1>6, <2>1, LegTallied
<1>8. RailRow(call', before[call.asset], later[call.asset])
  BY <1>1, <1>3, <1>7 DEF RailRow, LegPaid
<1> QED
  BY <1>3, <1>4, <1>5, <1>8, <1>d DEF RailLedger

\* What is given or taken is what its owner can take out more or less.
LEMMA GivenWorth ==
    ASSUME NEW b \in LaneReceipts, NEW c \in LaneReceipts, NEW o \in Address,
           NEW l \in L!Lane, NEW n \in Nat, c = Given(b, o, l, n),
           NEW asset \in Token, NEW h \in Address
    PROVE  LaneWorth(c, asset, h)
               = LaneWorth(b, asset, h) + (IF h = o /\ l[1] = asset THEN n ELSE 0)
<1>1. b[o][l] \in Nat
  BY DEF LaneReceipts, ReceiptsOf, L!Lane
<1>2. DifferAt(b, c, Address, L!Lane, o, l) /\ c[o][l] - b[o][l] = n
  BY <1>1 DEF Given, DifferAt, LaneReceipts, ReceiptsOf, L!Lane
<1> QED
  BY <1>2, LaneWorthAfter

LEMMA TakenWorth ==
    ASSUME NEW b \in LaneReceipts, NEW c \in LaneReceipts, NEW o \in Address,
           NEW l \in L!Lane, NEW n \in Nat, c = Taken(b, o, l, n),
           NEW asset \in Token, NEW h \in Address
    PROVE  LaneWorth(c, asset, h)
               = LaneWorth(b, asset, h) - (IF h = o /\ l[1] = asset THEN n ELSE 0)
<1>1. b[o][l] \in Nat
  BY DEF LaneReceipts, ReceiptsOf, L!Lane
<1>2. DifferAt(b, c, Address, L!Lane, o, l) /\ c[o][l] - b[o][l] = -n
  BY <1>1 DEF Taken, DifferAt, LaneReceipts, ReceiptsOf, L!Lane
<1>3. LaneWorth(c, asset, h) = LaneWorth(b, asset, h)
          + (IF h = o /\ l[1] = asset THEN -n ELSE 0)
  BY <1>2, LaneWorthAfter
<1>4. LaneWorth(b, asset, h) \in Nat
  BY LaneWorthNat
<1> QED
  BY <1>3, <1>4

\* The frame goes on with the leg it has come to paid.
LEMMA LegFrame ==
    ASSUME NEW f \in Frame, NEW g,
           \/ f.pc \in {"net", "credit"} /\ g = [f EXCEPT !.pc = "platform", !.net = 0]
           \/ f.pc = "platform" /\ g = [f EXCEPT !.pc = "merchant", !.platformFee = 0]
           \/ f.pc = "merchant" /\ g = [f EXCEPT !.pc = "refund", !.merchantFee = 0]
    PROVE  /\ LegPaid(f, g) /\ g.asset = f.asset /\ g.merchantId = f.merchantId
           /\ f.pc \in {"net", "credit"} => LegOf(f, g) = f.net
           /\ f.pc = "platform" => LegOf(f, g) = f.platformFee
           /\ f.pc = "merchant" => LegOf(f, g) = f.merchantFee
<1>1. f.net \in Nat /\ f.platformFee \in Nat /\ f.merchantFee \in Nat
  BY DEF Frame
<1>2. CASE f.pc \in {"net", "credit"} /\ g = [f EXCEPT !.pc = "platform", !.net = 0]
  <2>1. /\ g.pc = "platform" /\ g.net = 0 /\ g.platformFee = f.platformFee
        /\ g.merchantFee = f.merchantFee /\ g.asset = f.asset /\ g.merchantId = f.merchantId
        /\ g.payer = f.payer /\ g.gross = f.gross /\ g.refund = f.refund
    BY <1>2 DEF Frame
  <2> QED
    BY ONLY <1>1, <1>2, <2>1 DEF LegPaid, LegOf
<1>3. CASE f.pc = "platform" /\ g = [f EXCEPT !.pc = "merchant", !.platformFee = 0]
  <2>1. /\ g.pc = "merchant" /\ g.net = f.net /\ g.platformFee = 0
        /\ g.merchantFee = f.merchantFee /\ g.asset = f.asset /\ g.merchantId = f.merchantId
        /\ g.payer = f.payer /\ g.gross = f.gross /\ g.refund = f.refund
    BY <1>3 DEF Frame
  <2> QED
    BY ONLY <1>1, <1>3, <2>1 DEF LegPaid, LegOf
<1>4. CASE f.pc = "merchant" /\ g = [f EXCEPT !.pc = "refund", !.merchantFee = 0]
  <2>1. /\ g.pc = "refund" /\ g.net = f.net /\ g.platformFee = f.platformFee
        /\ g.merchantFee = 0 /\ g.asset = f.asset /\ g.merchantId = f.merchantId
        /\ g.payer = f.payer /\ g.gross = f.gross /\ g.refund = f.refund
    BY <1>4 DEF Frame
  <2> QED
    BY ONLY <1>1, <1>4, <2>1 DEF LegPaid, LegOf
<1> QED
  BY <1>2, <1>3, <1>4

\* A leg that is pushed, the fallback of a credit that reverted among them.
LEMMA RailPushLedger ==
    ASSUME RailInv, RailInv', FlightTold, RailLedger,
           \/ LanesFree /\ UNCHANGED laneVars /\ (SettleNet \/ PlatformLeg \/ MerchantLeg)
           \/ CreditReverts
    PROVE  FlightTold' /\ RailLedger' /\ RailMap' = RailMap
<1>1. /\ call.pc \in {"net", "credit", "platform", "merchant"} /\ saved' = saved
      /\ laneSaved' = laneSaved /\ LanesFree'
  BY DEF SettleNet, CreditReverts, CreditCaught, PlatformLeg, MerchantLeg, laneVars, L!Undone,
         LanesFree
<1>2. Settled' = Settled
  BY DEF CreditReverts, laneVars, laneLedger, L!Undone, L!RestoreTo, Settled, LanesFree
<1>3. /\ call \in Frame /\ call.payout \in Address /\ MerchantFeeDest \in Address
      /\ call.net \in Nat /\ call.platformFee \in Nat /\ call.merchantFee \in Nat
      /\ platformTreasury \in Address /\ call # Idle
  BY <1>1, FrameFacts DEF RailInv, IInv, TypeOK
<1>4. call.asset \in Token /\ call.asset \in Asset /\ call.asset # Native
  BY <1>3 DEF RailLedger, RailRow, Asset
<1>5. /\ bank \in Balances(Asset, Holder) /\ rescue \in [Address -> Nat]
      /\ Settled \in LaneReceipts
  BY SettledTyped DEF RailInv, IInv, TypeOK
<1>6. PICK to \in Address, n \in Nat :
          /\ Affords(bank, call.asset, Self, n) /\ rescue' = rescue
          /\ bank' = Moved(bank, call.asset, Self, to, n)
          /\ \/ /\ call.pc \in {"net", "credit"} /\ n = call.net
                /\ call' = [call EXCEPT !.pc = "platform", !.net = 0]
             \/ /\ call.pc = "platform" /\ n = call.platformFee
                /\ call' = [call EXCEPT !.pc = "merchant", !.platformFee = 0]
             \/ /\ call.pc = "merchant" /\ n = call.merchantFee
                /\ call' = [call EXCEPT !.pc = "refund", !.merchantFee = 0]
  <2>1. CASE SettleNet
    BY <1>3, <1>4, <2>1 DEF SettleNet, Deliver
  <2>2. CASE PlatformLeg
    BY <1>3, <1>4, <2>2 DEF PlatformLeg, Deliver
  <2>3. CASE MerchantLeg
    BY <1>3, <1>4, <2>3 DEF MerchantLeg, Deliver
  <2>4. CASE CreditReverts
    BY <1>3, <1>4, <2>4 DEF CreditReverts, CreditCaught
  <2> QED
    BY <2>1, <2>2, <2>3, <2>4
<1>7. /\ LegPaid(call, call') /\ call'.asset = call.asset /\ call'.merchantId = call.merchantId
      /\ LegOf(call, call') = n
  BY <1>3, <1>6, LegFrame
<1>8. Pays(Now, Now', call.asset, to, n)
  <2>1. Now = WorthOf(bank, rescue, Settled) /\ Now' = WorthOf(bank', rescue, Settled)
    BY <1>2, <1>6 DEF Now
  <2> QED
    BY <1>4, <1>5, <1>6, <2>1, PaidOutWorth
<1> QED
  BY <1>1, <1>7, <1>8, RailLegLedger DEF FlightTold

\* The net leg that the lanes take: its payee holds the receipt.
LEMMA RailCreditLedger ==
    ASSUME RailInv, RailInv', FlightTold, RailLedger, CreditReturns
    PROVE  FlightTold' /\ RailLedger' /\ RailMap' = RailMap
<1>1. /\ call.pc = "credit" /\ saved' = saved /\ laneSaved' = laneSaved /\ LanesFree'
      /\ call' = [call EXCEPT !.pc = "platform", !.net = 0]
  BY DEF CreditReturns, CreditTaken, L!CreditPulled, LanesFree
<1>2. call \in Frame /\ call.payout \in Address
  BY <1>1, FrameFacts DEF RailInv
<1>3. /\ LegPaid(call, call') /\ call'.asset = call.asset /\ call'.merchantId = call.merchantId
      /\ LegOf(call, call') = call.net
  BY <1>1, <1>2, LegFrame
<1>4. Pays(Now, Now', call.asset, call.payout, call.net)
  BY CreditPays
<1> QED
  BY <1>1, <1>2, <1>3, <1>4, RailLegLedger DEF FlightTold

\* The mint of the receipt is told by the frame, and counts nothing yet.
LEMMA RailCreditBeginsLedger ==
    ASSUME RailInv, RailInv', FlightTold, RailLedger, CreditBegins
    PROVE  FlightTold' /\ RailLedger' /\ RailMap' = RailMap
<1>1. /\ LanesFree /\ call.pc = "net" /\ call' = [call EXCEPT !.pc = "credit"]
      /\ call.asset # Native
      /\ UNCHANGED <<rescue, bank, saved, laneSaved>>
  BY DEF CreditBegins, CallCredit
<1>2. /\ call \in Frame /\ call' \in Frame /\ call # Idle /\ call.net \in Nat
      /\ call.payout \in Payee /\ call.payout \in Address /\ call.asset \in Token
  BY <1>1, FrameFacts DEF RailInv, IInv, TypeOK, Asset
<1>3. /\ call'.pc = "credit" /\ call'.asset = call.asset /\ call'.payout = call.payout
      /\ call'.merchantId = call.merchantId /\ call'.payer = call.payer
      /\ call'.gross = call.gross /\ call'.refund = call.refund /\ call'.net = call.net
      /\ call'.platformFee = call.platformFee /\ call'.merchantFee = call.merchantFee
  BY <1>1, <1>2 DEF Frame
<1>4. call' # Idle
  BY <1>3 DEF Idle
<1>5. Settled' = Settled /\ FlightTold'
  <2>1. CASE UNCHANGED <<laneLedger, frame, undo>>
    BY <1>1, <2>1 DEF laneLedger, Settled, LanesFree, FlightTold
  <2>2. CASE L!Credit(Self, call.payout, call.asset, call.net)
    <3>1. PICK l \in L!Lane : l = <<call.asset, call.payout>>
      BY <1>2 DEF L!Lane
    <3>2. l[1] = call.asset
      BY <3>1
    <3>3. /\ balanceOf' = Given(balanceOf, call.payout, l, call.net)
          /\ frame' = [op |-> "credit", who |-> Self, asset |-> call.asset, amount |-> call.net]
          /\ undo' = L!storage
      BY <2>2, <3>1 DEF L!Credit, Given
    <3>4. ~LanesFree' /\ undo'.balanceOf = balanceOf
      BY <3>3 DEF LanesFree, L!Free, L!storage
    <3>5. balanceOf \in LaneReceipts /\ balanceOf' \in LaneReceipts
      BY SettledTyped DEF RailInv, LanesInv, SoundLanes
    <3>7. ASSUME NEW asset \in Token, NEW h \in Address
          PROVE  FlightOf(frame, balanceOf, undo.balanceOf, asset, h)'
      <4>1. LaneWorth(balanceOf', asset, h) = LaneWorth(balanceOf, asset, h)
                + (IF h = call.payout /\ l[1] = asset THEN call.net ELSE 0)
        BY <1>2, <3>3, <3>5, GivenWorth
      <4>2. LaneWorth(balanceOf, asset, h) \in Nat
        BY <3>5, LaneWorthNat
      <4> QED
        BY <1>2, <1>3, <3>2, <3>3, <3>4, <4>1, <4>2 DEF FlightOf
    <3> QED
      BY <1>1, <1>3, <3>3, <3>4, <3>7 DEF Settled, FlightTold
  <2> QED
    BY <2>1, <2>2 DEF CreditBegins
<1>6. Now' = Now /\ Before' = Before
  BY <1>1, <1>5 DEF Now, Before
<1>7. RailRow(call', Before[call.asset], Now[call.asset])
  <2>a. PICK old : old = Before[call.asset]
    OBVIOUS
  <2>b. PICK new : new = Now[call.asset]
    OBVIOUS
  <2>1. RailRow(call, old, new)
    BY <1>2, <2>a, <2>b DEF RailLedger
  <2>2. Tallied(call, old, new, Address)
    BY <1>1, <2>1 DEF RailRow
  <2>3. Tallied(call', old, new, Address)
    BY ONLY <1>1, <1>2, <1>3, <2>2, CalledTallied
  <2> QED
    BY <1>1, <1>3, <2>1, <2>3, <2>a, <2>b DEF RailRow
<1> QED
  BY <1>2, <1>3, <1>4, <1>5, <1>6, <1>7 DEF RailLedger, RailMap

\* A claim, inside a payment or outside one, leaves what its owner can take out alone.
LEMMA RailClaimLedger ==
    ASSUME RailAssumption, RailInv, RailInv', FlightTold, RailLedger, ClaimLane
    PROVE  FlightTold' /\ RailLedger' /\ RailMap' = RailMap
<1>1. UNCHANGED <<rescue, call, saved, laneSaved>>
  BY DEF ClaimLane
<1>2. Now' = Now /\ FlightTold'
  <2>1. CASE L!ClaimSent
    BY <1>1, <2>1, ClaimPays DEF L!ClaimSent, FlightTold, LanesFree
  <2>2. CASE L!Revert
    BY <1>1, <2>2 DEF L!Revert, L!Undone, L!RestoreTo, Now, Settled, LanesFree, FlightTold
  <2>3. ASSUME NEW caller \in Address, NEW l \in L!Lane, NEW token \in Token,
               NEW max \in ClaimBound \cup {Unlimited}, L!Claim(caller, l, token, max)
        PROVE  Now' = Now /\ FlightTold'
    <3>a. PICK n : n = L!AtMost(max, balanceOf[caller][l])
      OBVIOUS
    <3>1. SoundLanes(balanceOf, laneAsset) /\ balanceOf[caller][l] \in Nat
      BY DEF RailInv, LanesInv, SoundLanes, LaneReceipts, ReceiptsOf, L!Lane
    <3>2. n \in Nat /\ n <= balanceOf[caller][l]
      <4>1. max # Unlimited => max \in Nat
        BY DEF RailAssumption
      <4> QED
        BY <3>a, <3>1, <4>1 DEF L!AtMost
    <3>3. /\ LanesFree /\ n > 0 /\ undo' = L!storage /\ bank' = bank
          /\ laneAsset[l] \in {NoAddress, token}
          /\ balanceOf' = Taken(balanceOf, caller, l, n)
          /\ frame' = [op |-> "claim", who |-> caller, asset |-> token, amount |-> n]
      BY <2>3, <3>a DEF L!Claim, L!Releases, Taken, LanesFree
    <3>4. l[1] = token
      <4>1. laneAsset[l] = l[1] /\ l[1] \in Token
        BY <3>1, <3>2, <3>3 DEF SoundLanes, L!Lane
      <4> QED
        BY <3>3, <4>1 DEF RailAssumption
    <3>5. ~LanesFree' /\ undo'.balanceOf = balanceOf
      BY <3>3 DEF LanesFree, L!Free, L!storage
    <3>6. balanceOf \in LaneReceipts /\ balanceOf' \in LaneReceipts
      BY SettledTyped DEF RailInv, LanesInv, SoundLanes
    <3>8. ASSUME NEW asset \in Token, NEW h \in Address
          PROVE  FlightOf(frame, balanceOf, undo.balanceOf, asset, h)'
      <4>1. LaneWorth(balanceOf', asset, h) = LaneWorth(balanceOf, asset, h)
                - (IF h = caller /\ l[1] = asset THEN n ELSE 0)
        BY <3>2, <3>3, <3>6, TakenWorth
      <4>2. LaneWorth(balanceOf, asset, h) \in Nat
        BY <3>6, LaneWorthNat
      <4> QED
        BY <3>2, <3>3, <3>4, <3>5, <4>1, <4>2 DEF FlightOf
    <3>9. Settled' = Settled
      BY <3>3, <3>5 DEF Settled
    <3> QED
      BY <1>1, <3>3, <3>5, <3>8, <3>9 DEF Now, FlightTold
  <2> QED
    BY <2>1, <2>2, <2>3 DEF ClaimLane, L!Redeem, L!Lane
<1>3. Before' = Before
  BY <1>1 DEF Before
<1> QED
  BY <1>1, <1>2, <1>3 DEF RailLedger, RailMap

\* A revert has happened before it began, for the lanes as well.
LEMMA RailRevertLedger ==
    ASSUME RevertAll
    PROVE  FlightTold' /\ RailLedger' /\ RailMap' = RailMap
<1>1. /\ call # Idle /\ call' = Idle /\ bank' = saved.bank /\ rescue' = saved.rescue
      /\ balanceOf' = laneSaved.balanceOf /\ LanesFree'
  BY DEF RevertAll, Revert, Unlocked, L!RestoreTo, LanesFree
<1>2. Now' = Before
  BY <1>1 DEF Now, Before, Settled
<1> QED
  BY <1>1, <1>2 DEF FlightTold, RailLedger, RailMap

LEMMA WealthIsMapped == RailInv /\ FlightTold => RailWealth = RailMap
BY MappedWealth

LEMMA MappedWealthNext ==
    ASSUME RailInv', FlightTold'
    PROVE  RailWealth' = RailMap'
<1>1. (RailWealth = RailMap)'
  BY WealthIsMapped, PTL
<1> QED
  BY <1>1

\* At its end the payment has been one step of the promise.
LEMMA RailReturnLedger ==
    ASSUME RailInv, RailInv', FlightTold, RailLedger, Return
    PROVE  FlightTold' /\ RailLedger' /\ [IdealWithLanes!Next]_RailWealth
<1>a. PICK before : before = Before
  OBVIOUS
<1>b. PICK now : now = Now
  OBVIOUS
<1>c. PICK later : later = Now'
  OBVIOUS
<1>d. PICK asset : asset = call.asset
  OBVIOUS
<1>1. /\ call.pc = "refund" /\ Affords(bank, asset, Self, call.refund)
      /\ bank' = Moved(bank, asset, Self, call.payer, call.refund)
      /\ call' = Idle /\ rescue' = rescue /\ LanesFree' /\ balanceOf' = balanceOf
      /\ Settled' = Settled
  BY <1>d DEF Return, SendBack, LanesFree, laneLedger, Settled
<1>2. /\ call \in Frame /\ call # Idle /\ call.payer \in Address
      /\ call.refund \in Nat /\ asset \in Asset
  BY <1>1, <1>d, FrameFacts DEF RailInv
<1>3. /\ before \in [Asset -> [Address -> Nat]] /\ now \in [Asset -> [Address -> Nat]]
      /\ later \in [Asset -> [Address -> Nat]]
  BY <1>2, <1>a, <1>b, <1>c, SettledTyped, SettledTypedNext
<1>4. /\ \A a \in Asset : a # asset => later[a] = now[a]
      /\ Gains(now[asset], later[asset], Address, call.payer, call.refund)
  <2>1. /\ bank \in Balances(Asset, Holder) /\ rescue \in [Address -> Nat]
        /\ Settled \in LaneReceipts
    BY SettledTyped DEF RailInv, IInv, TypeOK
  <2>2. now = WorthOf(bank, rescue, Settled) /\ later = WorthOf(bank', rescue, Settled)
    BY <1>1, <1>b, <1>c DEF Now
  <2>3. Pays(now, later, asset, call.payer, call.refund)
    BY <1>1, <1>2, <2>1, <2>2, PaidOutWorth
  <2> QED
    BY <2>3 DEF Pays
<1>5. /\ \A a \in Asset : a # asset => now[a] = before[a]
      /\ call.gross \in Gross /\ Tallied(call, before[asset], now[asset], Address)
  BY <1>1, <1>2, <1>a, <1>b, <1>d DEF RailLedger, RailRow
<1>6. FlightTold' /\ RailLedger'
  BY <1>1 DEF FlightTold, RailLedger
<1>7. RailWealth = before /\ RailWealth' = later
  BY <1>1, <1>2, <1>6, <1>a, <1>c, MappedWealth, MappedWealthNext DEF RailMap
<1>8. /\ before[asset] \in [Address -> Nat] /\ now[asset] \in [Address -> Nat]
      /\ later[asset] \in [Address -> Nat]
  BY <1>2, <1>3
<1>9. CASE later # before
  <2>1. PICK p \in 0..MaxFees(call.gross), m \in 0..MaxFees(call.gross),
             payee \in Address, treasury \in Address, dest \in Address :
                 EndedTo(call, before[asset], later[asset], Address,
                         p, m, payee, treasury, dest)
    BY ONLY <1>1, <1>2, <1>4, <1>5, <1>8, EndTallied
  <2>2. before[asset][call.payer] >= call.gross
    BY <1>5 DEF Tallied
  <2>3. asset \in {a \in Asset : RailWealth'[a] # RailWealth[a]}
    <3>1. SUFFICES ASSUME later[asset] = before[asset] PROVE FALSE
      BY <1>2, <1>7
    <3>2. later = before
      BY <1>3, <1>4, <1>5, <3>1
    <3> QED
      BY <1>9, <3>2
  <2>4. PICK row : row = [h \in Address |->
            before[asset][h] - (IF h = call.payer THEN call.gross ELSE 0)
                + IdealWithLanes!Got(h, payee, call.gross - p - m, treasury, p, dest, m)]
    OBVIOUS
  <2>5. later = [before EXCEPT ![asset] = row]
    <3>1. ASSUME NEW h \in Address PROVE later[asset][h] = row[h]
      <4>1. before[asset][h] \in Nat /\ call.gross \in Nat
        BY ONLY <1>2, <1>8, h \in Address DEF Frame
      <4>2. p \in Int /\ m \in Int
        <5>1. MaxFees(call.gross) \in Int
          BY <4>1 DEF MaxFees
        <5> QED
          BY <5>1
      <4>3. later[asset][h] = before[asset][h] - (IF h = call.payer THEN call.gross ELSE 0)
                + (IF h = payee THEN call.gross - p - m ELSE 0)
                + (IF h = treasury THEN p ELSE 0) + (IF h = dest THEN m ELSE 0)
        BY <2>1 DEF EndedTo
      <4> QED
        BY <2>4, <4>1, <4>2, <4>3 DEF IdealWithLanes!Got
    <3>2. later[asset] = row
      BY <1>8, <2>4, <3>1
    <3> QED
      BY <1>2, <1>3, <1>4, <1>5, <3>2
  <2>6. IdealWithLanes!Pay(asset, call.payer, call.gross, p, m, payee, treasury, dest)
    BY <1>7, <2>1, <2>2, <2>4, <2>5 DEF IdealWithLanes!Pay, EndedTo
  <2>7. IdealWithLanes!Next
    BY <1>2, <1>5, <1>7, <1>9, <2>1, <2>3, <2>6 DEF IdealWithLanes!Next, MaxFees
  <2> QED
    BY <1>6, <2>7
<1> QED
  BY <1>6, <1>7, <1>9

\* Every step of the two contracts is one of the promise, or none.
LEMMA RailNextIsAtomic ==
    ASSUME RailAssumption, RailInv, RailInv', FlightTold, RailLedger, [RailNext]_railVars
    PROVE  FlightTold' /\ RailLedger' /\ [IdealWithLanes!Next]_RailWealth
<1>1. ASSUME FlightTold', RailLedger', RailMap' = RailMap
      PROVE  FlightTold' /\ RailLedger' /\ [IdealWithLanes!Next]_RailWealth
  <2>1. RailWealth' = RailWealth
    BY <1>1, MappedWealth, MappedWealthNext
  <2> QED
    BY <1>1, <2>1
<1>2. CASE RouterAlone
  <2>1. CASE Register \/ Administer \/ Manage
    <3>1. UNCHANGED <<bank, rescue, call, saved, balanceOf, frame, undo, laneSaved>>
      BY <1>2, <2>1 DEF RouterAlone, Register, Manage, Administer, RegisterMerchant,
         UpdateMerchant, ProposeMerchantOwner, AcceptMerchantOwner, laneVars, laneLedger
    <3> QED
      BY <1>1, <3>1, RailStands
  <2>2. CASE LanesFree /\ PullExact
    <3>1. UNCHANGED <<balanceOf, frame, undo, laneSaved>> /\ FlightTold'
      BY <1>2, <2>2 DEF RouterAlone, laneVars, laneLedger, FlightTold, LanesFree
    <3>2. RailLedger' /\ RailMap' = RailMap
      BY <2>2, <3>1, RailPullLedger
    <3> QED
      BY <1>1, <3>1, <3>2
  <2>3. CASE LanesFree /\ (SettleNet \/ PlatformLeg \/ MerchantLeg)
    <3>1. UNCHANGED laneVars
      BY <1>2 DEF RouterAlone
    <3> QED
      BY <1>1, <2>3, <3>1, RailPushLedger
  <2> QED
    BY <1>2, <2>1, <2>2, <2>3 DEF RouterAlone
<1>3. CASE Enter
  BY <1>1, <1>3, RailEnterLedger
<1>4. CASE Return
  BY <1>4, RailReturnLedger
<1>5. CASE RevertAll
  BY <1>1, <1>5, RailRevertLedger
<1>6. CASE CreditBegins
  BY <1>1, <1>6, RailCreditBeginsLedger
<1>7. CASE CreditReturns
  BY <1>1, <1>7, RailCreditLedger
<1>8. CASE CreditReverts
  BY <1>1, <1>8, RailPushLedger
<1>9. CASE ClaimLane
  BY <1>1, <1>9, RailClaimLedger
<1>10. CASE AuthorizeRouter \/ UNCHANGED railVars
  <2>1. UNCHANGED <<bank, rescue, call, saved, balanceOf, frame, undo, laneSaved>>
    BY <1>10 DEF AuthorizeRouter, L!SetRouter, railVars, vars, laneVars, laneLedger
  <2> QED
    BY <1>1, <2>1, RailStands
<1> QED
  BY <1>2, <1>3, <1>4, <1>5, <1>6, <1>7, <1>8, <1>9, <1>10 DEF RailNext

LEMMA RailInitIsIdeal ==
    ASSUME RailInit
    PROVE  FlightTold /\ RailLedger /\ IdealWithLanes!Init
<1>1. /\ call = Idle /\ bank = Endowment /\ rescue = [h \in Address |-> 0]
      /\ balanceOf = [h \in Address |-> [l \in L!Lane |-> 0]] /\ frame = L!Free
  BY DEF RailInit, Init, L!Fresh
<1>2. FlightTold /\ RailLedger
  BY <1>1 DEF FlightTold, RailLedger, LanesFree
<1>3. ASSUME NEW asset \in Asset, NEW h \in Address
      PROVE  Claimable(bank, rescue, balanceOf, asset, h) + ClaimInTransit(asset, h)
                 = Endowment[asset][h]
  <2>1. Endowment[asset][h] \in Nat /\ rescue[h] = 0
    BY <1>1 DEF Balances, Holder
  <2>2. ClaimInTransit(asset, h) = 0
    BY <1>1 DEF ClaimInTransit, L!Free
  <2>3. asset # Native => SumFunction([p \in Payee |-> balanceOf[h][<<asset, p>>]]) = 0
    <3>1. SUFFICES ASSUME asset \in Token
                   PROVE  SumFunction([p \in Payee |-> balanceOf[h][<<asset, p>>]]) = 0
      BY DEF Asset
    <3>a. PICK f : f = [p \in Payee |-> balanceOf[h][<<asset, p>>]]
      OBVIOUS
    <3>2. f \in [Payee -> Int] /\ \A p \in Payee : f[p] = 0
      <4>1. \A p \in Payee : balanceOf[h][<<asset, p>>] = 0
        BY <1>1, <3>1 DEF L!Lane
      <4> QED
        BY <3>a, <4>1
    <3>3. SumFunction(f) = 0
      BY <3>2, PartiesFinite, SumZero
    <3> QED
      BY <3>a, <3>3
  <2> QED
    BY <1>1, <2>1, <2>2, <2>3 DEF Claimable
<1> QED
  BY <1>1, <1>2, <1>3 DEF RailWealth, IdealWithLanes!Init

\* Every behaviour of the router with its lanes is one of atomic payments that conserve the
\* money, for any tokens, payees and amounts: whether the net leg is pushed, credited to a
\* lane, or pushed because the credit failed, its payee gains it exactly once, and a claim
\* of a receipt, inside a payment or outside one, moves nobody's wealth.
THEOREM RailPaysAtomically ==
    ASSUME RailAssumption
    PROVE  RailSpec => RailIsAtomic
<1>1. RailInit => FlightTold /\ RailLedger /\ IdealWithLanes!Init
  BY RailInitIsIdeal
<1>2. RailInv /\ RailInv' /\ FlightTold /\ RailLedger /\ [RailNext]_railVars
          => FlightTold' /\ RailLedger' /\ [IdealWithLanes!Next]_RailWealth
  BY RailNextIsAtomic
<1> QED
  BY <1>1, <1>2, RailInvariance, PTL DEF RailSpec, RailIsAtomic, IdealWithLanes!Spec

=============================================================================
