# Access0x1 in TLA+

Access0x1 is a payment rail: a set of Solidity contracts (`src/src/`) with an
off-chain application around them (`src/web`, `src/mcp`, `src/subgraph`, ...).
This directory holds the specifications of its core, the configurations that
model-check them with TLC, and proofs checked by TLAPS.

    tlc -config MCRouter.cfg MCRouter.tla      # one run; see "The runs"
    tlapm RouterProofs.tla                     # the proofs of one component

## 1. Inventory

### 1.1 The contracts

Everything is on one chain, so calls are atomic and serialised: two transactions
never interleave. What does interleave is what an *external call* brings in.
A contract that pushes the native coin, pulls a token, or asks a factory to
deploy an account hands control to code it does not own, and that code may enter
any function that is not locked (`nonReentrant`). The hard behaviours are these
callbacks, calls that fail (and are caught, queued, or bubbled up), a revert that
undoes all that ran since the entry, settings that change between a check and a
use, deadlines, and off-chain signatures delivered late, twice, or never.

| Component | State | Operations | What makes it correct |
|---|---|---|---|
| **Router** (`Access0x1Router.sol`) | merchants, nominations, platform fee, treasury, token allowlist, pause, lanes contract, `rescue` queue | register/update merchant, two-step owner, settings, `payNative`, `payToken`, `claimRescue`, `quote` | a payment is atomic and conserves money; no custody but the rescue queue; fee under the cap whatever was changed when; routing fixed at entry |
| **PaymentLanes** | ERC-6909 receipts per (asset, recipient) lane, allowances, operators, routers | `credit`, `claim*`, transfers, approvals | each asset backed on its own; no receipt stranded |
| **Escrow** | escrows, queue of failed payouts | open, confirm, claim after timeout, release by signature, cancel, arbitrate, withdraw | solvent; the pot goes to one party, with the right leave; no deal stuck |
| **SessionGrant** | sessions, nonces | open, open for (ERC-6492), spend, revoke | one authorisation, one session; budget never overdrawn |
| **Subscriptions** | plans, subscriptions, dunning buckets, used trials | set plan, subscribe (for), renew, cancel, reactivate | each pull is one price for one due period within a mandate; dunning throttled and deserved; one trial |
| **AutomationGateway** | watched ids, scan cursor | register, deregister, check, perform | no watched due id is starved |
| **Bookings** | reservations, slot occupancy, escrow per token, relayer approvals, refund queue | reserve, confirm, complete, expire, cancel (for), no-show, claim refund | one holder per slot; a deposit goes back but for the charge that the terms agreed allow; a refund cannot be blocked |
| **Receivables** | invoices as tokens, who holds one, whether it was sold, the fee at its mint | mint, ERC-721 transfer, cancel, `pay`, `payNative` | a settlement forwards its own net and nothing else; a sold claim ends by settlement only |
| **GiftCards** | balances per card and holder, redemptions, supply | issue, redeem, reverse, transfer | value is neither made nor lost; a spend is taken back once |
| **Price relay** (`PriceRelaySender`, `PriceRelayReceiver`) and **OracleLib** | destinations, source lanes, latest report | `relay`, `ccipReceive`, settings, the guards of `quote` | a price never walks back; no quote from a price that is older than it looks, or from an outage |
| Refunds, SplitSettler, Invoices, Rebates, GaslessPayIn | receipts, splits, budgets | conduits around the router | no custody between transactions; each order or promotion is used once |
| CCIP payments, PriceOracleAdapter, OperatorFeed | queued amounts, lists of feeds | send, receive, look up | a message is one payment |
| Tokens, Nft, Credential, Provenance, House tokens, RWA, ENS resolver, Account, registries | ownership records | mint, transfer, revoke | ERC semantics with per-token rules |

How they interact: Subscriptions spends a SessionGrant and pays through the Router;
the Router credits PaymentLanes; the gateway renews Subscriptions; Escrow reads
the Router's fee, treasury and merchants; Bookings, Refunds, Receivables, Invoices,
Rebates, SplitSettler and GaslessPayIn settle through the Router. Receivables also
claims what the Router credited to its lane. Bookings also asks a SessionGrant
whether a relayer may cancel for a payer. The Router quotes by a feed, which on some
chains is the receiver of the price relay.

### 1.2 Off the chain

The web application (`src/web`) runs as several serverless instances. An instance
keeps maps in memory and is restarted at will. Three kinds of state outlive it:
key-value tables in Postgres, which an instance writes through to and reads once at
its boot (`storage/durableKv.ts`); the replay table, in which a proof is claimed by one
atomic insert; and the chain. The hard behaviours are reads before an await that are
used after it, statements that are lost, that run in another order than they were
sent, or whose answers do, a boot that reads the table in between, restarts, and
remote calls whose failure does not say what happened.

| Component | State | Operations | What makes it correct |
|---|---|---|---|
| **Durable key-value store** (`durableKv.ts`, `postgresKvStore.ts`) | table, whether an instance's CREATE TABLE failed, statements under way | set, hydrate, the counter's two atomic statements | what relies on it stays right when table and memory part |
| **Agent spend meter** (`agentMeter.ts`, `payPerCall.ts`) | a ledger per instance, a row per day | reserve, refund, hydrate | the daily budget holds across instances |
| **AI gateway** (`aiGateway.ts`, `sessionMeter.ts`, `x402.ts`) | sessions' mirrors of a budget | connect, revoke, a metered call | a session's mirror is what its calls hold, no more |
| **Agent pay and payout rails** (`api/agent/pay`, `api/payout`, `unlink/*`) | a request's place in the code | the public rail, the private one, the fall back | one request pays on one rail |
| **Payment intents** (`intents/store.ts`, `intents/ulid.ts`) | intents, each with a time to live; the last id | create, read with lazy expiry | expired is for ever; ids sort by creation |
| **Replay stores and verifiers** | slots claimed | claim | one use of a proof |
| **Verification profiles** (`verification/store.ts`, three routes) | methods of a profile | verify, OIDC, World ID, an open method | a badge has its proof, and a proof one owner |
| **Branding** (`branding/store.ts`, four routes) | a row per tenant, indexes by slug and merchant | save, attach, checkout mode, operator | a casino has a gate and a human of its own |
| **Checkout hook** (`usePayment.ts`) | a run's status, its watcher | pay | the receipt is of this payment, and is not missed |
| **Checkout page** (`CheckoutCard.tsx`, `quote.ts`, `payToken` of `contracts.ts`) | coin, quote, loading, paying, receipt; an allowance | pick a coin, quote, pay | a buyer pays what was quoted, no more |
| Payout swap, MCP server, subgraph, CRE workflow, pages | none others rely on | | |

How they interact: the meter guards `agentPay`, which the pay route calls on the public
rail; the routes claim at the replay store before they write a profile or a row;
profiles, rows, intents and the meter lie on the durable store; the hook and the page pay
the Router and wait for its event; the intent's reader settles expiry only, and the
payment itself is the Router's.

## 2. The modules

| Module | Models |
|---|---|
| `Bank` | balances outside the contracts; `Moved` is a transfer, `Portion` a rounded share |
| `Router` | Access0x1Router, one action per function or, in a payment, per external call |
| `IdealRail` | what a payment promises, in one action |
| `PaymentLanes` | the lanes contract |
| `Rail` | Router and PaymentLanes together: `credit` is a step of both |
| `Escrow`, `IdealEscrow` | the escrow, and the promise to its parties |
| `SessionGrant` | sessions, relayed opens as a stack of frames |
| `Subscriptions`, `IdealBilling` | subscriptions on SessionGrant (`S == INSTANCE SessionGrant`), and what a subscriber may rely on |
| `AutomationGateway` | the keeper registry and its two entry points |
| `Bookings`, `IdealBookings` | bookings on SessionGrant, and the promise to payer and host |
| `Receivables` | receivables beside a router that other merchants use too |
| `GiftCards` | cards, redemptions and reversals |
| `PriceRelay` | a feed, a sender, messages, the receiver and the guards of a quote, each chain with its clock |
| `DurableKv` | the table behind a store in memory; extended by the modules that keep one |
| `Intents`, `Verification`, `Branding` | the three stores and the routes that write them, on `DurableKv` |
| `ReplayStore` | the one atomic claim, used by `Verification` and `Branding` |
| `AgentMeter` | the daily budget: instances, each with a ledger in memory, over one table |
| `AiSessions` | metered calls of AI sessions in one instance |
| `AgentPay` | requests on the public and the private rail |
| `UsePayment` | runs of the payment hook |
| `Checkout` | the hosted page, its two handlers and the buyer's pending transactions |
| `Ulid` | ids of payment intents |
| `MC*` | instances for TLC |
| `*Proofs` | theorems |

### Several components in one run

`MCRouter`, `MCRailLanes`, `MCBookings`, `MCAgents` and `MCStores` hold components that share
no state. A variable `which` is chosen in the initial state and never changes: a behaviour is of
one component, and the others stay as they begin. So each is explored as if it were
alone, and the states of a run are the sum and not the product. A property about one
of them is stated for the behaviours of that one, or holds in the initial states of
the others.

### Frames and reverts

The functions of Router and PaymentLanes that call out while locked are cut at
their external calls. In `Router`, `call` is the frame of the locked function in
flight: `pc` says which leg comes next, and the other fields are the locals read
before the first external call, plus what each leg still has to pay. `Unlocked`
(`call = Idle`) is the guard of every `nonReentrant` function; the functions
without the modifier have no such guard and so may run between two legs.
`saved` is the storage at the entry, and `Revert` returns to it, money included.
Actions and code correspond as follows:

| `Router` action | code |
|---|---|
| `PayNative` | `payNative` up to the first push |
| `PayToken`, `PullExact` | `payToken` up to the token pull; the pull's return, the split and the event |
| `SettleNet`, `CallCredit`, `CreditTaken`, `CreditCaught` | `_settleNet`: no lanes; the call of `credit`; its return; its catch |
| `PlatformLeg`, `MerchantLeg` | the two fee pushes; the treasury is read here, as in the code |
| `SendBack` | the refund of the excess and the return; also the send of `claimRescue` |
| `Deliver` | `_pushNativeOrQueue`, or a token transfer |

A comment at `Access0x1Router.sol:757` says `updateMerchant` has "no reentrancy of its own";
it does carry `nonReentrant`, and `RoutingPinned` depends on it or on the snapshot.

`SessionGrant.frames` does the same for `openSessionFor`, whose signature check
calls an ERC-6492 factory. Relayed opens nest, so there is a stack, and a
transaction in the middle of one does not let time pass (`Tick`).

Escrow and Subscriptions lock every function that calls out (Subscriptions' one
exception, `setGraceFailThreshold`, is the owner's), so an entry from a callback
fails and a function is one step. What their callees do is the set of outcomes
of the step: `PayoutOrQueue` is a set of purses, `Charge` an outcome. So too in
Bookings: the router takes the fee or takes nothing, the refund's push succeeds or
is queued.

The lock of Subscriptions does not cover SessionGrant, and `subscribeFor` is two steps:
`BeginSubscribeFor` reads the nonce and ends where the check of the intent calls a factory
of the relayer's choice (ERC-6492); `SubscribeFor` opens the session, at the nonce of that
moment, and goes on. In between (`relaying`) sessions are opened and revoked (`Sessions`)
and the surroundings change; the other functions of Subscriptions are locked, no time
passes and nobody signs. A `subscribeFor` that reverts is left without its second step.
The factory that `openSessionFor` calls itself is no step: it opens at the nonce it read or
reverts (`SessionGrant`), so what such a factory opens is in `Sessions` before.

`Receivables` cuts `pay` at the pull from the payer, the one point at which control is
handed over while the router is unlocked: `paying` is that frame, `snapshot` the books at
entry. What merchants and the router's owner may do in it is `UpdateTerms`, `Wire` and
`PayDirectly`; transfers and `cancel` have no lock either. From there to the end is one
step, `PayRouted`, since the router is locked; an owner who rewires the lanes from
inside the router's own pull is left out.

`AgentMeter` is cut at its awaits. What an instance does between two of them is one
step; the statement that the database runs is a step of the database (`DbReserve`,
`DbDecrement`, `DbHydrate`), which may run late or not at all, and its answer comes
back in a later step, in any order among the calls. A fault is a statement that never
ran or an answer that was lost.

The other modules of the application are cut the same way. In `DurableKv` a write is
put in `writes` and not waited for; `Land` and `Lose` are its ends, in any order.
`KvHydrate` is in two steps, the read and the merge into memory, with anything between
them. `CreateTableFails` makes every later statement of the instance fail, because the
promise is memoised. A restart empties the memory and reads the table again. In
`AiSessions`, `AgentPay` and `UsePayment` the steps are those between two awaits, and
an error at a remote call leaves open what the other side did: `WithdrawUnheard` is a
withdrawal that succeeded, `TimesOut` a receipt that was not waited for. The requests of
`AgentPay` are those of one process, which looks the agent's wallet up once and keeps the
promise, a rejected one too (`dynamicAgentWallet.ts:188`): `account` is how that came out,
and every place that asks for the wallet takes it from there (`Lookup`).
In `Checkout` a task is one run of `refreshQuote` or `handlePay`; what it captured when it
began (its coin) stays, the page it writes to is shared, and `Sends` leaves open whether
the wallet sent what it reports as refused. What it sent is mined in the order of nonces.
The router is one for all merchants: `InitCheckout` has any allowance that earlier visits
left, and `ApproveElsewhere` is the approval of another page.
In `PriceRelay` a message stays in `messages` when it is received, so it may come twice,
late or never.

### What is abstracted

* In `Router` `quote` is any positive price in `Gross`; its guards are in `PriceRelay`
  (`Quotable`) and its arithmetic in `Bookings` (`Quote`). ERC-20s move exactly what they
  are asked to (`Bank`); one that skims is a failed pull, because the code checks the
  balance delta.
* In `Receivables` an invoice is worth some `Due` at payment, the platform's fee taken
  off, and a merchant is whether its payout is this contract and its surcharge.
* Proofs of personhood, sign-ins and payments are good or they are not; a slot stands
  for what makes one unique. A row of `Branding` is what others rely on, without its look.
* World ID's two actions (a buyer's badge and an agent's trial) are taken to be
  configured apart, as the example environment has them.
* In `Checkout` what other pages pull from the allowance is left out: it leaves less, and a
  payment may revert anyhow.
* In `Checkout` a price is what the router asks at that moment; the gates before the button
  (human, tier, wallet, amount) are whether it is pressed. In `Ulid` the widths of bytes and
  digits are parameters, since 32 bits are too many to enumerate.
* Signatures: whether the account signed that digest (`grants`, `intents`, `signed`).
* Hash keys (`_laneId`, `_sessionId`) stand for the tuple they are taken over.
* In `Subscriptions` a token is whether the subscriber can pay (`funded`), and the
  router whether it quotes (`priceUp`) and takes the payment (`routerUp`).
* In `Bookings` the clock, prices and owners move freely; a session is SessionGrant's,
  opened by the payer itself. Dollars and tokens are in small units (`DOLLAR`,
  `UNIT`) so that rounding, down to dollars and up to tokens, is the code's.
* In `Intents` all instances read one clock; hosts whose clocks differ (`store.ts:108`) would
  disagree on the moment of expiry by as much.
* In `AgentMeter` a call is its place in the code, its amount, and the day it reserved
  on; ledgers are numbers in the unit of an `Amount`.
* The gateway sees Subscriptions as a set `due` that may change at any time, which
  includes everything the real contract does to it.
* Revert is allowed at every point where foreign code might cause one; money sent
  to a contract without a call and UUPS upgrades are left out.

## 3. The properties

* `Router`. **RescueBacked**: of the native coin it holds exactly the queued rescue
  money plus the legs in flight. **TokenCustody**: of a token, exactly the legs in
  flight. **FeeWithinCap**: every receipt respects the cap and its legs sum up, though
  the fee was raised after registration or during the pull. **RoutingPinned**: the
  snapshot equals the record to the end. **PaymentsAreAtomic**: the refinement of
  `IdealRail`; until the function returns the world counts as it was at entry, and
  rescue money counts as its payee's.
* `PaymentLanes`. **Backed** (per asset, up to the one amount in transit) and
  **Redeemable** (a receipt never sits on an unbound lane, reverts included).
  `Rail`: **LanesBacked**, the same while the router funds it and reverts, and
  **RailIsAtomic**: through lanes too a payment is one atomic step.
* `Escrow`. **Solvent**; **HonoursDeals**, the refinement of `IdealEscrow`, where queued
  money counts as the payee's, and where the last to act on a deal (`resolver`, a
  variable that only records it) must have been entitled to; **EventuallyResolved**, **EventuallyPaid**.
* `SessionGrant`. **OneSessionPerGrant**: no two sessions share a nonce, an account
  that only signs has only sessions it signed, no budget is overdrawn.
  **RemainingIsSpendable**: the view `remaining` and the guard of `spend` agree at
  every boundary.
* `Subscriptions`. **HonoursMandates**, the refinement of `IdealBilling`, in which a
  payer has one trial of a plan however often it comes back; **BlamelessNotDunned**;
  **AsIntended**: a relayer cannot pair a grant with another plan, trial or terms than an
  intent of that account has, nor use an intent twice, whatever its factory opens between
  the check of the intent and the session.
* `Bookings`. **Solvent**: of each token it holds what live reservations have in escrow
  and what is queued. **CalendarTrue**: a place is occupied by id exactly when that
  reservation is live. **RefundNeverBlocked**: whatever router, price and pushes do, the
  payer can cancel or expire when the terms let it and draw its queue, and the merchant
  can complete a booking or mark a no-show. **HonoursBookings**, the refinement of `IdealBookings`:
  the payer gets back all but the one charge agreed on when the deposit was left,
  at the rate of the moment, and only when the party that the terms name acts.
* `AgentMeter`. **BudgetHolds**: over all instances, restarts, faults and orders of
  answers, the payments charged to the row of a day stay within the budget.
  **RowIsExact**: the row is the sum of the calls that it counted and that were not
  refunded. **InstanceCeiling**: without a database each instance keeps to the budget
  by itself, though calls interleave at every await. All three make one exception,
  for refunds that the code credits to the day after the reservation (section 7).
* `AutomationGateway`. **ReachedInTime**, the bound of the comment on `scanCursor`;
  **EventuallyReached**.

* `Receivables`. **ClaimsHonoured**: several merchants name the contract as payout and
  some are also paid directly, so others' money lies in its balance and in its lane;
  each settlement forwards its own net to the unit. A claim that was sold is never
  cancelled, and pays at least the due less the surcharge of its mint, though merchants
  move their terms between and in the pull (one exception: section 7).
* `GiftCards`. **CardsBacked**: what the holders have and what stands as spent is what
  was issued, though holders hand a card on between a redeem and its reversal.
* `PriceRelay`. **QuoteIsFresh**: a price quoted was posted within the window however long
  it was on its way, and no moment of the grace period saw the sequencer down.
  **PriceAdvances**: the price only moves on to a later posting, but for what the clocks of
  two chains are apart.
* `Intents`. **ExpiryFinal**: who was told that an intent has expired is never told
  afterwards that it is payable, by any instance or after any restart.
* `Verification`. **OneProofOneProfile**: each badge, in each copy of a profile, has its
  proof; a proof earns one user its badge, once.
* `Branding`. **CasinoBacked**: no copy of a casino's row lets it serve without a gate and
  a human who claimed the slot and operates no other tenant.
* `AiSessions`. **BudgetTracksCalls**: the mirror's spent is at least what the calls of this
  opening hold that are being answered or were served, less what calls of an earlier opening
  of the same id handed back to it; at most that and what calls hold that settled before
  their handler threw; and within the cap. Whether the latter are refunded is left open
  here, and is section 7's `SettledNotRefunded`.
* `AgentPay`. **OneRail**: once its shield may be on the chain a request never goes to the
  public rail, and an answer that says nothing moved (`not_configured`, `bad_request`, on
  either rail) is given when nothing was sent: a wallet that is not configured does not
  turn up after a call was paid.
* `UsePayment`. **ReceiptOfItsOrder**: a run shows the receipt of a payment that the chain
  took, of its own order. **EventNotMissed**: as long as a run watches, its event is on
  its way or its receipt is there.
* `Checkout`. **ChargedAsQuoted**: the router never pulls more of a coin than `payToken` was
  quoted in it, by this page or, where an allowance was left, by an earlier visit or another
  page, with payments that overlap and prices that move. What it does not say is in section 7.
* `Ulid`. **SortsByCreation**: ids sort by their time and, within one stay in a millisecond, in
  the order they were made, through every carry and the regrouping of bytes into digits.

Each module also has a type invariant; `SessionTypes`, `EscrowTypes` and `RouterTypes`
prove theirs, those of the other modules with proofs are part of the inductive
invariants. Operators whose comment begins with "Mutant" are slips a programmer might
make in the definition that follows them; with the definition replaced by its mutant,
the property it is paired with in PROJECT.json fails.

## 4. The runs

| Run | Configuration | States | Question |
|---|---|---|---|
| `router` | `MCRouter` | 508 834 | do payments stay atomic, capped and custody-free under any callback, refusal or revert; is a quote's price fresh; are gift cards backed; is a sold invoice paid in full |
| `rail` | `MCRailLanes` | 632 268 | is every asset of the lanes backed on its own, with receipts handed around, and with the router in front |
| `escrow` | `MCEscrow` | 24 672 | safety, refinement and liveness of deals |
| `subscriptions` | `MCSubscriptions` | 800 480 | two subscriptions drawing on one session |
| `subscriptions_relayed` | `MCSubscriptionsRelayed` | 389 440 | relayed subscribing with a factory in the middle, plans that change |
| `gateway` | `MCGateway` | 79 012 | is any due id starved |
| `bookings` | `MCBookings` | 586 091 | do deposits and calendar stay true in any order of transitions and failures; do sessions keep to what was authorised, with nested relayed opens, direct opens, expiry |
| `agents` | `MCAgents` | 1 335 034 | does each budget hold with lost answers, restarts and sessions opened anew; does a request pay once; is a buyer charged what was quoted |
| `stores` | `MCStores` | 486 008 | do profiles, rows, intents, ids and receipts stay right when statements are lost or reordered and instances restart |
| `subs_dunned` | `MCSubsDunned` | violation | see section 7 |
| `meter_midnight` | `MCMeterMidnight` (module `MCAgentMeter`) | violation | see section 7 |
| `ai_refund` | `MCAiRefund` (module `AiSessions`) | violation | see section 7 |

Bounds, and why they are enough. One merchant and one payment in each asset: the
lock admits one payment at a time, and between payments only settings, the rescue
queue and balances carry over; rescue money of the first payment is still queued
while the second runs. The price is one for which both fee legs are rounded and,
at the raised platform fee, the surcharge is squeezed to less than a unit; one of
the fee arguments is above the cap. Lanes: two assets are needed for a claim across
them, one recipient and one more holder for every way of handing a receipt on.
Escrow: two deals, so that one could be paid with the other's money; a time at the
deadline. Sessions: an account that acts and one that only signs with a nonce each, or one of them
with two; two delegates and two nonces are the least with which a nonce can be used twice,
two grants and a depth of two the least at which an account that only signs could do it.
Subscriptions: two that share a budget, dunning to UNPAID in two steps, and a clock one
past the session's expiry; relayed, two plans, two intents and two grants over two
nonces, the fewest with which a factory can put another session under an intent. Gateway: three ids,
of which a window shows two, so the registry never fits a window and wraps at an
odd place; four changes by others. Bookings: two reservations of one place, so that
it is freed and let again; two policies, one without late cancellation and with a
forfeit above the deposit, one with a late fee and no forfeit; two prices, of which the
higher rounds a deposit up; two client nonces, and the same payer, host and relayer,
since roles matter and not who has them. Meter: a budget of one call and three
calls, the fewest with which a refund that comes a day late lets a further call in;
two instances, two days, one fault. AI calls: three calls of one session that is opened
twice, so that a call of the first opening is answered in the second. Rails: two
requests of one process that share its lookup of the wallet. Price relay: two chains, one with its clock a
moment ahead and one behind, two messages under way, an answer in and one out of the
band, windows of one moment in four. Gift cards: two holders, two redemption ids, three
units. Receivables: two claims of one merchant, in the native coin or in a token, with and
without lanes; a surcharge that takes nothing or all of the due; one unit left by a direct
payment. Intents: two instances and one intent, three statements under way and two
faults. Verification: two instances, two calls, two users and an agent, a proof under
each gate, one fault. Branding: two tenants, two slugs, one human, one instance that
restarts, one fault, five edits. Checkout hook: two runs of one buyer at one merchant, with
the same order or with different ones. Checkout page: two coins, two prices, one switch and
two handlers, which may overlap, and each of which may pay and be left with an allowance;
one allowance of the higher price from elsewhere, there at the start or approved meanwhile,
so that the lower quote is paid out of it at the higher price.
Ids: tails of six bits in three bytes and two digits, rolls just short of a carry and of an
overrun, three times of which the clock may come back to one.
`CHECK_DEADLOCK FALSE` is given where behaviours run into the bounds (all money
spent, clock at its end); the gateway has none.

Symmetry is used for plans (subscriptions_relayed), client nonces and delegates (bookings),
calls, instances and coins (agents), users, calls and instances (stores):
safety only, and sets whose members the modules never tell apart. In `MCBookings`,
`MCAgents` and `MCStores` one set serves several components (what is an instance in one is a slug in
another), so that one symmetry serves all.

## 5. Fairness

`Escrow!Fairness`: the clock ticks; a keeper calls `claimAfterTimeout`, which is
permissionless, when it may; who is owed queued money calls `withdraw` or `withdrawTo`.
Nothing is assumed of buyer, seller, arbiter or of pushes succeeding.
`AutomationGateway!Fairness`: a keeper simulates when it may and performs what it
simulated, which is what a keeper network sells. No fairness is assumed elsewhere:
nothing in the application retries a statement, a withdrawal or a relay by itself, so
that something must eventually happen is not what its code promises.

## 6. The proofs

Proved by TLAPS for every value of the constants that satisfies the module's
assumption (accounts are distinct from contracts, the cap is at most the
denominator, prices are positive, nobody has given the contract money beforehand, a
surcharge is never more than what is due, the subscriptions contract opens no session of
its own). SessionGrant is instantiated, so its theorems state `SessionAssumption`, which
TLC evaluates for the instances of `MCBookings`:

| Theorem | Statement | Argument |
|---|---|---|
| `RouterTypes` | `Spec => []TypeOK` | one step per action; `saved` is part of the invariant, because a revert makes it the state |
| `RouterTokenCustody` | `Spec => []TokenCustody` | inductive with types, the claim that a frame is well formed (legs not yet paid are what the pc says), and custody of `saved` |
| `RouterFeeCap` | `Spec => []FeeWithinCap` | the split of any gross obeys the cap (`BankProofs`: the portions of two rates that sum to at most the cap are at most the capped portion), and the saved receipt too |
| `RouterRoutingPinned` | `Spec => []RoutingPinned` | every action that writes a merchant is locked or writes an unregistered id |
| `EscrowTypes` | `Spec => []TypeOK` | fee at most the amount, so that no leg is negative |
| `EscrowHonoursDeals` | `Spec => HonoursDeals` | initial states map to initial states; a release, whichever of its four payout outcomes, is one `Release` of the ideal escrow since a queued leg and a pushed one give the same wealth |
| `PullWithinApproval` | `Quote(p, ToUsd(p, n)) <= n` for every price and amount | what a charge pulls from Bookings is within what it approved: rounding down and then up does not exceed the start |
| `CalendarAlwaysTrue` | `Spec => []CalendarTrue` | `IInv`: places and records name each other; a step that ends a reservation frees its place, one that reserves takes a free one, the others leave both |
| `SessionTypes` | `Spec => []TypeOK` | stack of frames by `SubSeq` lemmas |
| `SessionsAuthorised` | `Spec => []OneSessionPerGrant` | `Sound(sessions, nonces)` is not inductive: a revert brings back the tables of a frame, so the invariant asks it of every frame, and that nonces never went back since the frame was pushed |
| `QuotesAreFresh` | `RelaySpec => []QuoteIsFresh` | `RelayInv`: rounds, messages and the latest report carry the time of their own chain, and while the sequencer is up it was last down when it came up; the receiver's check of the age on arrival and the quote's of the age since bound the true age together |
| `PricesAdvance` | `RelaySpec => PriceAdvances` | from `RelayInv`: a report replaces another only if its time is later, and times are postings plus a lead |
| `ProofsEarnOneProfile` | `ProfilesSpec => []OneProofOneProfile` | `ProofInv`: not only memory and table but every statement under way and every half-read boot holds earned badges only; a claim is won by one call, and nothing is credited for its slot before |
| `PaysOnOneRail` | `PaySpec => []OneRail` | `RailsInv`: by where the handler is — nothing is sent before the shield, no public payment is made from the shield on, and a request that has not answered has not said so; a request that was paid for found the wallet, and `Lookup` never changes what it found (`LookupKeeps`, `AgentsProofs`) |
| `NeverChargedMore` | `CheckoutSpec => []ChargedAsQuoted` | `CheckoutInv`: the amount of every task past its quote, every allowance and every approval not yet mined is within a quote of its coin, of this page or elsewhere; what the router pulls is within the allowance (`AgentsProofs`) |
| `ClaimsAlwaysHonoured` | `ReceivablesSpec => []ClaimsHonoured` | `ReceivablesInv`: the books a reverted pull goes back to are honoured as well, and the terms that `pay` checked, kept in its frame, bound what the router takes if they still stand |
| `RouterRescueBacked` | `Spec => []RescueBacked` | with custody: what the queue owes in all changes with each queued leg and each claim by the sum lemmas of `BankProofs`; the storage a revert brings back is backed too (`SavedBacked`) |
| `RouterPaysAtomically` | `Spec => PaymentsAreAtomic` | with `IInv` an invariant `Ledger`: since the function in flight was entered, the payees have got the legs its frame no longer owes and the buyer is short of the price. It says that *some* accounts got them, because the treasury may be moved between a leg and its end (`TalliedTo`). While it runs the mapping reads the wealth at the entry, so that only `SendBack` is a payment of `IdealRail`, and `Revert` is a stutter |
| `RailKeepsLanesBacked` | `RailSpec => []LanesBacked`, if `RailAssumption` | `RailInv`: the router's `IInv` with `LanesInv`, sound receipts and cover in each of the three storages a step may bring back: the present one, the one the router's function began with, which its revert restores in both contracts, and the one the lanes function in flight began with. The router's own steps never touch the lanes' column of the balances (`RouterMovesAside`) |
| `RailPaysAtomically` | `RailSpec => RailIsAtomic`, if `RailAssumption` | `RailLedger`, the ledger of `RouterPaysAtomically` over what holders can take out of both contracts, and `FlightTold`: a lanes function in flight has changed exactly its owner's receipts since its entry, a credit by the net leg of the payment in flight. Wealth counts the receipts as they were when the lanes were last at rest (`Settled`), so that `CreditReturns` pays the leg, and `CreditBegins`, `ClaimLane` and the reverts are stutters |
| `EscrowSolvent` | `Spec => []Solvent` | every settlement takes out of one escrow what it gives to purses outside and to the queue; the deposits are a sum over the open escrows |
| `BookingsSolvent` | `Spec => []Solvent` | the escrow total of a token is the sum of the live reservations' deposits, which every end of a reservation reduces by its own |
| `BookingsHonoured` | `Spec => HonoursBookings` | `Good`: the calendar, the money and that every placed order is on record (`Recorded`). Completion, expiry, the ways to cancel and a no-show are each one `End` of `IdealBookings`; what the router pulled is within the quote at the rate of the moment (`PulledIsWorth`), and a refund drawn later is a stutter, since queued money already counts as the payee's |
| `RemainingTellsSpend` | `Spec => []RemainingIsSpendable` | the view and the guard of `spend` agree on the last second and on the revoked flag; from the type invariant |
| `SubscriptionsTypes`, `NobodyBlamelessDunned`, `RelayedAsIntended` | `Spec => []TypeOK`, `Spec => BlamelessNotDunned`, `Spec => []AsIntended` | `IInv`: every subscription is `Founded`, on an opened session of the subscriber's own, a plan that was set and a trial that is remembered. Only a declined `Charge` counts a failure. For `AsIntended` it is joined by `Later`: the nonce that a `subscribeFor` under way has read is past every session of that account's subscriptions, so that no other subscription lies between its intent and its session. What an intent bound stays so because a session keeps its cap and a record its terms in every step (`CapsKept`, `TermsStand`) |
| `MandatesHonoured` | `Spec => HonoursMandates` | a paid renewal is one `Pay`, a new subscription one `Open` on a mandate that stands or that the grant gives (`SubscribeDraws`), a dunning, a cancellation or a reactivation one `Turn` or a stutter, and what owners do to their sessions one `Arrange` |
| `ReceiptsRedeemable`, `ReceiptsBacked` | `PaymentLanes!Spec => []Redeemable`, `[]Backed` | `LanesInv` (`ContractProofs`): a claim pays from the asset it names because a lane with receipts is bound to the asset of its name, and the storage a frame remembers must be sound and backed too, since a revert brings it back after its receipts were handed on |
| `PrepaidValueBacked` | `CardsSpec => []CardsBacked` | inductive with types, if what stands as spent is summed over all ids with 0 for those that do not count |
| `MeterRowExact`, `MeterBudgetHolds`, `MeterInstanceCeiling` | `Spec => []RowIsExact`, `[]BudgetHolds`, `[]InstanceCeiling` | `MInv` (`AgentsProofs`): a call is on a row from the moment its statement runs, heard of or not, to the moment its decrement runs, and where each call stands bounds what its answers may say |
| `AiBudgetTracksCalls` | `AiSpec => []BudgetTracksCalls` | `AiInv`: an opening's number tells its calls from those of earlier openings, which alone can hand back what they do not hold |
| `ReceiptsMatchOrders`, `EventsReachTheirRun` | `RunsSpec => []ReceiptOfItsOrder`, `[]EventNotMissed` | `RunsInv` (`AgentsProofs`): what the chain took or refused of a run was sent by it, and a run that watches has its own event before it or was handed it, because it subscribes before it sends |
| `SweepReachesInTime` | `GatewaySpec => []ReachedInTime`, for one keeper and a batch that holds a scan, as both constants are 50 | `GatewayInv` (`SubscriptionsProofs`): an id left out of `n` rounds that waits has the cursor within what `n` scans have not covered (`Nears`), or a keeper holds it in its batch, or holds a step of the cursor that is one scan; with the arithmetic of `%` and of the ceiling |
| `ExpiryIsFinal` | `IntentsSpec => ExpiryFinal` | `ExpiryInv` (`GrantProofs`): every copy of an intent, in memory, in the table, half-read at boot or under way in a statement, has the same expiry, and none says it expired, nor was anyone told, before that moment |
| `CasinosBacked` | `BrandingSpec => []CasinoBacked` | `CasinoInv` (`GrantProofs`): a human whom some copy of a row names holds the operator's slot and is named for no other tenant, and one whose claim has just won is named nowhere until the row is written (`WonAlone`). Hydration and restarts only move copies (`RowsMove`) and a save adds one row (`UpsertAdds`) |

The router, by itself and with its lanes, is in `RouterProofs`, the receivables, relay,
cards and the lanes by themselves in `ContractProofs`, the two meters in `AgentsProofs`. Finiteness of the sets a sum runs over (addresses, calls, holders,
redemption ids) is assumed where it is needed: ids have a fixed width.

A sum is `SumFunction` of the community modules, which recurs over the subsets of its
domain. `BankProofs` proves of it, for any finite set, that it is well defined and does not
depend on the order, and from that what a change of one value, or a part of the domain,
does to it. The library's induction theorems cannot be applied here, so each of these
arguments takes a smallest subset for which the claim fails (`SmallestSubset`) and
contradicts it.

The two theorems about `Rail` are of payments of tokens and of nesting as the module has it:
a payment that calls the lanes, claims inside it or outside, and no payment inside a claim.
`Rail` is instantiated, so what they assume of its constants is `RouterAssumption` and
`RailAssumption` (the zero address is no token, an unlimited claim is no amount, and nobody
has given the lanes tokens beforehand), which TLC evaluates for the instance of `MCRailLanes`.

Only model-checked is what is out of the prover's reach: liveness and `RefundNeverBlocked`
(fairness and ENABLED), and `SortsByCreation`, which is about what recursive definitions
compute.

## 7. Disagreements between the code and what is said of it

Shown by runs and listed in PROJECT.json:

* `subs_dunned`: a renewal does not clear the dunning bucket, so a declined charge
  in the same bucket number of the next period goes unnoticed (`DunnedWhenDeclined`).
* `meter_midnight`: a refund is taken from the row of the day on which it is made
  (`agentMeter.ts:218`) and not of the day that was charged, so a call reserved before
  midnight that fails after it makes room for one call too many on the new day, where
  the cap is said to be "enforced GLOBALLY" (`agentMeter.ts:141`;
  `CapEnforcedGlobally`). No fault is needed.
* `ai_refund`: a call that settled and whose handler failed is said not to be refunded
  (`aiGateway.ts:18-19`), but when the handler throws, the catch of `withGateway`
  (`x402.ts:365`) answers without the settlement's proof, and the gateway takes it for a
  miss (`SettledNotRefunded`).

Noted while modelling, with no run: `cancel` is said to revoke the session
(`IAccess0x1Subscriptions.sol:365`), but `revoke` is the owner's and the caller is
the delegate, so it always ends in the catch; a lapsed trial is said not to be
entitled (`Access0x1Subscriptions.sol:238`), but once a charge was declined it is
PAST_DUE and is; the throttle is said to allow one dun per distinct bucket
(`:105`), but only the last bucket is kept and its width follows `setPlan`. With two keepers that
simulate the same window both advance the cursor and ids between may be passed over,
though successive rounds are said to sweep the whole registry
(`IAutomationGateway.sol:86`); `gateway` has one keeper. In Bookings `confirm` is said
to release the escrow, but only changes the status; `escrowedOf` is said to equal
the contract's balance, which also holds queued refunds; `claimRefund` is said to be
open to a keeper, but pays the caller only; `_tokenToUsd8` is said to return 0
below a dollar's worth, but does so below one USD unit. In a database outage that
comes and goes the ceiling of an instance is said to hold (`durableKv.ts:160`), but a
refund that the row answers replaces the ledger in memory and forgets what was only
counted there (`agentMeter.ts:220`); a ledger in memory that lags a refund made
elsewhere may refuse a call that the row has room for.

These are stated in the modules as what a comment says, and TLC finds each violated when it
is checked of its component:

* `Subscriptions!IntentIsOfGrant`: an intent is said to be "pinned to the grant's CURRENT
  nonce" and "inseparable from this grant" (`Access0x1Subscriptions.sol:306-308`), but the
  nonce is read before the check of the intent (`:311`), which may call a factory
  (`SessionGrant.sol:447`), and the session is opened after it. A relayer that holds two
  grants of the same terms, over nonces 0 and 1, and an intent over 0 has its factory open
  the first: the second is opened under the intent of nonce 0. `AsIntended` is what remains.
* `AgentPay!ParkedIsReported`: funds parked in the private balance are said never to be
  hidden (`privatePay.ts:113-116`), but an error of `waitForTx` after the shield
  (`privateWithdraw.ts:146`) is neither of the two errors that say so.
* `Branding!AnchorsPreserved`: an edit is said to preserve `merchantId`
  (`branding/store.ts:374-375`), but an instance that has not read the row since another
  attached the merchant, or since its own restart, writes the row without it.
* `Checkout!QuoteIsOfCoinPicked`: the page is said never to show a stale price
  (`CheckoutCard.tsx:255`), but shows the answer that comes last, which may be that of
  the coin picked before.
* `Checkout!ReceiptInCoinPaid`: the receipt is said to show the amount paid in token
  decimals (`ReceiptScreen.tsx:11-12`), but is given those of the coin picked now, and
  the picker is not locked while `handlePay` awaits its last quote.
* `Ulid!SortsInOneMs`: two intents of one millisecond are said to sort in creation order
  (`ulid.ts:13-15`), but a clock set back makes ids of a millisecond it has seen from a
  new roll.
* `Receivables`, without `kept` in `Honoured`: the live re-check of payout and fee is said to
  make a moved merchant's payment revert and keep the claim intact (`Receivables.sol:258-275`),
  but it comes before the pull (`Receivables.sol:295`). A token whose pull calls out, which the
  router expects (`Access0x1Router.sol:756`), lets the merchant move them after the
  re-check, and the claim settles for less.
* `Checkout`, with `quoted` alone for `Agreed`: `payToken` is said to approve exactly what was
  quoted (`contracts.ts:341`), but takes any allowance that suffices as it is
  (`contracts.ts:350-358`). With 2 left from an earlier visit and a quote of 1, a price that
  moves to 2 before the payment lands is pulled whole.

In `CheckoutCard.tsx:329` the error tested after the fresh quote is that of the render before,
and the button is not enabled with one: the test never stops a payment. A fetch that throws
there leaves `loadingQuote` set and says nothing, until another coin is picked.

## 8. Not modelled

* **Parts of what is modelled.** UUPS upgrades of all contracts; of the Router the settings
  of feeds; of GiftCards the coupons; of the relay the message fee, the funds that pay it
  and the gas limit; of the durable store its delete, which no modelled store calls, and
  a deployment without a database, in which nothing is shared (AgentMeter has it); of
  the AI gateway the seller's ledger of payments, which only reports; of Branding the
  look of a page, the subname issued for it, the private checkout mode and the seed row
  written at boot (`branding/seed.ts`); of the checkout page the gates, funding and
  looks.
* **Refunds.** A funded position per order, which the buyer claims before a deadline and the
  merchant reclaims after it: one comparison separates the two, the receipt cannot be
  handed on, and the rest is Escrow's pattern.
* **Invoices, SplitSettler, Rebates, GaslessPayIn, CCIP payments.** Single locked calls
  around one payment through the router, with a record that is used once. The harder
  cases of the same shape are modelled: a queue for refused pushes in Router and Escrow, a
  signature check that calls out in SessionGrant, a claim that changes hands in
  Receivables. Delivery of CCIP messages is outside the repository.
* **PriceOracleAdapter, OperatorFeed, the registries, credentials and NFTs.** Records that
  one owner or attester writes in single calls, with rules per token on top of OpenZeppelin.
* **House and share tokens, names, the account.** Arithmetic of OpenZeppelin's vaults, prices
  of names, signature validation: no state to interleave.
* **Uniswap hooks.** Callbacks inside a pool manager that is not in the repository.
* **The cryptography** behind World ID, OIDC, x402 and AP2.
* **Other pages, tables of deployments and chains, analytics, artifacts.** Most of the web
  application's lines: rendering, constants, and views derived from events, with no state
  that others rely on. The payout-swap worker is sequential and keeps no state; the MCP
  server, the subgraph and the CRE workflow read events and decide nothing the contracts
  rely on; deployment scripts are run once by an operator.
