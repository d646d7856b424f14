---------------------------- MODULE BookingsProofs ----------------------------
(***************************************************************************)
(* Proofs about Access0x1Bookings, for any number of merchants, places and  *)
(* reservations and any price: a quote turned back into USD never asks for  *)
(* more than was approved, the calendar is always true, the contract holds  *)
(* what it owes, and it implements IdealBookings: each reservation takes a  *)
(* free place and ends once, on the terms in force when it was made.        *)
(***************************************************************************)
EXTENDS Bookings, BankProofs

USE BookingsAssumption

-----------------------------------------------------------------------------
(* Prices. *)

\* Rounding up: the least multiple of b that covers a.
LEMMA CeilBounds ==
    ASSUME NEW a \in Nat, NEW b \in Nat \ {0}
    PROVE  /\ CeilDiv(a, b) \in Nat
           /\ a <= b * CeilDiv(a, b)
           /\ b * CeilDiv(a, b) <= a + b - 1
<1> DEFINE x == a + b - 1
<1>1. x \in Nat
  OBVIOUS
<1> HIDE DEF x
<1>2. /\ x \div b \in Nat
      /\ b * (x \div b) <= x
      /\ x < b * (x \div b) + b
  BY <1>1
<1>3. QED
  BY <1>2 DEF CeilDiv, x

\* What is at most a product is at most a factor.
LEMMA Cancels ==
    ASSUME NEW a \in Nat \ {0}, NEW x \in Nat, NEW y \in Nat, a * x <= a * y
    PROVE  x <= y
<1>1. SUFFICES ASSUME y + 1 <= x PROVE FALSE
  OBVIOUS
<1>2. a * (y + 1) <= a * x
  BY <1>1, TimesMonotone
<1>3. a * (y + 1) = a * y + a
  OBVIOUS
<1> DEFINE ax == a * x
           ay == a * y
<1>4. ax \in Nat /\ ay \in Nat /\ ax <= ay /\ ay + a <= ax
  BY <1>2, <1>3
<1> HIDE DEF ax, ay
<1>5. QED
  BY <1>4

\* The pull of payToken is within the approval: at every price p and for every
\* amount, the quote of the USD value taken for the amount is at most the amount.
THEOREM PullWithinApproval ==
    ASSUME NEW p \in Nat \ {0}, NEW amount \in Nat
    PROVE  Quote(p, ToUsd(p, amount)) <= amount
<1> DEFINE q == Quote(p, DOLLAR)
           usd == ToUsd(p, amount)
           du == DOLLAR * UNIT
<1>1. du \in Nat \ {0}
  OBVIOUS
<1>2. q \in Nat /\ du <= p * q
  <2>1. DOLLAR * UNIT \in Nat
    OBVIOUS
  <2>2. QED
    BY <2>1, CeilBounds DEF Quote
<1>3. q # 0
  <2>1. SUFFICES ASSUME q = 0 PROVE FALSE
    OBVIOUS
  <2>2. p * q = 0
    BY <2>1
  <2> HIDE DEF du, q
  <2>3. QED
    BY <1>1, <1>2, <2>2
<1>4. usd \in Nat /\ q * usd <= amount * DOLLAR
  <2> DEFINE a == amount * DOLLAR
  <2>1. a \in Nat
    OBVIOUS
  <2> HIDE DEF a, q
  <2>2. a \div q \in Nat /\ q * (a \div q) <= a
    BY <1>2, <1>3, <2>1
  <2>3. usd = a \div q
    BY DEF ToUsd, a, q
  <2> HIDE DEF usd
  <2>4. QED
    BY <2>2, <2>3 DEF a
<1> HIDE DEF q, usd
\* usd of UNIT each are worth no more than amount at p
<1>5. usd * UNIT <= p * amount
  <2> DEFINE w == usd * UNIT
             v == p * amount
  <2>1. w \in Nat /\ v \in Nat
    BY <1>4
  <2>2. DOLLAR * w <= DOLLAR * v
    <3>1. usd * du <= usd * (p * q)
      <4>1. p * q \in Nat
        BY <1>2
      <4> HIDE DEF du
      <4>2. QED
        BY <1>1, <1>2, <1>4, <4>1, TimesMonotone
    <3>2. p * (q * usd) <= p * (amount * DOLLAR)
      <4>1. q * usd \in Nat /\ amount * DOLLAR \in Nat
        BY <1>2, <1>4
      <4>2. QED
        BY <1>4, <4>1, TimesMonotone
    <3>3. usd * du = DOLLAR * w
      BY <1>4
    <3>4. usd * (p * q) = p * (q * usd)
      BY <1>2, <1>4
    <3>5. p * (amount * DOLLAR) = DOLLAR * v
      OBVIOUS
    <3> DEFINE a == usd * du
               b == usd * (p * q)
               c == p * (amount * DOLLAR)
    <3>6. a \in Nat /\ b \in Nat /\ c \in Nat
      BY <1>2, <1>4
    <3>7. a <= b /\ b <= c
      BY <3>1, <3>2, <3>4
    <3>8. DOLLAR * w = a /\ DOLLAR * v = c
      BY <3>3, <3>5
    <3> HIDE DEF a, b, c, w, v
    <3>9. a <= c
      BY <3>6, <3>7
    <3>10. QED
      BY <3>8, <3>9
  <2> HIDE DEF w, v
  <2>3. w <= v
    BY <2>1, <2>2, Cancels
  <2>4. QED
    BY <2>3 DEF w, v
<1>6. Quote(p, usd) \in Nat /\ p * Quote(p, usd) <= usd * UNIT + p - 1
  <2>1. usd * UNIT \in Nat
    BY <1>4
  <2>2. QED
    BY <2>1, CeilBounds DEF Quote
<1>7. SUFFICES ASSUME amount + 1 <= Quote(p, usd) PROVE FALSE
  <2> DEFINE goal == Quote(p, usd)
  <2>1. goal \in Nat
    BY <1>6
  <2>2. SUFFICES goal <= amount
    BY DEF usd
  <2> HIDE DEF goal
  <2>3. goal <= amount \/ amount + 1 <= goal
    BY <2>1
  <2>4. CASE amount + 1 <= goal
    BY <1>7, <2>4 DEF goal
  <2>5. QED
    BY <2>3, <2>4
<1>8. p * (amount + 1) <= p * Quote(p, usd)
  BY <1>6, <1>7, TimesMonotone
<1>9. p * (amount + 1) = p * amount + p
  OBVIOUS
<1> DEFINE v == p * amount
           w == usd * UNIT
           z == p * Quote(p, usd)
<1>10. /\ v \in Nat /\ w \in Nat /\ z \in Nat
       /\ w <= v /\ z <= w + p - 1 /\ v + p <= z
  BY <1>4, <1>5, <1>6, <1>8, <1>9
<1> HIDE DEF v, w, z
<1>11. QED
  BY <1>10

-----------------------------------------------------------------------------
(* The calendar. *)

\* A reservation as far as the calendar and the deposits go: times may be any.
Entry ==
    [merchantId : Merchant, payer : Payer, token : Token, escrowAmount : Nat,
     depositUsd8 : Deposit, holdExpiresAt : Int, slotTimestamp : SlotTime,
     policy : Policy, slotKey : Slot, clientNonce : ClientNonce, status : Status]

Place == Merchant \X Slot

\* Place by place and id by id, the map of occupants agrees with the records.
Agrees ==
    \A place \in Place, id \in ReservationId :
        Live(id) /\ PlaceOf(reservations[id]) = place <=> occupant[place] = id

IInv ==
    /\ reservations \in [ReservationId -> {None} \cup Entry]
    /\ occupant \in [Place -> 0..MaxReservations]
    /\ nextReservationId \in 1..(MaxReservations + 1)
    /\ price \in [Token -> Nat]
    /\ now \in Nat
    /\ \A id \in ReservationId : id >= nextReservationId => reservations[id] = None
    /\ Agrees

LEMMA AgreesIsTrue == IInv => CalendarTrue
<1> SUFFICES ASSUME IInv, NEW place \in Merchant \X Slot
             PROVE  {id \in ReservationId : Live(id) /\ PlaceOf(reservations[id]) = place}
                        = IF occupant[place] = 0 THEN {} ELSE {occupant[place]}
  BY DEF CalendarTrue
<1>1. occupant[place] \in 0..MaxReservations
  BY DEF IInv, Place
<1>2. occupant[place] = 0 \/ occupant[place] \in ReservationId
  BY <1>1 DEF ReservationId
<1>3. 0 \notin ReservationId
  BY DEF ReservationId
<1>4. QED
  BY <1>2, <1>3 DEF IInv, Agrees, Place

LEMMA LiveEntry ==
    ASSUME IInv, NEW id \in ReservationId, reservations[id].status # "NONE"
    PROVE  /\ reservations[id] \in Entry
           /\ PlaceOf(reservations[id]) \in Place
           /\ id < nextReservationId /\ id \in Nat
<1>1. reservations[id] \in Entry /\ reservations[id] # None
  BY DEF IInv, None
<1>2. id \in Nat /\ nextReservationId \in Nat
  BY DEF IInv, ReservationId
<1>3. QED
  BY <1>1, <1>2 DEF IInv, PlaceOf, Entry, Place

LEMMA ReserveStep ==
    ASSUME IInv, NEW payer \in Payer, NEW m \in Merchant, NEW slot \in Slot,
           NEW token \in Token, NEW usd \in Deposit, NEW policy \in Policy,
           NEW hold \in Hold, NEW slotTime \in SlotTime, NEW nonce \in ClientNonce,
           Reserve(payer, m, slot, token, usd, policy, hold, slotTime, nonce)
    PROVE  IInv'
<1> DEFINE id == nextReservationId
           amount == Quote(price[token], usd)
           r == [merchantId |-> m, payer |-> payer, token |-> token,
                 escrowAmount |-> amount, depositUsd8 |-> usd,
                 holdExpiresAt |-> now + hold, slotTimestamp |-> slotTime,
                 policy |-> policy, slotKey |-> slot, clientNonce |-> nonce,
                 status |-> "HELD"]
<1>1. /\ id \in ReservationId /\ id \in Nat /\ id # 0
      /\ occupant[<<m, slot>>] = 0 /\ price[token] # 0
      /\ reservations' = [reservations EXCEPT ![id] = r]
      /\ nextReservationId' = id + 1
      /\ occupant' = [occupant EXCEPT ![<<m, slot>>] = id]
      /\ UNCHANGED <<price, now>>
  BY DEF Reserve, IInv, ReservationId, router, grantVars
<1>2. amount \in Nat
  <2>1. usd * UNIT \in Nat /\ price[token] \in Nat \ {0}
    BY <1>1 DEF IInv
  <2>2. QED
    BY <2>1, CeilBounds DEF Quote
<1> HIDE DEF amount
<1>3. r \in Entry /\ r.status = "HELD" /\ PlaceOf(r) = <<m, slot>> /\ r # None
  BY <1>2 DEF Entry, Status, PlaceOf, IInv, None
<1> HIDE DEF r
<1>4. /\ reservations' \in [ReservationId -> {None} \cup Entry]
      /\ reservations'[id] = r
      /\ \A k \in ReservationId : k # id => reservations'[k] = reservations[k]
  BY <1>1, <1>3 DEF IInv
<1>5. /\ occupant' \in [Place -> 0..MaxReservations]
      /\ <<m, slot>> \in Place /\ occupant'[<<m, slot>>] = id
      /\ \A place \in Place : place # <<m, slot>> => occupant'[place] = occupant[place]
  BY <1>1 DEF IInv, Place, ReservationId
<1>6. reservations[id] = None /\ ~Live(id)
  BY <1>1 DEF IInv, Live, None
<1>7. ASSUME NEW place \in Place, NEW k \in ReservationId
      PROVE  Live(k)' /\ PlaceOf(reservations'[k]) = place <=> occupant'[place] = k
  <2>1. CASE k = id
    <3>1. Live(k)' /\ PlaceOf(reservations'[k]) = <<m, slot>>
      BY <1>3, <1>4, <2>1 DEF Live
    <3>2. occupant[place] # id
      BY <1>1, <1>6 DEF IInv, Agrees
    <3>3. QED
      BY <1>5, <2>1, <3>1, <3>2
  <2>2. CASE k # id
    <3>1. Live(k)' <=> Live(k)
      BY <1>4, <2>2 DEF Live
    <3>2. Live(k) /\ PlaceOf(reservations[k]) = place <=> occupant[place] = k
      BY DEF IInv, Agrees
    <3>3. k # 0
      BY DEF ReservationId
    <3>4. QED
      BY <1>1, <1>4, <1>5, <2>2, <3>1, <3>2, <3>3
  <2>3. QED
    BY <2>1, <2>2
<1>8. \A k \in ReservationId : k >= id + 1 => reservations'[k] = None
  BY <1>1, <1>4 DEF IInv, ReservationId
<1>9. nextReservationId' \in 1..(MaxReservations + 1)
  BY <1>1 DEF ReservationId
<1>10. QED
  BY <1>1, <1>4, <1>5, <1>7, <1>8, <1>9 DEF IInv, Agrees

\* A record whose status alone changes stays an entry for its place.
LEMMA Restatus ==
    ASSUME IInv, NEW id \in ReservationId, reservations[id].status # "NONE",
           NEW s \in Status, reservations' = [reservations EXCEPT ![id].status = s],
           UNCHANGED nextReservationId
    PROVE  /\ reservations' \in [ReservationId -> {None} \cup Entry]
           /\ reservations'[id].status = s
           /\ PlaceOf(reservations'[id]) = PlaceOf(reservations[id])
           /\ \A k \in ReservationId : k # id => reservations'[k] = reservations[k]
           /\ \A k \in ReservationId : k >= nextReservationId' => reservations'[k] = None
<1> DEFINE r == [reservations[id] EXCEPT !.status = s]
<1>1. reservations[id] \in Entry /\ id < nextReservationId /\ id \in Nat
  BY LiveEntry
<1>2. r \in Entry /\ r.status = s /\ PlaceOf(r) = PlaceOf(reservations[id])
  BY <1>1 DEF Entry, PlaceOf
<1>3. reservations' = [reservations EXCEPT ![id] = r]
  OBVIOUS
<1> HIDE DEF r
<1>4. /\ reservations' \in [ReservationId -> {None} \cup Entry]
      /\ reservations'[id] = r
      /\ \A k \in ReservationId : k # id => reservations'[k] = reservations[k]
  BY <1>2, <1>3 DEF IInv
<1>5. ASSUME NEW k \in ReservationId, k >= nextReservationId'
      PROVE  reservations'[k] = None
  <2>1. k # id
    BY <1>1, <1>5 DEF ReservationId, IInv
  <2>2. QED
    BY <1>4, <1>5, <2>1 DEF IInv
<1>6. QED
  BY <1>2, <1>4, <1>5

LEMMA ConfirmStep ==
    ASSUME IInv, NEW id \in ReservationId, NEW caller, Confirm(id, caller)
    PROVE  IInv'
<1>1. /\ reservations[id].status = "HELD"
      /\ reservations' = [reservations EXCEPT ![id].status = "CONFIRMED"]
      /\ UNCHANGED <<occupant, nextReservationId, price, now>>
  BY DEF Confirm, router, grantVars
<1>2. /\ reservations' \in [ReservationId -> {None} \cup Entry]
      /\ reservations'[id].status = "CONFIRMED"
      /\ PlaceOf(reservations'[id]) = PlaceOf(reservations[id])
      /\ \A k \in ReservationId : k # id => reservations'[k] = reservations[k]
      /\ \A k \in ReservationId : k >= nextReservationId' => reservations'[k] = None
  BY <1>1, Restatus DEF Status
<1>3. ASSUME NEW place \in Place, NEW k \in ReservationId
      PROVE  Live(k)' /\ PlaceOf(reservations'[k]) = place <=> occupant'[place] = k
  <2>1. Live(k)' <=> Live(k)
    BY <1>1, <1>2 DEF Live
  <2>2. PlaceOf(reservations'[k]) = PlaceOf(reservations[k])
    BY <1>2
  <2>3. QED
    BY <1>1, <2>1, <2>2 DEF IInv, Agrees
<1>4. QED
  BY <1>1, <1>2, <1>3 DEF IInv, Agrees

\* However a reservation ends, its place is freed and no other.
LEMMA CloseStep ==
    ASSUME IInv, NEW id \in ReservationId, NEW caller, NEW s, NEW target, NEW taken,
           s \in Status \ {"HELD", "CONFIRMED"}, Live(id),
           Close(id, caller, s, target, taken)
    PROVE  IInv'
<1> DEFINE here == PlaceOf(reservations[id])
<1>1. /\ reservations' = [reservations EXCEPT ![id].status = s]
      /\ occupant' = Vacated(reservations[id], id)
      /\ UNCHANGED <<nextReservationId, price, now>>
  BY DEF Close, router, grantVars
<1>2. reservations[id].status # "NONE"
  BY DEF Live
<1>3. here \in Place /\ occupant[here] = id
  BY <1>2, LiveEntry DEF IInv, Agrees
<1>4. occupant' = [occupant EXCEPT ![here] = 0]
  BY <1>1, <1>3 DEF Vacated
<1>5. /\ reservations' \in [ReservationId -> {None} \cup Entry]
      /\ reservations'[id].status = s
      /\ \A k \in ReservationId : k # id => reservations'[k] = reservations[k]
      /\ \A k \in ReservationId : k >= nextReservationId' => reservations'[k] = None
  BY <1>1, <1>2, Restatus
<1>6. /\ occupant' \in [Place -> 0..MaxReservations]
      /\ occupant'[here] = 0
      /\ \A place \in Place : place # here => occupant'[place] = occupant[place]
  <2>1. 0 \in 0..MaxReservations
    OBVIOUS
  <2> HIDE DEF here
  <2>2. QED
    BY <1>3, <1>4, <2>1 DEF IInv
<1>7. ASSUME NEW place \in Place, NEW k \in ReservationId
      PROVE  Live(k)' /\ PlaceOf(reservations'[k]) = place <=> occupant'[place] = k
  <2>1. k # 0
    BY DEF ReservationId
  <2>2. CASE k = id
    <3>1. ~Live(k)'
      BY <1>5, <2>2 DEF Live
    <3>2. occupant'[place] # k
      <4>1. CASE place = here
        BY <1>6, <2>1, <4>1
      <4>2. CASE place # here
        <5>1. occupant[place] # id
          BY <4>2 DEF IInv, Agrees
        <5>2. QED
          BY <1>6, <2>2, <4>2, <5>1
      <4>3. QED
        BY <4>1, <4>2
    <3>3. QED
      BY <3>1, <3>2
  <2>3. CASE k # id
    <3>1. (Live(k)' <=> Live(k)) /\ reservations'[k] = reservations[k]
      BY <1>5, <2>3 DEF Live
    <3>2. occupant'[place] = k <=> occupant[place] = k
      BY <1>3, <1>6, <2>1, <2>3
    <3>3. QED
      BY <3>1, <3>2 DEF IInv, Agrees
  <2>4. QED
    BY <2>2, <2>3
<1>8. QED
  BY <1>1, <1>5, <1>6, <1>7 DEF IInv, Agrees

\* A step that touches neither the records nor the occupants.
LEMMA ElsewhereStep ==
    ASSUME IInv, UNCHANGED <<reservations, occupant, nextReservationId>>,
           price' \in [Token -> Nat], now' \in Nat
    PROVE  IInv'
BY DEF IInv, Agrees, Live

LEMMA NextStep ==
    ASSUME IInv, [Next]_vars
    PROVE  IInv'
<1>0. price \in [Token -> Nat] /\ now \in Nat
  BY DEF IInv
<1>1. ASSUME NEW payer \in Payer, NEW m \in Merchant, NEW slot \in Slot,
             NEW token \in Token, NEW usd \in Deposit, NEW policy \in Policy,
             NEW hold \in Hold, NEW slotTime \in SlotTime, NEW nonce \in ClientNonce,
             Reserve(payer, m, slot, token, usd, policy, hold, slotTime, nonce)
      PROVE  IInv'
  BY <1>1, ReserveStep
<1>2. ASSUME NEW id \in ReservationId, NEW caller \in Address,
             NEW taken \in BOOLEAN,
             \/ Confirm(id, caller) \/ ExpireHold(id, caller)
             \/ Complete(id, caller, taken) \/ MarkNoShow(id, caller, taken)
             \/ Cancel(id, caller, taken)
      PROVE  IInv'
  <2>1. CASE Confirm(id, caller)
    BY <2>1, ConfirmStep
  <2>2. CASE ExpireHold(id, caller)
    <3>1. Live(id) /\ Close(id, caller, "EXPIRED", 0, FALSE)
      BY <2>2 DEF ExpireHold, Live
    <3>2. QED
      BY <3>1, CloseStep DEF Status
  <2>3. CASE Complete(id, caller, taken)
    <3>1. Live(id) /\ Close(id, caller, "COMPLETED",
                            Due(id, reservations[id].depositUsd8), taken)
      BY <2>3 DEF Complete, Live
    <3>2. QED
      BY <3>1, CloseStep DEF Status
  <2>4. CASE MarkNoShow(id, caller, taken)
    <3>1. Live(id) /\ Close(id, caller, "NO_SHOW",
                            Due(id, reservations[id].policy.noShowFeeUsd8), taken)
      BY <2>4 DEF MarkNoShow, Live
    <3>2. QED
      BY <3>1, CloseStep DEF Status
  <2>5. CASE Cancel(id, caller, taken)
    BY <2>5, CloseStep DEF Cancel, CancelAs, Status
  <2>6. QED
    BY <1>2, <2>1, <2>2, <2>3, <2>4, <2>5
<1>3. ASSUME NEW id \in ReservationId, NEW relayer \in Relayer, NEW taken \in BOOLEAN,
             CancelWithSession(id, relayer, taken)
      PROVE  IInv'
  BY <1>3, CloseStep DEF CancelWithSession, CancelAs, Status
<1>4. ASSUME NEW payer \in Payer, NEW relayer \in Relayer, NEW approved \in BOOLEAN,
             SetCancelRelayer(payer, relayer, approved)
      PROVE  IInv'
  BY <1>0, <1>4, ElsewhereStep DEF SetCancelRelayer, book, router, grantVars
<1>5. ASSUME NEW caller \in Address, NEW token \in Token, ClaimRefund(caller, token)
      PROVE  IInv'
  BY <1>0, <1>5, ElsewhereStep DEF ClaimRefund, book, router, grantVars
<1>6. ASSUME RouterChanges
      PROVE  IInv'
  <2>1. price' \in [Token -> Nat]
    <3>1. CASE UNCHANGED price
      BY <1>0, <3>1
    <3>2. ASSUME NEW token \in Token, NEW p \in Price \cup {0},
                 price' = [price EXCEPT ![token] = p]
          PROVE  price' \in [Token -> Nat]
      <4>1. p \in Nat
        BY BookingsAssumption
      <4>2. QED
        BY <1>0, <3>2, <4>1
    <3>3. QED
      BY <1>6, <3>1, <3>2 DEF RouterChanges
  <2>2. QED
    BY <1>0, <1>6, <2>1, ElsewhereStep DEF RouterChanges, book, grantVars
<1>7. ASSUME Sessions
      PROVE  IInv'
  <2>1. now' \in Nat
    <3>1. CASE UNCHANGED now
      BY <1>0, <3>1
    <3>2. CASE S!Tick
      BY <1>0, <3>2 DEF S!Tick
    <3>3. QED
      BY <1>7, <3>1, <3>2 DEF Sessions, S!OpenSession, S!Open
  <2>2. QED
    BY <1>0, <1>7, <2>1, ElsewhereStep DEF Sessions, book, router
<1>8. ASSUME UNCHANGED vars
      PROVE  IInv'
  BY <1>0, <1>8, ElsewhereStep DEF vars, book, router, grantVars
<1>9. QED
  BY <1>1, <1>2, <1>3, <1>4, <1>5, <1>6, <1>7, <1>8 DEF Next

\* The calendar is true of every reachable state: two live reservations never
\* share a place, and a place whose reservation is over is free again.
THEOREM CalendarAlwaysTrue == Spec => []CalendarTrue
<1>1. Init => IInv
  BY DEF Init, IInv, Agrees, Live, None, Place, ReservationId, S!Init
<1>2. IInv /\ [Next]_vars => IInv'
  BY NextStep
<1>3. QED
  BY <1>1, <1>2, AgreesIsTrue, PTL DEF Spec

-----------------------------------------------------------------------------
(* The deposits. *)

\* What a reservation of the table rs has in escrow of a token.
Held(rs, token) ==
    [id \in ReservationId |->
        IF rs[id].status \in {"HELD", "CONFIRMED"} /\ rs[id].token = token
        THEN rs[id].escrowAmount ELSE 0]

\* What is queued of a token, account by account.
QueueOf(q, token) == [a \in Address |-> q[a][token]]

Table == [ReservationId -> {None} \cup Entry]

Queues == [Address -> [Token -> Nat]]

LEMMA FiniteIds == IsFiniteSet(ReservationId)
<1>1. MaxReservations \in Int /\ 1 \in Int
  OBVIOUS
<1>2. QED
  BY <1>1, FS_Interval DEF ReservationId

LEMMA HeldTyped ==
    ASSUME NEW rs \in Table, NEW token \in Token
    PROVE  Held(rs, token) \in [ReservationId -> Nat] /\ SumFunction(Held(rs, token)) \in Nat
<1>1. IsFiniteSet(ReservationId)
  BY FiniteIds
<1>2. ASSUME NEW id \in ReservationId, rs[id].status \in {"HELD", "CONFIRMED"}
      PROVE  rs[id].escrowAmount \in Nat
  <2>1. rs[id] \in Entry
    BY <1>2 DEF Table, None
  <2>2. QED
    BY <2>1 DEF Entry
<1>3. Held(rs, token) \in [ReservationId -> Nat]
  BY <1>2 DEF Held
<1>4. QED
  BY <1>1, <1>3, SumNat

\* One record changes, and the sum with it.
LEMMA HeldChanges ==
    ASSUME NEW rs \in Table, NEW new \in Table, NEW id \in ReservationId, NEW token \in Token,
           \A k \in ReservationId : k # id => new[k] = rs[k]
    PROVE  SumFunction(Held(new, token)) =
               SumFunction(Held(rs, token)) + Held(new, token)[id] - Held(rs, token)[id]
<1>1. IsFiniteSet(ReservationId)
  BY FiniteIds
<1>2. /\ Held(rs, token) \in [ReservationId -> Int]
      /\ Held(new, token) \in [ReservationId -> Int]
  BY HeldTyped
<1>3. \A k \in ReservationId : k # id => Held(new, token)[k] = Held(rs, token)[k]
  BY DEF Held
<1>4. QED
  BY <1>1, <1>2, <1>3, SumChange

LEMMA QueueTyped ==
    ASSUME NEW q \in Queues, NEW token \in Token
    PROVE  QueueOf(q, token) \in [Address -> Nat] /\ SumFunction(QueueOf(q, token)) \in Nat
<1>1. QueueOf(q, token) \in [Address -> Nat]
  BY DEF Queues, QueueOf
<1>2. QED
  BY <1>1, SumNat

\* One cell of the queue is set to m.
LEMMA QueueChanges ==
    ASSUME NEW q \in Queues, NEW new \in Queues, NEW a \in Address, NEW token \in Token,
           NEW m \in Nat,
           \A y \in Address, t \in Token :
               new[y][t] = IF y = a /\ t = token THEN m ELSE q[y][t],
           NEW t \in Token
    PROVE  SumFunction(QueueOf(new, t)) =
               SumFunction(QueueOf(q, t)) + (IF t = token THEN m - q[a][t] ELSE 0)
<1>1. QueueOf(q, t) \in [Address -> Int] /\ QueueOf(new, t) \in [Address -> Int]
  BY QueueTyped
<1>2. \A y \in Address : y # a => QueueOf(new, t)[y] = QueueOf(q, t)[y]
  BY DEF QueueOf
<1>3. SumFunction(QueueOf(new, t)) =
          SumFunction(QueueOf(q, t)) + QueueOf(new, t)[a] - QueueOf(q, t)[a]
  BY <1>1, <1>2, SumChange
<1>4. /\ QueueOf(q, t)[a] = q[a][t] /\ q[a][t] \in Nat
      /\ QueueOf(new, t)[a] = IF t = token THEN m ELSE q[a][t]
  BY DEF QueueOf, Queues
<1>5. SumFunction(QueueOf(q, t)) \in Nat
  BY QueueTyped
<1>6. QED
  BY <1>3, <1>4, <1>5

\* The balance less what is queued: what is there for the live reservations.
Spare(b, q, token) == b[token][Self] - SumFunction(QueueOf(q, token))

\* The types of the money, and that it is all accounted for.
Money ==
    /\ escrowedOf \in [Token -> Nat]
    /\ refundRescue \in Queues
    /\ bank \in Balances(Token, Holder)
    /\ \A token \in Token :
           /\ escrowedOf[token] = SumFunction(Held(reservations, token))
           /\ Spare(bank, refundRescue, token) = escrowedOf[token]

LEMMA MoneyIsSolvent == Money => Solvent
<1> SUFFICES ASSUME Money, NEW token \in Token
             PROVE  /\ escrowedOf[token] = SumFunction(Held(reservations, token))
                    /\ bank[token][Self] =
                           escrowedOf[token] + SumFunction(QueueOf(refundRescue, token))
  BY DEF Solvent, Held, QueueOf, Live
<1>1. SumFunction(QueueOf(refundRescue, token)) \in Nat
  BY QueueTyped DEF Money
<1>2. bank[token][Self] \in Nat /\ escrowedOf[token] \in Nat
  BY DEF Money, Balances, Holder
<1>3. QED
  BY <1>1, <1>2 DEF Money, Spare

\* A refund, pushed or queued, takes exactly n out of what is spare.
LEMMA PayoutSpends ==
    ASSUME NEW paid \in Balances(Token, Holder), refundRescue \in Queues,
           NEW to \in Address, NEW token \in Token, NEW n \in Nat,
           PayoutOrQueue(to, token, n, paid)
    PROVE  /\ bank' \in Balances(Token, Holder) /\ refundRescue' \in Queues
           /\ \A t \in Token : Spare(bank', refundRescue', t) =
                  Spare(paid, refundRescue, t) - (IF t = token THEN n ELSE 0)
<1>1. \A t \in Token : /\ SumFunction(QueueOf(refundRescue, t)) \in Nat
                       /\ paid[t][Self] \in Nat
  BY QueueTyped DEF Balances, Holder
<1>2. CASE n = 0 /\ bank' = paid /\ UNCHANGED refundRescue
  BY <1>1, <1>2 DEF Spare
<1>3. CASE /\ bank' = paid
           /\ refundRescue' = [refundRescue EXCEPT ![to] =
                  [refundRescue[to] EXCEPT ![token] = refundRescue[to][token] + n]]
  <2> DEFINE m == refundRescue[to][token] + n
  <2>1. m \in Nat /\ refundRescue[to][token] \in Nat
    BY DEF Queues
  <2>2. /\ refundRescue' \in Queues
        /\ \A y \in Address, t \in Token :
               refundRescue'[y][t] = IF y = to /\ t = token THEN m ELSE refundRescue[y][t]
    <3>1. refundRescue' = [refundRescue EXCEPT ![to] = [refundRescue[to] EXCEPT ![token] = m]]
      BY <1>3
    <3> HIDE DEF m
    <3>2. QED
      BY <2>1, <3>1 DEF Queues
  <2> HIDE DEF m
  <2>3. ASSUME NEW t \in Token
        PROVE  SumFunction(QueueOf(refundRescue', t)) = SumFunction(QueueOf(refundRescue, t))
                   + (IF t = token THEN m - refundRescue[to][t] ELSE 0)
    BY <2>1, <2>2, QueueChanges
  <2>4. ASSUME NEW t \in Token
        PROVE  Spare(bank', refundRescue', t) =
                   Spare(paid, refundRescue, t) - (IF t = token THEN n ELSE 0)
    <3>1. bank' = paid
      BY <1>3
    <3>2. QED
      BY <1>1, <2>1, <2>3, <3>1 DEF Spare, m
  <2>5. QED
    BY <1>3, <2>2, <2>4
<1>4. CASE /\ Affords(paid, token, Self, n)
           /\ bank' = Moved(paid, token, Self, to, n)
           /\ UNCHANGED refundRescue
  <2>1. Self \in Holder /\ to \in Holder /\ Self # to
    BY DEF Holder
  <2>2. /\ bank' \in Balances(Token, Holder)
        /\ bank'[token][Self] = paid[token][Self] - n
        /\ \A t \in Token : t # token => bank'[t] = paid[t]
    BY <1>4, <2>1, MovedTyped
  <2>3. ASSUME NEW t \in Token
        PROVE  Spare(bank', refundRescue', t) =
                   Spare(paid, refundRescue, t) - (IF t = token THEN n ELSE 0)
    BY <1>1, <1>4, <2>2 DEF Spare
  <2>4. QED
    BY <1>4, <2>2, <2>3
<1>5. QED
  BY <1>2, <1>3, <1>4 DEF PayoutOrQueue

-----------------------------------------------------------------------------
LEMMA QuoteTyped ==
    ASSUME NEW p \in Nat \ {0}, NEW usd \in Nat
    PROVE  Quote(p, usd) \in Nat /\ (usd # 0 => Quote(p, usd) # 0)
<1> DEFINE a == usd * UNIT
<1>1. a \in Nat /\ (usd # 0 => a # 0)
  OBVIOUS
<1>2. Quote(p, usd) = CeilDiv(a, p)
  BY DEF Quote
<1> HIDE DEF a
<1> DEFINE q == CeilDiv(a, p)
<1>3. q \in Nat /\ a <= p * q
  BY <1>1, CeilBounds
<1> HIDE DEF q
<1>4. q = 0 => p * q = 0
  OBVIOUS
<1>5. QED
  BY <1>1, <1>2, <1>3, <1>4 DEF q

\* The router takes at most what it is asked to take.
LEMMA PulledBounds ==
    ASSUME NEW p \in Nat, NEW amount \in Nat, NEW taken
    PROVE  Pulled(p, amount, taken) \in Nat /\ Pulled(p, amount, taken) <= amount
<1>1. ASSUME p # 0
      PROVE  ToUsd(p, amount) \in Nat
  <2> DEFINE q == Quote(p, DOLLAR)
             v == amount * DOLLAR
  <2>1. q \in Nat \ {0} /\ v \in Nat
    BY <1>1, QuoteTyped
  <2>2. ToUsd(p, amount) = v \div q
    BY DEF ToUsd
  <2> HIDE DEF q, v
  <2>3. QED
    BY <2>1, <2>2
<1>2. CASE p # 0 /\ Quote(p, ToUsd(p, amount)) <= amount
  <2>1. Quote(p, ToUsd(p, amount)) \in Nat
    BY <1>1, <1>2, QuoteTyped
  <2>2. QED
    BY <1>2, <2>1 DEF Pulled
<1>3. CASE ~(p # 0 /\ Quote(p, ToUsd(p, amount)) <= amount)
  BY <1>3 DEF Pulled
<1>4. QED
  BY <1>2, <1>3

LEMMA TargetBounds ==
    ASSUME NEW p \in Nat, NEW usd \in Nat, NEW escrow \in Nat
    PROVE  Target(p, usd, escrow) \in 0..escrow
<1>1. p # 0 => Quote(p, usd) \in Nat
  BY QuoteTyped
<1>2. QED
  BY <1>1 DEF Target, Least

\* However a reservation ends, its escrow leaves the ledger and as much leaves
\* the contract or is queued: the part the router pulls, then the refund.
LEMMA CloseIsPaid ==
    ASSUME IInv, IInv', Money, NEW id \in ReservationId, Live(id), NEW caller,
           NEW s \in Status \ {"HELD", "CONFIRMED"},
           NEW target \in Nat, target <= reservations[id].escrowAmount, NEW taken,
           Close(id, caller, s, target, taken)
    PROVE  Money'
<1> DEFINE r == reservations[id]
           pulled == Pulled(price[r.token], target, taken)
           paid == Moved(bank, r.token, Self, Rail, pulled)
           n == r.escrowAmount - pulled
<1>1. /\ reservations' = [reservations EXCEPT ![id].status = s]
      /\ escrowedOf' = [escrowedOf EXCEPT ![r.token] = escrowedOf[r.token] - r.escrowAmount]
      /\ PayoutOrQueue(r.payer, r.token, n, paid)
      /\ UNCHANGED nextReservationId
  BY DEF Close
<1>2. /\ r \in Entry /\ r.token \in Token /\ r.payer \in Address /\ r.escrowAmount \in Nat
      /\ r.status \in {"HELD", "CONFIRMED"}
      /\ reservations \in Table /\ reservations' \in Table
  <2>1. reservations[id].status # "NONE" /\ r.status \in {"HELD", "CONFIRMED"}
    BY DEF Live
  <2>2. r \in Entry
    BY <2>1, LiveEntry
  <2>3. QED
    BY <2>1, <2>2 DEF Entry, IInv, Table
<1>3. /\ reservations'[id].status = s
      /\ \A k \in ReservationId : k # id => reservations'[k] = reservations[k]
  BY <1>1, Restatus DEF Live
<1>4. pulled \in Nat /\ pulled <= target /\ n \in Nat
  <2>1. price[r.token] \in Nat
    BY <1>2 DEF IInv
  <2> HIDE DEF r
  <2>2. pulled \in Nat /\ pulled <= target
    BY <2>1, PulledBounds
  <2> HIDE DEF pulled
  <2>3. QED
    BY <1>2, <2>2 DEF r
<1> HIDE DEF pulled
<1>5. \A t \in Token :
          /\ SumFunction(Held(reservations', t)) = SumFunction(Held(reservations, t))
                 - (IF t = r.token THEN r.escrowAmount ELSE 0)
          /\ SumFunction(Held(reservations, t)) \in Nat
          /\ t = r.token => r.escrowAmount <= SumFunction(Held(reservations, t))
  <2> SUFFICES ASSUME NEW t \in Token
               PROVE  /\ SumFunction(Held(reservations', t)) = SumFunction(Held(reservations, t))
                            - (IF t = r.token THEN r.escrowAmount ELSE 0)
                      /\ SumFunction(Held(reservations, t)) \in Nat
                      /\ t = r.token => r.escrowAmount <= SumFunction(Held(reservations, t))
    OBVIOUS
  <2>1. SumFunction(Held(reservations', t)) = SumFunction(Held(reservations, t))
            + Held(reservations', t)[id] - Held(reservations, t)[id]
    BY <1>2, <1>3, HeldChanges
  <2>2. /\ Held(reservations', t)[id] = 0
        /\ Held(reservations, t)[id] = IF t = r.token THEN r.escrowAmount ELSE 0
    BY <1>2, <1>3 DEF Held
  <2>3. /\ Held(reservations, t) \in [ReservationId -> Nat]
        /\ SumFunction(Held(reservations, t)) \in Nat
    BY <1>2, HeldTyped
  <2>4. Held(reservations, t)[id] <= SumFunction(Held(reservations, t))
    <3>1. IsFiniteSet(ReservationId)
      BY FiniteIds
    <3>2. QED
      BY <2>3, <3>1, SumBound
  <2> HIDE DEF r
  <2>5. QED
    BY <1>2, <2>1, <2>2, <2>3, <2>4
<1>6. \A t \in Token : SumFunction(QueueOf(refundRescue, t)) \in Nat
  BY QueueTyped DEF Money
<1>7. /\ paid \in Balances(Token, Holder)
      /\ \A t \in Token : Spare(paid, refundRescue, t) =
             Spare(bank, refundRescue, t) - (IF t = r.token THEN pulled ELSE 0)
  <2>1. /\ Self \in Holder /\ Rail \in Holder /\ Self # Rail
        /\ bank \in Balances(Token, Holder) /\ r.token \in Token
    BY <1>2 DEF Holder, Money
  <2>2. bank[r.token][Self] = escrowedOf[r.token] + SumFunction(QueueOf(refundRescue, r.token))
    BY <1>2, MoneyIsSolvent DEF Solvent, QueueOf
  <2>3. Affords(bank, r.token, Self, pulled)
    <3>1. bank[r.token][Self] \in Nat /\ escrowedOf[r.token] = SumFunction(Held(reservations, r.token))
      BY <2>1 DEF Balances, Money
    <3> HIDE DEF r
    <3>2. QED
      BY <1>2, <1>4, <1>5, <1>6, <2>2, <3>1 DEF Affords, r
  <2>4. /\ paid \in Balances(Token, Holder)
        /\ paid[r.token][Self] = bank[r.token][Self] - pulled
        /\ \A t \in Token : t # r.token => paid[t] = bank[t]
    <3> HIDE DEF r
    <3>1. QED
      BY <1>4, <2>1, <2>3, MovedTyped
  <2>5. \A t \in Token : bank[t][Self] \in Nat
    BY <2>1 DEF Balances
  <2> HIDE DEF paid, r
  <2>6. QED
    BY <1>4, <1>6, <2>4, <2>5 DEF Spare
<1> HIDE DEF paid, n
<1>8. /\ bank' \in Balances(Token, Holder) /\ refundRescue' \in Queues
      /\ \A t \in Token : Spare(bank', refundRescue', t) =
             Spare(paid, refundRescue, t) - (IF t = r.token THEN n ELSE 0)
  <2>1. r.payer \in Address /\ r.token \in Token /\ refundRescue \in Queues
    BY <1>2 DEF Money
  <2> HIDE DEF r
  <2>2. QED
    BY <1>1, <1>4, <1>7, <2>1, PayoutSpends
<1>9. \A t \in Token : /\ Spare(bank, refundRescue, t) = escrowedOf[t]
                       /\ escrowedOf[t] = SumFunction(Held(reservations, t))
  BY DEF Money
<1>10. /\ escrowedOf' \in [Token -> Nat]
       /\ \A t \in Token : escrowedOf'[t] =
              escrowedOf[t] - (IF t = r.token THEN r.escrowAmount ELSE 0)
  <2>1. escrowedOf \in [Token -> Nat]
    BY DEF Money
  <2>2. escrowedOf[r.token] - r.escrowAmount \in Nat
    BY <1>2, <1>5, <1>9, <2>1
  <2> HIDE DEF r
  <2>3. QED
    BY <1>1, <1>2, <2>1, <2>2
<1>11. \A t \in Token : /\ escrowedOf'[t] = SumFunction(Held(reservations', t))
                        /\ Spare(bank', refundRescue', t) = escrowedOf'[t]
  <2> HIDE DEF r
  <2>1. QED
    BY <1>2, <1>4, <1>5, <1>7, <1>8, <1>9, <1>10 DEF n
<1>12. QED
  BY <1>8, <1>10, <1>11 DEF Money

\* A deposit enters the ledger and the contract together.
LEMMA ReserveIsFunded ==
    ASSUME IInv, IInv', Money, NEW payer \in Payer, NEW m \in Merchant, NEW slot \in Slot,
           NEW token \in Token, NEW usd \in Deposit, NEW policy \in Policy,
           NEW hold \in Hold, NEW slotTime \in SlotTime, NEW nonce \in ClientNonce,
           Reserve(payer, m, slot, token, usd, policy, hold, slotTime, nonce)
    PROVE  Money'
<1> DEFINE id == nextReservationId
           amount == Quote(price[token], usd)
<1>1. /\ id \in ReservationId /\ price[token] # 0
      /\ Affords(bank, token, payer, amount)
      /\ reservations'[id].status = "HELD" /\ reservations'[id].token = token
      /\ reservations'[id].escrowAmount = amount
      /\ \A k \in ReservationId : k # id => reservations'[k] = reservations[k]
      /\ escrowedOf' = [escrowedOf EXCEPT ![token] = escrowedOf[token] + amount]
      /\ bank' = Moved(bank, token, payer, Self, amount)
      /\ UNCHANGED refundRescue
  BY DEF Reserve, IInv, ReservationId
<1>2. amount \in Nat
  <2>1. usd \in Nat /\ price[token] \in Nat \ {0}
    BY <1>1 DEF IInv
  <2>2. QED
    BY <2>1, QuoteTyped
<1> HIDE DEF amount
<1>3. reservations[id] = None /\ reservations \in Table /\ reservations' \in Table
  BY <1>1 DEF IInv, Table
<1>4. ASSUME NEW t \in Token
      PROVE  /\ SumFunction(Held(reservations', t)) =
                    SumFunction(Held(reservations, t)) + (IF t = token THEN amount ELSE 0)
             /\ SumFunction(Held(reservations, t)) \in Nat
             /\ SumFunction(QueueOf(refundRescue, t)) \in Nat
  <2>1. SumFunction(Held(reservations', t)) = SumFunction(Held(reservations, t))
            + Held(reservations', t)[id] - Held(reservations, t)[id]
    BY <1>1, <1>3, HeldChanges
  <2>2. /\ Held(reservations', t)[id] = IF t = token THEN amount ELSE 0
        /\ Held(reservations, t)[id] = 0
    BY <1>1, <1>3 DEF Held, None
  <2>3. SumFunction(Held(reservations, t)) \in Nat /\ SumFunction(QueueOf(refundRescue, t)) \in Nat
    BY <1>3, HeldTyped, QueueTyped DEF Money
  <2>4. QED
    BY <1>2, <2>1, <2>2, <2>3
<1>5. /\ bank' \in Balances(Token, Holder)
      /\ bank'[token][Self] = bank[token][Self] + amount
      /\ \A t \in Token : t # token => bank'[t] = bank[t]
  <2>1. payer \in Holder /\ Self \in Holder /\ payer # Self /\ bank \in Balances(Token, Holder)
    BY DEF Holder, Money
  <2>2. QED
    BY <1>1, <1>2, <2>1, MovedTyped
<1>6. \A t \in Token : bank[t][Self] \in Nat
  BY DEF Money, Balances, Holder
<1>7. /\ escrowedOf' \in [Token -> Nat]
      /\ \A t \in Token : escrowedOf'[t] = escrowedOf[t] + (IF t = token THEN amount ELSE 0)
  BY <1>1, <1>2 DEF Money
<1>8. \A t \in Token : /\ Spare(bank, refundRescue, t) = escrowedOf[t]
                       /\ escrowedOf[t] = SumFunction(Held(reservations, t))
  BY DEF Money
<1>9. ASSUME NEW t \in Token
      PROVE  /\ escrowedOf'[t] = SumFunction(Held(reservations', t))
             /\ Spare(bank', refundRescue', t) = escrowedOf'[t]
  <2>1. refundRescue' = refundRescue
    BY <1>1
  <2>2. QED
    BY <1>2, <1>4, <1>5, <1>6, <1>7, <1>8, <2>1 DEF Spare
<1>10. QED
  BY <1>1, <1>5, <1>7, <1>9 DEF Money

\* A drawn refund leaves the queue and the contract together.
LEMMA ClaimIsQueued ==
    ASSUME Money, NEW caller \in Address, NEW token \in Token, ClaimRefund(caller, token)
    PROVE  Money'
<1> DEFINE amount == refundRescue[caller][token]
<1>1. /\ Affords(bank, token, Self, amount)
      /\ bank' = Moved(bank, token, Self, caller, amount)
      /\ UNCHANGED <<reservations, escrowedOf>>
  BY DEF ClaimRefund, book
<1>2. amount \in Nat
  BY DEF Money, Queues
<1>3. /\ refundRescue' \in Queues
      /\ \A y \in Address, t \in Token :
             refundRescue'[y][t] = IF y = caller /\ t = token THEN 0 ELSE refundRescue[y][t]
  BY DEF ClaimRefund, Money, Queues
<1>4. ASSUME NEW t \in Token
      PROVE  /\ SumFunction(QueueOf(refundRescue', t)) = SumFunction(QueueOf(refundRescue, t))
                    + (IF t = token THEN 0 - refundRescue[caller][t] ELSE 0)
             /\ SumFunction(QueueOf(refundRescue, t)) \in Nat
  <2>1. 0 \in Nat /\ refundRescue \in Queues
    BY DEF Money
  <2>2. SumFunction(QueueOf(refundRescue, t)) \in Nat
    BY <2>1, QueueTyped
  <2>3. SumFunction(QueueOf(refundRescue', t)) = SumFunction(QueueOf(refundRescue, t))
            + (IF t = token THEN 0 - refundRescue[caller][t] ELSE 0)
    BY <1>3, <2>1, QueueChanges
  <2>4. QED
    BY <2>2, <2>3
<1> HIDE DEF amount
<1>5. /\ bank' \in Balances(Token, Holder)
      /\ bank'[token][Self] = bank[token][Self] - amount
      /\ \A t \in Token : t # token => bank'[t] = bank[t]
  <2>1. Self \in Holder /\ caller \in Holder /\ Self # caller /\ bank \in Balances(Token, Holder)
    BY DEF Holder, Money
  <2>2. QED
    BY <1>1, <1>2, <2>1, MovedTyped
<1>6. \A t \in Token : bank[t][Self] \in Nat
  BY DEF Money, Balances, Holder
<1>7. ASSUME NEW t \in Token
      PROVE  Spare(bank', refundRescue', t) = Spare(bank, refundRescue, t)
  BY <1>2, <1>4, <1>5, <1>6 DEF Spare, amount
<1>8. QED
  BY <1>1, <1>3, <1>5, <1>7 DEF Money

LEMMA MoneyStep ==
    ASSUME IInv, IInv', Money, [Next]_vars
    PROVE  Money'
<1>1. ASSUME NEW id \in ReservationId, Live(id), NEW usd \in Nat
      PROVE  Due(id, usd) \in Nat /\ Due(id, usd) <= reservations[id].escrowAmount
  <2>1. reservations[id] \in Entry
    BY <1>1, LiveEntry DEF Live
  <2>2. price[reservations[id].token] \in Nat /\ reservations[id].escrowAmount \in Nat
    BY <2>1 DEF IInv, Entry
  <2>3. Target(price[reservations[id].token], usd, reservations[id].escrowAmount)
            \in 0..reservations[id].escrowAmount
    BY <2>2, TargetBounds
  <2>4. Due(id, usd) \in 0..reservations[id].escrowAmount
    BY <2>3 DEF Due
  <2>5. QED
    BY <2>2, <2>4
<1>2. ASSUME NEW id \in ReservationId, Live(id)
      PROVE  /\ reservations[id].depositUsd8 \in Nat /\ reservations[id].escrowAmount \in Nat
             /\ reservations[id].policy.lateFeeUsd8 \in Nat
             /\ reservations[id].policy.noShowFeeUsd8 \in Nat
  <2>1. reservations[id] \in Entry
    BY <1>2, LiveEntry DEF Live
  <2>2. QED
    BY <2>1 DEF Entry
<1>3. ASSUME NEW id \in ReservationId, NEW caller, NEW taken, CancelAs(id, caller, taken)
      PROVE  Money'
  <2>1. /\ Live(id)
        /\ Close(id, caller, "CANCELLED",
                 IF Late(id) THEN Due(id, reservations[id].policy.lateFeeUsd8) ELSE 0, taken)
    BY <1>3 DEF CancelAs
  <2>2. CASE Late(id)
    BY <1>1, <1>2, <2>1, <2>2, CloseIsPaid DEF Status
  <2>3. CASE ~Late(id)
    BY <1>2, <2>1, <2>3, CloseIsPaid DEF Status
  <2>4. QED
    BY <2>2, <2>3
<1>4. ASSUME NEW id \in ReservationId, NEW caller \in Address, NEW taken \in BOOLEAN,
             \/ Confirm(id, caller) \/ ExpireHold(id, caller)
             \/ Complete(id, caller, taken) \/ MarkNoShow(id, caller, taken)
             \/ Cancel(id, caller, taken)
      PROVE  Money'
  <2>1. CASE Confirm(id, caller)
    <3>1. /\ reservations[id].status = "HELD" /\ UNCHANGED money
          /\ reservations' = [reservations EXCEPT ![id].status = "CONFIRMED"]
      BY <2>1 DEF Confirm
    <3>2. reservations[id] \in Entry
      BY <3>1, LiveEntry
    <3>3. ASSUME NEW t \in Token
          PROVE  Held(reservations', t) = Held(reservations, t)
      <4>1. ASSUME NEW k \in ReservationId
            PROVE  /\ reservations'[k].status \in {"HELD", "CONFIRMED"}
                          <=> reservations[k].status \in {"HELD", "CONFIRMED"}
                   /\ k # id => reservations'[k] = reservations[k]
                   /\ reservations'[id].token = reservations[id].token
                   /\ reservations'[id].escrowAmount = reservations[id].escrowAmount
        BY <3>1, <3>2 DEF IInv, Entry
      <4>2. QED
        BY <4>1 DEF Held
    <3>4. QED
      BY <3>1, <3>3 DEF Money, money
  <2>2. CASE ExpireHold(id, caller)
    <3>1. Live(id) /\ Close(id, caller, "EXPIRED", 0, FALSE)
      BY <2>2 DEF ExpireHold, Live
    <3>2. 0 \in Nat /\ 0 <= reservations[id].escrowAmount
      BY <1>2, <3>1
    <3>3. "EXPIRED" \in Status \ {"HELD", "CONFIRMED"}
      BY DEF Status
    <3>4. QED
      BY <3>1, <3>2, <3>3, CloseIsPaid
  <2>3. CASE Complete(id, caller, taken)
    <3>1. Live(id) /\ Close(id, caller, "COMPLETED",
                            Due(id, reservations[id].depositUsd8), taken)
      BY <2>3 DEF Complete, Live
    <3>2. QED
      BY <1>1, <1>2, <3>1, CloseIsPaid DEF Status
  <2>4. CASE MarkNoShow(id, caller, taken)
    <3>1. Live(id) /\ Close(id, caller, "NO_SHOW",
                            Due(id, reservations[id].policy.noShowFeeUsd8), taken)
      BY <2>4 DEF MarkNoShow, Live
    <3>2. QED
      BY <1>1, <1>2, <3>1, CloseIsPaid DEF Status
  <2>5. CASE Cancel(id, caller, taken)
    BY <1>3, <2>5 DEF Cancel
  <2>6. QED
    BY <1>4, <2>1, <2>2, <2>3, <2>4, <2>5
<1>5. ASSUME UNCHANGED <<reservations, money>> PROVE Money'
  BY <1>5 DEF Money, money
<1>6. CASE Sessions \/ RouterChanges \/ UNCHANGED vars
  BY <1>5, <1>6 DEF Sessions, RouterChanges, vars, book
<1>7. ASSUME NEW payer \in Payer, NEW relayer \in Relayer, NEW approved \in BOOLEAN,
             SetCancelRelayer(payer, relayer, approved)
      PROVE  Money'
  BY <1>5, <1>7 DEF SetCancelRelayer, book
<1>8. ASSUME NEW id \in ReservationId, NEW relayer \in Relayer, NEW taken \in BOOLEAN,
             CancelWithSession(id, relayer, taken)
      PROVE  Money'
  BY <1>3, <1>8 DEF CancelWithSession
<1>9. QED
  BY <1>4, <1>6, <1>7, <1>8, ReserveIsFunded, ClaimIsQueued DEF Next

LEMMA InitMoney == Init => Money
<1> SUFFICES ASSUME Init PROVE Money
  OBVIOUS
<1>1. /\ reservations \in Table /\ refundRescue \in Queues
      /\ bank \in Balances(Token, Holder) /\ escrowedOf \in [Token -> Nat]
  BY DEF Init, Table, Queues
<1>2. ASSUME NEW token \in Token
      PROVE  /\ SumFunction(Held(reservations, token)) = 0
             /\ SumFunction(QueueOf(refundRescue, token)) = 0
             /\ escrowedOf[token] = 0 /\ bank[token][Self] = 0
  <2>1. /\ Held(reservations, token) \in [ReservationId -> Int]
        /\ QueueOf(refundRescue, token) \in [Address -> Int]
    BY <1>1, HeldTyped, QueueTyped
  <2>2. /\ \A id \in ReservationId : Held(reservations, token)[id] = 0
        /\ \A a \in Address : QueueOf(refundRescue, token)[a] = 0
    BY DEF Init, Held, QueueOf, None
  <2>3. IsFiniteSet(ReservationId)
    BY FiniteIds
  <2>4. QED
    BY <2>1, <2>2, <2>3, SumZero DEF Init
<1>3. QED
  BY <1>1, <1>2 DEF Money, Spare

\* The contract holds of every token exactly the live deposits and the queued
\* refunds, whatever the price did in between and whichever leg failed.
THEOREM BookingsSolvent == Spec => []Solvent
<1> DEFINE Good == IInv /\ Money
<1>1. Init => Good
  BY InitMoney DEF Init, IInv, Agrees, Live, None, Place, ReservationId, S!Init
<1>2. Good /\ [Next]_vars => Good'
  BY NextStep, MoneyStep
<1>3. Good => Solvent
  BY MoneyIsSolvent
<1>4. QED
  BY <1>1, <1>2, <1>3, PTL DEF Spec

-----------------------------------------------------------------------------
(* The bookings implement the ideal ones. *)

\* What accounts have and may claim.
Worth(b, q) == [token \in Token |-> [a \in Address |-> b[token][a] + q[a][token]]]

Worths == [Token -> [Address -> Int]]

LEMMA WorthTyped ==
    ASSUME NEW b \in Balances(Token, Holder), NEW q \in Queues
    PROVE  /\ Worth(b, q) \in Worths
           /\ \A t \in Token, a \in Address :
                  /\ Worth(b, q)[t][a] = b[t][a] + q[a][t]
                  /\ b[t][a] \in Nat /\ q[a][t] \in Nat
<1>1. \A t \in Token, a \in Address : b[t][a] \in Nat /\ q[a][t] \in Nat
  BY DEF Balances, Holder, Queues
<1>2. QED
  BY <1>1 DEF Worth, Worths

LEMMA GainsTyped ==
    ASSUME NEW w \in Worths, NEW token \in Token, NEW p \in Address, NEW n \in Int
    PROVE  /\ Ideal!Gains(w, token, p, n) \in Worths
           /\ \A t \in Token, a \in Address : Ideal!Gains(w, token, p, n)[t][a] =
                  w[t][a] + (IF t = token /\ a = p THEN n ELSE 0)
<1>1. \A t \in Token, a \in Address : w[t][a] \in Int
  BY DEF Worths
<1>2. QED
  BY <1>1 DEF Ideal!Gains, Worths

\* Accounts that have as much of every token have the same worth.
LEMMA SameWorth ==
    ASSUME NEW v \in Worths, NEW w \in Worths,
           \A t \in Token, a \in Address : v[t][a] = w[t][a]
    PROVE  v = w
<1>1. ASSUME NEW t \in Token PROVE v[t] = w[t]
  BY DEF Worths
<1>2. QED
  BY <1>1 DEF Worths

\* What the contract sends makes the receiver richer by as much.
LEMMA SentIsGained ==
    ASSUME NEW b \in Balances(Token, Holder), NEW q \in Queues, NEW token \in Token,
           NEW to \in Address, NEW n \in Nat, Affords(b, token, Self, n)
    PROVE  Worth(Moved(b, token, Self, to, n), q) = Ideal!Gains(Worth(b, q), token, to, n)
<1>1. PICK c : c = Moved(b, token, Self, to, n)
  OBVIOUS
<1>2. /\ c \in Balances(Token, Holder)
      /\ c[token][to] = b[token][to] + n
      /\ \A h \in Holder : h \notin {Self, to} => c[token][h] = b[token][h]
      /\ \A t \in Token : t # token => c[t] = b[t]
  <2>1. Self \in Holder /\ to \in Holder /\ Self # to
    BY DEF Holder
  <2>2. QED
    BY <1>1, <2>1, MovedTyped
<1>3. PICK w : w = Worth(b, q)
  OBVIOUS
<1>4. PICK v : v = Worth(c, q)
  OBVIOUS
<1>5. w \in Worths /\ v \in Worths /\ n \in Int
  BY <1>2, <1>3, <1>4, WorthTyped
<1>6. PICK g : g = Ideal!Gains(w, token, to, n)
  OBVIOUS
<1>7. /\ g \in Worths
      /\ \A t \in Token, a \in Address :
             g[t][a] = w[t][a] + (IF t = token /\ a = to THEN n ELSE 0)
  BY <1>5, <1>6, GainsTyped
<1>8. ASSUME NEW t \in Token, NEW a \in Address PROVE v[t][a] = g[t][a]
  <2>1. /\ w[t][a] = b[t][a] + q[a][t] /\ v[t][a] = c[t][a] + q[a][t]
        /\ b[t][a] \in Nat /\ q[a][t] \in Nat
    BY <1>2, <1>3, <1>4, WorthTyped
  <2>2. c[t][a] = b[t][a] + (IF t = token /\ a = to THEN n ELSE 0)
    BY <1>2, <2>1 DEF Holder
  <2>3. QED
    BY <1>7, <2>1, <2>2
<1>9. v = g
  BY <1>5, <1>7, <1>8, SameWorth
<1>10. QED
  BY <1>1, <1>3, <1>4, <1>6, <1>9

\* A payment in makes the payer poorer.
LEMMA TakenIsLost ==
    ASSUME NEW b \in Balances(Token, Holder), NEW q \in Queues, NEW token \in Token,
           NEW from \in Address, NEW n \in Nat, Affords(b, token, from, n)
    PROVE  Worth(Moved(b, token, from, Self, n), q) = Ideal!Gains(Worth(b, q), token, from, -n)
<1>1. PICK c : c = Moved(b, token, from, Self, n)
  OBVIOUS
<1>2. /\ c \in Balances(Token, Holder)
      /\ c[token][from] = b[token][from] - n
      /\ \A h \in Holder : h \notin {from, Self} => c[token][h] = b[token][h]
      /\ \A t \in Token : t # token => c[t] = b[t]
  <2>1. Self \in Holder /\ from \in Holder /\ Self # from
    BY DEF Holder
  <2>2. QED
    BY <1>1, <2>1, MovedTyped
<1>3. PICK w : w = Worth(b, q)
  OBVIOUS
<1>4. PICK v : v = Worth(c, q)
  OBVIOUS
<1>a. PICK lost \in Int : lost = -n
  OBVIOUS
<1>5. w \in Worths /\ v \in Worths
  BY <1>2, <1>3, <1>4, WorthTyped
<1>6. PICK g : g = Ideal!Gains(w, token, from, lost)
  OBVIOUS
<1>7. /\ g \in Worths
      /\ \A t \in Token, a \in Address :
             g[t][a] = w[t][a] + (IF t = token /\ a = from THEN lost ELSE 0)
  <2>1. lost \in Int
    BY <1>a
  <2>2. QED
    BY ONLY <1>5, <1>6, <2>1, GainsTyped, token \in Token, from \in Address
<1>8. ASSUME NEW t \in Token, NEW a \in Address PROVE v[t][a] = g[t][a]
  <2>1. /\ w[t][a] = b[t][a] + q[a][t] /\ v[t][a] = c[t][a] + q[a][t]
        /\ b[t][a] \in Nat /\ q[a][t] \in Nat
    BY <1>2, <1>3, <1>4, WorthTyped
  <2>2. c[t][a] = b[t][a] + (IF t = token /\ a = from THEN lost ELSE 0)
    BY <1>2, <1>a, <2>1 DEF Holder
  <2>3. QED
    BY <1>7, <2>1, <2>2
<1>9. v = g
  BY <1>5, <1>7, <1>8, SameWorth
<1>10. QED
  BY <1>1, <1>3, <1>4, <1>6, <1>9, <1>a

\* So does the refund to the payer, pushed or queued.
LEMMA RefundIsGained ==
    ASSUME NEW paid \in Balances(Token, Holder), refundRescue \in Queues,
           NEW to \in Address, NEW token \in Token, NEW n \in Nat,
           PayoutOrQueue(to, token, n, paid)
    PROVE  Worth(bank', refundRescue') = Ideal!Gains(Worth(paid, refundRescue), token, to, n)
<1>1. PICK w : w = Worth(paid, refundRescue)
  OBVIOUS
<1>2. PICK g : g = Ideal!Gains(w, token, to, n)
  OBVIOUS
<1>3. /\ w \in Worths /\ g \in Worths
      /\ \A t \in Token, a \in Address :
             /\ g[t][a] = w[t][a] + (IF t = token /\ a = to THEN n ELSE 0)
             /\ w[t][a] = paid[t][a] + refundRescue[a][t]
             /\ paid[t][a] \in Nat /\ refundRescue[a][t] \in Nat
  <2>1. /\ w \in Worths
        /\ \A t \in Token, a \in Address :
               /\ w[t][a] = paid[t][a] + refundRescue[a][t]
               /\ paid[t][a] \in Nat /\ refundRescue[a][t] \in Nat
    BY <1>1, WorthTyped
  <2>2. /\ g \in Worths
        /\ \A t \in Token, a \in Address :
               g[t][a] = w[t][a] + (IF t = token /\ a = to THEN n ELSE 0)
    BY <1>2, <2>1, GainsTyped
  <2>3. QED
    BY <2>1, <2>2
<1>4. CASE Affords(paid, token, Self, n) /\ bank' = Moved(paid, token, Self, to, n)
           /\ UNCHANGED refundRescue
  BY <1>4, SentIsGained
<1>5. CASE /\ bank' = paid
           /\ \/ n = 0 /\ UNCHANGED refundRescue
              \/ refundRescue' = [refundRescue EXCEPT ![to] =
                     [refundRescue[to] EXCEPT ![token] = refundRescue[to][token] + n]]
  <2>1. PICK q : q = refundRescue'
    OBVIOUS
  <2>2. \A t \in Token, a \in Address :
            q[a][t] = refundRescue[a][t] + (IF t = token /\ a = to THEN n ELSE 0)
    <3>1. CASE n = 0 /\ UNCHANGED refundRescue
      BY <1>3, <2>1, <3>1
    <3>2. CASE refundRescue' = [refundRescue EXCEPT ![to] =
                   [refundRescue[to] EXCEPT ![token] = refundRescue[to][token] + n]]
      <4>1. \A t \in Token, a \in Address : refundRescue[a][t] \in Nat
        BY <1>3
      <4>2. QED
        BY <2>1, <3>2, <4>1 DEF Queues
    <3>3. QED
      BY <1>5, <3>1, <3>2
  <2>3. q \in Queues
    BY <2>1, PayoutSpends
  <2>4. PICK v : v = Worth(paid, q)
    OBVIOUS
  <2>5. /\ v \in Worths
        /\ \A t \in Token, a \in Address : v[t][a] = paid[t][a] + q[a][t]
    BY <2>3, <2>4, WorthTyped
  <2>6. \A t \in Token, a \in Address : v[t][a] = g[t][a]
    BY <1>3, <2>2, <2>5
  <2>7. v = g
    BY <1>3, <2>5, <2>6, SameWorth
  <2>8. QED
    BY <1>1, <1>2, <1>5, <2>1, <2>4, <2>7
<1>6. QED
  BY <1>4, <1>5 DEF PayoutOrQueue

\* What the router pulls for a sum in USD is not worth more.
LEMMA PulledIsWorth ==
    ASSUME NEW p \in Nat, NEW usd \in Nat, NEW n \in Nat, n # 0,
           p # 0 => n <= Quote(p, usd), p # 0
    PROVE  (n - 1) * p < usd * UNIT
<1>1. PICK a \in Nat : a = usd * UNIT
  OBVIOUS
<1>2. PICK q : q = Quote(p, usd)
  OBVIOUS
<1>3. q \in Nat /\ p * q <= a + p - 1
  BY <1>1, <1>2, CeilBounds DEF Quote
<1>4. p * (n - 1) <= p * (q - 1)
  <2>1. n - 1 \in Nat /\ q - 1 \in Nat /\ n - 1 <= q - 1
    BY <1>2, <1>3
  <2>2. QED
    BY <2>1, TimesMonotone
<1>5. p * (q - 1) = p * q - p
  BY <1>3
<1>6. (n - 1) * p = p * (n - 1) /\ p * (n - 1) \in Int /\ p * q \in Int
  BY <1>3
<1>7. QED
  BY <1>1, <1>3, <1>4, <1>5, <1>6

\* An order of a payer's that has been placed is on record.
Recorded ==
    /\ actor \in [ReservationId -> Address \cup {NoAddress}]
    /\ \A id \in ReservationId : reservations[id].status # "NONE" =>
           <<reservations[id].merchantId, reservations[id].clientNonce>> \in nonceUsed

Mapped == Worth(bank, refundRescue)

LEMMA WealthIsWorth ==
    [token \in Token |-> [a \in Address |-> bank[token][a] + refundRescue[a][token]]] = Mapped
BY DEF Mapped, Worth

\* The contract can pay the whole escrow of a live reservation.
LEMMA EscrowCovers ==
    ASSUME IInv, Money, NEW id \in ReservationId, Live(id)
    PROVE  /\ reservations[id] \in Entry
           /\ bank[reservations[id].token][Self] \in Nat
           /\ bank[reservations[id].token][Self] >= reservations[id].escrowAmount
<1>1. reservations[id] \in Entry /\ reservations[id].status \in {"HELD", "CONFIRMED"}
  BY LiveEntry DEF Live
<1>2. PICK t \in Token : t = reservations[id].token
  BY <1>1 DEF Entry
<1>3. reservations \in Table /\ refundRescue \in Queues /\ Self \in Holder
  BY DEF IInv, Money, Table, Holder
<1>4. /\ Held(reservations, t) \in [ReservationId -> Nat]
      /\ SumFunction(Held(reservations, t)) \in Nat
      /\ SumFunction(QueueOf(refundRescue, t)) \in Nat
  BY <1>3, HeldTyped, QueueTyped
<1>5. Held(reservations, t)[id] <= SumFunction(Held(reservations, t))
  BY <1>4, FiniteIds, SumBound
<1>6. Held(reservations, t)[id] = reservations[id].escrowAmount
  BY <1>1, <1>2 DEF Held
<1>7. /\ bank[t][Self] - SumFunction(QueueOf(refundRescue, t)) =
             SumFunction(Held(reservations, t))
      /\ bank[t][Self] \in Nat
  BY <1>3 DEF Money, Spare, Balances
<1>8. reservations[id].escrowAmount \in Nat
  BY <1>1 DEF Entry
<1>9. QED
  BY <1>1, <1>2, <1>4, <1>5, <1>6, <1>7, <1>8

\* Whatever ends a reservation ends the deal, if its caller may end it so and up to
\* target, which the router is asked for, is what the terms then allow.
LEMMA CloseIsEnd ==
    ASSUME IInv, Money, Recorded, NEW id \in ReservationId, Live(id),
           NEW caller \in Address, NEW s \in {"EXPIRED", "CANCELLED", "NO_SHOW", "COMPLETED"},
           NEW usd \in Nat, NEW target \in Nat, NEW taken \in BOOLEAN,
           Ideal!Terms(id)[s].usd = usd, caller \in Ideal!Terms(id)[s].may,
           target <= reservations[id].escrowAmount,
           usd = 0 => target = 0,
           target # 0 => /\ price[reservations[id].token] # 0
                         /\ target <= Quote(price[reservations[id].token], usd),
           Close(id, caller, s, target, taken)
    PROVE  Ideal!Next /\ Recorded'
<1>1. PICK token \in Token, payer \in Address, escrow \in Nat :
          /\ token = reservations[id].token /\ payer = reservations[id].payer
          /\ escrow = reservations[id].escrowAmount
  BY EscrowCovers DEF Entry
<1>2. PICK charge : charge = Pulled(price[token], target, taken)
  OBVIOUS
<1>3. charge \in Nat /\ charge <= target /\ escrow - charge \in Nat
  BY <1>1, <1>2, PulledBounds DEF IInv
<1>4. PICK paid : paid = Moved(bank, token, Self, Rail, charge)
  OBVIOUS
<1>5. /\ reservations' = [reservations EXCEPT ![id].status = s]
      /\ actor' = [actor EXCEPT ![id] = caller]
      /\ PayoutOrQueue(payer, token, escrow - charge, paid)
      /\ nonceUsed' = nonceUsed
  BY <1>1, <1>2, <1>4 DEF Close
<1>6. Affords(bank, token, Self, charge)
  BY <1>1, <1>3, EscrowCovers DEF Affords
<1>7. bank \in Balances(Token, Holder) /\ refundRescue \in Queues
  BY DEF Money
<1>8. paid \in Balances(Token, Holder)
  BY <1>3, <1>4, <1>6, <1>7, MovedTyped DEF Holder
<1>9. Mapped' = Ideal!Gains(Ideal!Gains(Mapped, token, Rail, charge),
                            token, payer, escrow - charge)
  <2>1. Worth(bank', refundRescue') =
            Ideal!Gains(Worth(paid, refundRescue), token, payer, escrow - charge)
    BY <1>3, <1>5, <1>7, <1>8, RefundIsGained
  <2>2. Worth(paid, refundRescue) = Ideal!Gains(Worth(bank, refundRescue), token, Rail, charge)
    BY <1>3, <1>4, <1>6, <1>7, SentIsGained
  <2>3. QED
    BY <2>1, <2>2 DEF Mapped
<1>10. actor'[id] = caller /\ actor' = [actor EXCEPT ![id] = actor'[id]]
  BY <1>5 DEF Recorded
<1>11. Ideal!AtMostWorth(charge, token, usd)
  <2>1. SUFFICES ASSUME charge # 0 PROVE price[token] # 0 /\ (charge - 1) * price[token] < usd * UNIT
    BY DEF Ideal!AtMostWorth
  <2>2. price[token] \in Nat /\ price[token] # 0
    BY <1>1, <1>3, <2>1 DEF IInv
  <2>3. charge <= Quote(price[token], usd)
    <3>1. Quote(price[token], usd) \in Nat
      BY <2>2, QuoteTyped
    <3>2. target <= Quote(price[token], usd)
      BY <1>1, <1>3, <2>1
    <3>3. QED
      BY <1>3, <3>1, <3>2
  <2>4. QED
    BY <1>3, <2>1, <2>2, <2>3, PulledIsWorth
<1>12. usd = 0 => charge = 0
  BY <1>3
<1>13. Ideal!Standing(id)
  BY DEF Ideal!Standing, Live
<1>14. Ideal!End(id, s, charge)
  BY <1>1, <1>5, <1>9, <1>10, <1>11, <1>12, <1>13, WealthIsWorth DEF Ideal!End, Mapped, Worth
<1>15. charge \in 0..reservations[id].escrowAmount
  BY <1>1, <1>3
<1>16. Ideal!Next
  BY <1>13, <1>14, <1>15 DEF Ideal!Next
<1>17. Recorded'
  <2>1. actor' \in [ReservationId -> Address \cup {NoAddress}]
    BY <1>5 DEF Recorded
  <2>2. /\ \A k \in ReservationId : k # id => reservations'[k] = reservations[k]
        /\ reservations'[id].merchantId = reservations[id].merchantId
        /\ reservations'[id].clientNonce = reservations[id].clientNonce
    BY <1>5, EscrowCovers DEF IInv, Entry
  <2>3. reservations[id].status # "NONE"
    BY DEF Live
  <2>4. QED
    BY <1>5, <2>1, <2>2, <2>3 DEF Recorded
<1>18. QED
  BY <1>16, <1>17

LEMMA DueIsTarget ==
    ASSUME IInv, Money, NEW id \in ReservationId, Live(id), NEW usd \in Nat
    PROVE  /\ Due(id, usd) \in Nat /\ Due(id, usd) <= reservations[id].escrowAmount
           /\ usd = 0 => Due(id, usd) = 0
           /\ Due(id, usd) # 0 => /\ price[reservations[id].token] # 0
                                  /\ Due(id, usd) <= Quote(price[reservations[id].token], usd)
<1>1. PICK token \in Token, escrow \in Nat :
          token = reservations[id].token /\ escrow = reservations[id].escrowAmount
  BY EscrowCovers DEF Entry
<1>2. Due(id, usd) = Target(price[token], usd, escrow)
  BY <1>1 DEF Due
<1>3. price[token] \in Nat /\ (price[token] # 0 => Quote(price[token], usd) \in Nat)
  BY QuoteTyped DEF IInv
<1>4. QED
  BY <1>1, <1>2, <1>3 DEF Target, Least

\* A reservation that is made is a deal that is booked.
LEMMA ReserveIsBook ==
    ASSUME IInv, IInv', Money, Recorded, NEW payer \in Payer, NEW m \in Merchant,
           NEW slot \in Slot, NEW token \in Token, NEW usd \in Deposit, NEW policy \in Policy,
           NEW hold \in Hold, NEW slotTime \in SlotTime, NEW nonce \in ClientNonce,
           Reserve(payer, m, slot, token, usd, policy, hold, slotTime, nonce)
    PROVE  Ideal!Next /\ Recorded'
<1>1. PICK id \in ReservationId : id = nextReservationId
  BY DEF Reserve, IInv, ReservationId
<1>2. PICK amount : amount = Quote(price[token], usd)
  OBVIOUS
<1>3. PICK r : r = [merchantId |-> m, payer |-> payer, token |-> token,
                    escrowAmount |-> amount, depositUsd8 |-> usd,
                    holdExpiresAt |-> now + hold, slotTimestamp |-> slotTime,
                    policy |-> policy, slotKey |-> slot, clientNonce |-> nonce,
                    status |-> "HELD"]
  OBVIOUS
<1>4. /\ <<m, nonce>> \notin nonceUsed /\ occupant[<<m, slot>>] = 0 /\ price[token] # 0
      /\ Affords(bank, token, payer, amount)
      /\ reservations' = [reservations EXCEPT ![id] = r]
      /\ nonceUsed' = nonceUsed \cup {<<m, nonce>>}
      /\ actor' = [actor EXCEPT ![id] = payer]
      /\ bank' = Moved(bank, token, payer, Self, amount)
      /\ refundRescue' = refundRescue
  BY <1>1, <1>2, <1>3 DEF Reserve
<1>5. /\ r.status = "HELD" /\ r.merchantId = m /\ r.slotKey = slot /\ r.clientNonce = nonce
      /\ r.token = token /\ r.payer = payer /\ r.escrowAmount = amount /\ r.depositUsd8 = usd
  BY <1>3
<1>6. /\ reservations[id] = None /\ reservations[id].status = "NONE"
      /\ reservations'[id] = r
      /\ \A k \in ReservationId : k # id => reservations'[k] = reservations[k]
  BY <1>1, <1>4 DEF IInv, None
<1>7. price[token] \in Nat /\ usd \in Nat /\ amount \in Nat
  <2>1. price[token] \in Nat /\ usd \in Nat
    BY DEF IInv
  <2>2. QED
    BY <1>2, <1>4, <2>1, QuoteTyped
<1>8. /\ Ideal!AtMostWorth(amount, token, usd)
      /\ Ideal!AtLeastWorth(amount, token, usd)
  <2>1. PICK a \in Nat : a = usd * UNIT
    BY <1>7
  <2>2. amount \in Nat /\ a <= price[token] * amount
        /\ price[token] * amount <= a + price[token] - 1
    BY <1>2, <1>4, <1>7, <2>1, CeilBounds DEF Quote
  <2>3. /\ price[token] * amount = amount * price[token] /\ price[token] * amount \in Nat
        /\ (amount - 1) * price[token] = price[token] * amount - price[token]
    BY <1>7
  <2>4. QED
    BY <1>4, <1>7, <2>1, <2>2, <2>3 DEF Ideal!AtMostWorth, Ideal!AtLeastWorth
<1>9. ASSUME NEW other \in ReservationId, reservations[other].status # "NONE"
      PROVE  /\ Ideal!Standing(other) => \/ reservations[other].merchantId # m
                                         \/ reservations[other].slotKey # slot
             /\ \/ reservations[other].merchantId # m
                \/ reservations[other].clientNonce # nonce
  <2>1. <<reservations[other].merchantId, reservations[other].clientNonce>> \in nonceUsed
    BY <1>9 DEF Recorded
  <2>2. ASSUME Live(other) PROVE PlaceOf(reservations[other]) # <<m, slot>>
    <3>1. other # 0
      BY DEF ReservationId
    <3>2. <<m, slot>> \in Place
      BY DEF Place
    <3>3. QED
      BY <1>4, <2>2, <3>1, <3>2 DEF IInv, Agrees
  <2>3. QED
    BY <1>4, <2>1, <2>2 DEF Ideal!Standing, Live, PlaceOf
<1>10. Mapped' = Ideal!Gains(Mapped, token, payer, -amount)
  <2>1. payer \in Address /\ bank \in Balances(Token, Holder) /\ refundRescue \in Queues
    BY DEF Money
  <2>2. QED
    BY <1>4, <1>7, <2>1, TakenIsLost DEF Mapped
<1>11. Ideal!Book(id, reservations'[id])
  BY <1>4, <1>5, <1>6, <1>8, <1>9, <1>10, WealthIsWorth DEF Ideal!Book, Mapped, Worth
<1>12. Ideal!Next
  <2>1. reservations'[id].status = "HELD"
    BY <1>5, <1>6
  <2>2. QED
    BY ONLY <1>11, <2>1, id \in ReservationId DEF Ideal!Next, Ideal!Book
<1>13. Recorded'
  <2>1. actor' \in [ReservationId -> Address \cup {NoAddress}]
    BY <1>4 DEF Recorded
  <2>2. QED
    BY <1>4, <1>5, <1>6, <2>1 DEF Recorded
<1>14. QED
  BY <1>12, <1>13

LEMMA ConfirmIsIdeal ==
    ASSUME IInv, Recorded, NEW id \in ReservationId, NEW caller \in Address, Confirm(id, caller)
    PROVE  Ideal!Next /\ Recorded'
<1>1. /\ reservations[id].status = "HELD"
      /\ caller = merchantOwner[reservations[id].merchantId]
      /\ reservations' = [reservations EXCEPT ![id].status = "CONFIRMED"]
      /\ actor' = [actor EXCEPT ![id] = caller]
      /\ UNCHANGED <<nonceUsed, bank, refundRescue>>
  BY DEF Confirm, money
<1>2. Ideal!Confirm(id)
  BY <1>1 DEF Ideal!Confirm
<1>3. reservations[id] \in Entry
  BY <1>1, LiveEntry
<1>4. /\ \A k \in ReservationId : k # id => reservations'[k] = reservations[k]
      /\ reservations'[id].merchantId = reservations[id].merchantId
      /\ reservations'[id].clientNonce = reservations[id].clientNonce
  BY <1>1, <1>3 DEF IInv, Entry
<1>5. actor' \in [ReservationId -> Address \cup {NoAddress}]
  BY <1>1 DEF Recorded
<1>6. Recorded'
  BY <1>1, <1>4, <1>5 DEF Recorded
<1>7. QED
  BY <1>2, <1>6 DEF Ideal!Next

\* A drawn refund was its payee's before.
LEMMA ClaimIsStutter ==
    ASSUME Money, Recorded, NEW caller \in Address, NEW token \in Token,
           ClaimRefund(caller, token)
    PROVE  UNCHANGED <<reservations, actor, Mapped>> /\ Recorded'
<1>1. PICK n : n = refundRescue[caller][token]
  OBVIOUS
<1>2. /\ Affords(bank, token, Self, n) /\ bank' = Moved(bank, token, Self, caller, n)
      /\ refundRescue' = [refundRescue EXCEPT ![caller] =
             [refundRescue[caller] EXCEPT ![token] = 0]]
      /\ UNCHANGED <<reservations, actor, nonceUsed>>
  BY <1>1 DEF ClaimRefund, book
<1>3. /\ bank \in Balances(Token, Holder) /\ refundRescue \in Queues /\ n \in Nat
  BY <1>1 DEF Money, Queues
<1>4. PICK q : q = refundRescue'
  OBVIOUS
<1>5. /\ q \in Queues
      /\ \A t \in Token, a \in Address :
             q[a][t] = IF t = token /\ a = caller THEN 0 ELSE refundRescue[a][t]
  BY <1>2, <1>3, <1>4 DEF Queues
<1>6. PICK w : w = Worth(bank, q)
  OBVIOUS
<1>7. PICK v : v = Worth(bank, refundRescue)
  OBVIOUS
<1>8. PICK g : g = Ideal!Gains(w, token, caller, n)
  OBVIOUS
<1>9. /\ w \in Worths /\ v \in Worths /\ g \in Worths
      /\ \A t \in Token, a \in Address :
             /\ w[t][a] = bank[t][a] + q[a][t]
             /\ v[t][a] = bank[t][a] + refundRescue[a][t]
             /\ g[t][a] = w[t][a] + (IF t = token /\ a = caller THEN n ELSE 0)
             /\ bank[t][a] \in Nat /\ refundRescue[a][t] \in Nat
  <2>1. /\ w \in Worths
        /\ \A t \in Token, a \in Address : w[t][a] = bank[t][a] + q[a][t]
    BY <1>3, <1>5, <1>6, WorthTyped
  <2>2. /\ v \in Worths
        /\ \A t \in Token, a \in Address :
               /\ v[t][a] = bank[t][a] + refundRescue[a][t]
               /\ bank[t][a] \in Nat /\ refundRescue[a][t] \in Nat
    BY <1>3, <1>7, WorthTyped
  <2>3. /\ g \in Worths
        /\ \A t \in Token, a \in Address :
               g[t][a] = w[t][a] + (IF t = token /\ a = caller THEN n ELSE 0)
    BY <1>3, <1>8, <2>1, GainsTyped
  <2>4. QED
    BY <2>1, <2>2, <2>3
<1>10. \A t \in Token, a \in Address : g[t][a] = v[t][a]
  BY <1>1, <1>5, <1>9
<1>11. g = v
  BY <1>9, <1>10, SameWorth
<1>12. Worth(bank', refundRescue') = g
  BY <1>2, <1>3, <1>4, <1>5, <1>6, <1>8, SentIsGained
<1>13. QED
  BY <1>2, <1>7, <1>11, <1>12 DEF Mapped, Recorded

LEMMA NextIsHonest ==
    ASSUME IInv, IInv', Money, Recorded, [Next]_vars
    PROVE  [Ideal!Next]_(Ideal!idealVars) /\ Recorded'
<1>1. ASSUME NEW id \in ReservationId, Live(id)
      PROVE  /\ reservations[id].depositUsd8 \in Nat
             /\ reservations[id].policy.lateFeeUsd8 \in Nat
             /\ reservations[id].policy.noShowFeeUsd8 \in Nat
             /\ reservations[id].policy.cancelWindowSecs \in Nat
             /\ reservations[id].slotTimestamp \in Nat
             /\ reservations[id].payer \in Address
  BY <1>1, EscrowCovers DEF Entry
<1>2. ASSUME UNCHANGED <<reservations, actor, nonceUsed, bank, refundRescue>>
      PROVE  UNCHANGED <<reservations, actor, Mapped>> /\ Recorded'
  BY <1>2 DEF Mapped, Recorded
<1>3. ASSUME UNCHANGED <<reservations, actor, Mapped>>
      PROVE  [Ideal!Next]_(Ideal!idealVars)
  BY <1>3, WealthIsWorth DEF Ideal!idealVars, Mapped, Worth
<1>4. ASSUME NEW id \in ReservationId, NEW caller \in Address, NEW taken \in BOOLEAN,
             CancelAs(id, caller, taken),
             \/ caller \in Parties(id)
             \/ /\ <<reservations[id].payer, caller>> \in approvedCancelRelayer
                /\ LiveSession(reservations[id].payer, caller)
      PROVE  Ideal!Next /\ Recorded'
  <2>1. PICK fee \in Nat : fee = reservations[id].policy.lateFeeUsd8
    BY <1>1, <1>4 DEF CancelAs
  <2>2. PICK usd \in Nat : usd = IF Late(id) THEN fee ELSE 0
    OBVIOUS
  <2>3. PICK target : target = IF Late(id) THEN Due(id, fee) ELSE 0
    OBVIOUS
  <2>4. /\ Live(id) /\ (Late(id) => fee # 0) /\ Close(id, caller, "CANCELLED", target, taken)
    BY <1>4, <2>1, <2>3 DEF CancelAs
  <2>5. Late(id) <=> ~(now < reservations[id].slotTimestamp
                                - reservations[id].policy.cancelWindowSecs)
    BY <1>1, <2>4 DEF Late, WindowStart, IInv
  <2>6. caller \in {reservations[id].payer, merchantOwner[reservations[id].merchantId]}
            \cup {p \in Address : <<reservations[id].payer, p>> \in
                      {pair \in approvedCancelRelayer : LiveSession(pair[1], pair[2])}}
    BY <1>4 DEF Parties
  <2>7. Ideal!Terms(id)["CANCELLED"].usd = usd /\ caller \in Ideal!Terms(id)["CANCELLED"].may
    BY <2>1, <2>2, <2>4, <2>5, <2>6 DEF Ideal!Terms
  <2>8. /\ target \in Nat /\ target <= reservations[id].escrowAmount
        /\ usd = 0 => target = 0
        /\ target # 0 => /\ price[reservations[id].token] # 0
                         /\ target <= Quote(price[reservations[id].token], usd)
    <3>1. reservations[id].escrowAmount \in Nat
      BY <2>4, EscrowCovers DEF Entry
    <3>2. QED
      BY <2>2, <2>3, <2>4, <3>1, DueIsTarget
  <2>9. QED
    BY <2>4, <2>7, <2>8, CloseIsEnd
<1>5. ASSUME NEW id \in ReservationId, NEW caller \in Address, ExpireHold(id, caller)
      PROVE  Ideal!Next /\ Recorded'
  <2>1. Live(id) /\ Close(id, caller, "EXPIRED", 0, FALSE)
    BY <1>5 DEF ExpireHold, Live
  <2>2. Ideal!Terms(id)["EXPIRED"].usd = 0 /\ caller \in Ideal!Terms(id)["EXPIRED"].may
    BY <1>5 DEF ExpireHold, Parties, Ideal!Terms
  <2>3. PICK none \in Nat : none = 0
    OBVIOUS
  <2>4. none <= reservations[id].escrowAmount
    BY <2>1, <2>3, EscrowCovers DEF Entry
  <2>5. QED
    BY <2>1, <2>2, <2>3, <2>4, CloseIsEnd
<1>6. ASSUME NEW id \in ReservationId, NEW caller \in Address, NEW taken \in BOOLEAN,
             Complete(id, caller, taken)
      PROVE  Ideal!Next /\ Recorded'
  <2>1. PICK usd : usd = reservations[id].depositUsd8
    OBVIOUS
  <2>2. Live(id) /\ Close(id, caller, "COMPLETED", Due(id, usd), taken)
    BY <1>6, <2>1 DEF Complete, Live
  <2>3. Ideal!Terms(id)["COMPLETED"].usd = usd /\ caller \in Ideal!Terms(id)["COMPLETED"].may
    BY <1>6, <2>1 DEF Complete, Ideal!Terms
  <2>4. usd \in Nat
    BY <1>1, <2>1, <2>2
  <2>5. QED
    BY <2>2, <2>3, <2>4, CloseIsEnd, DueIsTarget
<1>7. ASSUME NEW id \in ReservationId, NEW caller \in Address, NEW taken \in BOOLEAN,
             MarkNoShow(id, caller, taken)
      PROVE  Ideal!Next /\ Recorded'
  <2>1. PICK usd : usd = reservations[id].policy.noShowFeeUsd8
    OBVIOUS
  <2>2. Live(id) /\ Close(id, caller, "NO_SHOW", Due(id, usd), taken)
    BY <1>7, <2>1 DEF MarkNoShow, Live
  <2>3. Ideal!Terms(id)["NO_SHOW"].usd = usd /\ caller \in Ideal!Terms(id)["NO_SHOW"].may
    BY <1>7, <2>1 DEF MarkNoShow, Ideal!Terms
  <2>4. usd \in Nat
    BY <1>1, <2>1, <2>2
  <2>5. QED
    BY <2>2, <2>3, <2>4, CloseIsEnd, DueIsTarget
<1>8. ASSUME \/ Sessions \/ RouterChanges \/ UNCHANGED vars
             \/ \E payer \in Payer, relayer \in Relayer, approved \in BOOLEAN :
                    SetCancelRelayer(payer, relayer, approved)
      PROVE  UNCHANGED <<reservations, actor, nonceUsed, bank, refundRescue>>
  BY <1>8 DEF Sessions, RouterChanges, SetCancelRelayer, vars, book, money
<1>9. ASSUME NEW id \in ReservationId, NEW caller \in Address, NEW taken \in BOOLEAN,
             Cancel(id, caller, taken)
      PROVE  Ideal!Next /\ Recorded'
  BY <1>4, <1>9 DEF Cancel
<1>10. ASSUME NEW id \in ReservationId, NEW relayer \in Relayer, NEW taken \in BOOLEAN,
             CancelWithSession(id, relayer, taken)
      PROVE  Ideal!Next /\ Recorded'
  <2>1. relayer \in Address
    OBVIOUS
  <2>2. QED
    BY <1>4, <1>10, <2>1 DEF CancelWithSession
<1>11. QED
  BY <1>2, <1>3, <1>5, <1>6, <1>7, <1>8, <1>9, <1>10, ReserveIsBook, ConfirmIsIdeal,
     ClaimIsStutter DEF Next

\* The contract implements the ideal bookings: a deposit is worth its price when it is
\* left, only those whom the terms name end a deal, the charge is the one the terms allow
\* at the rate of the moment, and the payer gets or may claim all of the rest.
THEOREM BookingsHonoured == Spec => HonoursBookings
<1> DEFINE Good == IInv /\ Money /\ Recorded
<1>1. Init => Good /\ Ideal!Init
  <2> SUFFICES ASSUME Init PROVE Good /\ Ideal!Init
    OBVIOUS
  <2>1. IInv /\ Money
    BY InitMoney DEF Init, IInv, Agrees, Live, None, Place, ReservationId, S!Init
  <2>2. Recorded
    BY DEF Init, Recorded, None
  <2>3. \A t \in Token, a \in Address : Endowment[t][a] \in Nat
    BY DEF Balances, Holder
  <2>4. Ideal!Init
    BY <2>3 DEF Init, Ideal!Init, None
  <2>5. QED
    BY <2>1, <2>2, <2>4
<1>2. Good /\ [Next]_vars => Good' /\ [Ideal!Next]_(Ideal!idealVars)
  BY NextStep, MoneyStep, NextIsHonest
<1>3. QED
  BY <1>1, <1>2, PTL DEF Spec, HonoursBookings, Ideal!Spec

=============================================================================
