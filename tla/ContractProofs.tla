---------------------------- MODULE ContractProofs ----------------------------
(***************************************************************************)
(* Proofs about the contracts beside the router, each for any number of its  *)
(* parties and any amounts: what the price relay promises of a quote; what    *)
(* the holders of receivables, of prepaid cards and of lane receipts are owed. *)
(***************************************************************************)
EXTENDS PriceRelay, Receivables, GiftCards, PaymentLanes, BankProofs

-----------------------------------------------------------------------------
(* The price relay, for any chains, clocks, windows, rounds and messages in *)
(* transit.                                                                 *)

Accepted == [lane : SourceLane, answer : Answer, at : Int, posted : Int, arrivedAt : Int]

\* A round carries the time of its own chain.
Stamped(round) == round.at = round.posted + Lead[round.lane]

FeedsStamped == \A source \in SourceLane : feeds[source] # None => Stamped(feeds[source])

MessagesStamped == \A m \in messages : Stamped(m)

LatestStamped ==
    latest # None => Stamped(latest) /\ latest.arrivedAt <= now /\ latest.answer \in Band

\* While the sequencer is up it was down last when it came up.
DownBefore == uptime.up => lastDown = uptime.since

RelayInv ==
    /\ RelayTypeOK
    /\ FeedsStamped
    /\ MessagesStamped
    /\ LatestStamped
    /\ DownBefore

-----------------------------------------------------------------------------
\* What arrives is stored with the lane, the answer and the time it was sent with; only
\* what is in the band is.
LEMMA AcceptedIsSound ==
    ASSUME RelayInv, NEW m \in messages, CcipReceive(m)
    PROVE  /\ latest' \in Accepted
           /\ Stamped(latest)'
           /\ (latest.arrivedAt <= now)'
           /\ (latest.answer \in Band)'
  <1>1. m \in Observation /\ Stamped(m)
    BY DEF RelayInv, RelayTypeOK, MessagesStamped
  <1>2. latest' = [lane |-> m.lane, answer |-> m.answer, at |-> m.at, posted |-> m.posted,
                   arrivedAt |-> now]
    BY DEF CcipReceive
  <1>3. now \in Nat /\ now' = now
    BY DEF RelayInv, RelayTypeOK, CcipReceive
  <1>4. m.answer \in Band
    BY DEF CcipReceive
  <1> QED
    BY <1>1, <1>2, <1>3, <1>4 DEF Observation, Accepted, Stamped

\* The initial states satisfy the invariant.
LEMMA RelayInitially == ASSUME RelayInit PROVE RelayInv
  BY RelayAssumption
     DEF RelayInit, RelayInv, RelayTypeOK, FeedsStamped, MessagesStamped, LatestStamped,
         DownBefore

\* Every step of the two chains and of what is between them keeps it.
LEMMA RelayStep == ASSUME RelayInv, [RelayNext]_relayVars PROVE RelayInv'
  <1> USE DEF RelayInv, RelayTypeOK
  <1>1. ASSUME NEW source \in SourceLane, NEW answer \in Answer, NEW scale \in Scale,
               PostRound(source, answer, scale)
        PROVE  RelayInv'
    <2> DEFINE round == [lane |-> source, answer |-> answer, scale |-> scale,
                         at |-> now + Lead[source], posted |-> now]
    <2>1. round \in Observation /\ Stamped(round)
      BY RelayAssumption DEF Observation, Stamped
    <2>2. feeds' = [feeds EXCEPT ![source] = round]
      BY <1>1 DEF PostRound
    <2> HIDE DEF round
    <2>3. feeds' \in [SourceLane -> Observation \cup {None}] /\ FeedsStamped'
      BY <2>1, <2>2 DEF FeedsStamped, Stamped
    <2> QED
      BY <1>1, <2>3 DEF PostRound, MessagesStamped, LatestStamped, DownBefore, Stamped
  <1>2. ASSUME NEW source \in SourceLane, SpoilRound(source) PROVE RelayInv'
    BY <1>2 DEF SpoilRound, FeedsStamped, MessagesStamped, LatestStamped, DownBefore, Stamped
  <1>3. ASSUME NEW source \in SourceLane, NEW to \in BOOLEAN, SetDestination(source, to)
        PROVE  RelayInv'
    BY <1>3 DEF SetDestination, FeedsStamped, MessagesStamped, LatestStamped, DownBefore,
                Stamped
  <1>4. ASSUME NEW source \in SourceLane, NEW to \in BOOLEAN, SetSourceLane(source, to)
        PROVE  RelayInv'
    BY <1>4 DEF SetSourceLane, FeedsStamped, MessagesStamped, LatestStamped, DownBefore,
                Stamped
  <1>5. ASSUME NEW source \in SourceLane, Relay(source) PROVE RelayInv'
    <2>1. messages' = messages \cup {feeds[source]} /\ feeds[source] # None
      BY <1>5 DEF Relay
    <2>2. feeds[source] \in Observation /\ Stamped(feeds[source])
      BY <2>1 DEF FeedsStamped
    <2>3. messages' \subseteq Observation /\ MessagesStamped'
      BY <2>1, <2>2 DEF MessagesStamped, Stamped
    <2> QED
      BY <1>5, <2>3 DEF Relay, FeedsStamped, LatestStamped, DownBefore, Stamped
  <1>6. ASSUME NEW m \in messages, CcipReceive(m) PROVE RelayInv'
    <2>1. latest' \in Accepted /\ LatestStamped'
      BY <1>6, AcceptedIsSound DEF LatestStamped
    <2>2. UNCHANGED <<now, feeds, receiverFor, allowed, messages, uptime, lastDown>>
      BY <1>6 DEF CcipReceive
    <2> QED
      BY <2>1, <2>2 DEF Accepted, FeedsStamped, MessagesStamped, DownBefore, Stamped
  <1>7. ASSUME SequencerStops \/ SequencerResumes PROVE RelayInv'
    <2>1. now \in Nat /\ UNCHANGED <<now, feeds, receiverFor, allowed, messages, latest>>
      BY <1>7 DEF SequencerStops, SequencerResumes
    <2>2. CASE SequencerStops
      <3>1. uptime' = [up |-> FALSE, since |-> now] /\ lastDown' = now
        BY <2>2 DEF SequencerStops
      <3>2. ~uptime'.up /\ uptime' \in [up : BOOLEAN, since : Nat]
        BY <2>1, <3>1
      <3> QED
        BY <2>1, <3>1, <3>2 DEF FeedsStamped, MessagesStamped, LatestStamped, DownBefore,
                                Stamped
    <2>3. CASE SequencerResumes
      <3>1. uptime' = [up |-> TRUE, since |-> now] /\ lastDown' = now
        BY <2>3 DEF SequencerResumes
      <3>2. uptime'.since = now /\ uptime' \in [up : BOOLEAN, since : Nat]
        BY <2>1, <3>1
      <3> QED
        BY <2>1, <3>1, <3>2 DEF FeedsStamped, MessagesStamped, LatestStamped, DownBefore,
                                Stamped
    <2> QED
      BY <1>7, <2>2, <2>3
  <1>8. ASSUME Tick PROVE RelayInv'
    <2>1. now' = now + 1 /\ UNCHANGED <<feeds, receiverFor, allowed, messages, latest, uptime>>
      BY <1>8 DEF Tick
    <2>2. LatestStamped'
      BY <2>1 DEF LatestStamped, Stamped
    <2>3. lastDown' \in Nat /\ DownBefore'
      BY <1>8, <2>1 DEF Tick, DownBefore
    <2> QED
      BY <2>1, <2>2, <2>3 DEF FeedsStamped, MessagesStamped, Stamped
  <1>9. ASSUME UNCHANGED relayVars PROVE RelayInv'
    BY <1>9 DEF relayVars, FeedsStamped, MessagesStamped, LatestStamped, DownBefore, Stamped
  <1> QED
    BY <1>1, <1>2, <1>3, <1>4, <1>5, <1>6, <1>7, <1>8, <1>9 DEF RelayNext

-----------------------------------------------------------------------------
\* In a state of the invariant what a quote may be made from is fresh.
LEMMA InvIsFresh == ASSUME RelayInv PROVE QuoteIsFresh
  <1>1. ASSUME latest # None PROVE Reported(latest) <= now /\ latest.at >= Reported(latest)
    BY <1>1 DEF RelayInv, RelayTypeOK, LatestStamped, Reported
  <1>2. ASSUME Quotable PROVE now - latest.posted <= Window + Lead[latest.lane]
    <2>1. latest # None /\ now - Reported(latest) <= Window
      BY <1>2 DEF Quotable
    <2>2. latest.at = latest.posted + Lead[latest.lane]
      BY <2>1 DEF RelayInv, LatestStamped, Stamped
    <2>3. latest.posted \in Int /\ latest.at \in Int /\ latest.arrivedAt \in Int
          /\ Lead[latest.lane] \in Int /\ now \in Nat /\ Window \in Nat
      BY <2>1, RelayAssumption DEF RelayInv, RelayTypeOK
    <2>4. Reported(latest) \in Int
      BY <2>3 DEF Reported
    <2> QED
      BY <1>1, <2>1, <2>2, <2>3, <2>4
  <1>3. ASSUME Quotable PROVE latest.answer \in Band /\ now - lastDown > Grace
    BY <1>3 DEF Quotable, RelayInv, LatestStamped, DownBefore
  <1> QED
    BY <1>1, <1>2, <1>3 DEF QuoteIsFresh

\* A step that replaces the observation replaces it by one posted later, but for what the
\* two clocks are apart.
LEMMA StepAdvances ==
    ASSUME RelayInv, [RelayNext]_relayVars, latest # None, latest' # latest
    PROVE  latest.posted - latest'.posted < Lead[latest'.lane] - Lead[latest.lane]
  <1>1. PICK m \in messages : CcipReceive(m)
    BY DEF RelayNext, relayVars, PostRound, SpoilRound, SetDestination, SetSourceLane,
           Relay, SequencerStops, SequencerResumes, Tick
  <1>2. m.at > latest.at
    BY <1>1 DEF CcipReceive, Newer
  <1>3. latest'.at = m.at
    BY <1>1 DEF CcipReceive
  <1>4. latest'.at = latest'.posted + Lead[latest'.lane] /\ latest' \in Accepted
    BY <1>1, AcceptedIsSound DEF Stamped
  <1>5. latest.at = latest.posted + Lead[latest.lane] /\ latest \in Accepted
    BY DEF RelayInv, RelayTypeOK, LatestStamped, Stamped, Accepted
  <1>6. /\ latest.posted \in Int /\ latest'.posted \in Int
        /\ Lead[latest.lane] \in Int /\ Lead[latest'.lane] \in Int
    BY <1>4, <1>5, RelayAssumption DEF Accepted
  <1> QED
    BY <1>2, <1>3, <1>4, <1>5, <1>6

\* The invariant holds always.
THEOREM RelayInvariant == RelaySpec => []RelayInv
  <1>1. RelayInit => RelayInv
    BY RelayInitially
  <1>2. RelayInv /\ [RelayNext]_relayVars => RelayInv'
    BY RelayStep
  <1> QED
    BY <1>1, <1>2, PTL DEF RelaySpec

\* PriceRelayReceiver's and OracleLib's guards together: every price a quote is made from
\* was posted within the window of the quote, is in the band, and the sequencer was up for
\* the grace period, whatever messages were delayed, lost, reordered or tried again.
THEOREM QuotesAreFresh == RelaySpec => []QuoteIsFresh
  <1>1. RelayInv => QuoteIsFresh
    BY InvIsFresh
  <1> QED
    BY <1>1, RelayInvariant, PTL

\* ccipReceive's guard on the round's time: the stored price is never walked back.
THEOREM PricesAdvance == RelaySpec => PriceAdvances
  <1>1. RelayInv /\ [RelayNext]_relayVars =>
            [latest # None /\ latest' # latest =>
                latest.posted - latest'.posted
                    < Lead[latest'.lane] - Lead[latest.lane]]_relayVars
    BY StepAdvances
  <1> QED
    BY <1>1, RelayInvariant, PTL DEF RelaySpec, PriceAdvances

-----------------------------------------------------------------------------
(* The receivables.  ClaimsHonoured is not inductive: a pull that reverts      *)
(* brings the books of its entry back, so these must be honoured as well, and  *)
(* the terms that pay checked must bound what the router then takes.           *)

\* The claim of a frame is settled, is paid in a token, and passed the re-checks.
InPull ==
    paying # Resting =>
        /\ Honoured(snapshot, Nobody)
        /\ claims[paying.id].status = "SETTLED"
        /\ claims[paying.id].asset \in Erc20
        /\ paying.checked.here
        /\ paying.checked.fee <= claims[paying.id].feeAtMint

ReceivablesInv == ReceivablesTypeOK /\ ClaimsHonoured /\ InPull

\* A surcharge is a natural number that fits in what is due.
LEMMA Amounts ==
    ASSUME NEW due \in Due, NEW fee \in Surcharge
    PROVE  due \in Nat /\ fee \in Nat /\ fee <= due
<1>1. Due \subseteq Nat /\ Surcharge \subseteq Nat
  BY ReceivablesAssumption
<1>2. fee <= due
  BY ReceivablesAssumption
<1> QED
  BY <1>1, <1>2

\* What the router sends is never negative, and all of it by terms that stay here.
LEMMA PushedIsNat ==
    ASSUME ReceivablesTypeOK, NEW t \in Tenant, NEW due \in Due
    PROVE  /\ Pushed(t, due) \in Nat
           /\ terms[t].here => Pushed(t, due) = due - terms[t].fee
<1>1. terms[t] \in Terms
  BY DEF ReceivablesTypeOK, Books, books
<1>2. terms[t].fee \in Surcharge /\ terms[t].here \in BOOLEAN
  BY <1>1 DEF Terms
<1>3. due - terms[t].fee \in Nat
  BY <1>2, Amounts
<1> QED
  BY <1>2, <1>3 DEF Pushed

\* A claim that was never minted is an entry that nobody holds or has sold.
LEMMA FreshIsEntry == Unminted \in Entry /\ ~Unminted.sold
<1>1. Unset \in Tenant
  BY ReceivablesAssumption DEF Unset
<1> QED
  BY <1>1 DEF Unminted, Entry, Unpaid, Money, Status

\* The initial books are honoured: nothing is minted and nothing is held.
LEMMA InitHonoured == ReceivablesInit => ReceivablesInv
<1> SUFFICES ASSUME ReceivablesInit PROVE ReceivablesInv
  OBVIOUS
<1>1. Unminted \in Entry
  BY FreshIsEntry
<1>2. ReceivablesTypeOK
  BY <1>1 DEF ReceivablesTypeOK, ReceivablesInit, Books, books, Resting
<1>3. ClaimsHonoured
  BY DEF ClaimsHonoured, Honoured, ReceivablesInit, books, Unminted, Resting
<1> QED
  BY <1>2, <1>3 DEF ReceivablesInv, InPull, ReceivablesInit

\* One claim of the books changes, to what an honoured one may be, and nothing else.
LEMMA OneEntry ==
    ASSUME NEW before, NEW after, NEW id \in ClaimId,
           Honoured(books, before),
           held' = held, lane' = lane, stray' = stray,
           \A other \in ClaimId \ {id} : claims'[other] = claims[other] /\ other # before,
           claims'[id].sold => claims'[id].status \in {"OPEN", "SETTLED"},
           claims'[id].holder # Nobody <=> claims'[id].status = "OPEN",
           claims'[id].status = "SETTLED" /\ id # after /\ claims'[id].paid.kept =>
              claims'[id].paid.net >= claims'[id].paid.due - claims'[id].feeAtMint
    PROVE  Honoured(books', after)
<1>1. \A m \in Money : held'[m] = stray'[m].held /\ lane'[m] = stray'[m].lane
  BY DEF Honoured, books
<1>2. ASSUME NEW other \in ClaimId
      PROVE  /\ claims'[other].sold => claims'[other].status \in {"OPEN", "SETTLED"}
             /\ claims'[other].holder # Nobody <=> claims'[other].status = "OPEN"
             /\ claims'[other].status = "SETTLED" /\ other # after /\ claims'[other].paid.kept =>
                   claims'[other].paid.net >= claims'[other].paid.due - claims'[other].feeAtMint
  <2>1. CASE other = id
    BY <2>1
  <2>2. CASE other # id
    <3>1. claims'[other] = claims[other] /\ other # before
      BY <2>2
    <3> QED
      BY <3>1 DEF Honoured, books
  <2> QED
    BY <2>1, <2>2
<1>3. books' = [terms |-> terms', wired |-> wired', claims |-> claims', held |-> held',
                lane |-> lane', stray |-> stray']
  BY DEF books
<1> QED
  BY <1>1, <1>2, <1>3 DEF Honoured

\* A claim that gets a new entry, which is as it should be by itself, leaves the others.
LEMMA EntryChanged ==
    ASSUME ReceivablesInv,
           NEW id \in ClaimId, NEW entry \in Entry,
           claims' = [claims EXCEPT ![id] = entry],
           terms' = terms, wired' = wired, held' = held, lane' = lane, stray' = stray,
           paying' = paying, snapshot' = snapshot,
           id # paying.id,
           entry.sold => entry.status \in {"OPEN", "SETTLED"},
           entry.holder # Nobody <=> entry.status = "OPEN",
           entry.status # "SETTLED"
    PROVE  ReceivablesInv'
<1>1. claims' \in [ClaimId -> Entry]
  BY DEF ReceivablesInv, ReceivablesTypeOK, Books, books
<1>2. ReceivablesTypeOK'
  BY <1>1 DEF ReceivablesInv, ReceivablesTypeOK, Books, books
<1>3. claims'[id] = entry /\ \A other \in ClaimId \ {id} : claims'[other] = claims[other]
  BY DEF ReceivablesInv, ReceivablesTypeOK, Books, books
<1>4. ClaimsHonoured'
  BY <1>3 DEF ReceivablesInv, ClaimsHonoured, Honoured, books
<1>5. InPull'
  <2> SUFFICES ASSUME paying # Resting PROVE InPull'
    BY DEF InPull
  <2>1. paying.id \in ClaimId
    BY DEF ReceivablesInv, ReceivablesTypeOK
  <2> QED
    BY <2>1, <1>3 DEF ReceivablesInv, InPull
<1> QED
  BY <1>2, <1>4, <1>5 DEF ReceivablesInv

\* A step of the router's side that touches no claim, and leaves balances and lanes as
\* far above what is strayed as they were.
LEMMA RouterSide ==
    ASSUME ReceivablesInv,
           terms' \in [Tenant -> Terms], wired' \in BOOLEAN,
           held' \in [Money -> Nat], lane' \in [Money -> Nat],
           stray' \in [Money -> [held : Nat, lane : Nat]],
           claims' = claims, paying' = paying, snapshot' = snapshot,
           \A m \in Money : held'[m] = stray'[m].held /\ lane'[m] = stray'[m].lane
    PROVE  ReceivablesInv'
<1>1. ReceivablesTypeOK'
  BY DEF ReceivablesInv, ReceivablesTypeOK, Books, books
<1>2. ClaimsHonoured'
  BY DEF ReceivablesInv, ClaimsHonoured, Honoured, books
<1>3. InPull'
  BY DEF ReceivablesInv, InPull
<1> QED
  BY <1>1, <1>2, <1>3 DEF ReceivablesInv

\* A pull: nothing of the books but the claim itself has changed yet.
LEMMA PayBeginsHonours ==
    ASSUME ReceivablesInv, NEW id \in ClaimId, PayBegins(id)
    PROVE  ReceivablesInv'
<1>1. /\ claims[id] \in Entry
      /\ terms \in [Tenant -> Terms]
      /\ held \in [Money -> Nat]
  BY DEF ReceivablesInv, ReceivablesTypeOK, Books, books
<1>2. claims[id].of \in Tenant /\ claims[id].asset \in Money
  BY <1>1 DEF Entry
<1>3. id # Nobody
  BY ReceivablesAssumption
<1>4. paying'.id = id /\ paying' # Resting
  BY <1>3 DEF PayBegins, Resting
<1> DEFINE entry == [claims[id] EXCEPT !.status = "SETTLED", !.holder = Nobody]
<1>5. entry \in Entry
  BY <1>1 DEF Entry, Status
<1>6. claims' = [claims EXCEPT ![id] = entry]
  BY DEF PayBegins
<1>7. claims' \in [ClaimId -> Entry]
  BY <1>5, <1>6 DEF ReceivablesInv, ReceivablesTypeOK, Books, books
<1>8. paying' \in [id : ClaimId, before : Nat, checked : Terms]
  BY <1>1, <1>2 DEF PayBegins
<1>9. ReceivablesTypeOK'
  BY <1>4, <1>7, <1>8 DEF ReceivablesInv, ReceivablesTypeOK, PayBegins, Books, books
<1>10. /\ claims'[id].status = "SETTLED" /\ claims'[id].holder = Nobody
       /\ claims'[id].asset = claims[id].asset
       /\ claims'[id].feeAtMint = claims[id].feeAtMint
       /\ \A other \in ClaimId \ {id} : claims'[other] = claims[other]
  BY <1>1, <1>6 DEF ReceivablesInv, ReceivablesTypeOK, Books, books, Entry
<1>11. ClaimsHonoured'
  <2>1. claims[id].status = "OPEN" /\ claims'[id].sold = claims[id].sold
    BY <1>1, <1>6 DEF PayBegins, Payable, ReceivablesInv, ReceivablesTypeOK, Books, books, Entry
  <2>2. Honoured(books, Nobody)
    BY DEF ReceivablesInv, ClaimsHonoured, Resting, PayBegins, Payable
  <2>3. \A other \in ClaimId \ {id} : other # Nobody
    BY ReceivablesAssumption
  <2>4. claims'[id].holder # Nobody <=> claims'[id].status = "OPEN"
    BY <1>10
  <2>5. held' = held /\ lane' = lane /\ stray' = stray
    BY DEF PayBegins
  <2>6. claims'[id].sold => claims'[id].status \in {"OPEN", "SETTLED"}
    BY <1>10
  <2>7. \A other \in ClaimId \ {id} : claims'[other] = claims[other] /\ other # Nobody
    BY <1>10, <2>3
  <2>8. Honoured(books', id)
    BY <2>2, <2>4, <2>5, <2>6, <2>7, OneEntry
  <2> QED
    BY <1>4, <2>8 DEF ClaimsHonoured
<1>12. Honoured(books, Nobody)
  BY DEF ReceivablesInv, ClaimsHonoured, Resting, PayBegins, Payable
<1>13. InPull'
  BY <1>4, <1>10, <1>12, <1>2 DEF InPull, PayBegins, Payable, Money
<1> QED
  BY <1>9, <1>11, <1>13 DEF ReceivablesInv

\* The rest of a pay: what comes in goes out, and it is what the router sent.
LEMMA PayRoutedHonours ==
    ASSUME ReceivablesInv, NEW due \in Due, PayRouted(due)
    PROVE  ReceivablesInv'
<1> DEFINE id == paying.id
           m == claims[id].asset
           t == claims[id].of
           pushed == Pushed(t, due)
<1>1. paying \in [id : ClaimId, before : Nat, checked : Terms]
  BY DEF ReceivablesInv, ReceivablesTypeOK, PayRouted
<1>2. /\ claims \in [ClaimId -> Entry] /\ id \in ClaimId /\ claims[id] \in Entry
      /\ held \in [Money -> Nat] /\ lane \in [Money -> Nat]
  BY <1>1 DEF ReceivablesInv, ReceivablesTypeOK, Books, books
<1>3. t \in Tenant /\ m \in Money
  BY <1>2 DEF Entry
<1>4. pushed \in Nat /\ (terms[t].here => pushed = due - terms[t].fee)
  BY <1>3, PushedIsNat DEF ReceivablesInv
<1>5. PICK inLane \in IF wired /\ pushed > 0 THEN BOOLEAN ELSE {FALSE} :
         LET credit == IF inLane THEN pushed ELSE 0
             claimed == IF wired THEN Credited(lane[m] + credit, lane[m]) ELSE 0
             net == (held[m] + (pushed - credit) + claimed) - paying.before
         IN  /\ lane' = [lane EXCEPT ![m] = @ + credit - claimed]
             /\ held' = [held EXCEPT ![m] = @ + (pushed - credit) + claimed - net]
             /\ claims' = [claims EXCEPT ![id].paid =
                   [due |-> due, net |-> net, kept |-> terms[t] = paying.checked]]
  BY DEF PayRouted
<1> DEFINE credit == IF inLane THEN pushed ELSE 0
           claimed == IF wired THEN Credited(lane[m] + credit, lane[m]) ELSE 0
           net == (held[m] + (pushed - credit) + claimed) - paying.before
<1>6. held[m] \in Nat /\ lane[m] \in Nat /\ held[m] = paying.before
  BY <1>2, <1>3 DEF PayRouted
<1>7. claimed = credit /\ credit \in Nat
  <2>1. ~wired => credit = 0
    BY <1>5
  <2>2. credit \in Nat
    BY <1>4
  <2>3. (lane[m] + credit) - lane[m] = credit
    <3> HIDE DEF credit
    <3> QED
      BY <1>6, <2>2
  <2> QED
    BY <2>1, <2>2, <2>3 DEF Credited
<1> HIDE DEF claimed, credit
<1>8. /\ net = pushed
      /\ lane[m] + credit - claimed = lane[m]
      /\ held[m] + (pushed - credit) + claimed - net = held[m]
  BY <1>4, <1>6, <1>7
<1>9. lane' = lane /\ held' = held
  BY <1>2, <1>3, <1>5, <1>8 DEF claimed, credit
<1> DEFINE kept == terms[t] = paying.checked
<1>10. claims' = [claims EXCEPT ![id].paid = [due |-> due, net |-> pushed, kept |-> kept]]
  BY <1>5, <1>8 DEF claimed, credit
<1> HIDE DEF kept
<1>11. /\ claims'[id] = [claims[id] EXCEPT !.paid = [due |-> due, net |-> pushed, kept |-> kept]]
       /\ \A other \in ClaimId \ {id} : claims'[other] = claims[other]
  BY <1>2, <1>10
<1>12. kept \in BOOLEAN
  BY DEF kept
<1>13. claims'[id] \in Entry
  BY <1>2, <1>4, <1>11, <1>12 DEF Entry
<1>14. claims' \in [ClaimId -> Entry]
  BY <1>2, <1>10, <1>11, <1>13
<1>15. ReceivablesTypeOK'
  BY <1>9, <1>14 DEF ReceivablesInv, ReceivablesTypeOK, Books, books, PayRouted
<1>16. /\ claims'[id].status = "SETTLED" /\ claims'[id].sold = claims[id].sold
       /\ claims'[id].holder = claims[id].holder /\ claims'[id].feeAtMint = claims[id].feeAtMint
       /\ claims'[id].paid.net = pushed /\ claims'[id].paid.due = due
       /\ claims'[id].paid.kept = kept
  BY <1>2, <1>11 DEF ReceivablesInv, InPull, PayRouted, Entry
<1>17. kept => pushed >= due - claims[id].feeAtMint
  <2> SUFFICES ASSUME terms[t] = paying.checked PROVE pushed >= due - claims[id].feeAtMint
    BY DEF kept
  <2>1. terms[t].here /\ terms[t].fee <= claims[id].feeAtMint
    BY DEF ReceivablesInv, InPull, PayRouted
  <2>2. terms[t] \in Terms
    BY <1>3 DEF ReceivablesInv, ReceivablesTypeOK, Books, books
  <2>3. terms[t].fee \in Nat /\ due \in Nat
    BY <2>2, Amounts DEF Terms
  <2>4. claims[id].feeAtMint \in Nat
    <3>1. claims[id].feeAtMint \in Surcharge \cup {0}
      BY <1>2 DEF Entry
    <3> QED
      BY <3>1, Amounts
  <2> QED
    BY <2>1, <2>3, <2>4, <1>4
<1>18. ClaimsHonoured'
  <2>1. Honoured(books, id)
    BY DEF ReceivablesInv, ClaimsHonoured
  <2>2. claims'[id].holder # Nobody <=> claims'[id].status = "OPEN"
    BY <1>2, <1>16, <2>1 DEF Honoured, ReceivablesInv, InPull, PayRouted, books
  <2>3. claims'[id].paid.kept => claims'[id].paid.net >= claims'[id].paid.due - claims'[id].feeAtMint
    BY <1>16, <1>17
  <2>4. claims'[id].sold => claims'[id].status \in {"OPEN", "SETTLED"}
    BY <1>16
  <2>5. \A other \in ClaimId \ {id} : claims'[other] = claims[other] /\ other # id
    BY <1>11
  <2>6. stray' = stray /\ paying'.id = Nobody
    BY DEF PayRouted, Resting
  <2> HIDE DEF id
  <2>7. Honoured(books', Nobody)
    BY <1>2, <1>9, <2>1, <2>2, <2>3, <2>4, <2>5, <2>6, OneEntry
  <2> QED
    BY <2>6, <2>7 DEF ClaimsHonoured
<1>19. InPull'
  BY DEF InPull, PayRouted
<1> QED
  BY <1>15, <1>18, <1>19 DEF ReceivablesInv

\* A revert goes back to books that were honoured when pay was entered.
LEMMA PayRevertsHonours ==
    ASSUME ReceivablesInv, PayReverts
    PROVE  ReceivablesInv'
<1>1. snapshot \in Books /\ Honoured(snapshot, Nobody)
  BY DEF ReceivablesInv, ReceivablesTypeOK, InPull, PayReverts
<1>2. books' = snapshot
  BY <1>1 DEF books, Books, PayReverts
<1>3. ReceivablesTypeOK'
  BY <1>1, <1>2 DEF ReceivablesTypeOK, PayReverts
<1>4. ClaimsHonoured'
  BY <1>1, <1>2 DEF ClaimsHonoured, PayReverts, Resting
<1> QED
  BY <1>3, <1>4 DEF ReceivablesInv, InPull, PayReverts

\* A native settlement is over in one step.
LEMMA PayClaimNativeHonours ==
    ASSUME ReceivablesInv, NEW id \in ClaimId, NEW due \in Due, PayClaimNative(id, due)
    PROVE  ReceivablesInv'
<1> DEFINE t == claims[id].of
           pushed == Pushed(t, due)
<1>1. /\ claims \in [ClaimId -> Entry] /\ claims[id] \in Entry
      /\ held \in [Money -> Nat] /\ Coin \in Money
  BY DEF ReceivablesInv, ReceivablesTypeOK, Books, books, Money
<1>2. t \in Tenant /\ held[Coin] \in Nat
  BY <1>1 DEF Entry
<1>3. pushed \in Nat /\ pushed = due - terms[t].fee
  BY <1>2, PushedIsNat DEF ReceivablesInv, PayClaimNative, Payable
<1> HIDE DEF pushed
<1>4. /\ (held[Coin] + pushed) - held[Coin] = pushed
      /\ held[Coin] + pushed - pushed = held[Coin]
  BY <1>2, <1>3
<1>5. held' = held
  BY <1>1, <1>4 DEF PayClaimNative, pushed
<1> DEFINE paid == [due |-> due, net |-> pushed, kept |-> TRUE]
           entry == [claims[id] EXCEPT !.status = "SETTLED", !.holder = Nobody, !.paid = paid]
<1>6. claims' = [claims EXCEPT ![id] = entry]
  BY <1>4 DEF PayClaimNative, pushed
<1>7. entry \in Entry
  BY <1>1, <1>3 DEF Entry, Status
<1>8. claims'[id] = entry /\ \A other \in ClaimId \ {id} : claims'[other] = claims[other]
  BY <1>1, <1>6
<1>9. ReceivablesTypeOK'
  <2>1. claims' \in [ClaimId -> Entry]
    BY <1>1, <1>6, <1>7
  <2> QED
    BY <1>5, <2>1 DEF ReceivablesInv, ReceivablesTypeOK, PayClaimNative, Books, books
<1>10. /\ entry.status = "SETTLED" /\ entry.holder = Nobody
       /\ entry.paid.net = pushed /\ entry.paid.due = due
       /\ entry.feeAtMint = claims[id].feeAtMint
  BY <1>1 DEF Entry
<1> HIDE DEF entry
<1>11. pushed >= due - claims[id].feeAtMint
  <2>1. terms[t].fee <= claims[id].feeAtMint
    BY DEF PayClaimNative, Payable
  <2>2. terms[t] \in Terms
    BY <1>2 DEF ReceivablesInv, ReceivablesTypeOK, Books, books
  <2>3. terms[t].fee \in Nat /\ due \in Nat
    BY <2>2, Amounts DEF Terms
  <2>4. claims[id].feeAtMint \in Nat
    <3>1. claims[id].feeAtMint \in Surcharge \cup {0}
      BY <1>1 DEF Entry
    <3> QED
      BY <3>1, Amounts
  <2> QED
    BY <2>1, <2>3, <2>4, <1>3
<1>12. ClaimsHonoured'
  <2>1. Honoured(books, Nobody) /\ paying'.id = Nobody
    BY DEF ReceivablesInv, ClaimsHonoured, PayClaimNative, Payable, Resting
  <2>2. \A other \in ClaimId \ {id} : claims'[other] = claims[other] /\ other # Nobody
    BY <1>8, ReceivablesAssumption
  <2>3. /\ entry.sold => entry.status \in {"OPEN", "SETTLED"}
        /\ entry.holder # Nobody <=> entry.status = "OPEN"
        /\ entry.paid.net >= entry.paid.due - entry.feeAtMint
    BY <1>10, <1>11
  <2>4. lane' = lane /\ stray' = stray
    BY DEF PayClaimNative
  <2>5. Honoured(books', Nobody)
    BY <1>5, <1>8, <2>1, <2>2, <2>3, <2>4, OneEntry
  <2> QED
    BY <2>1, <2>5 DEF ClaimsHonoured
<1>13. InPull'
  BY DEF InPull, PayClaimNative, Payable
<1> QED
  BY <1>9, <1>12, <1>13 DEF ReceivablesInv

\* Direct payments add as much to a balance or a lane as they leave astray in it.
LEMMA PayDirectlyHonours ==
    ASSUME ReceivablesInv, NEW t \in Tenant, NEW m \in Money, NEW due \in Due,
           PayDirectly(t, m, due)
    PROVE  ReceivablesInv'
<1> DEFINE net == due - terms[t].fee
<1>1. net \in Nat
  <2>1. net = Pushed(t, due)
    BY DEF Pushed, PayDirectly
  <2> QED
    BY <2>1, PushedIsNat DEF ReceivablesInv
<1> HIDE DEF net
<1>2. /\ held \in [Money -> Nat] /\ lane \in [Money -> Nat]
      /\ stray \in [Money -> [held : Nat, lane : Nat]]
      /\ terms \in [Tenant -> Terms] /\ wired \in BOOLEAN
  BY DEF ReceivablesInv, ReceivablesTypeOK, Books, books
<1>3. \A k \in Money : held[k] = stray[k].held /\ lane[k] = stray[k].lane
  BY DEF ReceivablesInv, ClaimsHonoured, Honoured, books
<1>4. held[m] + net \in Nat /\ lane[m] + net \in Nat /\ stray[m].held + net \in Nat
      /\ stray[m].lane + net \in Nat /\ stray[m].held \in Nat /\ stray[m].lane \in Nat
  BY <1>1, <1>2
<1>5. CASE /\ held' = [held EXCEPT ![m] = @ + net]
           /\ stray' = [stray EXCEPT ![m].held = @ + net]
           /\ lane' = lane
  <2>1. stray'[m] = [held |-> stray[m].held + net, lane |-> stray[m].lane]
    BY <1>2, <1>5
  <2>2. \A k \in Money \ {m} : held'[k] = held[k] /\ stray'[k] = stray[k]
    BY <1>2, <1>5
  <2>3. held'[m] = held[m] + net
    BY <1>2, <1>5
  <2>4. held' \in [Money -> Nat]
    BY <1>2, <1>4, <1>5
  <2>5. stray' \in [Money -> [held : Nat, lane : Nat]]
    BY <1>2, <1>4, <1>5, <2>1, <2>2
  <2>6. ASSUME NEW k \in Money PROVE held'[k] = stray'[k].held /\ lane'[k] = stray'[k].lane
    <3>1. CASE k = m
      BY <1>3, <1>5, <2>1, <2>3, <3>1
    <3>2. CASE k # m
      BY <1>3, <1>5, <2>2, <3>2
    <3> QED
      BY <3>1, <3>2
  <2> QED
    BY <1>2, <1>5, <2>4, <2>5, <2>6, RouterSide DEF PayDirectly
<1>6. CASE /\ lane' = [lane EXCEPT ![m] = @ + net]
           /\ stray' = [stray EXCEPT ![m].lane = @ + net]
           /\ held' = held
  <2>1. stray'[m] = [held |-> stray[m].held, lane |-> stray[m].lane + net]
    BY <1>2, <1>6
  <2>2. \A k \in Money \ {m} : lane'[k] = lane[k] /\ stray'[k] = stray[k]
    BY <1>2, <1>6
  <2>3. lane'[m] = lane[m] + net
    BY <1>2, <1>6
  <2>4. lane' \in [Money -> Nat]
    BY <1>2, <1>4, <1>6
  <2>5. stray' \in [Money -> [held : Nat, lane : Nat]]
    BY <1>2, <1>4, <1>6, <2>1, <2>2
  <2>6. ASSUME NEW k \in Money PROVE held'[k] = stray'[k].held /\ lane'[k] = stray'[k].lane
    <3>1. CASE k = m
      BY <1>3, <1>6, <2>1, <2>3, <3>1
    <3>2. CASE k # m
      BY <1>3, <1>6, <2>2, <3>2
    <3> QED
      BY <3>1, <3>2
  <2> QED
    BY <1>2, <1>6, <2>4, <2>5, <2>6, RouterSide DEF PayDirectly
<1> QED
  BY <1>5, <1>6 DEF PayDirectly, net

\* Terms and wiring may change at any time: what pay checked is in its frame.
LEMMA TermsMoveHonours ==
    ASSUME ReceivablesInv,
           \/ \E t \in Tenant, new \in Terms : UpdateTerms(t, new)
           \/ \E on \in BOOLEAN : Wire(on)
    PROVE  ReceivablesInv'
<1>1. /\ held \in [Money -> Nat] /\ lane \in [Money -> Nat]
      /\ stray \in [Money -> [held : Nat, lane : Nat]]
      /\ terms \in [Tenant -> Terms] /\ wired \in BOOLEAN
  BY DEF ReceivablesInv, ReceivablesTypeOK, Books, books
<1>2. \A m \in Money : held[m] = stray[m].held /\ lane[m] = stray[m].lane
  BY DEF ReceivablesInv, ClaimsHonoured, Honoured, books
<1>3. ASSUME NEW t \in Tenant, NEW new \in Terms, UpdateTerms(t, new) PROVE ReceivablesInv'
  <2>1. terms' \in [Tenant -> Terms]
    BY <1>1, <1>3 DEF UpdateTerms
  <2> QED
    BY <1>1, <1>2, <1>3, <2>1, RouterSide DEF UpdateTerms
<1>4. ASSUME NEW on \in BOOLEAN, Wire(on) PROVE ReceivablesInv'
  BY <1>1, <1>2, <1>4, RouterSide DEF Wire
<1> QED
  BY <1>3, <1>4

\* Mint and cancel need a claim that no frame can be at: its claim is settled.
LEMMA LifeHonours ==
    ASSUME ReceivablesInv, NEW id \in ClaimId,
           \/ \E t \in Tenant, creditor \in Creditor, m \in Money : Mint(id, t, creditor, m)
           \/ \E to \in Creditor : Assign(id, to)
           \/ Cancel(id)
    PROVE  ReceivablesInv'
<1>1. /\ claims \in [ClaimId -> Entry] /\ claims[id] \in Entry
      /\ terms \in [Tenant -> Terms]
  BY DEF ReceivablesInv, ReceivablesTypeOK, Books, books
<1>2. Nobody \notin Creditor /\ id # Nobody
  BY ReceivablesAssumption
<1>3. claims[id].status # "SETTLED" => id # paying.id
  BY <1>2 DEF ReceivablesInv, InPull, Resting
<1>4. ASSUME NEW t \in Tenant, NEW creditor \in Creditor, NEW m \in Money,
             Mint(id, t, creditor, m)
      PROVE  ReceivablesInv'
  <2> DEFINE entry == [Unminted EXCEPT !.status = "OPEN", !.of = t, !.asset = m,
                          !.feeAtMint = terms[t].fee, !.holder = creditor]
  <2>1. terms[t].fee \in Surcharge
    BY <1>1 DEF Terms
  <2>2. entry \in Entry
    BY <2>1, FreshIsEntry DEF Entry, Status
  <2>3. ~entry.sold /\ entry.holder # Nobody /\ entry.status = "OPEN"
    BY <1>2, FreshIsEntry DEF Entry
  <2>4. claims' = [claims EXCEPT ![id] = entry]
    BY <1>4 DEF Mint
  <2>5. id # paying.id
    BY <1>3, <1>4 DEF Mint
  <2> HIDE DEF entry
  <2> QED
    BY <1>4, <2>2, <2>3, <2>4, <2>5, EntryChanged DEF Mint
<1>5. ASSUME NEW to \in Creditor, Assign(id, to)
      PROVE  ReceivablesInv'
  <2> DEFINE entry == [claims[id] EXCEPT !.holder = to, !.sold = TRUE]
  <2>1. claims[id].status = "OPEN"
    BY <1>5 DEF Assign, ReceivablesInv, ClaimsHonoured, Honoured, books
  <2>2. entry \in Entry
    BY <1>1 DEF Entry
  <2>3. claims' = [claims EXCEPT ![id] = entry]
    BY <1>5 DEF Assign
  <2>4. id # paying.id
    BY <1>3, <2>1
  <2>5. entry.status = "OPEN" /\ entry.holder # Nobody
    BY <1>1, <1>2, <2>1 DEF Entry
  <2> HIDE DEF entry
  <2> QED
    BY <1>5, <2>2, <2>3, <2>4, <2>5, EntryChanged DEF Assign
<1>6. ASSUME Cancel(id)
      PROVE  ReceivablesInv'
  <2> DEFINE entry == [claims[id] EXCEPT !.status = "CANCELLED", !.holder = Nobody]
  <2>1. entry \in Entry
    BY <1>1 DEF Entry, Status
  <2>2. claims' = [claims EXCEPT ![id] = entry]
    BY <1>6 DEF Cancel
  <2>3. id # paying.id
    BY <1>3, <1>6 DEF Cancel
  <2>4. ~entry.sold /\ entry.holder = Nobody /\ entry.status = "CANCELLED"
    BY <1>1, <1>6 DEF Entry, Cancel
  <2> HIDE DEF entry
  <2> QED
    BY <1>6, <2>1, <2>2, <2>3, <2>4, EntryChanged DEF Cancel
<1> QED
  BY <1>4, <1>5, <1>6

\* Each settlement of Receivables.sol forwards its own net and nothing that others left
\* in the balance or the lane; a claim that was sold is never cancelled and pays what it
\* was sold for, for any number of claims, merchants, assets and amounts.
THEOREM ClaimsAlwaysHonoured == ReceivablesSpec => []ClaimsHonoured
<1>1. ReceivablesInit => ReceivablesInv
  BY InitHonoured
<1>2. ReceivablesInv /\ [ReceivablesNext]_receivablesVars => ReceivablesInv'
  <2> SUFFICES ASSUME ReceivablesInv, [ReceivablesNext]_receivablesVars
               PROVE  ReceivablesInv'
    OBVIOUS
  <2>1. ASSUME NEW t \in Tenant, NEW new \in Terms, UpdateTerms(t, new) PROVE ReceivablesInv'
    BY <2>1, TermsMoveHonours
  <2>2. ASSUME NEW t \in Tenant, NEW m \in Money, NEW due \in Due, PayDirectly(t, m, due)
        PROVE  ReceivablesInv'
    BY <2>2, PayDirectlyHonours
  <2>3. ASSUME NEW on \in BOOLEAN, Wire(on) PROVE ReceivablesInv'
    BY <2>3, TermsMoveHonours
  <2>4. ASSUME NEW id \in ClaimId, NEW t \in Tenant, NEW creditor \in Creditor,
               NEW m \in Money, Mint(id, t, creditor, m)
        PROVE  ReceivablesInv'
    BY <2>4, LifeHonours
  <2>5. ASSUME NEW id \in ClaimId, NEW to \in Creditor, Assign(id, to) PROVE ReceivablesInv'
    BY <2>5, LifeHonours
  <2>6. ASSUME NEW id \in ClaimId, Cancel(id) PROVE ReceivablesInv'
    BY <2>6, LifeHonours
  <2>7. ASSUME NEW id \in ClaimId, PayBegins(id) PROVE ReceivablesInv'
    BY <2>7, PayBeginsHonours
  <2>8. ASSUME NEW id \in ClaimId, NEW due \in Due, PayClaimNative(id, due) PROVE ReceivablesInv'
    BY <2>8, PayClaimNativeHonours
  <2>9. ASSUME NEW due \in Due, PayRouted(due) PROVE ReceivablesInv'
    BY <2>9, PayRoutedHonours
  <2>10. CASE PayReverts
    BY <2>10, PayRevertsHonours
  <2>11. CASE UNCHANGED receivablesVars
    BY <2>11 DEF receivablesVars, chargeVars, ReceivablesInv, ReceivablesTypeOK,
                 ClaimsHonoured, InPull, books
  <2> QED
    BY <2>1, <2>2, <2>3, <2>4, <2>5, <2>6, <2>7, <2>8, <2>9, <2>10, <2>11
       DEF ReceivablesNext
<1>3. ReceivablesInv => ClaimsHonoured
  BY DEF ReceivablesInv
<1> QED
  BY <1>1, <1>2, <1>3, PTL DEF ReceivablesSpec

-----------------------------------------------------------------------------
(* The prepaid cards.  What stands as spent of a card is a sum over the        *)
(* redemptions that count; as a sum over all ids, of which the others count    *)
(* nothing, it changes by one term when an id is used or taken back.           *)

\* What a redemption stands for as spent of a card.
StandingOf(r, card) == IF r # Unused /\ r.card = card /\ ~r.reversed THEN r.applied ELSE 0

Standing(rs, card) == SumFunction([id \in RedemptionId |-> StandingOf(rs[id], card)])

\* What the holders have of a card.
HoldingsOf(b, card) == [h \in Cardholder |-> b[h][card]]

Had(b, card) == SumFunction(HoldingsOf(b, card))

CardsTyped ==
    /\ balances \in [Cardholder -> [Card -> Nat]]
    /\ redemptions \in [RedemptionId -> Redemption \cup {Unused}]
    /\ issued \in [Card -> Nat]

CardsInv ==
    /\ CardsTyped
    /\ \A card \in Card : Had(balances, card) + Standing(redemptions, card) = issued[card]

\* What a redemption stands for is a natural number.
LEMMA StandingTyped ==
    ASSUME NEW r \in Redemption \cup {Unused}, NEW card \in Card
    PROVE  StandingOf(r, card) \in Nat
  BY CardsAssumption DEF StandingOf, Redemption

\* Both sums are integers.
LEMMA HadInt ==
    ASSUME NEW b \in [Cardholder -> [Card -> Nat]], NEW card \in Card
    PROVE  Had(b, card) \in Int
<1>1. HoldingsOf(b, card) \in [Cardholder -> Int]
  BY DEF HoldingsOf
<1> QED
  BY <1>1, SumInt, CardsAssumption DEF Had

LEMMA StandingInt ==
    ASSUME NEW rs \in [RedemptionId -> Redemption \cup {Unused}], NEW card \in Card
    PROVE  Standing(rs, card) \in Int
<1> DEFINE g == [id \in RedemptionId |-> StandingOf(rs[id], card)]
<1>1. g \in [RedemptionId -> Int]
  BY StandingTyped
<1> HIDE DEF g
<1>2. SumFunction(g) \in Int
  BY <1>1, SumInt, CardsAssumption
<1> QED
  BY <1>2 DEF Standing, g

\* The holders' sum of a card changes with one of its terms.
LEMMA HoldingsChange ==
    ASSUME NEW b, NEW c, NEW holder \in Cardholder, NEW card,
           HoldingsOf(b, card) \in [Cardholder -> Int],
           HoldingsOf(c, card) \in [Cardholder -> Int],
           \A h \in Cardholder :
               h # holder => HoldingsOf(c, card)[h] = HoldingsOf(b, card)[h]
    PROVE  Had(c, card) = Had(b, card) + HoldingsOf(c, card)[holder]
                          - HoldingsOf(b, card)[holder]
<1>1. IsFiniteSet(Cardholder)
  BY CardsAssumption
<1> QED
  BY <1>1, SumChange DEF Had

Purses == [Cardholder -> [Card -> Nat]]

\* Changing what one holder has of a card changes what the holders have of it by as
\* much, and of no other card.
LEMMA HadAfter ==
    ASSUME NEW b, b \in Purses, NEW c, c \in Purses, NEW holder \in Cardholder,
           NEW card \in Card, DifferAt(b, c, Cardholder, Card, holder, card)
    PROVE  /\ Had(c, card) = Had(b, card) + c[holder][card] - b[holder][card]
           /\ \A k \in Card : k # card => Had(c, k) = Had(b, k)
<1> USE DEF Purses, DifferAt
<1>1. /\ HoldingsOf(b, card) \in [Cardholder -> Int]
      /\ HoldingsOf(c, card) \in [Cardholder -> Int]
  BY DEF HoldingsOf
<1>2. \A h \in Cardholder : h # holder => HoldingsOf(c, card)[h] = HoldingsOf(b, card)[h]
  BY DEF HoldingsOf
<1>3. /\ HoldingsOf(b, card)[holder] = b[holder][card]
      /\ HoldingsOf(c, card)[holder] = c[holder][card]
  BY DEF HoldingsOf
<1>4. Had(c, card) = Had(b, card) + HoldingsOf(c, card)[holder] - HoldingsOf(b, card)[holder]
  BY <1>1, <1>2, HoldingsChange
<1>5. ASSUME NEW k \in Card, k # card PROVE Had(c, k) = Had(b, k)
  <2>1. HoldingsOf(c, k) = HoldingsOf(b, k)
    BY <1>5 DEF HoldingsOf
  <2> QED
    BY <2>1 DEF Had
<1> QED
  BY <1>3, <1>4, <1>5

\* Changing one redemption changes what stands as spent by what it stands for.
LEMMA StandingAfter ==
    ASSUME NEW rs \in [RedemptionId -> Redemption \cup {Unused}],
           NEW rt \in [RedemptionId -> Redemption \cup {Unused}], NEW id \in RedemptionId,
           \A i \in RedemptionId : i # id => rt[i] = rs[i], NEW card \in Card
    PROVE  Standing(rt, card) =
               Standing(rs, card) + StandingOf(rt[id], card) - StandingOf(rs[id], card)
<1> DEFINE f == [i \in RedemptionId |-> StandingOf(rs[i], card)]
           g == [i \in RedemptionId |-> StandingOf(rt[i], card)]
<1>1. f \in [RedemptionId -> Int] /\ g \in [RedemptionId -> Int]
  BY StandingTyped
<1>2. \A i \in RedemptionId : i # id => g[i] = f[i]
  OBVIOUS
<1>3. f[id] = StandingOf(rs[id], card) /\ g[id] = StandingOf(rt[id], card)
  OBVIOUS
<1>4. Standing(rs, card) = SumFunction(f) /\ Standing(rt, card) = SumFunction(g)
  BY DEF Standing
<1> HIDE DEF f, g
<1>5. SumFunction(g) = SumFunction(f) + g[id] - f[id]
  BY <1>1, <1>2, SumChange, CardsAssumption
<1> QED
  BY <1>3, <1>4, <1>5

\* The sum over the redemptions that count is the sum over all of them.
LEMMA SpentIsStanding ==
    ASSUME CardsTyped, NEW card \in Card
    PROVE  Spent(card) = Standing(redemptions, card)
<1> DEFINE counts == {id \in RedemptionId : /\ redemptions[id] # Unused
                                            /\ redemptions[id].card = card
                                            /\ ~redemptions[id].reversed}
           f == [id \in RedemptionId |-> StandingOf(redemptions[id], card)]
<1>1. f \in [RedemptionId -> Int]
  BY StandingTyped DEF CardsTyped
<1>2. [id \in counts |-> redemptions[id].applied] = [id \in counts |-> f[id]]
  BY DEF StandingOf
<1>3. [id \in RedemptionId |-> IF id \in counts THEN f[id] ELSE 0] = f
  BY DEF StandingOf
<1>4. counts \in SUBSET RedemptionId
  OBVIOUS
<1>5. Spent(card) = SumFunction([id \in counts |-> f[id]])
  BY <1>2 DEF Spent
<1>6. Standing(redemptions, card) = SumFunction(f)
  BY DEF Standing
<1> HIDE DEF f, counts
<1>7. SumFunction([id \in counts |-> f[id]]) =
          SumFunction([id \in RedemptionId |-> IF id \in counts THEN f[id] ELSE 0])
  BY <1>1, <1>4, SumPart, CardsAssumption
<1> QED
  BY <1>3, <1>5, <1>6, <1>7

\* Issuing adds as much to a holder as to what was issued.
LEMMA IssueBacks ==
    ASSUME CardsInv, NEW card \in Card, NEW recipient \in Cardholder,
           NEW face \in Usd, IssueCard(card, recipient, face)
    PROVE  CardsInv'
<1>1. face \in Nat /\ balances[recipient][card] \in Nat /\ issued[card] \in Nat
  BY CardsAssumption DEF CardsInv, CardsTyped
<1>2. /\ balances \in [Cardholder -> [Card -> Nat]]
      /\ redemptions \in [RedemptionId -> Redemption \cup {Unused}]
      /\ balances' = [balances EXCEPT ![recipient][card] = @ + face]
      /\ issued' = [issued EXCEPT ![card] = @ + face] /\ redemptions' = redemptions
  BY DEF CardsInv, CardsTyped, IssueCard
<1>3. /\ balances' \in [Cardholder -> [Card -> Nat]]
      /\ balances'[recipient][card] = balances[recipient][card] + face
      /\ \A h \in Cardholder, k \in Card :
             h # recipient \/ k # card => balances'[h][k] = balances[h][k]
  BY <1>1, <1>2
<1>4. /\ issued' \in [Card -> Nat] /\ issued'[card] = issued[card] + face
      /\ \A k \in Card : k # card => issued'[k] = issued[k]
  BY <1>1, <1>2 DEF CardsInv, CardsTyped
<1>5. /\ Had(balances', card) = Had(balances, card) + balances'[recipient][card]
                                - balances[recipient][card]
      /\ \A k \in Card : k # card => Had(balances', k) = Had(balances, k)
  <2>1. /\ balances \in Purses /\ balances' \in Purses
        /\ DifferAt(balances, balances', Cardholder, Card, recipient, card)
    BY <1>2, <1>3 DEF Purses, DifferAt
  <2> QED
    BY ONLY <2>1, HadAfter, recipient \in Cardholder, card \in Card
<1>6. ASSUME NEW k \in Card
      PROVE  Had(balances', k) + Standing(redemptions', k) = issued'[k]
  <2>1. Had(balances, k) \in Int /\ Standing(redemptions, k) \in Int
    BY <1>2, HadInt, StandingInt
  <2>2. Had(balances, k) + Standing(redemptions, k) = issued[k]
    BY DEF CardsInv
  <2>3. CASE k = card
    BY <1>1, <1>2, <1>3, <1>4, <1>5, <2>1, <2>2, <2>3
  <2>4. CASE k # card
    BY <1>2, <1>4, <1>5, <2>2, <2>4
  <2> QED
    BY <2>3, <2>4
<1> QED
  BY <1>2, <1>3, <1>4, <1>6 DEF CardsInv, CardsTyped

\* One holder's balance of a card and one redemption of it change by opposite amounts.
LEMMA RedemptionBacks ==
    ASSUME CardsInv, NEW holder \in Cardholder, NEW card \in Card,
           NEW id \in RedemptionId, issued' = issued,
           balances' \in [Cardholder -> [Card -> Nat]],
           \A h \in Cardholder, k \in Card :
               h # holder \/ k # card => balances'[h][k] = balances[h][k],
           redemptions' \in [RedemptionId -> Redemption \cup {Unused}],
           \A i \in RedemptionId : i # id => redemptions'[i] = redemptions[i],
           \A k \in Card : StandingOf(redemptions'[id], k) - StandingOf(redemptions[id], k)
               = IF k = card THEN balances[holder][card] - balances'[holder][card] ELSE 0
    PROVE  CardsInv'
<1>1. /\ balances \in [Cardholder -> [Card -> Nat]]
      /\ redemptions \in [RedemptionId -> Redemption \cup {Unused}]
      /\ balances[holder][card] \in Nat /\ balances'[holder][card] \in Nat
  BY DEF CardsInv, CardsTyped
<1>2. /\ Had(balances', card) = Had(balances, card) + balances'[holder][card]
                                - balances[holder][card]
      /\ \A k \in Card : k # card => Had(balances', k) = Had(balances, k)
  <2>1. /\ balances \in Purses /\ balances' \in Purses
        /\ DifferAt(balances, balances', Cardholder, Card, holder, card)
    BY <1>1 DEF Purses, DifferAt
  <2> QED
    BY ONLY <2>1, HadAfter, holder \in Cardholder, card \in Card
<1>3. ASSUME NEW k \in Card
      PROVE  Had(balances', k) + Standing(redemptions', k) = issued'[k]
  <2>1. /\ Had(balances, k) \in Int /\ Standing(redemptions, k) \in Int
        /\ StandingOf(redemptions'[id], k) \in Int /\ StandingOf(redemptions[id], k) \in Int
    <3>1. /\ redemptions[id] \in Redemption \cup {Unused}
          /\ redemptions'[id] \in Redemption \cup {Unused}
      BY <1>1
    <3>2. Had(balances, k) \in Int
      BY <1>1, HadInt
    <3>3. Standing(redemptions, k) \in Int
      BY <1>1, StandingInt
    <3>4. StandingOf(redemptions'[id], k) \in Int /\ StandingOf(redemptions[id], k) \in Int
      BY <3>1, StandingTyped
    <3> QED
      BY <3>2, <3>3, <3>4
  <2>2. Had(balances, k) + Standing(redemptions, k) = issued[k]
    BY DEF CardsInv
  <2>3. Standing(redemptions', k) = Standing(redemptions, k)
            + StandingOf(redemptions'[id], k) - StandingOf(redemptions[id], k)
    <3>1. ASSUME NEW rt \in [RedemptionId -> Redemption \cup {Unused}],
                 \A i \in RedemptionId : i # id => rt[i] = redemptions[i]
          PROVE  Standing(rt, k) = Standing(redemptions, k)
                     + StandingOf(rt[id], k) - StandingOf(redemptions[id], k)
      BY <1>1, <3>1, StandingAfter
    <3> QED
      BY <3>1
  <2>4. CASE k = card
    BY <1>1, <1>2, <2>1, <2>2, <2>3, <2>4
  <2>5. CASE k # card
    BY <1>2, <2>1, <2>2, <2>3, <2>5
  <2> QED
    BY <2>4, <2>5
<1> QED
  BY <1>3 DEF CardsInv, CardsTyped

\* A redeem stands for what it took; an id is used once.
LEMMA RedeemBacks ==
    ASSUME CardsInv, NEW holder \in Cardholder, NEW card \in Card,
           NEW amount \in Usd, NEW id \in RedemptionId, RedeemCard(holder, card, amount, id)
    PROVE  CardsInv'
<1> DEFINE there == balances[holder][card]
           applied == IF there < amount THEN there ELSE amount
           r == [holder |-> holder, card |-> card, applied |-> applied, reversed |-> FALSE]
<1>1. there \in Nat /\ amount \in Nat
  BY CardsAssumption DEF CardsInv, CardsTyped
<1>2. applied \in Nat /\ there - applied \in Nat
  <2> HIDE DEF there
  <2> QED
    BY <1>1
<1>3. r \in Redemption
  <2> HIDE DEF applied
  <2> QED
    BY <1>2 DEF Redemption
<1>4. /\ redemptions[id] = Unused /\ issued' = issued
      /\ redemptions' = [redemptions EXCEPT ![id] = r]
      /\ balances' = [balances EXCEPT ![holder][card] = there - applied]
  BY DEF RedeemCard
<1>5. ASSUME NEW k \in Card
      PROVE  StandingOf(r, k) - StandingOf(redemptions[id], k)
                 = IF k = card THEN there - (there - applied) ELSE 0
  <2>1. StandingOf(redemptions[id], k) = 0
    BY <1>4 DEF StandingOf
  <2>2. r # Unused
    BY <1>3, CardsAssumption
  <2>3. r.card = card /\ r.applied = applied /\ r.reversed = FALSE
    OBVIOUS
  <2> HIDE DEF r
  <2>4. StandingOf(r, k) = IF card = k THEN applied ELSE 0
    BY <2>2, <2>3 DEF StandingOf
  <2> HIDE DEF there, applied
  <2> QED
    BY <1>1, <1>2, <2>1, <2>4
<1>6. there = balances[holder][card]
  OBVIOUS
<1> HIDE DEF r, applied, there
<1>7. /\ balances' \in [Cardholder -> [Card -> Nat]]
      /\ balances'[holder][card] = there - applied
      /\ \A h \in Cardholder, k \in Card :
             h # holder \/ k # card => balances'[h][k] = balances[h][k]
  BY <1>2, <1>4 DEF CardsInv, CardsTyped
<1>8. /\ redemptions' \in [RedemptionId -> Redemption \cup {Unused}]
      /\ redemptions'[id] = r
      /\ \A i \in RedemptionId : i # id => redemptions'[i] = redemptions[i]
  BY <1>3, <1>4 DEF CardsInv, CardsTyped
<1>9. \A k \in Card : StandingOf(redemptions'[id], k) - StandingOf(redemptions[id], k)
          = IF k = card THEN balances[holder][card] - balances'[holder][card] ELSE 0
  BY <1>5, <1>6, <1>7, <1>8
<1> QED
  BY <1>4, <1>7, <1>8, <1>9, RedemptionBacks

\* A reversal gives back what the redemption took, to its holder, once.
LEMMA ReversalBacks ==
    ASSUME CardsInv, NEW id \in RedemptionId, ReverseRedemption(id)
    PROVE  CardsInv'
<1> DEFINE old == redemptions[id]
           r == [old EXCEPT !.reversed = TRUE]
           left == balances[old.holder][old.card] + old.applied
<1>1. CASE ~Reversible(id)
  BY <1>1 DEF ReverseRedemption, CardsInv, CardsTyped
<1>2. CASE Reversible(id)
  <2>1. old \in Redemption /\ old # Unused /\ ~old.reversed
    BY <1>2 DEF Reversible, CardsInv, CardsTyped
  <2>2. /\ redemptions' = [redemptions EXCEPT ![id].reversed = TRUE]
        /\ balances' = [balances EXCEPT ![old.holder][old.card] = left]
        /\ issued' = issued
    BY <1>2 DEF ReverseRedemption
  <2>3. redemptions' = [redemptions EXCEPT ![id] = r]
    BY <2>1, <2>2
  <2>4. old.holder \in Cardholder /\ old.card \in Card /\ old.applied \in Nat
    BY <2>1 DEF Redemption
  <2>5. left \in Nat /\ balances[old.holder][old.card] \in Nat
    BY <2>4 DEF CardsInv, CardsTyped
  <2>6. /\ r \in Redemption /\ r.reversed = TRUE /\ r.card = old.card
        /\ r.applied = old.applied
    BY <2>1 DEF Redemption
  <2>7. left = balances[old.holder][old.card] + old.applied
    OBVIOUS
  <2> HIDE DEF r, left, old
  <2>8. ASSUME NEW k \in Card
        PROVE  StandingOf(r, k) - StandingOf(old, k)
                   = IF k = old.card THEN balances[old.holder][old.card] - left ELSE 0
    <3>1. StandingOf(r, k) = 0
      BY <2>6 DEF StandingOf
    <3>2. StandingOf(old, k) = IF old.card = k THEN old.applied ELSE 0
      BY <2>1 DEF StandingOf
    <3> QED
      BY <2>4, <2>5, <2>7, <3>1, <3>2
  <2>9. old = redemptions[id]
    BY DEF old
  <2>10. /\ balances' \in [Cardholder -> [Card -> Nat]]
         /\ balances'[old.holder][old.card] = left
         /\ \A h \in Cardholder, k \in Card :
                h # old.holder \/ k # old.card => balances'[h][k] = balances[h][k]
    BY <2>2, <2>4, <2>5 DEF CardsInv, CardsTyped
  <2>11. /\ redemptions' \in [RedemptionId -> Redemption \cup {Unused}]
         /\ redemptions'[id] = r
         /\ \A i \in RedemptionId : i # id => redemptions'[i] = redemptions[i]
    BY <2>3, <2>6 DEF CardsInv, CardsTyped
  <2>12. \A k \in Card : StandingOf(redemptions'[id], k) - StandingOf(redemptions[id], k)
             = IF k = old.card
               THEN balances[old.holder][old.card] - balances'[old.holder][old.card] ELSE 0
    BY <2>8, <2>9, <2>10, <2>11
  <2> QED
    BY <2>2, <2>4, <2>10, <2>11, <2>12, RedemptionBacks
<1> QED
  BY <1>1, <1>2

\* A transfer takes from one what it gives another, to itself included.
LEMMA TransferBacks ==
    ASSUME CardsInv, NEW from \in Cardholder, NEW to \in Cardholder,
           NEW card \in Card, NEW amount \in Usd, TransferCard(from, to, card, amount)
    PROVE  CardsInv'
<1> DEFINE debited == [balances EXCEPT ![from][card] = @ - amount]
<1>1. /\ balances \in [Cardholder -> [Card -> Nat]] /\ amount \in Nat
      /\ balances[from][card] \in Nat /\ balances[from][card] >= amount
      /\ redemptions \in [RedemptionId -> Redemption \cup {Unused}]
      /\ redemptions' = redemptions /\ issued' = issued
      /\ balances' = [debited EXCEPT ![to][card] = @ + amount]
  BY CardsAssumption DEF CardsInv, CardsTyped, TransferCard
<1>2. /\ debited \in [Cardholder -> [Card -> Nat]]
      /\ debited[from][card] = balances[from][card] - amount
      /\ \A h \in Cardholder, k \in Card :
             h # from \/ k # card => debited[h][k] = balances[h][k]
  <2>1. balances[from][card] - amount \in Nat
    BY <1>1
  <2> QED
    BY <1>1, <2>1
<1> HIDE DEF debited
<1>3. /\ balances' \in [Cardholder -> [Card -> Nat]]
      /\ balances'[to][card] = debited[to][card] + amount
      /\ \A h \in Cardholder, k \in Card :
             h # to \/ k # card => balances'[h][k] = debited[h][k]
  BY <1>1, <1>2
<1>4. /\ Had(debited, card) = Had(balances, card) + debited[from][card]
                              - balances[from][card]
      /\ \A k \in Card : k # card => Had(debited, k) = Had(balances, k)
  <2>1. /\ balances \in Purses /\ debited \in Purses
        /\ DifferAt(balances, debited, Cardholder, Card, from, card)
    BY <1>1, <1>2 DEF Purses, DifferAt
  <2> QED
    BY ONLY <2>1, HadAfter, from \in Cardholder, card \in Card
<1>5. /\ Had(balances', card) = Had(debited, card) + balances'[to][card] - debited[to][card]
      /\ \A k \in Card : k # card => Had(balances', k) = Had(debited, k)
  <2>1. /\ debited \in Purses /\ balances' \in Purses
        /\ DifferAt(debited, balances', Cardholder, Card, to, card)
    BY <1>2, <1>3 DEF Purses, DifferAt
  <2> QED
    BY ONLY <2>1, HadAfter, to \in Cardholder, card \in Card
<1>6. ASSUME NEW k \in Card PROVE Had(balances', k) = Had(balances, k)
  <2>1. Had(balances, card) \in Int /\ debited[to][card] \in Int
    BY <1>1, <1>2, HadInt
  <2>2. CASE k = card
    BY <1>1, <1>2, <1>3, <1>4, <1>5, <2>1, <2>2
  <2>3. CASE k # card
    BY <1>4, <1>5, <2>3
  <2> QED
    BY <2>2, <2>3
<1> QED
  BY <1>1, <1>3, <1>6 DEF CardsInv, CardsTyped

\* Nothing is issued to begin with.
LEMMA CardsInitially ==
    ASSUME InitCards
    PROVE  CardsInv
<1>1. CardsTyped
  BY DEF InitCards, CardsTyped
<1>2. ASSUME NEW card \in Card
      PROVE  Had(balances, card) = 0 /\ Standing(redemptions, card) = 0
  <2> DEFINE f == HoldingsOf(balances, card)
             g == [id \in RedemptionId |-> StandingOf(redemptions[id], card)]
  <2>1. f \in [Cardholder -> Int] /\ \A h \in Cardholder : f[h] = 0
    BY DEF InitCards, HoldingsOf
  <2>2. g \in [RedemptionId -> Int] /\ \A id \in RedemptionId : g[id] = 0
    BY DEF InitCards, StandingOf
  <2>3. Had(balances, card) = SumFunction(f) /\ Standing(redemptions, card) = SumFunction(g)
    BY DEF Had, Standing
  <2> HIDE DEF f, g
  <2> QED
    BY <2>1, <2>2, <2>3, SumZero, CardsAssumption
<1> QED
  BY <1>1, <1>2 DEF CardsInv, InitCards

\* Prepaid value is neither made nor lost, for any cards, holders and redemption ids:
\* what the holders have of a card and what stands as spent of it is what was issued,
\* whatever the order of redeems, transfers and reversals and however often each is tried.
THEOREM PrepaidValueBacked == CardsSpec => []CardsBacked
<1>1. InitCards => CardsInv
  BY CardsInitially
<1>2. CardsInv /\ [NextCards]_cardVars => CardsInv'
  <2> SUFFICES ASSUME CardsInv, [NextCards]_cardVars PROVE CardsInv'
    OBVIOUS
  <2>1. ASSUME NEW card \in Card, NEW holder \in Cardholder, NEW usd \in Usd,
               IssueCard(card, holder, usd)
        PROVE  CardsInv'
    BY <2>1, IssueBacks
  <2>2. ASSUME NEW card \in Card, NEW holder \in Cardholder, NEW usd \in Usd,
               NEW id \in RedemptionId, RedeemCard(holder, card, usd, id)
        PROVE  CardsInv'
    BY <2>2, RedeemBacks
  <2>3. ASSUME NEW card \in Card, NEW holder \in Cardholder, NEW usd \in Usd,
               NEW to \in Cardholder, TransferCard(holder, to, card, usd)
        PROVE  CardsInv'
    BY <2>3, TransferBacks
  <2>4. ASSUME NEW id \in RedemptionId, ReverseRedemption(id) PROVE CardsInv'
    BY <2>4, ReversalBacks
  <2>5. CASE UNCHANGED cardVars
    BY <2>5 DEF cardVars, CardsInv, CardsTyped
  <2> QED
    BY <2>1, <2>2, <2>3, <2>4, <2>5 DEF NextCards
<1>3. CardsInv => CardsBacked
  BY SpentIsStanding DEF CardsInv, CardsBacked, Had, HoldingsOf
<1> QED
  BY <1>1, <1>2, <1>3, PTL DEF CardsSpec

-----------------------------------------------------------------------------
(* The lanes.  Backed and Redeemable are not inductive.  A claim pays out of    *)
(* the asset it names only because a lane with a receipt is bound to the asset  *)
(* of its name; and a revert brings an earlier storage back, after receipts     *)
(* were handed on, so the storage a frame remembers must be sound and backed    *)
(* as well.                                                                     *)

\* What is outstanding in an asset, of any balances.
OutstandingIn(b, asset) == SumOn(b, asset, Account, Recipient)

Receipts == ReceiptsOf(Account, LaneToken, Recipient)

\* Balances of receipts and the bindings under them: a lane is bound to the asset of
\* its name or not at all, and it is when somebody has its receipt.
Sound(b, bound) ==
    /\ b \in [Account -> [Lane -> Nat]]
    /\ bound \in [Lane -> LaneToken \cup {NoAccount}]
    /\ \A l \in Lane : bound[l] \in {NoAccount, l[1]}
    /\ \A o \in Account, l \in Lane : b[o][l] > 0 => bound[l] = l[1]

Grants(given, operators, routers) ==
    /\ given \in [Account -> [Spender -> [Lane -> Allowance]]]
    /\ operators \in [Account -> SUBSET Spender]
    /\ routers \subseteq Caller

Flight == [op : {"credit", "claim"}, who : Account \cup Caller, asset : LaneToken, amount : Nat]

\* What a revert brings back is sound, and backed by what the contract holds.
UndoSound ==
    frame # Free =>
        /\ Sound(undo.balanceOf, undo.laneAsset)
        /\ Grants(undo.allowance, undo.isOperator, undo.isRouter)
        /\ \A asset \in LaneToken : OutstandingIn(undo.balanceOf, asset) = bank[asset][Self]

LanesInv ==
    /\ Sound(balanceOf, laneAsset)
    /\ Grants(allowance, isOperator, isRouter)
    /\ bank \in Balances(LaneToken, Holder)
    /\ frame \in Flight \cup {Free}
    /\ Backed
    /\ UndoSound

\* Addresses are finitely many, so what is outstanding is a number.
LEMMA OutstandingTyped ==
    ASSUME NEW b, b \in [Account -> [Lane -> Nat]], NEW asset \in LaneToken
    PROVE  OutstandingIn(b, asset) \in Nat
<1>1. IsFiniteSet(Account) /\ IsFiniteSet(Recipient)
  BY LanesAssumption, FS_Subset
<1> QED
  BY <1>1, SumOnNat DEF OutstandingIn, ReceiptsOf, Lane

\* Changing one account's receipts of a lane changes what is outstanding in the asset of
\* the lane's name by as much, and in no other.
LEMMA OutstandingAfter ==
    ASSUME NEW b, b \in Receipts, NEW c, c \in Receipts,
           NEW o \in Account, NEW l \in Lane, NEW asset \in LaneToken,
           DifferAt(b, c, Account, Lane, o, l)
    PROVE  /\ l[1] = asset =>
                  OutstandingIn(c, asset) = OutstandingIn(b, asset) + c[o][l] - b[o][l]
           /\ l[1] # asset => OutstandingIn(c, asset) = OutstandingIn(b, asset)
<1>1. IsFiniteSet(Account) /\ IsFiniteSet(Recipient)
  BY LanesAssumption, FS_Subset
<1>2. l \in LaneToken \X Recipient /\ DifferAt(b, c, Account, LaneToken \X Recipient, o, l)
  BY DEF Lane
<1> QED
  BY <1>1, <1>2, SumOnAfter DEF OutstandingIn, Receipts

\* Handing receipts on leaves them redeemable and what is outstanding as it was.
LEMMA GivenSound ==
    ASSUME Sound(balanceOf, laneAsset), NEW from \in Account, NEW to \in Account,
           NEW l \in Lane, NEW amount \in Nat, balanceOf[from][l] >= amount
    PROVE  /\ Sound(Given(from, to, l, amount), laneAsset)
           /\ \A asset \in LaneToken :
                  OutstandingIn(Given(from, to, l, amount), asset)
                      = OutstandingIn(balanceOf, asset)
<1>a. PICK debited : debited = [balanceOf EXCEPT ![from][l] = @ - amount]
  OBVIOUS
<1>b. PICK given : given = [debited EXCEPT ![to][l] = @ + amount]
  OBVIOUS
<1>1. /\ balanceOf \in [Account -> [Lane -> Nat]] /\ balanceOf[from][l] - amount \in Nat
      /\ balanceOf[from][l] \in Nat
  BY DEF Sound
<1>2. /\ debited \in [Account -> [Lane -> Nat]]
      /\ debited[from][l] = balanceOf[from][l] - amount
      /\ \A h \in Account, k \in Lane : h # from \/ k # l => debited[h][k] = balanceOf[h][k]
  BY <1>1, <1>a
<1>3. Given(from, to, l, amount) = given
  BY <1>a, <1>b DEF Given
<1>5. /\ given \in [Account -> [Lane -> Nat]]
      /\ given[to][l] = debited[to][l] + amount
      /\ \A h \in Account, k \in Lane : h # to \/ k # l => given[h][k] = debited[h][k]
  BY <1>2, <1>b
<1>6. ASSUME NEW asset \in LaneToken
      PROVE  OutstandingIn(given, asset) = OutstandingIn(balanceOf, asset)
  <2>1. /\ l[1] = asset => OutstandingIn(debited, asset) = OutstandingIn(balanceOf, asset)
                               + debited[from][l] - balanceOf[from][l]
        /\ l[1] # asset => OutstandingIn(debited, asset) = OutstandingIn(balanceOf, asset)
    <3>1. balanceOf \in Receipts /\ debited \in Receipts
          /\ DifferAt(balanceOf, debited, Account, Lane, from, l)
      BY <1>1, <1>2 DEF Receipts, ReceiptsOf, Lane, DifferAt
    <3> QED
      BY ONLY <3>1, OutstandingAfter, from \in Account, l \in Lane, asset \in LaneToken
  <2>2. /\ l[1] = asset => OutstandingIn(given, asset) = OutstandingIn(debited, asset)
                               + given[to][l] - debited[to][l]
        /\ l[1] # asset => OutstandingIn(given, asset) = OutstandingIn(debited, asset)
    <3>1. debited \in Receipts /\ given \in Receipts
          /\ DifferAt(debited, given, Account, Lane, to, l)
      BY <1>2, <1>5 DEF Receipts, ReceiptsOf, Lane, DifferAt
    <3> QED
      BY ONLY <3>1, OutstandingAfter, to \in Account, l \in Lane, asset \in LaneToken
  <2>3. OutstandingIn(balanceOf, asset) \in Nat /\ debited[to][l] \in Nat
    BY <1>1, <1>2, OutstandingTyped
  <2> QED
    BY <1>1, <1>2, <1>5, <2>1, <2>2, <2>3
<1>7. ASSUME NEW o \in Account, NEW k \in Lane, given[o][k] > 0
      PROVE  laneAsset[k] = k[1]
  <2>1. CASE k # l \/ amount = 0
    <3>1. given[o][k] = balanceOf[o][k]
      BY <1>1, <1>2, <1>5, <2>1
    <3> QED
      BY <1>7, <3>1 DEF Sound
  <2>2. CASE k = l /\ amount # 0
    <3>1. balanceOf[from][l] > 0
      BY <1>1, <2>2
    <3> QED
      BY <2>2, <3>1 DEF Sound
  <2> QED
    BY <2>1, <2>2
<1>8. Sound(given, laneAsset)
  BY <1>5, <1>7 DEF Sound
<1> QED
  BY <1>3, <1>6, <1>8

\* A function without the lock moves no money and leaves the frame alone; it may run
\* in the middle of one.
LEMMA UnlockedKeeps ==
    ASSUME LanesInv, Sound(balanceOf', laneAsset'), Grants(allowance', isOperator', isRouter'),
           \A asset \in LaneToken :
               OutstandingIn(balanceOf', asset) = OutstandingIn(balanceOf, asset),
           bank' = bank, frame' = frame, undo' = undo
    PROVE  LanesInv'
<1>1. Backed'
  <2>1. ASSUME NEW asset \in LaneToken
        PROVE  bank'[asset][Self] + InTransit(asset, "credit")'
                   = Outstanding(asset)' + InTransit(asset, "claim")'
    <3>1. /\ Outstanding(asset)' = OutstandingIn(balanceOf', asset)
          /\ Outstanding(asset) = OutstandingIn(balanceOf, asset)
      BY DEF Outstanding, OutstandingIn, SumOn, ReceiptsOn
    <3>2. bank[asset][Self] + InTransit(asset, "credit")
              = Outstanding(asset) + InTransit(asset, "claim")
      BY DEF LanesInv, Backed
    <3> QED
      BY <3>1, <3>2 DEF InTransit
  <2> QED
    BY <2>1 DEF Backed
<1>2. UndoSound'
  BY DEF LanesInv, UndoSound, Grants, OutstandingIn, SumOn, ReceiptsOn
<1> QED
  BY <1>1, <1>2 DEF LanesInv

\* Permissions move no receipt.
LEMMA PermitKeeps ==
    ASSUME LanesInv
    PROVE  /\ \A router \in Caller, authorized \in BOOLEAN :
                  SetRouter(router, authorized) => LanesInv'
           /\ Permit => LanesInv'
<1>1. ASSUME NEW router \in Caller, NEW authorized \in BOOLEAN, SetRouter(router, authorized)
      PROVE  LanesInv'
  <2>1. Grants(allowance', isOperator', isRouter')
    BY <1>1 DEF SetRouter, Grants, LanesInv
  <2>2. /\ balanceOf' = balanceOf /\ laneAsset' = laneAsset
        /\ bank' = bank /\ frame' = frame /\ undo' = undo
    BY <1>1 DEF SetRouter
  <2>3. Sound(balanceOf', laneAsset')
    BY <2>2 DEF LanesInv
  <2> QED
    BY <2>1, <2>2, <2>3, UnlockedKeeps
<1>2. ASSUME NEW owner \in Granter, NEW spender \in Spender, NEW l \in Lane,
             NEW amount \in Amount \cup {0, Unlimited}, Approve(owner, spender, l, amount)
      PROVE  LanesInv'
  <2>1. amount \in Allowance /\ owner \in Account
    <3>1. amount \in Amount \/ amount = 0 \/ amount = Unlimited
      OBVIOUS
    <3>2. \A n \in Amount \cup {0} : n \in Nat
      BY LanesAssumption
    <3> QED
      BY <3>1, <3>2, LanesAssumption DEF Allowance
  <2>2. /\ allowance' = [allowance EXCEPT ![owner][spender][l] = amount]
        /\ isOperator' = isOperator /\ isRouter' = isRouter
        /\ balanceOf' = balanceOf /\ laneAsset' = laneAsset
        /\ bank' = bank /\ frame' = frame /\ undo' = undo
    BY <1>2 DEF Approve
  <2>3. Grants(allowance', isOperator', isRouter') /\ Sound(balanceOf', laneAsset')
    BY <2>1, <2>2 DEF Grants, LanesInv
  <2> QED
    BY <2>2, <2>3, UnlockedKeeps
<1>3. ASSUME NEW owner \in Granter, NEW spender \in Spender, NEW approved \in BOOLEAN,
             SetOperator(owner, spender, approved)
      PROVE  LanesInv'
  <2>1. /\ isOperator' = [isOperator EXCEPT ![owner] =
               IF approved THEN @ \cup {spender} ELSE @ \ {spender}]
        /\ allowance' = allowance /\ isRouter' = isRouter
        /\ balanceOf' = balanceOf /\ laneAsset' = laneAsset
        /\ bank' = bank /\ frame' = frame /\ undo' = undo
    BY <1>3 DEF SetOperator
  <2>2. isOperator' \in [Account -> SUBSET Spender]
    BY <2>1, LanesAssumption DEF Grants, LanesInv
  <2>3. Grants(allowance', isOperator', isRouter') /\ Sound(balanceOf', laneAsset')
    BY <2>1, <2>2 DEF Grants, LanesInv
  <2> QED
    BY <2>1, <2>3, UnlockedKeeps
<1> QED
  BY <1>1, <1>2, <1>3 DEF Permit

\* Handing a receipt on, by its owner, an operator or within an allowance.
LEMMA HandKeeps ==
    ASSUME LanesInv, Hand
    PROVE  LanesInv'
<1>1. PICK l \in Lane, to \in Beneficiary, amount \in Amount, from \in Account :
          \/ Transfer(from, to, l, amount)
          \/ \E spender \in Spender : TransferFrom(spender, from, to, l, amount)
  BY DEF Hand
<1>2. to \in Account /\ amount \in Nat
  BY LanesAssumption
<1>3. /\ balanceOf[from][l] >= amount /\ balanceOf' = Given(from, to, l, amount)
      /\ laneAsset' = laneAsset /\ bank' = bank /\ frame' = frame /\ undo' = undo
      /\ isOperator' = isOperator /\ isRouter' = isRouter
  BY <1>1 DEF Transfer, TransferFrom
<1>4. /\ Sound(balanceOf', laneAsset')
      /\ \A asset \in LaneToken :
             OutstandingIn(balanceOf', asset) = OutstandingIn(balanceOf, asset)
  BY <1>2, <1>3, GivenSound DEF LanesInv
<1>5. allowance' \in [Account -> [Spender -> [Lane -> Allowance]]]
  <2>1. CASE allowance' = allowance
    BY <2>1 DEF LanesInv, Grants
  <2>2. CASE allowance' # allowance
    <3>1. PICK spender \in Spender : TransferFrom(spender, from, to, l, amount)
      BY <1>1, <2>2 DEF Transfer
    <3>2. /\ allowance[from][spender][l] # Unlimited
          /\ allowance[from][spender][l] >= amount
          /\ allowance' = [allowance EXCEPT ![from][spender][l] =
                               allowance[from][spender][l] - amount]
      BY <2>2, <3>1 DEF TransferFrom
    <3>3. allowance[from][spender][l] \in Nat
      BY <3>2 DEF LanesInv, Grants, Allowance
    <3>4. allowance[from][spender][l] - amount \in Allowance
      BY <1>2, <3>2, <3>3 DEF Allowance
    <3> QED
      BY <3>2, <3>4 DEF LanesInv, Grants
  <2> QED
    BY <2>1, <2>2
<1>6. Grants(allowance', isOperator', isRouter')
  BY <1>3, <1>5 DEF LanesInv, Grants
<1> QED
  BY <1>3, <1>4, <1>6, UnlockedKeeps

\* Nothing is in transit between two functions.
LEMMA NothingInTransit ==
    ASSUME frame = Free, NEW asset
    PROVE  InTransit(asset, "credit") = 0 /\ InTransit(asset, "claim") = 0
  BY DEF InTransit, Free

\* Between two functions the storage is backed as it stands, which is what the next
\* one remembers.
LEMMA RestIsBacked ==
    ASSUME LanesInv, frame = Free, NEW asset \in LaneToken
    PROVE  OutstandingIn(balanceOf, asset) = bank[asset][Self] /\ bank[asset][Self] \in Nat
<1>1. Outstanding(asset) = OutstandingIn(balanceOf, asset)
  BY DEF Outstanding, OutstandingIn, SumOn, ReceiptsOn
<1>2. /\ OutstandingIn(balanceOf, asset) \in Nat
      /\ bank[asset][Self] \in Nat
  BY OutstandingTyped DEF LanesInv, Sound, Balances, Holder
<1>3. bank[asset][Self] + InTransit(asset, "credit")
          = Outstanding(asset) + InTransit(asset, "claim")
  BY DEF LanesInv, Backed
<1> QED
  BY <1>1, <1>2, <1>3, NothingInTransit

\* A locked function writes one balance and remembers the storage; what it moves is in
\* transit until the asset has moved it.
LEMMA EntryKeeps ==
    ASSUME LanesInv, frame = Free, undo' = storage, bank' = bank, frame' \in Flight,
           Sound(balanceOf', laneAsset'),
           allowance' = allowance, isOperator' = isOperator, isRouter' = isRouter,
           \A asset \in LaneToken :
               OutstandingIn(balanceOf', asset) + InTransit(asset, "claim")'
                   = OutstandingIn(balanceOf, asset) + InTransit(asset, "credit")'
    PROVE  LanesInv'
<1>1. UndoSound'
  <2>1. /\ Sound(undo'.balanceOf, undo'.laneAsset)
        /\ Grants(undo'.allowance, undo'.isOperator, undo'.isRouter)
    BY DEF LanesInv, storage
  <2>2. \A asset \in LaneToken :
            OutstandingIn(undo'.balanceOf, asset) = bank'[asset][Self]
    BY RestIsBacked DEF storage
  <2> QED
    BY <2>1, <2>2 DEF UndoSound, Sound, Grants, OutstandingIn, SumOn, ReceiptsOn
<1>2. Backed'
  <2>1. ASSUME NEW asset \in LaneToken
        PROVE  bank'[asset][Self] + InTransit(asset, "credit")'
                   = Outstanding(asset)' + InTransit(asset, "claim")'
    <3>1. Outstanding(asset)' = OutstandingIn(balanceOf', asset)
      BY DEF Outstanding, OutstandingIn, SumOn, ReceiptsOn
    <3>2. OutstandingIn(balanceOf, asset) = bank[asset][Self]
      BY RestIsBacked
    <3> QED
      BY <3>1, <3>2
  <2> QED
    BY <2>1 DEF Backed
<1> QED
  BY <1>1, <1>2 DEF LanesInv, Grants

\* A credit binds the lane and mints the receipt before the asset is asked for it.
LEMMA CreditKeeps ==
    ASSUME LanesInv, NEW caller \in Caller, NEW recipient \in Recipient,
           NEW token \in LaneToken, NEW amount \in Amount,
           Credit(caller, recipient, token, amount)
    PROVE  LanesInv'
<1>0. PICK l \in Lane : l = <<token, recipient>>
  BY DEF Lane
<1>1. l[1] = token /\ recipient \in Account /\ amount \in Nat
  BY <1>0, LanesAssumption
<1>2. /\ frame = Free /\ amount > 0 /\ undo' = storage /\ bank' = bank
      /\ laneAsset' = [laneAsset EXCEPT ![l] = token]
      /\ balanceOf' = [balanceOf EXCEPT ![recipient][l] = @ + amount]
      /\ frame' = [op |-> "credit", who |-> caller, asset |-> token, amount |-> amount]
      /\ allowance' = allowance /\ isOperator' = isOperator /\ isRouter' = isRouter
  BY <1>0 DEF Credit
<1>3. /\ balanceOf \in [Account -> [Lane -> Nat]] /\ balanceOf[recipient][l] \in Nat
      /\ laneAsset \in [Lane -> LaneToken \cup {NoAccount}]
  BY <1>1 DEF LanesInv, Sound
<1>4. /\ balanceOf' \in [Account -> [Lane -> Nat]]
      /\ balanceOf'[recipient][l] = balanceOf[recipient][l] + amount
      /\ \A h \in Account, k \in Lane :
             h # recipient \/ k # l => balanceOf'[h][k] = balanceOf[h][k]
  BY <1>1, <1>2, <1>3
<1>5. /\ laneAsset' \in [Lane -> LaneToken \cup {NoAccount}]
      /\ laneAsset'[l] = token
      /\ \A k \in Lane : k # l => laneAsset'[k] = laneAsset[k]
  BY <1>1, <1>2, <1>3
<1>6. Sound(balanceOf', laneAsset')
  BY <1>1, <1>4, <1>5 DEF LanesInv, Sound
<1>7. frame' \in Flight
  BY <1>1, <1>2 DEF Flight
<1>8. ASSUME NEW asset \in LaneToken
      PROVE  OutstandingIn(balanceOf', asset) + InTransit(asset, "claim")'
                 = OutstandingIn(balanceOf, asset) + InTransit(asset, "credit")'
  <2>1. /\ token = asset => OutstandingIn(balanceOf', asset) = OutstandingIn(balanceOf, asset)
                                + balanceOf'[recipient][l] - balanceOf[recipient][l]
        /\ token # asset => OutstandingIn(balanceOf', asset) = OutstandingIn(balanceOf, asset)
    <3>1. /\ balanceOf \in Receipts /\ balanceOf' \in Receipts
          /\ DifferAt(balanceOf, balanceOf', Account, Lane, recipient, l)
      BY <1>3, <1>4 DEF Receipts, ReceiptsOf, Lane, DifferAt
    <3>2. recipient \in Account /\ l \in Lane /\ l[1] = token /\ asset \in LaneToken
      BY <1>1, <1>0
    <3> QED
      BY ONLY <3>1, <3>2, OutstandingAfter
  <2>2. /\ InTransit(asset, "claim")' = 0
        /\ InTransit(asset, "credit")' = IF token = asset THEN amount ELSE 0
    BY <1>2 DEF InTransit
  <2>3. OutstandingIn(balanceOf, asset) \in Nat
    BY <1>3, OutstandingTyped
  <2> QED
    BY <1>1, <1>3, <1>4, <2>1, <2>2, <2>3
<1> QED
  BY <1>2, <1>6, <1>7, <1>8, EntryKeeps

\* A claim burns the receipt of a lane that is bound to the asset it asks for, or to none,
\* in which case nobody has a receipt; so what it will send is in the lane's own asset.
LEMMA ClaimKeeps ==
    ASSUME LanesInv, NEW caller \in Account, NEW l \in Lane, NEW token \in LaneToken,
           NEW max \in Amount \cup {Unlimited}, Claim(caller, l, token, max)
    PROVE  LanesInv'
<1> DEFINE amount == AtMost(max, balanceOf[caller][l])
<1>1. /\ balanceOf \in [Account -> [Lane -> Nat]] /\ balanceOf[caller][l] \in Nat
      /\ laneAsset' = laneAsset
  BY DEF LanesInv, Sound, Claim
<1>2. amount \in Nat /\ amount <= balanceOf[caller][l]
  <2>1. max # Unlimited => max \in Nat
    BY LanesAssumption
  <2> QED
    BY <1>1, <2>1 DEF AtMost
<1>3. /\ frame = Free /\ amount > 0 /\ undo' = storage /\ bank' = bank
      /\ Releases(l, token)
      /\ balanceOf' = [balanceOf EXCEPT ![caller][l] = @ - amount]
      /\ frame' = [op |-> "claim", who |-> caller, asset |-> token, amount |-> amount]
      /\ allowance' = allowance /\ isOperator' = isOperator /\ isRouter' = isRouter
  BY DEF Claim
<1> HIDE DEF amount
<1>4. balanceOf[caller][l] > 0
  BY <1>1, <1>2, <1>3
<1>5. l[1] = token
  <2>1. laneAsset[l] = l[1] /\ l[1] \in LaneToken
    BY <1>4 DEF LanesInv, Sound, Lane
  <2> QED
    BY <1>3, <2>1, LanesAssumption DEF Releases
<1>6. /\ balanceOf' \in [Account -> [Lane -> Nat]]
      /\ balanceOf'[caller][l] = balanceOf[caller][l] - amount
      /\ \A h \in Account, k \in Lane :
             h # caller \/ k # l => balanceOf'[h][k] = balanceOf[h][k]
  BY <1>1, <1>2, <1>3
<1>7. Sound(balanceOf', laneAsset')
  BY <1>1, <1>4, <1>6 DEF LanesInv, Sound
<1>8. frame' \in Flight
  BY <1>2, <1>3 DEF Flight
<1>9. ASSUME NEW asset \in LaneToken
      PROVE  OutstandingIn(balanceOf', asset) + InTransit(asset, "claim")'
                 = OutstandingIn(balanceOf, asset) + InTransit(asset, "credit")'
  <2>1. /\ token = asset => OutstandingIn(balanceOf', asset) = OutstandingIn(balanceOf, asset)
                                + balanceOf'[caller][l] - balanceOf[caller][l]
        /\ token # asset => OutstandingIn(balanceOf', asset) = OutstandingIn(balanceOf, asset)
    <3>1. /\ balanceOf \in Receipts /\ balanceOf' \in Receipts
          /\ DifferAt(balanceOf, balanceOf', Account, Lane, caller, l)
      BY <1>1, <1>6 DEF Receipts, ReceiptsOf, Lane, DifferAt
    <3>2. caller \in Account /\ l \in Lane /\ l[1] = token /\ asset \in LaneToken
      BY <1>1, <1>5
    <3> QED
      BY ONLY <3>1, <3>2, OutstandingAfter
  <2>2. /\ InTransit(asset, "credit")' = 0
        /\ InTransit(asset, "claim")' = IF token = asset THEN amount ELSE 0
    BY <1>3 DEF InTransit
  <2>3. OutstandingIn(balanceOf, asset) \in Nat
    BY <1>1, OutstandingTyped
  <2> QED
    BY <1>1, <1>2, <1>6, <2>1, <2>2, <2>3
<1> QED
  BY <1>3, <1>7, <1>8, <1>9, EntryKeeps

\* The asset moves what was in transit, and the function returns.
LEMMA ReturnKeeps ==
    ASSUME LanesInv, CreditPulled \/ ClaimSent
    PROVE  LanesInv'
<1>1. PICK from \in Holder, to \in Holder :
          /\ frame \in Flight /\ from # to
          /\ \/ frame.op = "credit" /\ to = Self
             \/ frame.op = "claim" /\ from = Self
          /\ Affords(bank, frame.asset, from, frame.amount)
          /\ bank' = Moved(bank, frame.asset, from, to, frame.amount)
  <2>1. frame \in Flight
    BY DEF LanesInv, CreditPulled, ClaimSent, Free
  <2>2. frame.who \in Holder /\ Self \in Holder /\ frame.who # Self
    BY <2>1, LanesAssumption DEF Flight, Holder
  <2> QED
    BY <2>1, <2>2 DEF CreditPulled, ClaimSent
<1>2. /\ frame' = Free /\ undo' = <<>>
      /\ balanceOf' = balanceOf /\ laneAsset' = laneAsset /\ allowance' = allowance
      /\ isOperator' = isOperator /\ isRouter' = isRouter
  BY DEF CreditPulled, ClaimSent, ledger
<1>3. /\ bank \in Balances(LaneToken, Holder) /\ frame.asset \in LaneToken
      /\ frame.amount \in Nat /\ Self \in Holder
  BY <1>1 DEF LanesInv, Flight, Holder
<1>4. /\ bank' \in Balances(LaneToken, Holder)
      /\ bank'[frame.asset][from] = bank[frame.asset][from] - frame.amount
      /\ bank'[frame.asset][to] = bank[frame.asset][to] + frame.amount
      /\ \A t \in LaneToken : t # frame.asset => bank'[t] = bank[t]
  BY <1>1, <1>3, MovedTyped
<1>5. ASSUME NEW asset \in LaneToken
      PROVE  bank'[asset][Self] + InTransit(asset, "credit")'
                 = Outstanding(asset)' + InTransit(asset, "claim")'
  <2>1. bank[asset][Self] + InTransit(asset, "credit")
            = Outstanding(asset) + InTransit(asset, "claim")
    BY DEF LanesInv, Backed
  <2>2. Outstanding(asset)' = Outstanding(asset)
    BY <1>2 DEF Outstanding
  <2>3. Outstanding(asset) \in Nat /\ bank[asset][Self] \in Nat
    <3>1. Outstanding(asset) = OutstandingIn(balanceOf, asset)
      BY DEF Outstanding, OutstandingIn, SumOn, ReceiptsOn
    <3> QED
      BY <1>3, <3>1, OutstandingTyped DEF LanesInv, Sound, Balances
  <2>4. InTransit(asset, "credit")' = 0 /\ InTransit(asset, "claim")' = 0
    BY <1>2 DEF InTransit, Free
  <2>5. CASE asset # frame.asset
    <3>1. InTransit(asset, "credit") = 0 /\ InTransit(asset, "claim") = 0
      BY <2>5 DEF InTransit
    <3> QED
      BY <1>4, <2>1, <2>2, <2>3, <2>4, <2>5, <3>1
  <2>6. CASE asset = frame.asset /\ frame.op = "credit" /\ to = Self
    <3>1. InTransit(asset, "credit") = frame.amount /\ InTransit(asset, "claim") = 0
      BY <2>6 DEF InTransit
    <3> QED
      BY <1>3, <1>4, <2>1, <2>2, <2>3, <2>4, <2>6, <3>1
  <2>7. CASE asset = frame.asset /\ frame.op = "claim" /\ from = Self
    <3>1. InTransit(asset, "credit") = 0 /\ InTransit(asset, "claim") = frame.amount
      BY <2>7 DEF InTransit
    <3> QED
      BY <1>3, <1>4, <2>1, <2>2, <2>3, <2>4, <2>7, <3>1
  <2> QED
    BY <1>1, <2>5, <2>6, <2>7
<1>6. Backed' /\ UndoSound'
  BY <1>2, <1>5 DEF Backed, UndoSound
<1> QED
  BY <1>2, <1>4, <1>6 DEF LanesInv

\* A revert brings back a storage that was sound and is backed by what is there.
LEMMA RevertKeeps ==
    ASSUME LanesInv, Revert
    PROVE  LanesInv'
<1>1. /\ frame # Free /\ frame' = Free /\ bank' = bank
      /\ balanceOf' = undo.balanceOf /\ laneAsset' = undo.laneAsset
      /\ allowance' = undo.allowance /\ isOperator' = undo.isOperator
      /\ isRouter' = undo.isRouter
  BY DEF Revert, Undone, RestoreTo
<1>2. /\ Sound(undo.balanceOf, undo.laneAsset)
      /\ Grants(undo.allowance, undo.isOperator, undo.isRouter)
      /\ \A asset \in LaneToken : OutstandingIn(undo.balanceOf, asset) = bank[asset][Self]
  BY <1>1 DEF LanesInv, UndoSound
<1>3. ASSUME NEW asset \in LaneToken
      PROVE  bank'[asset][Self] + InTransit(asset, "credit")'
                 = Outstanding(asset)' + InTransit(asset, "claim")'
  <2>1. Outstanding(asset)' = OutstandingIn(undo.balanceOf, asset)
    BY <1>1 DEF Outstanding, OutstandingIn, SumOn, ReceiptsOn
  <2>2. InTransit(asset, "credit")' = 0 /\ InTransit(asset, "claim")' = 0
    BY <1>1 DEF InTransit, Free
  <2> QED
    BY <1>1, <1>2, <2>1, <2>2
<1>4. Backed' /\ UndoSound'
  BY <1>1, <1>3 DEF Backed, UndoSound
<1> QED
  BY <1>1, <1>2, <1>4 DEF LanesInv

\* A fresh proxy holds nothing and owes nothing.
LEMMA LanesInitially ==
    ASSUME Init
    PROVE  LanesInv
<1>1. /\ balanceOf = [o \in Account |-> [l \in Lane |-> 0]]
      /\ laneAsset = [l \in Lane |-> NoAccount] /\ frame = Free /\ bank = Deposit
      /\ allowance = [o \in Account |-> [s \in Spender |-> [l \in Lane |-> 0]]]
      /\ isOperator = [o \in Account |-> {}] /\ isRouter = {}
  BY DEF Init, Fresh
<1>2. Sound(balanceOf, laneAsset)
  BY <1>1 DEF Sound
<1>3. Grants(allowance, isOperator, isRouter)
  BY <1>1 DEF Grants, Allowance
<1>4. ASSUME NEW asset \in LaneToken
      PROVE  bank[asset][Self] + InTransit(asset, "credit")
                 = Outstanding(asset) + InTransit(asset, "claim")
  <2>1. OutstandingIn(balanceOf, asset) = 0
    <3>1. /\ balanceOf \in ReceiptsOf(Account, LaneToken, Recipient)
          /\ \A o \in Account, l \in LaneToken \X Recipient : balanceOf[o][l] = 0
      BY <1>1 DEF ReceiptsOf, Lane
    <3>2. IsFiniteSet(Account) /\ IsFiniteSet(Recipient)
      BY LanesAssumption, FS_Subset
    <3> QED
      BY <3>1, <3>2, SumOnZero DEF OutstandingIn
  <2>2. Outstanding(asset) = OutstandingIn(balanceOf, asset)
    BY DEF Outstanding, OutstandingIn, SumOn, ReceiptsOn
  <2>3. bank[asset][Self] = 0
    BY <1>1, LanesAssumption
  <2> QED
    BY <1>1, <2>1, <2>2, <2>3, NothingInTransit
<1>5. Backed /\ UndoSound
  BY <1>1, <1>4 DEF Backed, UndoSound
<1> QED
  BY <1>1, <1>2, <1>3, <1>5, LanesAssumption DEF LanesInv

\* The storage of the lanes, and the one a revert would bring back, are sound and backed
\* in every reachable state.
THEOREM LanesInvariant == Spec => []LanesInv
<1>1. Init => LanesInv
  BY LanesInitially
<1>2. LanesInv /\ [Next]_vars => LanesInv'
  <2> SUFFICES ASSUME LanesInv, [Next]_vars PROVE LanesInv'
    OBVIOUS
  <2>1. ASSUME NEW router \in Caller, NEW authorized \in BOOLEAN,
               SetRouter(router, authorized)
        PROVE  LanesInv'
    BY <2>1, PermitKeeps
  <2>2. ASSUME NEW router \in Caller, NEW recipient \in Recipient,
               NEW asset \in LaneToken, NEW amount \in Amount,
               Credit(router, recipient, asset, amount)
        PROVE  LanesInv'
    BY <2>2, CreditKeeps
  <2>3. CASE CreditPulled
    BY <2>3, ReturnKeeps
  <2>4. CASE Revert
    BY <2>4, RevertKeeps
  <2>5. CASE Permit
    BY <2>5, PermitKeeps
  <2>6. CASE Hand
    BY <2>6, HandKeeps
  <2>7. CASE Redeem
    BY <2>7, ClaimKeeps, ReturnKeeps DEF Redeem
  <2>8. CASE UNCHANGED vars
    BY <2>8 DEF vars, ledger, LanesInv, Sound, Grants, Backed, Outstanding, InTransit,
                UndoSound, OutstandingIn, SumOn, ReceiptsOn
  <2> QED
    BY <2>1, <2>2, <2>3, <2>4, <2>5, <2>6, <2>7, <2>8 DEF Next
<1> QED
  BY <1>1, <1>2, PTL DEF Spec

\* No receipt is stranded, for any lanes, holders and amounts: whoever a receipt was
\* handed to, whatever ran inside a credit or a claim and whatever was reverted, its lane
\* is bound to the asset of its name, in which a claim of it pays.
THEOREM ReceiptsRedeemable == Spec => []Redeemable
<1>1. LanesInv => Redeemable
  BY DEF LanesInv, Sound, Redeemable
<1> QED
  BY <1>1, LanesInvariant, PTL

\* The contract holds of every asset exactly the receipts outstanding in it, up to the
\* one amount a credit has yet to pull or a claim to send.
THEOREM ReceiptsBacked == Spec => []Backed
<1>1. LanesInv => Backed
  BY DEF LanesInv
<1> QED
  BY <1>1, LanesInvariant, PTL

=============================================================================
