-------------------------- MODULE SubscriptionsProofs --------------------------
(***************************************************************************)
(* Proofs about Access0x1Subscriptions, for any subscribers, plans, prices, *)
(* periods, budgets and number of subscriptions: nobody is dunned for what  *)
(* is not its fault, an account that only signs has no subscription but     *)
(* those it signed for, and the contract implements IdealBilling.  And      *)
(* about the gateway whose keeper renews them, for any registry and width   *)
(* of the scan: no id that is due is passed over for longer than a sweep.   *)
(***************************************************************************)
EXTENDS Subscriptions, AutomationGateway, FiniteSetTheorems, SequenceTheorems, TLAPS

Table == [S!SessionId -> {S!Unknown} \cup S!Session]

\* A plan that has been set has a price and a period.
Priced ==
    \A p \in Plan :
        plans[p] # Unset => plans[p].priceUsd8 > 0 /\ plans[p].periodSecs > 0

\* A subscription draws on a session of the subscriber's own, that has been opened,
\* for a plan that has been set, and a trial it began with is remembered.
Founded(id) ==
    /\ sessions[subs[id].session] # S!Unknown
    /\ subs[id].session.owner = subs[id].subscriber
    /\ plans[subs[id].plan] # Unset
    /\ subs[id].trialExpiresAt # 0 =>
           <<subs[id].subscriber, subs[id].plan>> \in hasUsedTrial

IInv ==
    /\ TypeOK
    /\ Priced
    /\ \A id \in SubId : id >= nextSubId => subs[id] = None
    /\ \A id \in Taken : Founded(id)

-----------------------------------------------------------------------------
(* Sessions. *)

LEMMA Distinct ==
    /\ S!Unknown \notin S!Session
    /\ None \notin Sub
    /\ \A k \in S!Session : k # S!Unknown
BY SubscriptionsAssumption DEF S!Unknown, S!Session, None, Sub, Status

\* What a debit does to the table.
LEMMA DebitedEffect ==
    ASSUME NEW ss \in Table, NEW m \in S!SessionId, ss[m] # S!Unknown, NEW n \in Nat
    PROVE  /\ S!Debited(ss, m, n) \in Table
           /\ S!Debited(ss, m, n)[m] \in S!Session
           /\ S!Debited(ss, m, n)[m] = [ss[m] EXCEPT !.spent = ss[m].spent + n]
<1>1. ss[m] \in S!Session
  BY DEF Table
<1>2. [ss[m] EXCEPT !.spent = ss[m].spent + n] \in S!Session
  BY <1>1 DEF S!Session
<1>3. S!Debited(ss, m, n) = [ss EXCEPT ![m] = [ss[m] EXCEPT !.spent = ss[m].spent + n]]
  BY <1>1 DEF S!Debited, Table
<1>4. QED
  BY <1>2, <1>3 DEF Table

LEMMA DebitedElsewhere ==
    ASSUME NEW ss \in Table, NEW m \in S!SessionId, NEW k \in S!SessionId, k # m,
           NEW n \in Nat
    PROVE  S!Debited(ss, m, n)[k] = ss[k]
BY DEF S!Debited, Table

\* What a grant opens.
LEMMA OpenedEffect ==
    ASSUME sessions \in Table, NEW grant \in S!Grant, S!MayOpen(grant)
    PROVE  /\ S!IdOf(grant) \in S!SessionId
           /\ sessions[S!IdOf(grant)] = S!Unknown
           /\ S!Opened(grant) \in Table
           /\ \A k \in S!SessionId : k # S!IdOf(grant) => S!Opened(grant)[k] = sessions[k]
           /\ S!Opened(grant)[S!IdOf(grant)] =
                  [delegate |-> grant.delegate, expiry |-> grant.expiry,
                   budgetCap |-> grant.budgetCap, spent |-> 0, revoked |-> FALSE]
           /\ S!Opened(grant)[S!IdOf(grant)] \in S!Session
<1>1. S!IdOf(grant) \in S!SessionId
  BY SubscriptionsAssumption DEF S!IdOf, S!SessionId, S!Grant, S!MayOpen, S!Nonce
<1>2. [delegate |-> grant.delegate, expiry |-> grant.expiry,
       budgetCap |-> grant.budgetCap, spent |-> 0, revoked |-> FALSE] \in S!Session
  BY DEF S!Session, S!Grant
<1>3. QED
  BY <1>1, <1>2 DEF S!Opened, Table, S!MayOpen, S!Exists

-----------------------------------------------------------------------------
(* The invariant. *)

\* A subscription stays founded while its terms do not change and nothing it rests
\* on is taken away.
LEMMA StaysFounded ==
    ASSUME IInv, NEW id \in Taken,
           subs'[id].session = subs[id].session,
           subs'[id].subscriber = subs[id].subscriber,
           subs'[id].plan = subs[id].plan,
           subs'[id].trialExpiresAt = subs[id].trialExpiresAt,
           \A m \in S!SessionId : sessions[m] # S!Unknown => sessions'[m] # S!Unknown,
           \A p \in Plan : plans[p] # Unset => plans'[p] # Unset,
           hasUsedTrial \subseteq hasUsedTrial'
    PROVE  Founded(id)'
<1>1. subs[id] \in Sub
  BY DEF IInv, TypeOK, Taken
<1>2. subs[id].session \in S!SessionId /\ subs[id].plan \in Plan
  BY <1>1 DEF Sub
<1>3. Founded(id)
  BY DEF IInv
<1>4. QED
  BY <1>2, <1>3 DEF Founded

\* What any step but of a subscription or a plan leaves as it is.
LEMMA StaysBilled ==
    ASSUME IInv, UNCHANGED <<plans, subs, nextSubId, hasUsedTrial>>, TypeOK',
           \A m \in S!SessionId : sessions[m] # S!Unknown => sessions'[m] # S!Unknown
    PROVE  IInv'
<1>1. Taken' = Taken
  BY DEF Taken
<1>2. \A id \in Taken : Founded(id)'
  BY StaysFounded DEF Taken
<1>3. QED
  BY <1>1, <1>2 DEF IInv, Priced

LEMMA SetPlanKeeps ==
    ASSUME IInv, NEW plan \in Plan, NEW price \in Price, NEW period \in Period,
           NEW active \in BOOLEAN, SetPlan(plan, price, period, active)
    PROVE  IInv'
<1>1. /\ plans' = [plans EXCEPT ![plan] =
             [priceUsd8 |-> price, periodSecs |-> period, active |-> active]]
      /\ UNCHANGED <<sessions, nonces, grants, now, intents, relaying, subs, nextSubId,
                     lastDunBucket, hasUsedTrial, graceFailThreshold, funded, priceUp, routerUp,
                     declined>>
  BY DEF SetPlan, grantVars, outside
<1>2. /\ price \in Nat \ {0} /\ period \in Nat \ {0}
      /\ plans \in [Plan -> [priceUsd8 : Nat, periodSecs : Nat, active : BOOLEAN]]
  BY SubscriptionsAssumption DEF IInv, TypeOK
<1>3. /\ plans' \in [Plan -> [priceUsd8 : Nat, periodSecs : Nat, active : BOOLEAN]]
      /\ plans'[plan].priceUsd8 > 0 /\ plans'[plan].periodSecs > 0
      /\ plans'[plan] # Unset
      /\ \A p \in Plan : p # plan => plans'[p] = plans[p]
  BY <1>1, <1>2 DEF Unset
<1>4. TypeOK'
  BY <1>1, <1>3 DEF IInv, TypeOK, S!TypeOK
<1>5. Priced'
  BY <1>3 DEF IInv, Priced
<1>6. Taken' = Taken
  BY <1>1 DEF Taken
<1>7. \A id \in Taken : Founded(id)'
  BY <1>1, <1>3, StaysFounded DEF Taken
<1>8. QED
  BY <1>1, <1>4, <1>5, <1>6, <1>7 DEF IInv

\* What becomes of sessions behind the contract's back.
LEMMA SessionsOpenOrRevoke ==
    ASSUME IInv, Sessions
    PROVE  \/ \E grant \in S!Grant : S!Open(grant) /\ UNCHANGED <<grants, now>>
           \/ \E m \in S!SessionId, owner \in Owner :
                 S!Revoke(m, owner) /\ UNCHANGED <<nonces, grants, now>>
<1>1. grants \subseteq S!Grant /\ nonces \in [Owner -> 0..MaxNonce]
  BY DEF IInv, TypeOK, S!TypeOK
<1>2. ASSUME NEW owner \in Owner, NEW cap \in Cap, NEW expiry \in Expiry,
             S!OpenSession(owner, Self, cap, expiry)
      PROVE  \E grant \in S!Grant : S!Open(grant) /\ UNCHANGED <<grants, now>>
  <2>1. PICK grant : grant = [owner |-> owner, delegate |-> Self, budgetCap |-> cap,
                              expiry |-> expiry, nonce |-> nonces[owner]]
    OBVIOUS
  <2>2. grant \in S!Grant
    BY <1>1, <2>1, SubscriptionsAssumption DEF S!Grant
  <2>3. S!Open(grant) /\ UNCHANGED <<grants, now>>
    BY <1>2, <2>1 DEF S!OpenSession
  <2>4. QED
    BY <2>2, <2>3
<1>3. QED
  BY <1>1, <1>2 DEF Sessions

LEMMA SurroundingsKeep ==
    ASSUME IInv,
           \/ Sessions
           \/ Meanwhile
           \/ \E subscriber \in Owner : BeginSubscribeFor(subscriber)
           \/ OutsideChanges
           \/ \E owner \in Owner, plan \in Plan, cap \in Cap, expiry \in Expiry,
                 withTrial \in BOOLEAN, nonce \in 0..(MaxNonce - 1) :
                  SignIntent([subscriber |-> owner, plan |-> plan, budgetCap |-> cap,
                              expiry |-> expiry, withTrial |-> withTrial, nonce |-> nonce])
           \/ \E n \in Threshold : SetGraceFailThreshold(n)
    PROVE  IInv'
<1>1. CASE \E n \in Threshold : SetGraceFailThreshold(n)
  <2>1. PICK n \in Threshold : SetGraceFailThreshold(n)
    BY <1>1
  <2>2. TypeOK'
    BY <2>1, SubscriptionsAssumption DEF SetGraceFailThreshold, IInv, TypeOK, S!TypeOK, grantVars, outside
  <2>3. QED
    BY <2>1, <2>2, StaysBilled DEF SetGraceFailThreshold, grantVars
<1>2. CASE OutsideChanges
  <2>1. funded' \subseteq Owner /\ priceUp' \in BOOLEAN /\ routerUp' \in BOOLEAN
    BY <1>2 DEF OutsideChanges, IInv, TypeOK
  <2>2. UNCHANGED <<sessions, nonces, grants, now, intents, relaying, plans, subs, nextSubId,
                    lastDunBucket, hasUsedTrial, graceFailThreshold, declined>>
    BY <1>2 DEF OutsideChanges, grantVars, billing
  <2>3. TypeOK'
    BY <2>1, <2>2 DEF IInv, TypeOK, S!TypeOK
  <2>4. QED
    BY <2>2, <2>3, StaysBilled
<1>3. CASE \E owner \in Owner, plan \in Plan, cap \in Cap, expiry \in Expiry,
              withTrial \in BOOLEAN, nonce \in 0..(MaxNonce - 1) :
               SignIntent([subscriber |-> owner, plan |-> plan, budgetCap |-> cap,
                           expiry |-> expiry, withTrial |-> withTrial, nonce |-> nonce])
  <2>1. PICK intent \in Intent : SignIntent(intent)
    BY <1>3, SubscriptionsAssumption DEF Intent
  <2>2. UNCHANGED <<sessions, nonces, grants, now, relaying, plans, subs, nextSubId,
                    lastDunBucket, hasUsedTrial, graceFailThreshold, funded, priceUp, routerUp,
                    declined>>
    BY <2>1 DEF SignIntent, grantVars, billing, outside
  <2>3. intents' \subseteq Intent
    BY <2>1 DEF SignIntent, IInv, TypeOK
  <2>4. TypeOK'
    BY <2>2, <2>3 DEF IInv, TypeOK, S!TypeOK
  <2>5. QED
    BY <2>2, <2>4, StaysBilled
<1>4. CASE Sessions \/ Meanwhile
  <2>1. UNCHANGED <<intents, relaying, plans, subs, nextSubId, lastDunBucket, hasUsedTrial,
                    graceFailThreshold, funded, priceUp, routerUp, declined>>
    BY <1>4 DEF Sessions, Meanwhile, billing, outside
  <2> SUFFICES /\ S!TypeOK'
               /\ \A m \in S!SessionId : sessions[m] # S!Unknown => sessions'[m] # S!Unknown
    <3>1. S!TypeOK' => TypeOK'
      BY <2>1 DEF IInv, TypeOK
    <3>2. QED
      BY <2>1, <3>1, StaysBilled
  <2>2. S!TypeOK /\ sessions \in Table
    BY DEF IInv, TypeOK, S!TypeOK, Table
  <2>3. ASSUME NEW grant \in S!Grant, S!Open(grant), UNCHANGED <<grants, now>>
        PROVE  /\ S!TypeOK'
               /\ \A m \in S!SessionId : sessions[m] # S!Unknown => sessions'[m] # S!Unknown
    <3>1. /\ S!MayOpen(grant)
          /\ nonces' = S!NextNonces(grant)
          /\ sessions' = S!Opened(grant)
      BY <2>3 DEF S!Open
    <3>2. nonces' \in [Owner -> 0..MaxNonce]
      BY <2>2, <3>1, SubscriptionsAssumption DEF S!NextNonces, S!MayOpen, S!TypeOK, S!Grant
    <3>3. QED
      BY <2>2, <2>3, <3>1, <3>2, OpenedEffect, Distinct DEF S!TypeOK, Table
  <2>4. ASSUME NEW owner \in Owner, NEW cap \in Cap, NEW expiry \in Expiry,
               NEW nonce \in 0..(MaxNonce - 1),
               S!SignGrant([owner |-> owner, delegate |-> Self, budgetCap |-> cap,
                            expiry |-> expiry, nonce |-> nonce])
        PROVE  S!TypeOK' /\ sessions' = sessions
    <3>1. PICK grant : grant = [owner |-> owner, delegate |-> Self, budgetCap |-> cap,
                                expiry |-> expiry, nonce |-> nonce]
      OBVIOUS
    <3>2. grant \in S!Grant
      BY <3>1, SubscriptionsAssumption DEF S!Grant
    <3>3. QED
      BY <2>2, <2>4, <3>1, <3>2 DEF S!SignGrant, S!TypeOK
  <2>5. ASSUME NEW m \in S!SessionId, NEW owner \in Owner, S!Revoke(m, owner),
               UNCHANGED <<nonces, grants, now>>
        PROVE  /\ S!TypeOK'
               /\ \A k \in S!SessionId : sessions[k] # S!Unknown => sessions'[k] # S!Unknown
    <3>1. sessions[m] \in S!Session
      BY <2>2, <2>5 DEF S!Revoke, S!MayRevoke, S!Exists, Table
    <3>2. [sessions[m] EXCEPT !.revoked = TRUE] \in S!Session
      BY <3>1 DEF S!Session
    <3>3. sessions' = [sessions EXCEPT ![m] = [sessions[m] EXCEPT !.revoked = TRUE]]
      BY <2>5 DEF S!Revoke
    <3>4. QED
      BY <2>2, <2>5, <3>2, <3>3, Distinct DEF S!TypeOK, Table
  <2>6. CASE S!Tick
    BY <2>2, <2>6 DEF S!Tick, S!TypeOK
  <2>7. CASE Sessions
    <3>1. \/ \E grant \in S!Grant : S!Open(grant) /\ UNCHANGED <<grants, now>>
          \/ \E m \in S!SessionId, owner \in Owner :
                S!Revoke(m, owner) /\ UNCHANGED <<nonces, grants, now>>
      BY <2>7, SessionsOpenOrRevoke
    <3>2. QED
      BY <2>3, <2>5, <3>1
  <2>8. QED
    BY <1>4, <2>4, <2>6, <2>7 DEF Meanwhile
<1>5. CASE \E subscriber \in Owner : BeginSubscribeFor(subscriber)
  <2>1. PICK subscriber \in Owner : BeginSubscribeFor(subscriber)
    BY <1>5
  <2>2. UNCHANGED <<sessions, nonces, grants, now, intents, plans, subs, nextSubId,
                    lastDunBucket, hasUsedTrial, graceFailThreshold, funded, priceUp, routerUp,
                    declined>>
    BY <2>1 DEF BeginSubscribeFor, grantVars, billing, outside
  <2>3. nonces[subscriber] \in Nat
    BY SubscriptionsAssumption DEF IInv, TypeOK, S!TypeOK
  <2>4. relaying' \in [subscriber : Owner, nonce : Nat]
    BY <2>1, <2>3 DEF BeginSubscribeFor
  <2>5. TypeOK'
    BY <2>2, <2>4 DEF IInv, TypeOK, S!TypeOK
  <2>6. QED
    BY <2>2, <2>5, StaysBilled
<1>6. QED
  BY <1>1, <1>2, <1>3, <1>4, <1>5

\* A subscription to a plan that is taken.
LEMMA SubscribeKeeps ==
    ASSUME IInv, NEW ss \in Table, NEW subscriber \in Owner, NEW plan \in Plan,
           NEW session \in S!SessionId, NEW withTrial \in BOOLEAN,
           SubscribeOn(ss, subscriber, plan, session, withTrial),
           UNCHANGED <<grants, now, intents>>, relaying' = Unlocked,
           nonces' \in [Owner -> 0..MaxNonce],
           \A m \in S!SessionId : sessions[m] # S!Unknown => ss[m] # S!Unknown
    PROVE  /\ IInv'
           /\ sessions' \in Table
           /\ nextSubId \in SubId /\ nextSubId \notin Taken
           /\ Taken' = Taken \cup {nextSubId}
           /\ subs'[nextSubId] \in Sub
           /\ \A id \in Taken : subs'[id] = subs[id]
<1>1. PICK id \in SubId : id = nextSubId
  BY SubscriptionsAssumption DEF SubscribeOn, IInv, TypeOK, SubId
<1>2. /\ subs[id] = None
      /\ subs \in [SubId -> {None} \cup Sub]
      /\ now \in Nat /\ plans[plan].priceUsd8 \in Nat /\ plans[plan].periodSecs \in Nat
      /\ plans[plan] \in [priceUsd8 : Nat, periodSecs : Nat, active : BOOLEAN]
  BY <1>1 DEF IInv, TypeOK, S!TypeOK
<1>3. plans[plan] # Unset /\ plans[plan].periodSecs > 0
  BY DEF SubscribeOn, Unset, IInv, Priced
<1>4. PICK trialing \in BOOLEAN : trialing = Trialing(subscriber, plan, withTrial)
  BY DEF Trialing
<1>5. PICK r : r = [plan |-> plan, subscriber |-> subscriber, session |-> session,
                    periodEnd |-> now + plans[plan].periodSecs,
                    trialExpiresAt |-> IF trialing THEN now + plans[plan].periodSecs ELSE 0,
                    failCount |-> 0,
                    status |-> IF trialing THEN "TRIALING" ELSE "ACTIVE"]
  OBVIOUS
<1>6. /\ session.owner = subscriber
      /\ S!RemainingOf(ss, session) >= plans[plan].priceUsd8
      /\ subs' = [subs EXCEPT ![id] = r]
      /\ nextSubId' = id + 1
      /\ UNCHANGED <<plans, lastDunBucket, graceFailThreshold, funded, priceUp, routerUp,
                     declined>>
  BY <1>1, <1>4, <1>5 DEF SubscribeOn, outside
<1>7. \/ /\ trialing
         /\ hasUsedTrial' = hasUsedTrial \cup {<<subscriber, plan>>}
         /\ sessions' = ss
      \/ /\ ~trialing
         /\ Charge(ss, session, subscriber, plans[plan].priceUsd8) = "charged"
         /\ sessions' = S!Debited(ss, session, plans[plan].priceUsd8)
         /\ hasUsedTrial' = hasUsedTrial
  BY <1>1, <1>4 DEF SubscribeOn
<1>8. r \in Sub
  BY <1>2, <1>5 DEF Sub, Status
<1>9. ss[session] # S!Unknown
  <2>1. CASE trialing
    BY <1>2, <1>3, <1>6 DEF S!RemainingOf, IInv, Priced
  <2>2. CASE ~trialing
    BY <1>7, <2>2 DEF Charge, S!Affords
  <2>3. QED
    BY <2>1, <2>2
<1>10. /\ sessions' \in Table
       /\ sessions'[session] # S!Unknown
       /\ \A m \in S!SessionId : ss[m] # S!Unknown => sessions'[m] # S!Unknown
  <2>1. CASE sessions' = ss
    BY <1>9, <2>1
  <2>2. CASE sessions' = S!Debited(ss, session, plans[plan].priceUsd8)
    <3>1. PICK n \in Nat : n = plans[plan].priceUsd8
      BY <1>2
    <3>2. /\ sessions' \in Table
          /\ sessions'[session] \in S!Session
      BY <1>9, <2>2, <3>1, DebitedEffect
    <3>3. \A m \in S!SessionId : m # session => sessions'[m] = ss[m]
      BY <2>2, <3>1, DebitedElsewhere
    <3>4. QED
      BY <3>2, <3>3, Distinct
  <2>3. QED
    BY <1>7, <2>1, <2>2
<1>11. /\ hasUsedTrial \subseteq hasUsedTrial' /\ hasUsedTrial' \subseteq Owner \X Plan
       /\ trialing => <<subscriber, plan>> \in hasUsedTrial'
  BY <1>7 DEF IInv, TypeOK
<1>12. /\ subs' \in [SubId -> {None} \cup Sub] /\ subs'[id] = r
       /\ \A other \in SubId : other # id => subs'[other] = subs[other]
       /\ nextSubId' \in 1..(MaxSubs + 1)
  BY <1>2, <1>6, <1>8, SubscriptionsAssumption DEF SubId
<1>13. TypeOK'
  BY <1>6, <1>10, <1>11, <1>12 DEF IInv, TypeOK, S!TypeOK, Table
<1>14. /\ id \notin Taken /\ Taken' = Taken \cup {id}
       /\ \A other \in Taken : subs'[other] = subs[other]
  BY <1>2, <1>8, <1>12, Distinct DEF Taken
<1>15. \A other \in Taken : Founded(other)'
  BY <1>6, <1>10, <1>11, <1>14, StaysFounded
<1>16. Founded(id)'
  <2>1. /\ r.session = session /\ r.subscriber = subscriber /\ r.plan = plan
        /\ r.trialExpiresAt # 0 => trialing
    BY <1>5
  <2>2. QED
    BY <1>3, <1>6, <1>10, <1>11, <1>12, <2>1 DEF Founded
<1>17. \A other \in SubId : other >= nextSubId' => subs'[other] = None
  BY <1>1, <1>6, <1>12 DEF IInv, SubId
<1>18. IInv'
  BY <1>6, <1>13, <1>14, <1>15, <1>16, <1>17 DEF IInv, Priced
<1>19. QED
  BY <1>1, <1>8, <1>10, <1>12, <1>14, <1>18

\* Sessions are looked up in the table a relayed grant is opened in.
LEMMA RelayedTable ==
    ASSUME IInv, NEW grant \in grants, S!MayOpen(grant)
    PROVE  /\ S!Opened(grant) \in Table
           /\ S!IdOf(grant) \in S!SessionId
           /\ S!NextNonces(grant) \in [Owner -> 0..MaxNonce]
           /\ sessions[S!IdOf(grant)] = S!Unknown
           /\ \A m \in S!SessionId : sessions[m] # S!Unknown => S!Opened(grant)[m] = sessions[m]
           /\ grant.owner \in Owner
<1>1. grant \in S!Grant /\ sessions \in Table /\ nonces \in [Owner -> 0..MaxNonce]
  BY DEF IInv, TypeOK, S!TypeOK, Table
<1>2. S!NextNonces(grant) \in [Owner -> 0..MaxNonce]
  BY <1>1, SubscriptionsAssumption DEF S!NextNonces, S!MayOpen, S!Grant
<1>3. grant.owner \in Owner
  BY <1>1 DEF S!Grant
<1>4. QED
  BY <1>1, <1>2, <1>3, OpenedEffect

LEMMA NewSubscriptionKeeps ==
    ASSUME IInv, NEW plan \in Plan, NEW withTrial \in BOOLEAN,
           \/ \E session \in S!SessionId : Subscribe(session.owner, plan, session, withTrial)
           \/ \E grant \in grants : SubscribeFor(grant, plan, withTrial)
    PROVE  IInv' /\ \A id \in Taken : subs'[id] = subs[id]
<1>1. sessions \in Table /\ nonces \in [Owner -> 0..MaxNonce]
  BY DEF IInv, TypeOK, S!TypeOK, Table
<1>2. CASE \E session \in S!SessionId : Subscribe(session.owner, plan, session, withTrial)
  <2>1. PICK session \in S!SessionId : Subscribe(session.owner, plan, session, withTrial)
    BY <1>2
  <2>2. session.owner \in Owner
    BY DEF S!SessionId
  <2>3. QED
    BY <1>1, <2>1, <2>2, SubscribeKeeps DEF Subscribe
<1>3. CASE \E grant \in grants : SubscribeFor(grant, plan, withTrial)
  <2>1. PICK grant \in grants : SubscribeFor(grant, plan, withTrial)
    BY <1>3
  <2>2. PICK ss, session : ss = S!Opened(grant) /\ session = S!IdOf(grant)
    OBVIOUS
  <2>3. /\ ss \in Table /\ session \in S!SessionId /\ grant.owner \in Owner
        /\ nonces' \in [Owner -> 0..MaxNonce]
        /\ \A m \in S!SessionId : sessions[m] # S!Unknown => ss[m] # S!Unknown
        /\ SubscribeOn(ss, grant.owner, plan, session, withTrial)
        /\ UNCHANGED <<grants, now, intents>> /\ relaying' = Unlocked
    BY <2>1, <2>2, RelayedTable DEF SubscribeFor
  <2>4. QED
    BY <2>3, SubscribeKeeps
<1>4. QED
  BY <1>2, <1>3

\* What a renewal, a cancellation or a reactivation may do to a subscription.
LEMMA ChangesOne ==
    ASSUME IInv, NEW id \in Taken, NEW r \in Sub, subs' = [subs EXCEPT ![id] = r],
           r.session = subs[id].session, r.subscriber = subs[id].subscriber,
           r.plan = subs[id].plan, r.trialExpiresAt = subs[id].trialExpiresAt,
           sessions' \in Table,
           \A m \in S!SessionId : sessions[m] # S!Unknown => sessions'[m] # S!Unknown,
           lastDunBucket' \in [SubId -> Nat], declined' \subseteq SubId \X Nat \X Nat,
           UNCHANGED <<nonces, grants, now, intents, relaying, plans, nextSubId, hasUsedTrial,
                       graceFailThreshold, outside>>
    PROVE  IInv' /\ Taken' = Taken
<1>1. id \in SubId /\ subs \in [SubId -> {None} \cup Sub]
  BY DEF Taken, IInv, TypeOK
<1>2. /\ subs' \in [SubId -> {None} \cup Sub] /\ subs'[id] = r
      /\ \A other \in SubId : other # id => subs'[other] = subs[other]
  BY <1>1
<1>3. TypeOK'
  BY <1>2 DEF IInv, TypeOK, S!TypeOK, Table, outside
<1>4. Taken' = Taken
  BY <1>1, <1>2, Distinct DEF Taken
<1>5. \A other \in Taken : Founded(other)'
  <2>1. \A other \in Taken : other \in SubId
    BY DEF Taken
  <2>2. \A other \in Taken :
           /\ subs'[other].session = subs[other].session
           /\ subs'[other].subscriber = subs[other].subscriber
           /\ subs'[other].plan = subs[other].plan
           /\ subs'[other].trialExpiresAt = subs[other].trialExpiresAt
    BY <1>2, <2>1
  <2>3. QED
    BY <2>2, StaysFounded
<1>6. \A other \in SubId : other >= nextSubId => subs'[other] = None
  BY <1>1, <1>2 DEF IInv, Taken
<1>7. IInv'
  BY <1>3, <1>4, <1>5, <1>6 DEF IInv, Priced
<1>8. QED
  BY <1>4, <1>7

LEMMA TakenTyped ==
    ASSUME IInv, NEW id \in SubId, subs[id] # None
    PROVE  /\ id \in Taken
           /\ subs[id] \in Sub
           /\ sessions[subs[id].session] \in S!Session
           /\ subs[id].session \in S!SessionId
           /\ subs[id].plan \in Plan
           /\ plans[subs[id].plan].priceUsd8 \in Nat
           /\ plans[subs[id].plan].periodSecs \in Nat \ {0}
<1>1. id \in Taken /\ subs[id] \in Sub /\ Founded(id)
  BY DEF Taken, IInv, TypeOK
<1>2. subs[id].session \in S!SessionId /\ subs[id].plan \in Plan
  BY <1>1 DEF Sub
<1>3. sessions[subs[id].session] \in S!Session
  BY <1>1, <1>2 DEF Founded, IInv, TypeOK, S!TypeOK
<1>4. /\ plans[subs[id].plan] \in [priceUsd8 : Nat, periodSecs : Nat, active : BOOLEAN]
      /\ plans[subs[id].plan].periodSecs > 0
  BY <1>1, <1>2 DEF Founded, IInv, Priced, TypeOK
<1>5. QED
  BY <1>1, <1>2, <1>3, <1>4

\* The bucket of a subscription past its due time.
LEMMA BucketTyped ==
    ASSUME IInv, NEW id \in SubId, subs[id] # None, now >= subs[id].periodEnd
    PROVE  Bucket(id) \in Nat
<1>1. PICK period \in Nat \ {0} : period = plans[subs[id].plan].periodSecs
  BY TakenTyped
<1>2. PICK ago \in Nat : ago = now - subs[id].periodEnd
  BY TakenTyped DEF Sub, IInv, TypeOK, S!TypeOK
<1>3. QED
  BY <1>1, <1>2 DEF Bucket

LEMMA RenewKeeps ==
    ASSUME IInv, NEW id \in SubId, Renew(id)
    PROVE  IInv' /\ Taken' = Taken
<1>1. subs[id] # None /\ now >= subs[id].periodEnd
  BY DEF Renew, Due, Renewable, None
<1>2. PICK s \in Sub, m \in S!SessionId, price \in Nat, period \in Nat \ {0} :
         /\ s = subs[id] /\ m = s.session
         /\ price = plans[s.plan].priceUsd8 /\ period = plans[s.plan].periodSecs
  BY <1>1, TakenTyped
<1>3. /\ id \in Taken /\ sessions \in Table /\ sessions[m] \in S!Session
      /\ lastDunBucket \in [SubId -> Nat] /\ declined \subseteq SubId \X Nat \X Nat
      /\ graceFailThreshold \in Nat /\ now \in Nat
  BY <1>1, <1>2, TakenTyped DEF IInv, TypeOK, S!TypeOK, Table
<1>4. sessions[m] # S!Unknown
  BY <1>3, Distinct
<1>5. PICK bucket \in Nat : bucket = Bucket(id)
  BY <1>1, BucketTyped
<1>6. /\ s.periodEnd \in Nat /\ s.failCount \in Nat
      /\ UNCHANGED <<nonces, grants, now, intents, relaying, plans, nextSubId, hasUsedTrial,
                     graceFailThreshold, outside>>
  BY <1>2 DEF Sub, Renew
<1>7. CASE Renewed(id)
  <2>1. PICK dueAt \in Nat : dueAt = s.periodEnd + period
    BY <1>2, <1>6
  <2> DEFINE r == [s EXCEPT !.periodEnd = dueAt, !.failCount = 0, !.status = "ACTIVE"]
  <2>2. /\ r \in Sub
        /\ r.session = s.session /\ r.subscriber = s.subscriber
        /\ r.plan = s.plan /\ r.trialExpiresAt = s.trialExpiresAt
    BY <1>2, <2>1 DEF Sub, Status
  <2>3. /\ subs' = [subs EXCEPT ![id] = r]
        /\ sessions' = S!Debited(sessions, m, price)
        /\ UNCHANGED <<lastDunBucket, declined>>
    BY <1>2, <1>7, <2>1 DEF Renewed
  <2>4. /\ sessions' \in Table
        /\ sessions'[m] # S!Unknown
    BY <1>3, <1>4, <2>3, DebitedEffect, Distinct
  <2>5. \A k \in S!SessionId : k # m => sessions'[k] = sessions[k]
    BY <1>3, <2>3, DebitedElsewhere
  <2>6. \A k \in S!SessionId : sessions[k] # S!Unknown => sessions'[k] # S!Unknown
    BY <2>4, <2>5
  <2>7. QED
    BY <1>2, <1>3, <1>6, <2>2, <2>3, <2>4, <2>6, ChangesOne
<1>8. CASE /\ MarkRenewalFailed(id)
           /\ declined' = declined \cup {<<id, subs[id].periodEnd, Bucket(id)>>}
           /\ UNCHANGED sessions
  <2>1. declined' \subseteq SubId \X Nat \X Nat
    BY <1>2, <1>3, <1>5, <1>6, <1>8
  <2>2. CASE UNCHANGED <<subs, lastDunBucket>>
    <3>1. TypeOK'
      BY <1>6, <1>8, <2>1, <2>2 DEF IInv, TypeOK, S!TypeOK, outside
    <3>2. IInv'
      BY <1>6, <1>8, <2>2, <3>1, StaysBilled
    <3>3. QED
      BY <2>2, <3>2 DEF Taken
  <2>3. CASE ~Throttled(id)
    <3>1. PICK fails \in Nat, status \in Status :
             /\ fails = s.failCount + 1
             /\ status = IF fails >= graceFailThreshold THEN "UNPAID" ELSE "PAST_DUE"
      BY <1>6 DEF Status
    <3> DEFINE r == [s EXCEPT !.failCount = fails, !.status = status]
    <3>2. /\ r \in Sub
          /\ r.session = s.session /\ r.subscriber = s.subscriber
          /\ r.plan = s.plan /\ r.trialExpiresAt = s.trialExpiresAt
      BY <1>2, <3>1 DEF Sub, Status
    <3>3. subs' = [subs EXCEPT ![id] = r] /\ lastDunBucket' \in [SubId -> Nat]
      BY <1>2, <1>3, <1>5, <1>8, <2>3, <3>1 DEF MarkRenewalFailed
    <3>4. QED
      BY <1>2, <1>3, <1>6, <1>8, <2>1, <3>2, <3>3, ChangesOne
  <2>4. QED
    BY <1>8, <2>2, <2>3 DEF MarkRenewalFailed
<1>9. QED
  BY <1>7, <1>8 DEF Renew

\* The contract is nobody's session's owner: its attempt to revoke always fails.
LEMMA CannotRevoke ==
    ASSUME NEW m \in S!SessionId
    PROVE  ~S!MayRevoke(m, Self)
BY SubscriptionsAssumption DEF S!MayRevoke, S!SessionId

LEMMA CancelKeeps ==
    ASSUME IInv, NEW id \in SubId, NEW caller \in Owner, Cancel(id, caller)
    PROVE  IInv' /\ Taken' = Taken
<1>1. PICK s \in Sub : s = subs[id] /\ id \in Taken /\ s.session \in S!SessionId
  BY TakenTyped DEF Cancel
<1>2. PICK r : r = [s EXCEPT !.status = "CANCELED"]
  OBVIOUS
<1>3. /\ r \in Sub
      /\ r.session = s.session /\ r.subscriber = s.subscriber
      /\ r.plan = s.plan /\ r.trialExpiresAt = s.trialExpiresAt
  BY <1>1, <1>2 DEF Sub, Status
<1>4. /\ subs' = [subs EXCEPT ![id] = r]
      /\ UNCHANGED <<sessions, lastDunBucket, declined>>
      /\ UNCHANGED <<nonces, grants, now, intents, relaying, plans, nextSubId, hasUsedTrial,
                     graceFailThreshold, outside>>
  BY <1>1, <1>2, CannotRevoke DEF Cancel
<1>5. /\ sessions' \in Table
      /\ lastDunBucket' \in [SubId -> Nat] /\ declined' \subseteq SubId \X Nat \X Nat
      /\ \A m \in S!SessionId : sessions[m] # S!Unknown => sessions'[m] # S!Unknown
  BY <1>4 DEF IInv, TypeOK, S!TypeOK, Table
<1>6. QED
  BY <1>1, <1>3, <1>4, <1>5, ChangesOne

LEMMA ReactivateKeeps ==
    ASSUME IInv, NEW id \in SubId, Reactivate(id)
    PROVE  IInv' /\ Taken' = Taken
<1>1. subs[id] # None
  BY DEF Reactivate, None
<1>2. PICK s \in Sub : s = subs[id] /\ id \in Taken
  BY <1>1, TakenTyped
<1>3. PICK r : r = [s EXCEPT !.failCount = 0, !.status = "PAST_DUE"]
  OBVIOUS
<1>4. /\ r \in Sub
      /\ r.session = s.session /\ r.subscriber = s.subscriber
      /\ r.plan = s.plan /\ r.trialExpiresAt = s.trialExpiresAt
  BY <1>2, <1>3 DEF Sub, Status
<1>5. /\ subs' = [subs EXCEPT ![id] = r]
      /\ lastDunBucket' = [lastDunBucket EXCEPT ![id] =
             IF now > subs[id].periodEnd THEN Bucket(id) + 1 ELSE 1]
      /\ UNCHANGED <<sessions, declined>>
      /\ UNCHANGED <<nonces, grants, now, intents, relaying, plans, nextSubId, hasUsedTrial,
                     graceFailThreshold, outside>>
  BY <1>2, <1>3 DEF Reactivate, grantVars
<1>6. now > subs[id].periodEnd => Bucket(id) \in Nat
  BY <1>1, <1>2, BucketTyped DEF Sub, IInv, TypeOK, S!TypeOK
<1>7. /\ sessions' \in Table
      /\ lastDunBucket' \in [SubId -> Nat] /\ declined' \subseteq SubId \X Nat \X Nat
      /\ \A m \in S!SessionId : sessions[m] # S!Unknown => sessions'[m] # S!Unknown
  BY <1>5, <1>6 DEF IInv, TypeOK, S!TypeOK, Table
<1>8. QED
  BY <1>2, <1>4, <1>5, <1>7, ChangesOne

LEMMA InitKeeps == Init => IInv
<1> SUFFICES ASSUME Init PROVE IInv
  OBVIOUS
<1>1. S!TypeOK
  BY SubscriptionsAssumption DEF Init, S!Init, S!TypeOK
<1>2. plans \in [Plan -> [priceUsd8 : Nat, periodSecs : Nat, active : BOOLEAN]]
  BY DEF Init, Unset
<1>3. TypeOK
  BY <1>1, <1>2, SubscriptionsAssumption DEF Init, TypeOK
<1>4. QED
  BY <1>3 DEF Init, IInv, Priced, Taken

LEMMA StepKeeps == IInv /\ [Next]_vars => IInv'
<1> SUFFICES ASSUME IInv, [Next]_vars PROVE IInv'
  OBVIOUS
<1>1. CASE UNCHANGED vars
  BY <1>1 DEF vars, grantVars, billing, outside, IInv, TypeOK, S!TypeOK, Priced, Taken, Founded
<1>2. CASE Next
  BY <1>2, SetPlanKeeps, NewSubscriptionKeeps, RenewKeeps, CancelKeeps, ReactivateKeeps,
     SurroundingsKeep DEF Next
<1>3. QED
  BY <1>1, <1>2

LEMMA Invariant == Spec => []IInv
BY InitKeeps, StepKeeps, PTL DEF Spec

\* The contract's type invariant: no amount, period, bucket or count goes below 0,
\* and every record keeps its shape.
THEOREM SubscriptionsTypes == Spec => []TypeOK
BY Invariant, PTL DEF IInv

-----------------------------------------------------------------------------
(* Dunning. *)

LEMMA RenewSparesBlameless ==
    ASSUME IInv, NEW k \in SubId, Renew(k), NEW id \in Taken,
           subs'[id].failCount > subs[id].failCount
    PROVE  \/ subs[id].subscriber \notin funded
           \/ ~S!Affords(sessions, subs[id].session, Self, plans[subs[id].plan].priceUsd8)
<1>1. /\ id \in SubId /\ subs[id] \in Sub /\ subs \in [SubId -> {None} \cup Sub]
      /\ subs[id].failCount \in Nat
  BY DEF IInv, TypeOK, Taken, Sub
<1>2. CASE Renewed(k)
  <2>1. id # k => subs'[id] = subs[id]
    BY <1>1, <1>2 DEF Renewed
  <2>2. id = k => subs'[id].failCount = 0
    BY <1>1, <1>2 DEF Renewed, Sub
  <2>3. QED
    BY <1>1, <2>1, <2>2
<1>3. CASE /\ Charge(sessions, subs[k].session, subs[k].subscriber,
                     plans[subs[k].plan].priceUsd8) = "declined"
           /\ MarkRenewalFailed(k)
  <2>1. id = k
    BY <1>1, <1>3 DEF MarkRenewalFailed
  <2>2. QED
    BY <1>3, <2>1 DEF Charge
<1>4. QED
  BY <1>2, <1>3 DEF Renew

LEMMA StepSparesBlameless ==
    ASSUME IInv, Next, NEW id \in Taken, subs'[id].failCount > subs[id].failCount
    PROVE  \/ subs[id].subscriber \notin funded
           \/ ~S!Affords(sessions, subs[id].session, Self, plans[subs[id].plan].priceUsd8)
<1>1. /\ id \in SubId /\ subs[id] \in Sub /\ subs \in [SubId -> {None} \cup Sub]
      /\ subs[id].failCount \in Nat
  BY DEF IInv, TypeOK, Taken, Sub
<1>2. subs'[id] # subs[id]
  BY <1>1
<1>3. ASSUME NEW k \in SubId, NEW caller \in Owner, Cancel(k, caller)
      PROVE  subs'[id].failCount = subs[id].failCount
  BY <1>1, <1>3 DEF Cancel, Sub
<1>4. ASSUME NEW k \in SubId, Reactivate(k)
      PROVE  subs'[id] = subs[id] \/ subs'[id].failCount = 0
  BY <1>1, <1>4 DEF Reactivate, Sub
<1>5. PICK k \in SubId : Renew(k)
  <2>1. \/ \E k \in SubId : Renew(k) \/ Reactivate(k) \/ \E caller \in Owner : Cancel(k, caller)
        \/ UNCHANGED subs
        \/ subs'[id] = subs[id]
    BY NewSubscriptionKeeps DEF Next, SetPlan, SetGraceFailThreshold, Sessions, Meanwhile,
       BeginSubscribeFor, SignIntent, OutsideChanges, billing
  <2>2. QED
    BY <1>1, <1>2, <1>3, <1>4, <2>1
<1>6. QED
  BY <1>5, RenewSparesBlameless

\* A subscriber whose budget and balance cover the charge is not dunned: a stale
\* oracle, a paused router or an inactive merchant is not its fault.
THEOREM NobodyBlamelessDunned == Spec => BlamelessNotDunned
<1>1. IInv /\ [Next]_vars =>
          [\A id \in Taken :
              subs'[id].failCount > subs[id].failCount =>
                  \/ subs[id].subscriber \notin funded
                  \/ ~S!Affords(sessions, subs[id].session, Self,
                                plans[subs[id].plan].priceUsd8)]_vars
  BY StepSparesBlameless
<1>2. QED
  BY <1>1, Invariant, PTL DEF Spec, BlamelessNotDunned

-----------------------------------------------------------------------------
(* Intents. *)

\* What is asked of each subscription by AsIntended.
SignedFor(id) == subs[id].subscriber \in Counterfactual => IntentsOf(id) # {}

LEMMA AsIntendedIs == AsIntended <=> \A id \in Taken : SignedFor(id)
BY DEF AsIntended, SignedFor

\* No session is open at a nonce that is still to be used, and the one that a
\* subscribeFor under way has read is not used by a subscription of that account.
Later ==
    /\ \A m \in S!SessionId : sessions[m] # S!Unknown => m.nonce < nonces[m.owner]
    /\ relaying # Unlocked =>
          /\ relaying.nonce <= nonces[relaying.subscriber]
          /\ \A id \in Taken : subs[id].subscriber = relaying.subscriber =>
                subs[id].session.nonce < relaying.nonce

\* A session that is open keeps its terms.
CapsKept == \A m \in S!SessionId :
    sessions[m] # S!Unknown =>
        /\ sessions'[m] # S!Unknown
        /\ sessions'[m].budgetCap = sessions[m].budgetCap
        /\ sessions'[m].expiry = sessions[m].expiry

LEMMA DebitKeepsCap ==
    ASSUME NEW ss \in Table, NEW m \in S!SessionId, ss[m] # S!Unknown, NEW n \in Nat,
           NEW k \in S!SessionId
    PROVE  /\ S!Debited(ss, m, n)[k] # S!Unknown <=> ss[k] # S!Unknown
           /\ S!Debited(ss, m, n)[k].budgetCap = ss[k].budgetCap
           /\ S!Debited(ss, m, n)[k].expiry = ss[k].expiry
<1>1. CASE k = m
  <2>1. ss[m] \in S!Session
    BY DEF Table
  <2>2. /\ S!Debited(ss, m, n)[m] = [ss[m] EXCEPT !.spent = ss[m].spent + n]
        /\ S!Debited(ss, m, n)[m] \in S!Session
    BY DebitedEffect
  <2>3. QED
    BY <1>1, <2>1, <2>2, Distinct DEF S!Session
<1>2. CASE k # m
  BY <1>2, DebitedElsewhere
<1>3. QED
  BY <1>1, <1>2

LEMMA RenewKeepsCaps ==
    ASSUME IInv, NEW id \in SubId, Renew(id)
    PROVE  /\ CapsKept
           /\ \A k \in S!SessionId : sessions'[k] # S!Unknown => sessions[k] # S!Unknown
<1>1. subs[id] # None
  BY DEF Renew, Due, Renewable, None
<1>2. PICK m \in S!SessionId, price \in Nat :
         m = subs[id].session /\ price = plans[subs[id].plan].priceUsd8
  BY <1>1, TakenTyped
<1>3. sessions \in Table /\ sessions[m] # S!Unknown
  BY <1>1, <1>2, TakenTyped, Distinct DEF IInv, TypeOK, S!TypeOK, Table
<1>4. sessions' = S!Debited(sessions, m, price) \/ sessions' = sessions
  BY <1>2 DEF Renew, Renewed
<1>5. QED
  BY <1>2, <1>3, <1>4, DebitKeepsCap DEF CapsKept

\* What a session that is opened, and one that is revoked, leave of the others.
LEMMA SessionsKeepLater ==
    ASSUME IInv, Later, Sessions
    PROVE  CapsKept /\ Later'
<1>1. /\ sessions \in Table /\ nonces \in [Owner -> 0..MaxNonce]
      /\ relaying \in {Unlocked} \cup [subscriber : Owner, nonce : Nat]
  BY DEF IInv, TypeOK, S!TypeOK, Table
<1>2. UNCHANGED <<relaying, subs>>
  BY DEF Sessions, billing
<1>3. ASSUME NEW grant \in S!Grant, S!Open(grant)
      PROVE  CapsKept /\ Later'
  <2>1. PICK o \in Owner, n \in Nat, m \in S!SessionId :
           o = grant.owner /\ n = grant.nonce /\ m = S!IdOf(grant)
    <3>1. S!IdOf(grant) \in S!SessionId
      BY <1>1, <1>3, OpenedEffect DEF S!Open
    <3>2. grant.owner \in Owner /\ grant.nonce \in Nat
      BY <1>3, SubscriptionsAssumption DEF S!Grant
    <3>3. QED
      BY <3>1, <3>2
  <2>2. /\ m.owner = o /\ m.nonce = n /\ nonces[o] = n
        /\ nonces' = [nonces EXCEPT ![o] = n + 1]
        /\ sessions' = S!Opened(grant) /\ S!MayOpen(grant)
    BY <1>3, <2>1 DEF S!IdOf, S!Open, S!MayOpen, S!NextNonces
  <2>3. /\ sessions[m] = S!Unknown
        /\ \A k \in S!SessionId : k # m => sessions'[k] = sessions[k]
    BY <1>1, <2>1, <2>2, OpenedEffect
  <2>4. CapsKept
    BY <2>3 DEF CapsKept
  <2>5. \A owner \in Owner : nonces[owner] <= nonces'[owner] /\ nonces'[owner] \in Nat
    BY <1>1, <2>2, SubscriptionsAssumption
  <2>6. ASSUME NEW k \in S!SessionId, sessions'[k] # S!Unknown
        PROVE  k.nonce < nonces'[k.owner]
    <3>1. k.owner \in Owner /\ k.nonce \in Nat
      BY SubscriptionsAssumption DEF S!SessionId, S!Nonce
    <3>2. CASE k = m
      BY <1>1, <2>2, <3>2
    <3>3. CASE k # m
      <4>1. k.nonce < nonces[k.owner] /\ nonces[k.owner] \in Nat
        BY <1>1, <2>3, <2>6, <3>1, <3>3, SubscriptionsAssumption DEF Later
      <4>2. QED
        BY <2>5, <3>1, <4>1
    <3>4. QED
      BY <3>2, <3>3
  <2>7. relaying # Unlocked =>
           relaying.nonce <= nonces'[relaying.subscriber]
    <3>1. ASSUME relaying # Unlocked PROVE relaying.nonce <= nonces'[relaying.subscriber]
      <4>1. PICK r \in Nat, who \in Owner : r = relaying.nonce /\ who = relaying.subscriber
        BY <1>1, <3>1
      <4>2. r <= nonces[who] /\ nonces[who] \in Nat
        BY <1>1, <3>1, <4>1, SubscriptionsAssumption DEF Later
      <4>3. QED
        BY <2>5, <4>1, <4>2
    <3>2. QED
      BY <3>1
  <2>8. QED
    BY <1>2, <2>4, <2>6, <2>7 DEF Later, Taken
<1>4. ASSUME NEW m \in S!SessionId, NEW owner \in Owner, S!Revoke(m, owner), UNCHANGED nonces
      PROVE  CapsKept /\ Later'
  <2>1. sessions[m] \in S!Session /\ sessions[m] # S!Unknown
    BY <1>1, <1>4, Distinct DEF S!Revoke, S!MayRevoke, S!Exists, Table
  <2>2. sessions' = [sessions EXCEPT ![m] = [sessions[m] EXCEPT !.revoked = TRUE]]
    BY <1>4 DEF S!Revoke
  <2>3. /\ sessions'[m] \in S!Session
        /\ sessions'[m].budgetCap = sessions[m].budgetCap
        /\ sessions'[m].expiry = sessions[m].expiry
        /\ \A k \in S!SessionId : k # m => sessions'[k] = sessions[k]
    BY <1>1, <2>1, <2>2 DEF S!Session, Table
  <2>4. CapsKept
    BY <2>1, <2>3, Distinct DEF CapsKept
  <2>5. \A k \in S!SessionId : sessions'[k] # S!Unknown => sessions[k] # S!Unknown
    BY <2>1, <2>3
  <2>6. QED
    BY <1>2, <1>4, <2>4, <2>5 DEF Later, Taken
<1>5. QED
  BY <1>3, <1>4, SessionsOpenOrRevoke

\* What was signed for stays signed for.
LEMMA StaysSigned ==
    ASSUME IInv, CapsKept, intents \subseteq intents', NEW id \in Taken, SignedFor(id),
           subs'[id].session = subs[id].session,
           subs'[id].subscriber = subs[id].subscriber,
           subs'[id].plan = subs[id].plan,
           subs'[id].trialExpiresAt = subs[id].trialExpiresAt,
           \A other \in Taken' \ {id} : subs'[other].subscriber = subs[id].subscriber =>
              \/ /\ other \in Taken
                 /\ subs'[other].subscriber = subs[other].subscriber
                 /\ subs'[other].session = subs[other].session
              \/ subs[id].subscriber \notin Counterfactual
              \/ /\ subs'[other].session.nonce \in Nat
                 /\ subs'[other].session.nonce > subs[id].session.nonce
    PROVE  SignedFor(id)'
<1>1. /\ subs[id].session \in S!SessionId /\ sessions[subs[id].session] # S!Unknown
      /\ subs[id].session.nonce \in Nat
  <2>1. subs[id] \in Sub /\ Founded(id)
    BY DEF IInv, TypeOK, Taken
  <2>2. subs[id].session \in S!SessionId
    BY <2>1 DEF Sub
  <2>3. QED
    BY <2>1, <2>2, SubscriptionsAssumption DEF Founded, S!SessionId, S!Nonce
<1>2. /\ sessions'[subs[id].session].budgetCap = sessions[subs[id].session].budgetCap
      /\ sessions'[subs[id].session].expiry = sessions[subs[id].session].expiry
  BY <1>1 DEF CapsKept
<1>3. SUFFICES ASSUME subs[id].subscriber \in Counterfactual
               PROVE  IntentsOf(id)' # {}
  BY DEF SignedFor
<1>4. PICK intent \in intents :
         /\ intent.subscriber = subs[id].subscriber
         /\ intent.plan = subs[id].plan
         /\ intent.budgetCap = sessions[subs[id].session].budgetCap
         /\ intent.expiry = sessions[subs[id].session].expiry
         /\ subs[id].trialExpiresAt # 0 => intent.withTrial
         /\ intent.nonce <= subs[id].session.nonce
         /\ \A other \in Taken \ {id} :
               subs[other].subscriber = subs[id].subscriber =>
                   subs[other].session.nonce \notin intent.nonce..subs[id].session.nonce
  BY <1>3 DEF SignedFor, IntentsOf
<1>5. PICK n \in Nat, last \in Nat : n = intent.nonce /\ last = subs[id].session.nonce
  BY <1>1, <1>4 DEF IInv, TypeOK, Intent
<1>6. ASSUME NEW other \in Taken' \ {id}, subs'[other].subscriber = subs[id].subscriber
      PROVE  subs'[other].session.nonce \notin n..last
  <2>1. CASE /\ other \in Taken
             /\ subs'[other].subscriber = subs[other].subscriber
             /\ subs'[other].session = subs[other].session
    BY <1>4, <1>5, <1>6, <2>1
  <2>2. CASE /\ subs'[other].session.nonce \in Nat
             /\ subs'[other].session.nonce > subs[id].session.nonce
    BY <1>5, <2>2
  <2>3. QED
    BY <1>3, <1>6, <2>1, <2>2
<1>7. intent \in IntentsOf(id)'
  BY <1>2, <1>4, <1>5, <1>6 DEF IntentsOf
<1>8. QED
  BY <1>7

\* A subscription that is taken keeps the terms of the table it is taken on.
LEMMA SubscribeKeepsCaps ==
    ASSUME IInv, NEW ss \in Table, NEW subscriber \in Owner, NEW plan \in Plan,
           NEW session \in S!SessionId, NEW withTrial \in BOOLEAN,
           SubscribeOn(ss, subscriber, plan, session, withTrial),
           NEW k \in S!SessionId
    PROVE  /\ sessions'[k] # S!Unknown <=> ss[k] # S!Unknown
           /\ sessions'[k].budgetCap = ss[k].budgetCap
           /\ sessions'[k].expiry = ss[k].expiry
<1>1. PICK price \in Nat : price = plans[plan].priceUsd8
  BY DEF IInv, TypeOK
<1>2. \/ sessions' = ss
      \/ /\ Charge(ss, session, subscriber, price) = "charged"
         /\ sessions' = S!Debited(ss, session, price)
  BY <1>1 DEF SubscribeOn
<1>3. CASE sessions' = ss
  BY <1>3
<1>4. CASE /\ Charge(ss, session, subscriber, price) = "charged"
           /\ sessions' = S!Debited(ss, session, price)
  <2>1. ss[session] # S!Unknown
    BY <1>4 DEF Charge, S!Affords
  <2>2. QED
    BY <1>4, <2>1, DebitKeepsCap
<1>5. QED
  BY <1>2, <1>3, <1>4

\* The terms of the subscription that is taken.
LEMMA TermsTaken ==
    ASSUME IInv, NEW ss \in Table, NEW subscriber \in Owner, NEW plan \in Plan,
           NEW session \in S!SessionId, NEW withTrial \in BOOLEAN,
           SubscribeOn(ss, subscriber, plan, session, withTrial)
    PROVE  /\ subs'[nextSubId].subscriber = subscriber
           /\ subs'[nextSubId].plan = plan
           /\ subs'[nextSubId].session = session
           /\ subs'[nextSubId].trialExpiresAt # 0 => withTrial
<1>1. nextSubId \in SubId /\ subs \in [SubId -> {None} \cup Sub]
  BY SubscriptionsAssumption DEF SubscribeOn, IInv, TypeOK, SubId
<1>2. QED
  BY <1>1 DEF SubscribeOn, Trialing

\* A relayed subscription rests on the intent it was checked against: none of the
\* account's other subscriptions is at its nonce or after.
LEMMA SubscribeForIsSigned ==
    ASSUME IInv, AsIntended, Later, NEW plan \in Plan, NEW withTrial \in BOOLEAN,
           NEW grant \in grants, SubscribeFor(grant, plan, withTrial)
    PROVE  AsIntended' /\ Later'
<1>1. /\ sessions \in Table /\ nonces \in [Owner -> 0..MaxNonce]
      /\ grant \in S!Grant /\ S!MayOpen(grant)
      /\ relaying \in {Unlocked} \cup [subscriber : Owner, nonce : Nat]
  BY DEF SubscribeFor, IInv, TypeOK, S!TypeOK, Table
<1>2. PICK ss \in Table, m \in S!SessionId, o \in Owner, n \in Nat :
         /\ ss = S!Opened(grant) /\ m = S!IdOf(grant)
         /\ o = grant.owner /\ n = grant.nonce
  <2>1. S!Opened(grant) \in Table /\ S!IdOf(grant) \in S!SessionId
    BY <1>1, OpenedEffect
  <2>2. grant.owner \in Owner /\ grant.nonce \in Nat
    BY <1>1, SubscriptionsAssumption DEF S!Grant
  <2>3. QED
    BY <2>1, <2>2
<1>3. /\ m.owner = o /\ m.nonce = n /\ nonces[o] = n
      /\ nonces' = [nonces EXCEPT ![o] = n + 1]
      /\ n + 1 \in 0..MaxNonce
  BY <1>1, <1>2, SubscriptionsAssumption
     DEF S!IdOf, S!MayOpen, SubscribeFor, S!NextNonces
<1>4. /\ sessions[m] = S!Unknown
      /\ \A k \in S!SessionId : k # m => ss[k] = sessions[k]
      /\ ss[m].budgetCap = grant.budgetCap /\ ss[m].expiry = grant.expiry
  <2>1. ss[m] = [delegate |-> grant.delegate, expiry |-> grant.expiry,
                 budgetCap |-> grant.budgetCap, spent |-> 0, revoked |-> FALSE]
    BY <1>1, <1>2, OpenedEffect
  <2>2. QED
    BY <1>1, <1>2, <2>1, OpenedEffect
<1>5. /\ SubscribeOn(ss, o, plan, m, withTrial)
      /\ UNCHANGED <<grants, now, intents>> /\ relaying' = Unlocked
      /\ nonces' \in [Owner -> 0..MaxNonce]
  BY <1>1, <1>2, <1>3 DEF SubscribeFor
<1>6. PICK b \in SubId :
         /\ b = nextSubId /\ b \notin Taken
         /\ Taken' = Taken \cup {b}
         /\ \A id \in Taken : subs'[id] = subs[id]
  BY <1>4, <1>5, SubscribeKeeps
<1>7. /\ subs'[b].subscriber = o /\ subs'[b].plan = plan
      /\ subs'[b].session = m
      /\ subs'[b].trialExpiresAt # 0 => withTrial
  BY <1>5, <1>6, TermsTaken
<1>8. \A k \in S!SessionId : /\ sessions'[k] # S!Unknown <=> ss[k] # S!Unknown
                             /\ sessions'[k].budgetCap = ss[k].budgetCap
                             /\ sessions'[k].expiry = ss[k].expiry
  BY <1>5, SubscribeKeepsCaps
<1>9. CapsKept
  BY <1>4, <1>8 DEF CapsKept
<1>10. PICK r \in Nat : /\ r = relaying.nonce /\ relaying.subscriber = o
                        /\ relaying # Unlocked
  BY <1>1, <1>2 DEF SubscribeFor
<1>11. /\ r <= n
       /\ \A id \in Taken : subs[id].subscriber = o => subs[id].session.nonce < r
  BY <1>3, <1>10 DEF Later
<1>12. \A id \in Taken : subs[id].session.nonce \in Nat
  BY SubscriptionsAssumption DEF IInv, TypeOK, Taken, Sub, S!SessionId, S!Nonce
<1>13. ASSUME NEW id \in Taken PROVE SignedFor(id)'
  <2>1. SignedFor(id)
    BY AsIntendedIs
  <2>2. subs'[id] = subs[id]
    BY <1>6
  <2>3. \A other \in Taken' \ {id} : subs'[other].subscriber = subs[id].subscriber =>
           \/ /\ other \in Taken
              /\ subs'[other].subscriber = subs[other].subscriber
              /\ subs'[other].session = subs[other].session
           \/ subs[id].subscriber \notin Counterfactual
           \/ /\ subs'[other].session.nonce \in Nat
              /\ subs'[other].session.nonce > subs[id].session.nonce
    <3>1. ASSUME subs[id].subscriber = o PROVE n > subs[id].session.nonce
      BY <1>11, <1>12, <3>1
    <3>2. QED
      BY <1>3, <1>6, <1>7, <3>1
  <2>4. intents \subseteq intents'
    BY <1>5
  <2>5. QED
    BY <1>9, <2>1, <2>2, <2>3, <2>4, StaysSigned
<1>14. SignedFor(b)'
  <2>1. PICK intent \in intents :
           intent = [subscriber |-> o, plan |-> plan, budgetCap |-> grant.budgetCap,
                     expiry |-> grant.expiry, withTrial |-> withTrial, nonce |-> r]
    BY <1>2, <1>10 DEF SubscribeFor, Intended
  <2>2. /\ intent.subscriber = o /\ intent.plan = plan
        /\ intent.budgetCap = grant.budgetCap /\ intent.expiry = grant.expiry
        /\ intent.withTrial = withTrial /\ intent.nonce = r
    BY <2>1
  <2>3. ASSUME NEW other \in Taken' \ {b}, subs'[other].subscriber = o
        PROVE  subs'[other].session.nonce \notin r..n
    <3>1. other \in Taken /\ subs'[other] = subs[other]
      BY <1>6
    <3>2. QED
      BY <1>11, <1>12, <2>3, <3>1
  <2>4. intent \in IntentsOf(b)'
    BY <1>3, <1>4, <1>5, <1>7, <1>8, <1>11, <2>2, <2>3 DEF IntentsOf
  <2>5. QED
    BY <2>4 DEF SignedFor
<1>15. \A id \in Taken' : SignedFor(id)'
  BY <1>6, <1>13, <1>14
<1>16. ASSUME NEW k \in S!SessionId, sessions'[k] # S!Unknown
       PROVE  k.nonce < nonces'[k.owner]
  <2>1. k.owner \in Owner /\ k.nonce \in Nat /\ nonces[k.owner] \in Nat
    BY <1>1, SubscriptionsAssumption DEF S!SessionId, S!Nonce
  <2>2. k # m => k.nonce < nonces[k.owner]
    BY <1>4, <1>8, <1>16 DEF Later
  <2>3. QED
    BY <1>1, <1>3, <2>1, <2>2
<1>17. QED
  BY <1>5, <1>15, <1>16 DEF AsIntended, SignedFor, Later

\* A subscription taken by the subscriber itself is not of an account that only signs.
LEMMA SubscribeIsSigned ==
    ASSUME IInv, AsIntended, Later, NEW plan \in Plan, NEW withTrial \in BOOLEAN,
           NEW session \in S!SessionId, Subscribe(session.owner, plan, session, withTrial)
    PROVE  AsIntended' /\ Later'
<1>1. PICK ss \in Table, o \in Owner : ss = sessions /\ o = session.owner
  BY DEF S!SessionId, IInv, TypeOK, S!TypeOK, Table
<1>2. /\ o \notin Counterfactual
      /\ SubscribeOn(ss, o, plan, session, withTrial)
      /\ UNCHANGED <<nonces, grants, now, intents>> /\ relaying' = Unlocked
      /\ nonces' \in [Owner -> 0..MaxNonce]
  BY <1>1 DEF Subscribe, IInv, TypeOK, S!TypeOK
<1>3. PICK b \in SubId :
         /\ b = nextSubId /\ b \notin Taken
         /\ Taken' = Taken \cup {b}
         /\ \A id \in Taken : subs'[id] = subs[id]
  BY <1>1, <1>2, SubscribeKeeps
<1>4. subs'[b].subscriber = o
  BY <1>2, <1>3, TermsTaken
<1>5. \A k \in S!SessionId : /\ sessions'[k] # S!Unknown <=> ss[k] # S!Unknown
                             /\ sessions'[k].budgetCap = ss[k].budgetCap
                             /\ sessions'[k].expiry = ss[k].expiry
  BY <1>2, SubscribeKeepsCaps
<1>6. CapsKept
  BY <1>1, <1>5 DEF CapsKept
<1>7. ASSUME NEW id \in Taken PROVE SignedFor(id)'
  <2>1. SignedFor(id)
    BY AsIntendedIs
  <2>2. subs'[id] = subs[id] /\ intents \subseteq intents'
    BY <1>2, <1>3
  <2>3. \A other \in Taken' \ {id} : subs'[other].subscriber = subs[id].subscriber =>
           \/ /\ other \in Taken
              /\ subs'[other].subscriber = subs[other].subscriber
              /\ subs'[other].session = subs[other].session
           \/ subs[id].subscriber \notin Counterfactual
           \/ /\ subs'[other].session.nonce \in Nat
              /\ subs'[other].session.nonce > subs[id].session.nonce
    BY <1>2, <1>3, <1>4
  <2>4. QED
    BY <1>6, <2>1, <2>2, <2>3, StaysSigned
<1>8. SignedFor(b)'
  BY <1>2, <1>4 DEF SignedFor
<1>9. \A id \in Taken' : SignedFor(id)'
  BY <1>3, <1>7, <1>8
<1>10. QED
  BY <1>1, <1>2, <1>5, <1>9 DEF AsIntended, SignedFor, Later

\* The steps that take no subscription change the terms of none.
LEMMA TermsStand ==
    ASSUME IInv, NEW id \in Taken,
           \/ UNCHANGED subs
           \/ \E k \in SubId : \/ Renew(k)
                               \/ Reactivate(k)
                               \/ \E caller \in Owner : Cancel(k, caller)
    PROVE  /\ subs'[id].session = subs[id].session
           /\ subs'[id].subscriber = subs[id].subscriber
           /\ subs'[id].plan = subs[id].plan
           /\ subs'[id].trialExpiresAt = subs[id].trialExpiresAt
<1>1. id \in SubId /\ subs[id] \in Sub /\ subs \in [SubId -> {None} \cup Sub]
  BY DEF IInv, TypeOK, Taken
<1>2. ASSUME NEW k \in SubId, Renew(k)
      PROVE  /\ subs'[id].session = subs[id].session
             /\ subs'[id].subscriber = subs[id].subscriber
             /\ subs'[id].plan = subs[id].plan
             /\ subs'[id].trialExpiresAt = subs[id].trialExpiresAt
  <2>1. CASE Renewed(k)
    <3>1. PICK dueAt : dueAt = subs[k].periodEnd + plans[subs[k].plan].periodSecs
      OBVIOUS
    <3>2. subs' = [subs EXCEPT ![k] = [subs[k] EXCEPT !.periodEnd = dueAt, !.failCount = 0,
                                                      !.status = "ACTIVE"]]
      BY <2>1, <3>1 DEF Renewed
    <3>3. QED
      BY <1>1, <3>2 DEF Sub
  <2>2. CASE MarkRenewalFailed(k)
    <3>1. PICK fails, status :
             \/ UNCHANGED subs
             \/ subs' = [subs EXCEPT ![k] =
                    [subs[k] EXCEPT !.failCount = fails, !.status = status]]
      BY <2>2 DEF MarkRenewalFailed
    <3>2. \/ subs'[id] = subs[id]
          \/ subs'[id] = [subs[id] EXCEPT !.failCount = fails, !.status = status]
      BY <1>1, <3>1
    <3>3. QED
      BY <1>1, <3>2 DEF Sub
  <2>3. QED
    BY <1>2, <2>1, <2>2 DEF Renew
<1>3. ASSUME NEW k \in SubId, \/ Reactivate(k)
                              \/ \E caller \in Owner : Cancel(k, caller)
      PROVE  /\ subs'[id].session = subs[id].session
             /\ subs'[id].subscriber = subs[id].subscriber
             /\ subs'[id].plan = subs[id].plan
             /\ subs'[id].trialExpiresAt = subs[id].trialExpiresAt
  <2>1. \/ subs'[id] = subs[id]
        \/ subs'[id] = [subs[id] EXCEPT !.failCount = 0, !.status = "PAST_DUE"]
        \/ subs'[id] = [subs[id] EXCEPT !.status = "CANCELED"]
    BY <1>1, <1>3 DEF Reactivate, Cancel
  <2>2. QED
    BY <1>1, <2>1 DEF Sub
<1>4. QED
  BY <1>2, <1>3

LEMMA StepIsSigned ==
    ASSUME IInv, AsIntended, Later, Next
    PROVE  AsIntended' /\ Later'
<1>1. CASE \E plan \in Plan, withTrial \in BOOLEAN :
              \/ \E session \in S!SessionId :
                    Subscribe(session.owner, plan, session, withTrial)
              \/ \E grant \in grants : SubscribeFor(grant, plan, withTrial)
  BY <1>1, SubscribeIsSigned, SubscribeForIsSigned
<1>2. ASSUME CapsKept, intents \subseteq intents', Taken' = Taken,
             \/ UNCHANGED subs
             \/ \E k \in SubId : \/ Renew(k)
                                 \/ Reactivate(k)
                                 \/ \E caller \in Owner : Cancel(k, caller)
      PROVE  AsIntended'
  <2>1. \A id \in Taken : /\ subs'[id].session = subs[id].session
                          /\ subs'[id].subscriber = subs[id].subscriber
                          /\ subs'[id].plan = subs[id].plan
                          /\ subs'[id].trialExpiresAt = subs[id].trialExpiresAt
    BY <1>2, TermsStand
  <2>2. ASSUME NEW id \in Taken PROVE SignedFor(id)'
    <3>1. SignedFor(id)
      BY AsIntendedIs
    <3>2. \A other \in Taken' \ {id} : subs'[other].subscriber = subs[id].subscriber =>
             \/ /\ other \in Taken
                /\ subs'[other].subscriber = subs[other].subscriber
                /\ subs'[other].session = subs[other].session
             \/ subs[id].subscriber \notin Counterfactual
             \/ /\ subs'[other].session.nonce \in Nat
                /\ subs'[other].session.nonce > subs[id].session.nonce
      BY <1>2, <2>1
    <3>3. QED
      BY <1>2, <2>1, <3>1, <3>2, StaysSigned
  <2>3. QED
    BY <1>2, <2>2 DEF AsIntended, SignedFor
<1>3. CASE \E k \in SubId : Renew(k)
  <2>1. PICK k \in SubId : Renew(k)
    BY <1>3
  <2>2. /\ CapsKept /\ Taken' = Taken
        /\ \A m \in S!SessionId : sessions'[m] # S!Unknown => sessions[m] # S!Unknown
    BY <2>1, RenewKeeps, RenewKeepsCaps
  <2>3. UNCHANGED <<intents, nonces, relaying>> /\ relaying = Unlocked
    BY <2>1 DEF Renew
  <2>4. AsIntended'
    BY <1>2, <2>1, <2>2, <2>3
  <2>5. QED
    BY <2>2, <2>3, <2>4 DEF Later
<1>4. CASE \E k \in SubId : Reactivate(k) \/ \E caller \in Owner : Cancel(k, caller)
  <2>1. PICK k \in SubId : Reactivate(k) \/ \E caller \in Owner : Cancel(k, caller)
    BY <1>4
  <2>2. Taken' = Taken
    BY <2>1, ReactivateKeeps, CancelKeeps
  <2>3. UNCHANGED <<sessions, nonces, intents, relaying>> /\ relaying = Unlocked
    <3>1. ASSUME NEW caller \in Owner, Cancel(k, caller) PROVE sessions' = sessions
      <4>1. subs[k].session \in S!SessionId
        BY <3>1, TakenTyped DEF Cancel
      <4>2. QED
        BY <3>1, <4>1, CannotRevoke DEF Cancel
    <3>2. QED
      BY <2>1, <3>1 DEF Reactivate, Cancel, grantVars
  <2>4. CapsKept
    BY <2>3 DEF CapsKept
  <2>5. AsIntended'
    BY <1>2, <2>1, <2>2, <2>3, <2>4
  <2>6. QED
    BY <2>3, <2>5 DEF Later
<1>5. ASSUME UNCHANGED subs, CapsKept, intents \subseteq intents' PROVE AsIntended'
  BY <1>2, <1>5 DEF Taken
<1>6. CASE Sessions
  <2>1. CapsKept /\ Later'
    BY <1>6, SessionsKeepLater
  <2>2. UNCHANGED <<subs, intents>>
    BY <1>6 DEF Sessions, billing
  <2>3. QED
    BY <1>5, <2>1, <2>2
<1>7. ASSUME UNCHANGED <<sessions, nonces, subs>>, intents \subseteq intents',
             \/ UNCHANGED relaying
             \/ \E subscriber \in Owner :
                   relaying' = [subscriber |-> subscriber, nonce |-> nonces[subscriber]]
      PROVE  AsIntended' /\ Later'
  <2>1. AsIntended'
    BY <1>5, <1>7 DEF CapsKept
  <2>2. CASE UNCHANGED relaying
    BY <1>7, <2>1, <2>2 DEF Later, Taken
  <2>3. ASSUME NEW o \in Owner, relaying' = [subscriber |-> o, nonce |-> nonces[o]]
        PROVE  Later'
    <3>1. relaying'.subscriber = o /\ relaying'.nonce = nonces[o] /\ nonces[o] \in Nat
      BY <2>3, SubscriptionsAssumption DEF IInv, TypeOK, S!TypeOK
    <3>2. ASSUME NEW id \in Taken, subs[id].subscriber = o
          PROVE  subs[id].session.nonce < nonces[o]
      BY <3>2 DEF Later, IInv, Founded, TypeOK, Taken, Sub
    <3>3. QED
      BY <1>7, <3>1, <3>2 DEF Later, Taken
  <2>4. QED
    BY <1>7, <2>1, <2>2, <2>3
<1>8. CASE Meanwhile
  BY <1>7, <1>8 DEF Meanwhile, S!SignGrant, S!Tick, billing
<1>9. CASE \E subscriber \in Owner : BeginSubscribeFor(subscriber)
  BY <1>7, <1>9 DEF BeginSubscribeFor, grantVars, billing
<1>10. QED
  BY <1>1, <1>3, <1>4, <1>6, <1>7, <1>8, <1>9 DEF Next, SetPlan, SetGraceFailThreshold,
     SignIntent, OutsideChanges, grantVars, billing

\* A relayer cannot redirect, nor use an intent twice: an account that only signs has
\* no subscription but to the plan and on the terms of an intent it signed, one for
\* each, though a factory may use up nonces between the check of the intent and the
\* opening of the session.
THEOREM RelayedAsIntended == Spec => []AsIntended
<1>1. Init => AsIntended /\ Later
  BY DEF Init, AsIntended, Taken, Later, S!Init
<1>2. IInv /\ AsIntended /\ Later /\ [Next]_vars => (AsIntended /\ Later)'
  <2>1. AsIntended /\ Later /\ UNCHANGED vars => AsIntended' /\ Later'
    BY DEF vars, grantVars, billing, AsIntended, Later, Taken, IntentsOf
  <2>2. QED
    BY <2>1, StepIsSigned
<1>3. QED
  BY <1>1, <1>2, Invariant, PTL DEF Spec

-----------------------------------------------------------------------------
(* Bills on mandates. *)

\* A session as a mandate, a record as a bill.
MandateOf(ss, m) ==
    IF ss[m] # S!Unknown /\ ~ss[m].revoked
    THEN [good |-> TRUE, owner |-> m.owner, until |-> ss[m].expiry,
          left |-> ss[m].budgetCap - ss[m].spent]
    ELSE [good |-> FALSE]

MandatesOf(ss) == [m \in S!SessionId |-> MandateOf(ss, m)]

StateOf(status) ==
    CASE status = "CANCELED" -> "closed"
      [] status = "UNPAID" -> "suspended"
      [] OTHER -> "open"

BillOf(r) ==
    IF r = None THEN [state |-> "none"]
    ELSE [state |-> StateOf(r.status), payer |-> r.subscriber, mandate |-> r.session,
          plan |-> r.plan, due |-> r.periodEnd, trial |-> r.trialExpiresAt # 0]

LEMMA MandatesAre == Mandates = MandatesOf(sessions)
BY DEF Mandates, MandatesOf, MandateOf, S!Exists

LEMMA BillsAre == Bills = [id \in SubId |-> BillOf(subs[id])]
BY DEF Bills, BillOf, StateOf, Taken

\* A mandate that is good, field by field.
Given(owner, until, left) ==
    [good |-> TRUE, owner |-> owner, until |-> until, left |-> left]

LEMMA GivenFields ==
    ASSUME NEW owner \in Owner, NEW until \in Int, NEW left \in Int
    PROVE  /\ Given(owner, until, left).good
           /\ Given(owner, until, left).owner = owner
           /\ Given(owner, until, left).until = until
           /\ Given(owner, until, left).left = left
BY DEF Given

LEMMA LessIsLeft ==
    ASSUME NEW owner \in Owner, NEW until \in Int, NEW left \in Int, NEW rest \in Int
    PROVE  [Given(owner, until, left) EXCEPT !.left = rest] = Given(owner, until, rest)
<1>1. ASSUME NEW good \in BOOLEAN
      PROVE  [[good |-> good, owner |-> owner, until |-> until, left |-> left]
                 EXCEPT !.left = rest] =
             [good |-> good, owner |-> owner, until |-> until, left |-> rest]
  OBVIOUS
<1>2. PICK good \in BOOLEAN : good = TRUE
  OBVIOUS
<1>3. /\ Given(owner, until, left) =
             [good |-> good, owner |-> owner, until |-> until, left |-> left]
      /\ Given(owner, until, rest) =
             [good |-> good, owner |-> owner, until |-> until, left |-> rest]
  BY <1>2 DEF Given
<1>4. good \in BOOLEAN
  BY <1>2
<1>5. [[good |-> good, owner |-> owner, until |-> until, left |-> left]
          EXCEPT !.left = rest] =
      [good |-> good, owner |-> owner, until |-> until, left |-> rest]
  BY <1>1, <1>4
<1>6. QED
  BY <1>3, <1>5

LEMMA MandateShape ==
    ASSUME NEW ss \in Table, NEW m \in S!SessionId, ss[m] # S!Unknown, ~ss[m].revoked
    PROVE  \E owner \in Owner, until \in Int, left \in Int :
              /\ owner = m.owner /\ until = ss[m].expiry
              /\ left = ss[m].budgetCap - ss[m].spent
              /\ MandateOf(ss, m) = Given(owner, until, left)
<1>1. ss[m] \in S!Session
  BY DEF Table
<1>2. /\ m.owner \in Owner /\ ss[m].expiry \in Int
      /\ ss[m].budgetCap - ss[m].spent \in Int
  BY <1>1 DEF S!Session, S!SessionId
<1>3. MandateOf(ss, m) = Given(m.owner, ss[m].expiry, ss[m].budgetCap - ss[m].spent)
  BY DEF MandateOf, Given
<1>4. QED
  BY <1>2, <1>3

\* A debit draws on a mandate.
LEMMA DebitDraws ==
    ASSUME NEW ss \in Table, NEW m \in S!SessionId, ss[m] # S!Unknown, ~ss[m].revoked,
           NEW n \in Nat
    PROVE  MandatesOf(S!Debited(ss, m, n)) =
               [MandatesOf(ss) EXCEPT ![m] =
                   [MandateOf(ss, m) EXCEPT !.left = MandateOf(ss, m).left - n]]
<1>1. PICK tt : tt = S!Debited(ss, m, n)
  OBVIOUS
<1>2. ss[m] \in S!Session
  BY DEF Table
<1>3. tt[m] = [ss[m] EXCEPT !.spent = ss[m].spent + n] /\ tt[m] \in S!Session
  BY <1>1, DebitedEffect
<1>4. tt[m] # S!Unknown /\ tt \in Table
  BY <1>1, <1>3, Distinct, DebitedEffect
<1>5. /\ ~tt[m].revoked /\ tt[m].expiry = ss[m].expiry
      /\ tt[m].budgetCap - tt[m].spent = ss[m].budgetCap - ss[m].spent - n
  BY <1>2, <1>3 DEF S!Session
<1>6. MandateOf(tt, m) = [MandateOf(ss, m) EXCEPT !.left = MandateOf(ss, m).left - n]
  <2>1. PICK owner \in Owner, until \in Int, left \in Int :
           /\ owner = m.owner /\ until = ss[m].expiry
           /\ left = ss[m].budgetCap - ss[m].spent
           /\ MandateOf(ss, m) = Given(owner, until, left)
    BY MandateShape
  <2>2. PICK owner_ \in Owner, until_ \in Int, left_ \in Int :
           /\ owner_ = m.owner /\ until_ = tt[m].expiry
           /\ left_ = tt[m].budgetCap - tt[m].spent
           /\ MandateOf(tt, m) = Given(owner_, until_, left_)
    BY <1>4, <1>5, MandateShape
  <2>3. owner_ = owner /\ until_ = until /\ left_ = left - n
    BY <1>5, <2>1, <2>2
  <2>4. MandateOf(ss, m).left = left
    BY <2>1, GivenFields
  <2>5. [Given(owner, until, left) EXCEPT !.left = left_] = Given(owner, until, left_)
    BY <2>1, <2>2, LessIsLeft
  <2>6. QED
    BY <2>1, <2>2, <2>3, <2>4, <2>5
<1>7. \A k \in S!SessionId : k # m => tt[k] = ss[k]
  BY <1>1, DebitedElsewhere
<1>8. \A k \in S!SessionId : k # m => MandateOf(tt, k) = MandateOf(ss, k)
  BY <1>7 DEF MandateOf
<1>9. QED
  BY <1>1, <1>6, <1>8 DEF MandatesOf

\* What Affords asks of a session, its mandate grants.
LEMMA AffordsIsGood ==
    ASSUME NEW ss \in Table, NEW m \in S!SessionId, NEW n \in Nat,
           S!Affords(ss, m, Self, n)
    PROVE  /\ ss[m] # S!Unknown /\ ~ss[m].revoked
           /\ MandateOf(ss, m).good /\ MandateOf(ss, m).owner = m.owner
           /\ now <= MandateOf(ss, m).until
           /\ n <= MandateOf(ss, m).left
BY DEF S!Affords, MandateOf

\* One record that changes is one bill that changes.
LEMMA OneBill ==
    ASSUME NEW id \in SubId, NEW r, subs \in [SubId -> {None} \cup Sub],
           subs' = [subs EXCEPT ![id] = r]
    PROVE  Bills' = [Bills EXCEPT ![id] = BillOf(r)]
<1>1. Bills' = [k \in SubId |-> BillOf(subs'[k])]
  BY DEF Bills, BillOf, StateOf, Taken
<1>2. QED
  BY <1>1, BillsAre

LEMMA SameBills ==
    ASSUME UNCHANGED subs
    PROVE  UNCHANGED Bills
BY DEF Bills, Taken

LEMMA SameMandates ==
    ASSUME UNCHANGED sessions
    PROVE  UNCHANGED Mandates
BY DEF Mandates, S!Exists

LEMMA SameTariff ==
    ASSUME UNCHANGED plans
    PROVE  UNCHANGED Tariff
BY DEF Tariff

\* A renewal that is paid is one bill paid: one price, for one period come due, from
\* the mandate the bill was opened on.
LEMMA RenewedIsPay ==
    ASSUME IInv, NEW id \in SubId, Renew(id), Renewed(id),
           Charge(sessions, subs[id].session, subs[id].subscriber,
                  plans[subs[id].plan].priceUsd8) = "charged"
    PROVE  Ideal!Pay(id)
<1>1. subs[id] # None /\ now >= subs[id].periodEnd
  BY DEF Renew, Due, Renewable, None
<1>2. PICK s \in Sub, m \in S!SessionId, price \in Nat, period \in Nat :
         /\ s = subs[id] /\ m = s.session
         /\ price = plans[s.plan].priceUsd8 /\ period = plans[s.plan].periodSecs
  BY <1>1, TakenTyped
<1>3. /\ s \in Sub /\ s # None /\ s.plan \in Plan
      /\ sessions \in Table /\ subs \in [SubId -> {None} \cup Sub] /\ now \in Nat
      /\ s.periodEnd \in Nat
  BY <1>1, <1>2 DEF IInv, TypeOK, S!TypeOK, Table, Sub
<1>4. StateOf(s.status) = "open"
  BY <1>2 DEF Renew, Due, Renewable, StateOf
<1>5. BillOf(s) = [state |-> "open", payer |-> s.subscriber, mandate |-> m,
                   plan |-> s.plan, due |-> s.periodEnd, trial |-> s.trialExpiresAt # 0]
  BY <1>2, <1>3, <1>4 DEF BillOf
<1>6. Bills[id] = BillOf(s)
  BY <1>2, BillsAre
<1>7. PICK dueAt \in Nat : dueAt = s.periodEnd + period
  BY <1>2, <1>3
<1>8. PICK r : r = [s EXCEPT !.periodEnd = dueAt, !.failCount = 0, !.status = "ACTIVE"]
  OBVIOUS
<1>9. /\ r \in Sub
      /\ r.status = "ACTIVE" /\ r.subscriber = s.subscriber /\ r.session = m
      /\ r.plan = s.plan /\ r.periodEnd = dueAt /\ r.trialExpiresAt = s.trialExpiresAt
  BY <1>2, <1>3, <1>7, <1>8 DEF Sub, Status
<1>10. BillOf(r) = [BillOf(s) EXCEPT !.due = dueAt]
  <2>1. r # None /\ StateOf(r.status) = "open"
    BY <1>9, Distinct DEF StateOf
  <2>2. QED
    BY <1>5, <1>9, <2>1 DEF BillOf
<1>11. Bills' = [Bills EXCEPT ![id] = [BillOf(s) EXCEPT !.due = dueAt]]
  <2>1. subs' = [subs EXCEPT ![id] = r]
    BY <1>2, <1>7, <1>8 DEF Renewed
  <2>2. QED
    BY <1>3, <1>10, <2>1, OneBill
<1>12. S!Affords(sessions, m, Self, price)
  BY <1>2 DEF Charge
<1>13. PICK given : given = MandateOf(sessions, m)
  OBVIOUS
<1>14. /\ given.good /\ now <= given.until /\ price <= given.left
       /\ sessions[m] # S!Unknown /\ ~sessions[m].revoked
  BY <1>2, <1>3, <1>12, <1>13, AffordsIsGood
<1>15. Mandates[m] = given
  BY <1>2, <1>13, MandatesAre DEF MandatesOf
<1>16. Mandates' = [Mandates EXCEPT ![m] = [given EXCEPT !.left = given.left - price]]
  <2>1. sessions' = S!Debited(sessions, m, price)
    BY <1>2 DEF Renewed
  <2>2. Mandates' = MandatesOf(sessions')
    BY DEF Mandates, MandatesOf, MandateOf, S!Exists
  <2>3. QED
    BY <1>2, <1>3, <1>13, <1>14, <2>1, <2>2, MandatesAre, DebitDraws
<1>17. /\ Tariff[s.plan].price = price /\ Tariff[s.plan].period = period
       /\ UNCHANGED Tariff /\ UNCHANGED now
  BY <1>2, <1>3 DEF Renew, Tariff
<1>18. /\ Bills[id].state = "open" /\ Bills[id].due = s.periodEnd
       /\ Bills[id].mandate = m /\ Bills[id].plan = s.plan
  BY <1>5, <1>6
<1>19. Ideal!Draw(Mandates[m], m, Tariff[s.plan].price)
  BY <1>14, <1>15, <1>16, <1>17 DEF Ideal!Draw
<1>20. Bills' = [Bills EXCEPT ![id].due = Bills[id].due + Tariff[Bills[id].plan].period]
  BY <1>6, <1>7, <1>11, <1>17, <1>18
<1>21. QED
  BY <1>1, <1>2, <1>17, <1>18, <1>19, <1>20 DEF Ideal!Pay

\* The mandates that are good.
GoodMandate ==
    {Given(owner, until, left) : owner \in Owner, until \in Int, left \in Int}

Less(mandate, n) == [mandate EXCEPT !.left = mandate.left - n]
More(mandate, n) == [mandate EXCEPT !.left = mandate.left + n]

\* A draw that is given back leaves the mandate as it was.
LEMMA DrawnAndBack ==
    ASSUME NEW given \in GoodMandate, NEW n \in Nat
    PROVE  /\ Less(given, n).good
           /\ More(Less(given, n), n) = given
           /\ n = 0 => Less(given, n) = given
<1> DEFINE rest == Less(given, n)
<1>1. PICK owner \in Owner, until \in Int, left \in Int :
         given = Given(owner, until, left)
  BY DEF GoodMandate
<1>2. owner \in Owner /\ until \in Int /\ left \in Int
  BY <1>1
<1>3. PICK less \in Int : less = left - n
  BY <1>2
<1>4. given.left = left
  BY <1>1, <1>2, GivenFields
<1>5. [Given(owner, until, left) EXCEPT !.left = less] = Given(owner, until, less)
  BY <1>2, <1>3, LessIsLeft
<1>6. rest = Given(owner, until, less)
  BY <1>1, <1>3, <1>4, <1>5 DEF Less
<1> HIDE DEF rest
<1>7. [Given(owner, until, less) EXCEPT !.left = left] = Given(owner, until, left)
  BY <1>2, <1>3, LessIsLeft
<1>8. rest.left = less /\ rest.good
  <2>1. less \in Int
    BY <1>2, <1>3
  <2>2. /\ Given(owner, until, less).good
        /\ Given(owner, until, less).left = less
    BY <1>2, <2>1, GivenFields
  <2>3. QED
    BY <1>6, <2>2
<1>9. rest.left + n = left
  BY <1>2, <1>3, <1>8
<1>10. More(rest, n) = given
  BY <1>1, <1>6, <1>7, <1>9 DEF More
<1>11. n = 0 => rest = given
  <2>1. n = 0 => less = left
    BY <1>2, <1>3
  <2>2. QED
    BY <1>1, <1>6, <2>1
<1>12. QED
  BY <1>8, <1>10, <1>11 DEF rest

\* A mandate that covers the first charge of a subscription, or the first charge to
\* come of one that starts with a trial.
LEMMA SubscribedIsGood ==
    ASSUME IInv, NEW ss \in Table, NEW subscriber \in Owner, NEW plan \in Plan,
           NEW session \in S!SessionId, NEW withTrial \in BOOLEAN,
           SubscribeOn(ss, subscriber, plan, session, withTrial),
           NEW price \in Nat,
           price = IF Trialing(subscriber, plan, withTrial) THEN 0 ELSE plans[plan].priceUsd8
    PROVE  /\ ss[session] # S!Unknown /\ ~ss[session].revoked
           /\ MandateOf(ss, session).good
           /\ MandateOf(ss, session).owner = subscriber
           /\ now <= MandateOf(ss, session).until
           /\ price <= MandateOf(ss, session).left
<1>1. /\ plans[plan].priceUsd8 \in Nat /\ plans[plan].priceUsd8 > 0
      /\ session.owner = subscriber
      /\ S!RemainingOf(ss, session) >= plans[plan].priceUsd8
  BY DEF SubscribeOn, Unset, IInv, Priced, TypeOK
<1>2. /\ ss[session] # S!Unknown /\ ~ss[session].revoked /\ now <= ss[session].expiry
      /\ ss[session].budgetCap - ss[session].spent >= plans[plan].priceUsd8
  BY <1>1 DEF S!RemainingOf
<1>3. price <= ss[session].budgetCap - ss[session].spent
  <2>1. ss[session].budgetCap - ss[session].spent \in Int
    BY <1>2 DEF Table, S!Session
  <2>2. QED
    BY <1>1, <1>2, <2>1
<1>4. QED
  BY <1>1, <1>2, <1>3 DEF MandateOf

LEMMA SubscribeDraws ==
    ASSUME IInv, NEW ss \in Table, NEW subscriber \in Owner, NEW plan \in Plan,
           NEW session \in S!SessionId, NEW withTrial \in BOOLEAN,
           SubscribeOn(ss, subscriber, plan, session, withTrial),
           \/ ss = sessions
           \/ /\ sessions[session] = S!Unknown
              /\ \A k \in S!SessionId : k # session => ss[k] = sessions[k],
           NEW price \in Nat,
           price = IF Trialing(subscriber, plan, withTrial) THEN 0 ELSE plans[plan].priceUsd8,
           NEW given, given = MandateOf(ss, session)
    PROVE  /\ Mandates' = [Mandates EXCEPT ![session] =
                               [given EXCEPT !.left = given.left - price]]
           /\ Mandates'[session].good
           /\ given = IF Mandates[session].good THEN Mandates[session]
                      ELSE [Mandates'[session] EXCEPT !.left = Mandates'[session].left + price]
<1>1. ss[session] # S!Unknown /\ ~ss[session].revoked /\ given.good
  BY SubscribedIsGood
<1>2. given \in GoodMandate
  BY <1>1, MandateShape DEF GoodMandate
<1>3. PICK rest : rest = [given EXCEPT !.left = given.left - price]
  OBVIOUS
<1>4. /\ rest.good
      /\ [rest EXCEPT !.left = rest.left + price] = given
      /\ price = 0 => rest = given
  <2>1. rest = Less(given, price) /\ More(rest, price) = [rest EXCEPT !.left = rest.left + price]
    BY <1>3 DEF Less, More
  <2>2. QED
    BY <1>2, <2>1, DrawnAndBack
<1>5. Mandates' = MandatesOf(sessions')
  BY DEF Mandates, MandatesOf, MandateOf, S!Exists
<1>6. Mandates' = [MandatesOf(ss) EXCEPT ![session] = rest]
  <2>1. CASE Trialing(subscriber, plan, withTrial)
    <3>1. sessions' = ss
      BY <2>1 DEF SubscribeOn
    <3>2. rest = given
      BY <1>4, <2>1
    <3>3. QED
      BY <1>5, <3>1, <3>2 DEF MandatesOf
  <2>2. CASE ~Trialing(subscriber, plan, withTrial)
    <3>1. sessions' = S!Debited(ss, session, price)
      BY <2>2 DEF SubscribeOn
    <3>2. QED
      BY <1>1, <1>3, <1>5, <3>1, DebitDraws
  <2>3. QED
    BY <2>1, <2>2
<1>7. \A k \in S!SessionId : k # session => MandateOf(ss, k) = MandateOf(sessions, k)
  BY DEF MandateOf
<1>8. Mandates' = [Mandates EXCEPT ![session] = rest]
  BY <1>6, <1>7, MandatesAre DEF MandatesOf
<1>9. Mandates'[session] = rest
  BY <1>8 DEF Mandates
<1>10. Mandates[session] = MandateOf(sessions, session)
  BY MandatesAre DEF MandatesOf
<1>11. given = IF Mandates[session].good THEN Mandates[session]
               ELSE [rest EXCEPT !.left = rest.left + price]
  <2>1. CASE ss = sessions
    BY <1>1, <1>10, <2>1
  <2>2. CASE sessions[session] = S!Unknown
    BY <1>4, <1>10, <2>2 DEF MandateOf
  <2>3. QED
    BY <2>1, <2>2
<1>12. QED
  BY <1>3, <1>4, <1>8, <1>9, <1>11

LEMMA BillFields ==
    ASSUME NEW r, r # None
    PROVE  /\ BillOf(r).payer = r.subscriber /\ BillOf(r).plan = r.plan
           /\ BillOf(r).trial <=> r.trialExpiresAt # 0
BY DEF BillOf

\* A subscription that is taken is a bill that is opened.
LEMMA SubscribeIsOpen ==
    ASSUME IInv, NEW ss \in Table, NEW subscriber \in Owner, NEW plan \in Plan,
           NEW session \in S!SessionId, NEW withTrial \in BOOLEAN,
           SubscribeOn(ss, subscriber, plan, session, withTrial), UNCHANGED now,
           \/ ss = sessions
           \/ /\ sessions[session] = S!Unknown
              /\ \A k \in S!SessionId : k # session => ss[k] = sessions[k],
           NEW trial \in BOOLEAN, trial = Trialing(subscriber, plan, withTrial)
    PROVE  nextSubId \in SubId /\ Ideal!Open(nextSubId, session, plan, trial)
<1>1. PICK id \in SubId : id = nextSubId
  BY SubscriptionsAssumption DEF SubscribeOn, IInv, TypeOK, SubId
<1>2. /\ subs[id] = None /\ subs \in [SubId -> {None} \cup Sub] /\ now \in Nat
      /\ plans[plan].priceUsd8 \in Nat /\ plans[plan].periodSecs \in Nat
      /\ plans[plan].periodSecs > 0
  BY <1>1 DEF IInv, TypeOK, S!TypeOK, SubscribeOn, Unset, Priced
<1>3. PICK price \in Nat : price = IF trial THEN 0 ELSE plans[plan].priceUsd8
  BY <1>2
<1>4. PICK given : given = MandateOf(ss, session)
  OBVIOUS
<1>5. /\ given.good /\ given.owner = subscriber
      /\ now <= given.until /\ price <= given.left
  BY <1>3, <1>4, SubscribedIsGood
<1>6. /\ Mandates' = [Mandates EXCEPT ![session] =
                          [given EXCEPT !.left = given.left - price]]
      /\ Mandates'[session].good
      /\ given = IF Mandates[session].good THEN Mandates[session]
                 ELSE [Mandates'[session] EXCEPT !.left = Mandates'[session].left + price]
  BY <1>3, <1>4, SubscribeDraws
<1>7. Tariff[plan].price = plans[plan].priceUsd8 /\ Tariff[plan].period = plans[plan].periodSecs
  BY DEF Tariff
<1>8. UNCHANGED Tariff
  BY DEF SubscribeOn, Tariff
<1>9. Bills[id].state = "none"
  BY <1>2, BillsAre DEF BillOf
<1>10. PICK dueAt \in Nat : dueAt = now + plans[plan].periodSecs
  BY <1>2
<1>11. PICK r : r = [plan |-> plan, subscriber |-> subscriber, session |-> session,
                     periodEnd |-> dueAt, trialExpiresAt |-> IF trial THEN dueAt ELSE 0,
                     failCount |-> 0, status |-> IF trial THEN "TRIALING" ELSE "ACTIVE"]
  OBVIOUS
<1>12. subs' = [subs EXCEPT ![id] = r]
  BY <1>1, <1>10, <1>11 DEF SubscribeOn
<1>13. BillOf(r) = [state |-> "open", payer |-> subscriber, mandate |-> session,
                    plan |-> plan, due |-> dueAt, trial |-> trial]
  <2>1. /\ r.subscriber = subscriber /\ r.session = session /\ r.plan = plan
        /\ r.periodEnd = dueAt
        /\ (r.trialExpiresAt # 0) = trial
    BY <1>2, <1>10, <1>11
  <2>2. r # None /\ StateOf(r.status) = "open"
    BY <1>11 DEF None, StateOf
  <2>3. QED
    BY <2>1, <2>2 DEF BillOf
<1>14. Bills' = [Bills EXCEPT ![id] =
                     [state |-> "open", payer |-> given.owner, mandate |-> session,
                      plan |-> plan, due |-> now + Tariff[plan].period, trial |-> trial]]
  <2>1. Bills' = [Bills EXCEPT ![id] = BillOf(r)]
    BY <1>2, <1>12, OneBill
  <2>2. QED
    BY <1>5, <1>7, <1>10, <1>13, <2>1
<1>15. trial => ~Ideal!HadTrial(given.owner, plan)
  <2>1. SUFFICES ASSUME trial, NEW b \in SubId, Bills[b].state # "none",
                        Bills[b].payer = subscriber, Bills[b].plan = plan, Bills[b].trial
                 PROVE  FALSE
    BY <1>5 DEF Ideal!HadTrial
  <2>2. Bills[b] = BillOf(subs[b])
    BY BillsAre
  <2>3. subs[b] # None
    BY <2>1, <2>2 DEF BillOf
  <2>4. subs[b].subscriber = subscriber /\ subs[b].plan = plan /\ subs[b].trialExpiresAt # 0
    BY <2>1, <2>2, <2>3, BillFields
  <2>5. <<subscriber, plan>> \in hasUsedTrial
    BY <2>3, <2>4 DEF IInv, Taken, Founded
  <2>6. QED
    BY <2>1, <2>5 DEF Trialing
<1>16. Ideal!Draw(given, session, price)
  BY <1>5, <1>6 DEF Ideal!Draw
<1>17. Ideal!Open(id, session, plan, trial)
  BY <1>3, <1>6, <1>7, <1>8, <1>9, <1>14, <1>15, <1>16 DEF Ideal!Open
<1>18. QED
  BY <1>1, <1>17

\* A record that changes status, and no more, is a bill that turns or stays.
LEMMA TurnOne ==
    ASSUME IInv, NEW id \in SubId, NEW s \in Sub, s = subs[id], NEW r \in Sub,
           r.session = s.session, r.subscriber = s.subscriber, r.plan = s.plan,
           r.periodEnd = s.periodEnd, r.trialExpiresAt = s.trialExpiresAt,
           subs' = [subs EXCEPT ![id] = r], UNCHANGED <<sessions, plans, now>>,
           \/ StateOf(r.status) = StateOf(s.status)
           \/ <<StateOf(s.status), StateOf(r.status)>> \in Ideal!Moves
    PROVE  Ideal!Turn(id) \/ UNCHANGED Ideal!idealVars
<1>1. subs \in [SubId -> {None} \cup Sub] /\ s # None /\ r # None
  BY Distinct DEF IInv, TypeOK
<1>2. PICK from, to : from = StateOf(s.status) /\ to = StateOf(r.status)
  OBVIOUS
<1>3. PICK trial : trial = (s.trialExpiresAt # 0)
  OBVIOUS
<1>4. /\ BillOf(s) = [state |-> from, payer |-> s.subscriber, mandate |-> s.session,
                      plan |-> s.plan, due |-> s.periodEnd, trial |-> trial]
      /\ BillOf(r) = [state |-> to, payer |-> s.subscriber, mandate |-> s.session,
                      plan |-> s.plan, due |-> s.periodEnd, trial |-> trial]
  BY <1>1, <1>2, <1>3 DEF BillOf
<1>5. BillOf(r) = [BillOf(s) EXCEPT !.state = to] /\ BillOf(s).state = from
  BY <1>4
<1>6. Bills' = [Bills EXCEPT ![id] = BillOf(r)] /\ Bills[id] = BillOf(s)
  BY <1>1, OneBill, BillsAre
<1>7. UNCHANGED <<Mandates, Tariff, now>>
  BY SameMandates, SameTariff
<1>8. CASE from = to
  <2>1. BillOf(r) = BillOf(s)
    BY <1>4, <1>8
  <2>2. UNCHANGED Bills
    BY <1>6, <2>1, BillsAre
  <2>3. QED
    BY <1>7, <2>2 DEF Ideal!idealVars
<1>9. CASE <<from, to>> \in Ideal!Moves
  <2>1. Bills[id].state = from /\ Bills' = [Bills EXCEPT ![id].state = to]
    BY <1>5, <1>6
  <2>2. QED
    BY <1>7, <1>9, <2>1 DEF Ideal!Turn
<1>10. QED
  BY <1>2, <1>8, <1>9

LEMMA CancelIsTurn ==
    ASSUME IInv, NEW id \in SubId, NEW caller \in Owner, Cancel(id, caller)
    PROVE  Ideal!Turn(id) \/ UNCHANGED Ideal!idealVars
<1>1. PICK s \in Sub : s = subs[id] /\ s.session \in S!SessionId
  BY TakenTyped DEF Cancel
<1>2. PICK r : r = [s EXCEPT !.status = "CANCELED"]
  OBVIOUS
<1>3. /\ r \in Sub /\ r.status = "CANCELED"
      /\ r.session = s.session /\ r.subscriber = s.subscriber /\ r.plan = s.plan
      /\ r.periodEnd = s.periodEnd /\ r.trialExpiresAt = s.trialExpiresAt
  BY <1>1, <1>2 DEF Sub, Status
<1>4. subs' = [subs EXCEPT ![id] = r] /\ UNCHANGED <<sessions, plans, now>>
  BY <1>1, <1>2, CannotRevoke DEF Cancel
<1>5. <<StateOf(s.status), StateOf(r.status)>> \in Ideal!Moves
  <2>1. s.status # "CANCELED"
    BY <1>1 DEF Cancel
  <2>2. StateOf(s.status) \in {"open", "suspended"} /\ StateOf(r.status) = "closed"
    BY <1>3, <2>1 DEF StateOf
  <2>3. QED
    BY <2>2 DEF Ideal!Moves
<1>6. QED
  BY <1>1, <1>3, <1>4, <1>5, TurnOne

LEMMA ReactivateIsTurn ==
    ASSUME IInv, NEW id \in SubId, Reactivate(id)
    PROVE  Ideal!Turn(id) \/ UNCHANGED Ideal!idealVars
<1>1. subs[id] # None
  BY DEF Reactivate, None
<1>2. PICK s \in Sub : s = subs[id]
  BY <1>1, TakenTyped
<1>3. PICK r : r = [s EXCEPT !.failCount = 0, !.status = "PAST_DUE"]
  OBVIOUS
<1>4. /\ r \in Sub /\ r.status = "PAST_DUE"
      /\ r.session = s.session /\ r.subscriber = s.subscriber /\ r.plan = s.plan
      /\ r.periodEnd = s.periodEnd /\ r.trialExpiresAt = s.trialExpiresAt
  BY <1>2, <1>3 DEF Sub, Status
<1>5. subs' = [subs EXCEPT ![id] = r] /\ UNCHANGED <<sessions, plans, now>>
  BY <1>2, <1>3 DEF Reactivate, grantVars
<1>6. <<StateOf(s.status), StateOf(r.status)>> \in Ideal!Moves
  <2>1. StateOf(s.status) = "suspended" /\ StateOf(r.status) = "open"
    BY <1>2, <1>4 DEF Reactivate, StateOf
  <2>2. QED
    BY <2>1 DEF Ideal!Moves
<1>7. QED
  BY <1>2, <1>4, <1>5, <1>6, TurnOne

\* A renewal that is declined suspends the bill or leaves it as it is.
LEMMA DunningIsTurn ==
    ASSUME IInv, NEW id \in SubId, Renew(id), MarkRenewalFailed(id), UNCHANGED sessions
    PROVE  Ideal!Turn(id) \/ UNCHANGED Ideal!idealVars
<1>1. subs[id] # None
  BY DEF Renew, Due, Renewable, None
<1>2. PICK s \in Sub : s = subs[id]
  BY <1>1, TakenTyped
<1>3. s.failCount \in Nat /\ UNCHANGED <<sessions, plans, now>>
  BY <1>2 DEF Sub, Renew
<1>4. CASE UNCHANGED subs
  BY <1>3, <1>4, SameBills, SameMandates, SameTariff DEF Ideal!idealVars
<1>5. CASE ~Throttled(id)
  <2>1. PICK fails \in Nat, status \in {"UNPAID", "PAST_DUE"} :
           subs' = [subs EXCEPT ![id] = [s EXCEPT !.failCount = fails, !.status = status]]
    <3>1. PICK fails, status :
             /\ fails = s.failCount + 1
             /\ status = IF fails >= graceFailThreshold THEN "UNPAID" ELSE "PAST_DUE"
      OBVIOUS
    <3>2. fails \in Nat /\ status \in {"UNPAID", "PAST_DUE"}
      BY <1>3, <3>1
    <3>3. subs' = [subs EXCEPT ![id] = [s EXCEPT !.failCount = fails, !.status = status]]
      BY <1>2, <1>5, <3>1 DEF MarkRenewalFailed
    <3>4. QED
      BY <3>2, <3>3
  <2> DEFINE r == [s EXCEPT !.failCount = fails, !.status = status]
  <2>2. /\ r \in Sub /\ r.status = status
        /\ r.session = s.session /\ r.subscriber = s.subscriber /\ r.plan = s.plan
        /\ r.periodEnd = s.periodEnd /\ r.trialExpiresAt = s.trialExpiresAt
    BY <1>2, <2>1 DEF Sub, Status
  <2>3. StateOf(s.status) = "open" /\ StateOf(status) \in {"open", "suspended"}
    BY <1>2, <2>1 DEF Renew, Due, Renewable, StateOf
  <2>4. \/ StateOf(status) = StateOf(s.status)
        \/ <<StateOf(s.status), StateOf(status)>> \in Ideal!Moves
    BY <2>3 DEF Ideal!Moves
  <2>5. subs' = [subs EXCEPT ![id] = r]
    BY <2>1
  <2> HIDE DEF r
  <2>6. QED
    BY <1>2, <1>3, <2>2, <2>4, <2>5, TurnOne
<1>6. QED
  BY <1>4, <1>5 DEF MarkRenewalFailed

LEMMA RenewIsPayOrTurn ==
    ASSUME IInv, NEW id \in SubId, Renew(id)
    PROVE  \/ Ideal!Pay(id)
           \/ Ideal!Turn(id)
           \/ UNCHANGED Ideal!idealVars
<1>1. CASE /\ Charge(sessions, subs[id].session, subs[id].subscriber,
                     plans[subs[id].plan].priceUsd8) = "charged"
           /\ Renewed(id)
  BY <1>1, RenewedIsPay
<1>2. CASE MarkRenewalFailed(id) /\ UNCHANGED sessions
  BY <1>2, DunningIsTurn
<1>3. QED
  BY <1>1, <1>2 DEF Renew

LEMMA NewSubscriptionIsOpen ==
    ASSUME IInv, NEW plan \in Plan, NEW withTrial \in BOOLEAN,
           \/ \E session \in S!SessionId : Subscribe(session.owner, plan, session, withTrial)
           \/ \E grant \in grants : SubscribeFor(grant, plan, withTrial)
    PROVE  Ideal!Next
<1>1. ASSUME NEW ss \in Table, NEW subscriber \in Owner, NEW session \in S!SessionId,
             SubscribeOn(ss, subscriber, plan, session, withTrial), UNCHANGED now,
             \/ ss = sessions
             \/ /\ sessions[session] = S!Unknown
                /\ \A k \in S!SessionId : k # session => ss[k] = sessions[k]
      PROVE  Ideal!Next
  <2>1. PICK trial \in BOOLEAN : trial = Trialing(subscriber, plan, withTrial)
    BY DEF Trialing
  <2>2. nextSubId \in SubId /\ Ideal!Open(nextSubId, session, plan, trial)
    BY <1>1, <2>1, SubscribeIsOpen
  <2>3. QED
    BY <2>1, <2>2 DEF Ideal!Next
<1>2. CASE \E session \in S!SessionId : Subscribe(session.owner, plan, session, withTrial)
  <2>1. PICK session \in S!SessionId : Subscribe(session.owner, plan, session, withTrial)
    BY <1>2
  <2>2. session.owner \in Owner /\ sessions \in Table
    BY DEF S!SessionId, IInv, TypeOK, S!TypeOK, Table
  <2>3. QED
    BY <1>1, <2>1, <2>2 DEF Subscribe
<1>3. CASE \E grant \in grants : SubscribeFor(grant, plan, withTrial)
  <2>1. PICK grant \in grants : SubscribeFor(grant, plan, withTrial)
    BY <1>3
  <2>2. PICK ss, session : ss = S!Opened(grant) /\ session = S!IdOf(grant)
    OBVIOUS
  <2>3. grant \in S!Grant /\ sessions \in Table /\ S!MayOpen(grant)
    BY <2>1 DEF IInv, TypeOK, S!TypeOK, Table, SubscribeFor
  <2>4. /\ ss \in Table /\ session \in S!SessionId /\ grant.owner \in Owner
        /\ sessions[session] = S!Unknown
    BY <2>2, <2>3, RelayedTable
  <2>5. \A k \in S!SessionId : k # session => ss[k] = sessions[k]
    BY <2>2, <2>3, OpenedEffect
  <2>6. SubscribeOn(ss, grant.owner, plan, session, withTrial) /\ UNCHANGED now
    BY <2>1, <2>2 DEF SubscribeFor
  <2>7. QED
    BY <1>1, <2>4, <2>5, <2>6
<1>4. QED
  BY <1>2, <1>3

\* What owners do to their sessions arranges the mandates.
LEMMA SessionsArrange ==
    ASSUME IInv, Sessions
    PROVE  Ideal!Arrange
<1>1. sessions \in Table /\ nonces \in [Owner -> 0..MaxNonce]
  BY DEF IInv, TypeOK, S!TypeOK, Table
<1>2. UNCHANGED <<Bills, Tariff>>
  BY SameBills, SameTariff DEF Sessions, billing
<1>3. /\ Mandates = [m \in S!SessionId |-> MandateOf(sessions, m)]
      /\ Mandates' = [m \in S!SessionId |-> MandateOf(sessions', m)]
  BY DEF Mandates, MandateOf, S!Exists
<1>4. ASSUME UNCHANGED now,
             \A m \in S!SessionId :
                \/ sessions'[m] = sessions[m]
                \/ ~MandateOf(sessions, m).good /\ MandateOf(sessions', m).good
                \/ MandateOf(sessions, m).good /\ ~MandateOf(sessions', m).good
      PROVE  Ideal!Arrange
  <2>1. \A m \in S!SessionId :
           sessions'[m] = sessions[m] => MandateOf(sessions', m) = MandateOf(sessions, m)
    BY DEF MandateOf
  <2>2. QED
    BY <1>2, <1>3, <1>4, <2>1 DEF Ideal!Arrange
<1>5. ASSUME NEW grant \in S!Grant, S!Open(grant), UNCHANGED now
      PROVE  Ideal!Arrange
  <2>1. grant \in S!Grant
    BY <1>5
  <2>2. S!MayOpen(grant) /\ sessions' = S!Opened(grant) /\ UNCHANGED now
    BY <1>5 DEF S!Open
  <2>3. PICK m \in S!SessionId : m = S!IdOf(grant)
    BY <1>1, <2>1, <2>2, OpenedEffect
  <2>4. /\ sessions[m] = S!Unknown
        /\ \A k \in S!SessionId : k # m => sessions'[k] = sessions[k]
        /\ sessions'[m] \in S!Session
        /\ ~sessions'[m].revoked
    <3>1. sessions'[m] = [delegate |-> grant.delegate, expiry |-> grant.expiry,
                          budgetCap |-> grant.budgetCap, spent |-> 0, revoked |-> FALSE]
      BY <1>1, <2>1, <2>2, <2>3, OpenedEffect
    <3>2. ~sessions'[m].revoked
      BY <3>1
    <3>3. sessions[m] = S!Unknown /\ sessions'[m] \in S!Session
      BY <1>1, <2>1, <2>2, <2>3, OpenedEffect
    <3>4. \A k \in S!SessionId : k # m => sessions'[k] = sessions[k]
      BY <1>1, <2>1, <2>2, <2>3, OpenedEffect
    <3>5. QED
      BY <3>2, <3>3, <3>4
  <2>5. ~MandateOf(sessions, m).good /\ MandateOf(sessions', m).good
    BY <2>4, Distinct DEF MandateOf
  <2>6. QED
    BY <1>4, <2>2, <2>4, <2>5
<1>6. ASSUME NEW m \in S!SessionId, NEW owner \in Owner, S!Revoke(m, owner), UNCHANGED now
      PROVE  Ideal!Arrange
  <2>1. sessions[m] \in S!Session /\ sessions[m] # S!Unknown /\ ~sessions[m].revoked
    BY <1>1, <1>6 DEF S!Revoke, S!MayRevoke, S!Exists, Table
  <2>2. sessions' = [sessions EXCEPT ![m] = [sessions[m] EXCEPT !.revoked = TRUE]]
    BY <1>6 DEF S!Revoke
  <2>3. sessions'[m].revoked
    BY <1>1, <2>1, <2>2 DEF S!Session, Table
  <2>4. MandateOf(sessions, m).good /\ ~MandateOf(sessions', m).good
    BY <2>1, <2>3 DEF MandateOf
  <2>5. \A k \in S!SessionId : k # m => sessions'[k] = sessions[k]
    BY <1>1, <2>2 DEF Table
  <2>6. QED
    BY <1>4, <1>6, <2>4, <2>5
<1>7. QED
  BY <1>5, <1>6, SessionsOpenOrRevoke

LEMMA MeanwhileIsIdeal ==
    ASSUME Meanwhile
    PROVE  \/ Ideal!Tick
           \/ UNCHANGED Ideal!idealVars
<1>1. UNCHANGED <<Mandates, Bills, Tariff>>
  BY SameMandates, SameBills, SameTariff DEF Meanwhile, billing, S!SignGrant, S!Tick
<1>2. QED
  BY <1>1 DEF Meanwhile, S!SignGrant, S!Tick, Ideal!Tick, Ideal!idealVars

LEMMA SetPlanArranges ==
    ASSUME NEW plan, NEW price, NEW period, NEW active, SetPlan(plan, price, period, active)
    PROVE  Ideal!Arrange
<1>1. UNCHANGED <<Mandates, Bills, now>>
  BY SameMandates, SameBills DEF SetPlan, grantVars
<1>2. QED
  BY <1>1 DEF Ideal!Arrange

LEMMA InitIsIdeal == Init => Ideal!Init
<1> SUFFICES ASSUME Init PROVE Ideal!Init
  OBVIOUS
<1>1. Mandates = [m \in S!SessionId |-> [good |-> FALSE]]
  BY DEF Init, S!Init, Mandates, S!Exists
<1>2. Bills = [id \in SubId |-> [state |-> "none"]]
  BY DEF Init, Bills, Taken
<1>3. QED
  BY <1>1, <1>2 DEF Init, S!Init, Ideal!Init

LEMMA StepIsIdeal == IInv /\ [Next]_vars => [Ideal!Next]_Ideal!idealVars
<1> SUFFICES ASSUME IInv, [Next]_vars PROVE Ideal!Next \/ UNCHANGED Ideal!idealVars
  BY DEF Ideal!idealVars
<1>1. ASSUME UNCHANGED <<sessions, plans, subs, now>> PROVE UNCHANGED Ideal!idealVars
  BY <1>1, SameBills, SameMandates, SameTariff DEF Ideal!idealVars
<1>2. CASE UNCHANGED vars
  BY <1>1, <1>2 DEF vars, grantVars, billing
<1>3. CASE \E plan \in Plan, price \in Price, period \in Period, active \in BOOLEAN :
              SetPlan(plan, price, period, active)
  BY <1>3, SetPlanArranges DEF Ideal!Next
<1>4. CASE \E plan \in Plan, withTrial \in BOOLEAN :
              \/ \E session \in S!SessionId :
                    Subscribe(session.owner, plan, session, withTrial)
              \/ \E grant \in grants : SubscribeFor(grant, plan, withTrial)
  BY <1>4, NewSubscriptionIsOpen
<1>5. CASE \E id \in SubId :
              Renew(id) \/ Reactivate(id) \/ \E caller \in Owner : Cancel(id, caller)
  <2>1. PICK id \in SubId :
           Renew(id) \/ Reactivate(id) \/ \E caller \in Owner : Cancel(id, caller)
    BY <1>5
  <2>2. Ideal!Pay(id) \/ Ideal!Turn(id) \/ UNCHANGED Ideal!idealVars
    BY <2>1, RenewIsPayOrTurn, CancelIsTurn, ReactivateIsTurn
  <2>3. QED
    BY <2>2 DEF Ideal!Next
<1>6. CASE Sessions \/ Meanwhile
  BY <1>6, SessionsArrange, MeanwhileIsIdeal DEF Ideal!Next
<1>7. CASE \/ OutsideChanges
           \/ \E n \in Threshold : SetGraceFailThreshold(n)
           \/ \E intent : SignIntent(intent)
           \/ \E subscriber \in Owner : BeginSubscribeFor(subscriber)
  BY <1>1, <1>7 DEF OutsideChanges, SetGraceFailThreshold, SignIntent, BeginSubscribeFor,
     grantVars, billing
<1>8. QED
  BY <1>2, <1>3, <1>4, <1>5, <1>6, <1>7 DEF Next

\* The contract implements the ideal billing: every pull is one price for one period
\* that has come due, from a budget of the subscriber's own, none follows a
\* cancellation or comes while UNPAID, and a subscriber has one trial of a plan.
THEOREM MandatesHonoured == Spec => HonoursMandates
BY Invariant, InitIsIdeal, StepIsIdeal, PTL DEF Spec, HonoursMandates, Ideal!Spec

-----------------------------------------------------------------------------
(* The gateway: the cursor's arithmetic. *)

\* Division has one quotient.
LEMMA OneQuotient ==
    ASSUME NEW n \in Nat \ {0}, NEW q \in Int, NEW p \in Int, NEW r \in 0..(n - 1),
           NEW s \in 0..(n - 1), n * q + r = n * p + s
    PROVE  r = s
<1>1. CASE q = p
  BY <1>1
<1>2. CASE q < p
  <2>1. PICK d \in Nat : p = q + 1 + d
    <3>1. p - q - 1 \in Nat /\ p = q + 1 + (p - q - 1)
      BY <1>2
    <3> QED
      BY <3>1
  <2>2. n * p = n * q + n + n * d
    BY <2>1
  <2>3. n * d >= 0
    OBVIOUS
  <2>4. QED
    BY <2>2, <2>3
<1>3. CASE q > p
  <2>1. PICK d \in Nat : q = p + 1 + d
    <3>1. q - p - 1 \in Nat /\ q = p + 1 + (q - p - 1)
      BY <1>3
    <3> QED
      BY <3>1
  <2>2. n * q = n * p + n + n * d
    BY <2>1
  <2>3. n * d >= 0
    OBVIOUS
  <2>4. QED
    BY <2>2, <2>3
<1>4. QED
  BY <1>1, <1>2, <1>3

LEMMA Divides ==
    ASSUME NEW x \in Nat, NEW n \in Nat \ {0}
    PROVE  /\ x % n \in 0..(n - 1) /\ x \div n \in Nat
           /\ x = n * (x \div n) + (x % n)
  OBVIOUS

LEMMA SumModulo ==
    ASSUME NEW x \in Nat, NEW y \in Nat, NEW n \in Nat \ {0}
    PROVE  (x + y) % n = ((x % n) + y) % n
<1>1. PICK q \in Nat, r \in 0..(n - 1) : x = n * q + r /\ r = x % n
  BY Divides
<1>2. PICK p \in Nat, s \in 0..(n - 1) : r + y = n * p + s /\ s = (r + y) % n
  <2>1. r + y \in Nat
    OBVIOUS
  <2> QED
    BY <2>1, Divides
<1>3. PICK o \in Nat, t \in 0..(n - 1) : x + y = n * o + t /\ t = (x + y) % n
  <2>1. x + y \in Nat
    OBVIOUS
  <2> QED
    BY <2>1, Divides
<1>4. n * q \in Int /\ n * p \in Int /\ n * o \in Int /\ q + p \in Nat
  OBVIOUS
<1>5. n * (q + p) = n * q + n * p
  OBVIOUS
<1>6. n * o + t = n * (q + p) + s
  BY <1>1, <1>2, <1>3, <1>4, <1>5
<1>7. t = s
  BY <1>4, <1>6, OneQuotient
<1>8. QED
  BY <1>1, <1>2, <1>3, <1>7

LEMMA SmallModulo ==
    ASSUME NEW n \in Nat \ {0}, NEW x \in 0..(2 * n - 1)
    PROVE  x % n = IF x < n THEN x ELSE x - n
<1>1. CASE x < n
  BY <1>1
<1>2. CASE x >= n
  BY <1>2
<1>3. QED
  BY <1>1, <1>2

\* A multiple below a is below its ceiling.
LEMMA BelowCeiling ==
    ASSUME NEW n \in Nat, NEW a \in Nat, NEW b \in Nat \ {0}, n * b < a
    PROVE  n < Ceiling(a, b)
<1>1. PICK q \in Nat, r \in 0..(b - 1) : a + b - 1 = b * q + r /\ q = (a + b - 1) \div b
  <2>1. a + b - 1 \in Nat
    OBVIOUS
  <2> QED
    BY <2>1, Divides
<1>2. SUFFICES ASSUME n >= q PROVE FALSE
  BY <1>1 DEF Ceiling
<1>3. PICK d \in Nat : n = q + d
  <2>1. n - q \in Nat /\ n = q + (n - q)
    BY <1>2
  <2> QED
    BY <2>1
<1>4. n * b = q * b + d * b /\ d * b >= 0 /\ q * b = b * q /\ b * q \in Nat /\ n * b \in Nat
  BY <1>3
<1>5. QED
  BY <1>1, <1>4

-----------------------------------------------------------------------------
\* How far behind the cursor's place the i-th id is.
Behind(i) ==
    LET c == scanCursor % Len(watched)
    IN  IF i - 1 >= c THEN i - 1 - c ELSE i - 1 - c + Len(watched)

Shaped ==
    /\ watched \in Seq(Id)
    /\ \A i, j \in 1..Len(watched) : watched[i] = watched[j] => i = j
    /\ scanCursor \in Nat
    /\ due \subseteq Id
    /\ overlooked \in [Id -> Nat]

LEMMA ScanBounds ==
    ASSUME Shaped, Len(watched) # 0
    PROVE  Scan \in 1..MAX_SCAN /\ Scan <= Len(watched) /\ Len(watched) \in Nat \ {0}
  BY GatewayAssumption DEF Shaped, Scan, AtMost

LEMMA BehindBounds ==
    ASSUME Shaped, NEW i \in 1..Len(watched)
    PROVE  Behind(i) \in 0..(Len(watched) - 1)
<1>1. PICK n \in Nat \ {0} : n = Len(watched)
  BY DEF Shaped
<1>2. scanCursor \in Nat /\ scanCursor % n \in 0..(n - 1)
  BY <1>1, Divides DEF Shaped
<1>3. QED
  BY <1>1, <1>2 DEF Behind

\* An id within the scan of the cursor is in the window.
LEMMA InWindow ==
    ASSUME Shaped, NEW i \in 1..Len(watched), Behind(i) < Scan
    PROVE  \E w \in 1..Scan : Window[w] = watched[i]
<1>1. PICK n \in Nat \ {0} : n = Len(watched)
  BY DEF Shaped
<1>2. PICK c \in 0..(n - 1) : c = scanCursor % n
  BY <1>1, Divides DEF Shaped
<1>3. PICK b \in 0..(n - 1) : b = Behind(i)
  BY <1>1, BehindBounds
<1>4. c + b = i - 1 \/ c + b = i - 1 + n
  BY <1>1, <1>2, <1>3 DEF Behind
<1>5. (c + b) % n = i - 1
  <2>1. PICK x \in 0..(2 * n - 1) : x = c + b
    BY <1>2, <1>3
  <2>2. x % n = IF x < n THEN x ELSE x - n
    BY <2>1, SmallModulo
  <2>3. QED
    BY <1>1, <1>4, <2>1, <2>2
<1>6. Scan \in Nat /\ b + 1 \in 1..Scan
  BY <1>1, <1>3, ScanBounds
<1>7. Window[b + 1] = watched[1 + ((c + b + 1 - 1) % n)]
  BY <1>1, <1>2, <1>6 DEF Window
<1>8. c + b + 1 - 1 = c + b /\ 1 + (i - 1) = i
  BY <1>2, <1>3
<1>9. Window[b + 1] = watched[i]
  BY <1>5, <1>7, <1>8
<1>10. QED
  BY <1>6, <1>9

LEMMA PlacesFinite ==
    ASSUME Shaped, Len(watched) # 0
    PROVE  /\ IsFiniteSet(DuePlaces) /\ DuePlaces \subseteq 1..Scan
           /\ Cardinality(DuePlaces) \in 0..Scan
<1>1. Scan \in Nat
  BY ScanBounds
<1>2. IsFiniteSet(1..Scan) /\ Cardinality(1..Scan) = Scan
  BY <1>1, FS_Interval
<1>3. DuePlaces \subseteq 1..Scan
  BY DEF DuePlaces
<1>4. IsFiniteSet(DuePlaces) /\ Cardinality(DuePlaces) <= Scan
  BY <1>2, <1>3, FS_Subset
<1>5. QED
  BY <1>1, <1>3, <1>4, FS_CardinalityType

Before(i) == {j \in DuePlaces : j < i}

\* A later due place has more due places before it.
LEMMA BeforeGrows ==
    ASSUME Shaped, Len(watched) # 0, NEW i \in DuePlaces, NEW j \in DuePlaces, i < j
    PROVE  Cardinality(Before(i)) < Cardinality(Before(j))
<1>1. IsFiniteSet(Before(j)) /\ i \in Before(j) /\ Before(i) \subseteq Before(j) \ {i}
  <2>1. i \in Int /\ j \in Int
    BY PlacesFinite
  <2> QED
    BY <2>1, PlacesFinite, FS_Subset DEF Before, DuePlaces
<1>2. /\ IsFiniteSet(Before(j) \ {i})
      /\ Cardinality(Before(j) \ {i}) = Cardinality(Before(j)) - 1
  BY <1>1, FS_RemoveElement
<1>3. Cardinality(Before(i)) <= Cardinality(Before(j) \ {i})
  BY <1>1, <1>2, FS_Subset
<1>4. Cardinality(Before(j)) \in Nat /\ Cardinality(Before(i)) \in Nat
  BY <1>1, <1>2, FS_CardinalityType, FS_Subset
<1>5. QED
  BY <1>2, <1>3, <1>4

\* A batch leaves nobody out who is due and in the window.
LEMMA InBatch ==
    ASSUME Shaped, MAX_SCAN <= MAX_BATCH, Len(watched) # 0,
           NEW w \in 1..Scan, Window[w] \in due
    PROVE  Window[w] \in Members(DueIds)
<1>1. w \in DuePlaces /\ w \in Int
  BY ScanBounds DEF DuePlaces, IsDue
<1>2. PICK m \in Nat : m = Cardinality(DuePlaces)
  BY PlacesFinite, FS_CardinalityType
<1>3. m <= MAX_BATCH
  BY <1>2, PlacesFinite, ScanBounds, GatewayAssumption
<1>4. AtMost(m, MAX_BATCH) = m
  BY <1>2, <1>3, GatewayAssumption DEF AtMost
<1>5. Cardinality(Before(w)) \in 0..(m - 1)
  <2>1. Before(w) \subseteq DuePlaces \ {w}
    BY <1>1 DEF Before
  <2>2. IsFiniteSet(DuePlaces \ {w}) /\ Cardinality(DuePlaces \ {w}) = m - 1
    BY <1>1, <1>2, PlacesFinite, FS_RemoveElement
  <2>3. IsFiniteSet(Before(w)) /\ Cardinality(Before(w)) <= m - 1
    BY <2>1, <2>2, FS_Subset
  <2>4. QED
    BY <1>2, <2>3, FS_CardinalityType
<1>6. PICK n \in 1..m : n = Cardinality(Before(w)) + 1
  BY <1>2, <1>5
<1>7. w = CHOOSE i \in DuePlaces : Cardinality({j \in DuePlaces : j < i}) = n - 1
  <2>1. \A i \in DuePlaces : i # w => Cardinality(Before(i)) # n - 1
    <3>1. SUFFICES ASSUME NEW i \in DuePlaces, i # w, Cardinality(Before(i)) = n - 1
                   PROVE  FALSE
      OBVIOUS
    <3>2. i \in Int /\ Cardinality(Before(i)) = Cardinality(Before(w))
      BY <1>5, <1>6, <3>1, PlacesFinite
    <3>3. CASE i < w
      BY <1>1, <1>5, <3>2, <3>3, BeforeGrows
    <3>4. CASE w < i
      BY <1>1, <1>5, <3>2, <3>4, BeforeGrows
    <3>5. QED
      BY <1>1, <3>1, <3>2, <3>3, <3>4
  <2>2. Cardinality(Before(w)) = n - 1
    BY <1>5, <1>6
  <2>3. \A i \in DuePlaces : Cardinality({j \in DuePlaces : j < i}) = n - 1 <=> i = w
    BY <1>1, <2>1, <2>2 DEF Before
  <2>4. QED
    BY <1>1, <2>3
<1>8. n \in DOMAIN DueIds /\ DueIds[n] = Window[w]
  BY <1>2, <1>4, <1>6, <1>7 DEF DueIds
<1>9. QED
  BY <1>8 DEF Members

-----------------------------------------------------------------------------
Missed(i) == overlooked[watched[i]]

IsBatch(ids) == ids \in Seq(Members(ids)) /\ Len(ids) <= MAX_BATCH

Simulations ==
    /\ simulated = [k \in Keeper |-> simulated[k]]
    /\ \A k \in Keeper : simulated[k] = NoData \/
          (simulated[k].scanned \in 0..MAX_SCAN /\ IsBatch(simulated[k].ids))

\* The rounds the i-th id was left out of have brought the cursor that much nearer.
Nears(i) == Missed(i) * Scan + Behind(i) < Len(watched)

\* A keeper is about to renew it, or to move the cursor on towards it.
Batched(k, i) == simulated[k] # NoData /\ watched[i] \in Members(simulated[k].ids)

Steps(k, i) ==
    /\ simulated[k] # NoData /\ simulated[k].scanned = Scan
    /\ Behind(i) >= Scan /\ Missed(i) * Scan + Behind(i) - Scan < Len(watched)

Comes(i) ==
    \/ (\A k \in Keeper : simulated[k] = NoData) /\ Nears(i)
    \/ \E k \in Keeper : Batched(k, i) \/ Steps(k, i)

Swept(i) ==
    Missed(i) # 0 =>
        /\ Missed(i) * Scan < Len(watched)
        /\ watched[i] \in due \ reached => Comes(i)

GatewayInv == Shaped /\ Simulations /\ \A i \in 1..Len(watched) : Swept(i)

\* Nobody was left out since the registry changed, or a stranger performed.
LEMMA FreshSweep ==
    ASSUME GatewayInv, Shaped', Simulations', overlooked' = [id \in Id |-> 0]
    PROVE  GatewayInv'
<1>1. \A i \in 1..Len(watched') : watched'[i] \in Id
  BY DEF Shaped
<1>2. \A i \in 1..Len(watched') : Missed(i)' = 0
  BY <1>1 DEF Missed
<1>3. QED
  BY <1>2 DEF GatewayInv, Swept

LEMMA ChangesKeeps ==
    ASSUME GatewayInv, NEW list \in Seq(Id), Changes(list),
           \A i, j \in 1..Len(list) : list[i] = list[j] => i = j
    PROVE  GatewayInv'
<1>1. /\ watched' = list /\ overlooked' = [id \in Id |-> 0]
      /\ UNCHANGED <<scanCursor, due, simulated, reached>>
  BY DEF Changes
<1>2. Shaped' /\ Simulations'
  BY <1>1 DEF GatewayInv, Shaped, Simulations
<1>3. QED
  BY <1>1, <1>2, FreshSweep

LEMMA RegisterKeeps == ASSUME GatewayInv, NEW id \in Id, Register(id) PROVE GatewayInv'
<1>1. PICK n \in Nat : n = Len(watched)
  BY DEF GatewayInv, Shaped
<1>2. watched \in Seq(Id) /\ \A i, j \in 1..n : watched[i] = watched[j] => i = j
  BY <1>1 DEF GatewayInv, Shaped
<1>3. PICK list : list = Append(watched, id)
  OBVIOUS
<1>4. /\ list \in Seq(Id) /\ Len(list) = n + 1 /\ list[n + 1] = id
      /\ \A i \in 1..n : list[i] = watched[i]
  BY <1>1, <1>2, <1>3
<1>5. \A i \in 1..n : watched[i] # id
  BY <1>1, <1>2 DEF Register, Watched
<1>6. ASSUME NEW i \in 1..(n + 1), NEW j \in 1..(n + 1), list[i] = list[j] PROVE i = j
  <2>1. CASE i \in 1..n /\ j \in 1..n
    BY <1>2, <1>4, <1>6, <2>1
  <2>2. CASE i = n + 1 \/ j = n + 1
    <3>1. i \in 1..n \/ i = n + 1
      OBVIOUS
    <3>2. j \in 1..n \/ j = n + 1
      OBVIOUS
    <3>3. QED
      BY <1>4, <1>5, <1>6, <2>2, <3>1, <3>2
  <2>3. QED
    BY <2>1, <2>2
<1>7. Changes(list)
  BY <1>3 DEF Register
<1>8. QED
  BY <1>4, <1>6, <1>7, ChangesKeeps

LEMMA DeregisterKeeps == ASSUME GatewayInv, NEW id \in Id, Deregister(id) PROVE GatewayInv'
<1>1. PICK n \in Nat \ {0} : n = Len(watched)
  BY DEF GatewayInv, Shaped, Deregister, Watched
<1>2. /\ \A i \in 1..n : watched[i] \in Id
      /\ \A i, j \in 1..n : watched[i] = watched[j] => i = j
  BY <1>1 DEF GatewayInv, Shaped
<1>3. PICK list : list = Without(watched, id)
  OBVIOUS
<1>4. list = [i \in 1..(n - 1) |-> IF watched[i] = id THEN watched[n] ELSE watched[i]]
  BY <1>1, <1>3 DEF Without
<1>5. list \in Seq(Id) /\ Len(list) = n - 1
  BY <1>2, <1>4
<1>6. \A i, j \in 1..Len(list) : list[i] = list[j] => i = j
  BY <1>2, <1>4, <1>5
<1>7. Changes(list)
  BY <1>3 DEF Deregister
<1>8. QED
  BY <1>5, <1>6, <1>7, ChangesKeeps

LEMMA FallsDueKeeps == ASSUME GatewayInv, NEW id \in Id, FallsDue(id) PROVE GatewayInv'
<1>1. /\ due' = due \cup {id} /\ reached' = reached \ {id}
      /\ overlooked' = [overlooked EXCEPT ![id] = 0]
      /\ UNCHANGED <<watched, scanCursor, simulated>>
  BY DEF FallsDue
<1>2. Shaped' /\ Simulations'
  BY <1>1 DEF GatewayInv, Shaped, Simulations
<1>3. ASSUME NEW i \in 1..Len(watched) PROVE Swept(i)'
  <2>1. watched[i] \in Id
    BY DEF GatewayInv, Shaped
  <2>2. CASE watched[i] = id
    BY <1>1, <2>1, <2>2 DEF GatewayInv, Shaped, Swept, Missed
  <2>3. CASE watched[i] # id
    <3>1. Missed(i)' = Missed(i) /\ Behind(i)' = Behind(i) /\ Scan' = Scan
      BY <1>1, <2>1, <2>3 DEF GatewayInv, Shaped, Missed, Behind, Scan
    <3>2. Comes(i)' <=> Comes(i)
      BY <1>1, <3>1 DEF Comes, Nears, Batched, Steps
    <3>3. QED
      BY <1>1, <2>3, <3>1, <3>2 DEF GatewayInv, Swept
  <2>4. QED
    BY <2>2, <2>3
<1>4. QED
  BY <1>1, <1>2, <1>3 DEF GatewayInv

LEMMA NoLongerDueKeeps == ASSUME GatewayInv, NEW id \in Id, NoLongerDue(id) PROVE GatewayInv'
  BY DEF NoLongerDue, GatewayInv, Shaped, Simulations, Swept, Comes, Nears, Batched, Steps,
         Missed, Behind, Scan

\* One more round is one more scan of the cursor's way.
LEMMA OneMoreRound ==
    ASSUME NEW n \in Nat, NEW m \in Nat, NEW s \in Nat, m <= n + 1
    PROVE  n * s \in Nat /\ m * s \in Nat /\ m * s <= n * s + s
<1>1. PICK d \in Nat : n + 1 = m + d
  <2>1. n + 1 - m \in Nat /\ n + 1 = m + (n + 1 - m)
    OBVIOUS
  <2> QED
    BY <2>1
<1>2. (n + 1) * s = n * s + s /\ (m + d) * s = m * s + d * s /\ d * s \in Nat
  OBVIOUS
<1>3. QED
  BY <1>1, <1>2

LEMMA DueIdsBatch ==
    ASSUME Shaped, Len(watched) # 0
    PROVE  IsBatch(DueIds)
<1>1. PICK m \in 0..MAX_BATCH : m = AtMost(Cardinality(DuePlaces), MAX_BATCH)
  <2>1. Cardinality(DuePlaces) \in Nat
    BY PlacesFinite, FS_CardinalityType
  <2> QED
    BY <2>1, GatewayAssumption DEF AtMost
<1>2. PICK ids : ids = DueIds
  OBVIOUS
<1>3. ids = [n \in 1..m |-> ids[n]]
  BY <1>1, <1>2 DEF DueIds
<1>4. \A n \in 1..m : ids[n] \in Members(ids)
  BY <1>3 DEF Members
<1>5. ids \in Seq(Members(ids)) /\ Len(ids) = m
  BY <1>3, <1>4
<1>6. QED
  BY <1>1, <1>2, <1>5, GatewayAssumption DEF IsBatch

LEMMA CheckKeeps ==
    ASSUME GatewayInv, MAX_SCAN <= MAX_BATCH, \A j, k \in Keeper : j = k,
           NEW k \in Keeper, CheckUpkeep(k)
    PROVE  GatewayInv'
<1>1. /\ simulated[k] = NoData /\ Len(watched) # 0
      /\ simulated' = [simulated EXCEPT ![k] = [ids |-> DueIds, scanned |-> Scan]]
      /\ UNCHANGED <<watched, scanCursor, due, reached>>
  <2>1. Len(watched) = 0 => DueIds = << >> /\ Scan = 0
    <3>1. SUFFICES ASSUME Len(watched) = 0 PROVE DueIds = << >> /\ Scan = 0
      OBVIOUS
    <3>2. Scan = 0
      BY <3>1, GatewayAssumption DEF Scan, AtMost
    <3>3. DuePlaces = {}
      BY <3>2 DEF DuePlaces
    <3>4. AtMost(Cardinality(DuePlaces), MAX_BATCH) = 0
      BY <3>3, FS_EmptySet, GatewayAssumption DEF AtMost
    <3>5. QED
      BY <3>2, <3>4 DEF DueIds
  <2>2. QED
    BY <2>1 DEF CheckUpkeep
<1>2. /\ Shaped /\ Scan \in 1..MAX_SCAN /\ IsBatch(DueIds)
      /\ Cardinality(Id) \in Nat
  BY <1>1, ScanBounds, DueIdsBatch, GatewayAssumption, FS_CardinalityType DEF GatewayInv
<1>3. PICK data : data = [ids |-> DueIds, scanned |-> Scan]
  OBVIOUS
<1>4. data.ids = DueIds /\ data.scanned = Scan /\ data # NoData
  <2>1. data.ids = DueIds /\ data.scanned = Scan
    BY <1>3
  <2>2. data.scanned # NoData.scanned
    BY <1>2, <2>1 DEF NoData
  <2>3. QED
    BY <2>1, <2>2
<1>5. /\ simulated'[k] = data
      /\ simulated' = [j \in Keeper |-> simulated'[j]]
      /\ \A j \in Keeper : simulated[j] = NoData /\ simulated'[j] = data
  BY <1>1, <1>3 DEF GatewayInv, Simulations
<1>6. Simulations'
  BY <1>2, <1>4, <1>5 DEF Simulations, IsBatch
<1>7. \A id \in Id : /\ overlooked'[id] \in Nat /\ overlooked[id] \in Nat
                     /\ overlooked'[id] <= overlooked[id] + 1
                     /\ id \notin (Watched \cap due) \ (reached \cup Members(DueIds)) =>
                            overlooked'[id] = overlooked[id]
  BY <1>2 DEF CheckUpkeep, AtMost, Shaped
<1>8. Shaped'
  <2>1. overlooked' \in [Id -> Nat]
    BY <1>7 DEF CheckUpkeep
  <2>2. QED
    BY <1>1, <1>2, <2>1 DEF Shaped
<1>9. ASSUME NEW i \in 1..Len(watched) PROVE Swept(i)'
  <2>1. PICK id \in Id : id = watched[i]
    BY <1>2 DEF Shaped
  <2>2. PICK n \in Nat : n = overlooked[id]
    BY <1>7
  <2>3. PICK m \in Nat : m = overlooked'[id]
    BY <1>7
  <2>4. /\ Missed(i) = n /\ Missed(i)' = m /\ m <= n + 1
        /\ Behind(i)' = Behind(i) /\ Scan' = Scan /\ watched' = watched
    BY <1>1, <1>7, <2>1, <2>2, <2>3 DEF Missed, Behind, Scan
  <2>5. /\ n * Scan \in Nat /\ m * Scan \in Nat /\ m * Scan <= n * Scan + Scan
        /\ Behind(i) \in 0..(Len(watched) - 1) /\ Len(watched) \in Nat
    BY <1>2, <2>4, OneMoreRound, BehindBounds, ScanBounds
  <2>6. CASE id \in due \ reached /\ id \notin Members(DueIds)
    <3>1. Behind(i) >= Scan
      <4>1. SUFFICES ASSUME Behind(i) < Scan PROVE FALSE
        BY <1>2, <2>5
      <4>2. PICK w \in 1..Scan : Window[w] = id
        BY <1>2, <2>1, <4>1, InWindow
      <4>3. QED
        BY <1>1, <1>2, <2>6, <4>2, InBatch
    <3>2. n * Scan + Behind(i) < Len(watched)
      <4>1. CASE n = 0
        <5>1. n * Scan = 0
          BY <1>2, <4>1
        <5>2. QED
          BY <2>5, <5>1
      <4>2. CASE n # 0
        <5>1. Comes(i)
          BY <2>1, <2>4, <2>6, <4>2 DEF GatewayInv, Swept
        <5>2. QED
          BY <1>5, <2>4, <5>1 DEF Comes, Nears, Batched, Steps
      <4>3. QED
        BY <4>1, <4>2
    <3>3. m * Scan < Len(watched) /\ m * Scan + Behind(i) - Scan < Len(watched)
      BY <1>2, <2>5, <3>1, <3>2
    <3>4. Steps(k, i)'
      BY <1>4, <1>5, <2>4, <3>1, <3>3 DEF Steps
    <3>5. QED
      BY <2>4, <3>3, <3>4 DEF Swept, Comes
  <2>7. CASE ~(id \in due \ reached /\ id \notin Members(DueIds))
    <3>1. m = n
      BY <1>7, <2>2, <2>3, <2>7
    <3>2. Batched(k, i)' \/ id \notin due \ reached
      BY <1>1, <1>4, <1>5, <2>1, <2>7 DEF Batched
    <3>3. n # 0 => n * Scan < Len(watched)
      BY <2>4 DEF GatewayInv, Swept
    <3>4. QED
      BY <1>1, <2>1, <2>4, <3>1, <3>2, <3>3 DEF Swept, Comes
  <2>8. QED
    BY <2>6, <2>7
<1>10. QED
  BY <1>1, <1>6, <1>8, <1>9 DEF GatewayInv

\* The batch of a simulation is performed in full.
LEMMA BatchPerformed ==
    ASSUME NEW ids, IsBatch(ids)
    PROVE  Members(ids) \subseteq Members(SubSeq(ids, 1, AtMost(Len(ids), MAX_BATCH)))
<1>1. PICK n \in Nat : n = Len(ids)
  BY DEF IsBatch
<1>2. AtMost(Len(ids), MAX_BATCH) = n
  BY <1>1, GatewayAssumption DEF IsBatch, AtMost
<1>3. ids \in Seq(Members(ids)) /\ \A i \in 1..n : ids[i] \in Members(ids)
  BY <1>1 DEF IsBatch
<1>4. PICK sub : sub = SubSeq(ids, 1, n)
  OBVIOUS
<1>5. Len(sub) = n /\ \A i \in 1..n : sub[i] = ids[i]
  BY <1>1, <1>3, <1>4
<1>6. DOMAIN ids = 1..n /\ DOMAIN sub = 1..n
  BY <1>1, <1>3, <1>4
<1>7. QED
  BY <1>2, <1>4, <1>5, <1>6 DEF Members

\* A step of the cursor brings each id that is a scan or more behind that much nearer.
LEMMA CursorSteps ==
    ASSUME Shaped, NEW i \in 1..Len(watched), Behind(i) >= Scan, UNCHANGED watched,
           scanCursor' = (scanCursor + Scan) % Len(watched)
    PROVE  Behind(i)' = Behind(i) - Scan
<1>1. PICK n \in Nat \ {0} : n = Len(watched)
  BY DEF Shaped
<1>2. PICK c \in 0..(n - 1) : c = scanCursor % n
  BY <1>1, Divides DEF Shaped
<1>3. PICK s \in 1..n : s = Scan
  BY <1>1, ScanBounds
<1>4. PICK b \in 0..(n - 1) : b = Behind(i)
  BY <1>1, BehindBounds
<1>5. scanCursor' = (c + s) % n
  BY <1>1, <1>2, <1>3, SumModulo DEF Shaped
<1>6. PICK x \in 0..(2 * n - 1) : x = c + s
  BY <1>2, <1>3
<1>7. x % n = IF x < n THEN x ELSE x - n
  BY <1>6, SmallModulo
<1>8. scanCursor' \in 0..(n - 1) /\ scanCursor' = IF c + s < n THEN c + s ELSE c + s - n
  BY <1>5, <1>6, <1>7
<1>9. scanCursor' % Len(watched') = scanCursor'
  BY <1>1, <1>8
<1>10. b = IF i - 1 >= c THEN i - 1 - c ELSE i - 1 - c + n
  BY <1>1, <1>2, <1>4 DEF Behind
<1>11. Behind(i)' = IF i - 1 >= scanCursor' THEN i - 1 - scanCursor'
                    ELSE i - 1 - scanCursor' + n
  BY <1>1, <1>9 DEF Behind
<1>12. PICK c2 \in 0..(n - 1) : c2 = scanCursor' /\ c2 = IF c + s < n THEN c + s ELSE c + s - n
  BY <1>8
<1>13. PICK j \in 0..(n - 1) : j = i - 1
  BY <1>1
<1>14. b >= s /\ b = IF j >= c THEN j - c ELSE j - c + n
  BY <1>3, <1>4, <1>10, <1>13
<1>15. Behind(i)' = IF j >= c2 THEN j - c2 ELSE j - c2 + n
  BY <1>11, <1>12, <1>13
<1>16. (IF j >= c2 THEN j - c2 ELSE j - c2 + n) = b - s
  BY <1>12, <1>14
<1>17. QED
  BY <1>3, <1>4, <1>15, <1>16

LEMMA KeeperPerformsKeeps ==
    ASSUME GatewayInv, \A j, k \in Keeper : j = k, NEW k \in Keeper, KeeperPerforms(k)
    PROVE  GatewayInv'
<1>1. PICK data : data = simulated[k]
  OBVIOUS
<1>2. PICK batch : batch = SubSeq(data.ids, 1, AtMost(Len(data.ids), MAX_BATCH))
  OBVIOUS
<1>3. /\ data # NoData /\ data.scanned \in 0..MAX_SCAN /\ IsBatch(data.ids)
      /\ scanCursor' = IF watched = << >> THEN scanCursor ELSE PastScanned(data)
      /\ due' \subseteq due /\ reached' = reached \cup (Members(batch) \cap due)
      /\ UNCHANGED <<watched, overlooked>>
      /\ simulated' = [simulated EXCEPT ![k] = NoData]
  BY <1>1, <1>2 DEF GatewayInv, Simulations, KeeperPerforms, PerformUpkeep
<1>4. /\ simulated' = [j \in Keeper |-> simulated'[j]]
      /\ \A j \in Keeper : simulated'[j] = NoData
  BY <1>3 DEF GatewayInv, Simulations
<1>5. AtMost(data.scanned, MAX_SCAN) = data.scanned
  BY <1>3, GatewayAssumption DEF AtMost
<1>6. watched # << >> => scanCursor' = (scanCursor + data.scanned) % Len(watched)
  BY <1>3, <1>5 DEF PastScanned
<1>7. Shaped'
  <2>1. scanCursor' \in Nat
    <3>1. CASE watched = << >>
      BY <1>3, <3>1 DEF GatewayInv, Shaped
    <3>2. CASE watched # << >>
      <4>1. Len(watched) \in Nat \ {0} /\ scanCursor \in Nat /\ data.scanned \in Nat
        BY <1>3, <3>2, GatewayAssumption DEF GatewayInv, Shaped
      <4>2. PICK x \in Nat : x = scanCursor + data.scanned
        BY <4>1
      <4>3. PICK n \in Nat \ {0} : n = Len(watched)
        BY <4>1
      <4>4. scanCursor' = x % n
        BY <1>6, <3>2, <4>2, <4>3
      <4>5. QED
        BY <4>4, Divides
    <3>3. QED
      BY <3>1, <3>2
  <2>2. QED
    BY <1>3, <2>1 DEF GatewayInv, Shaped
<1>8. ASSUME NEW i \in 1..Len(watched) PROVE Swept(i)'
  <2>1. Missed(i)' = Missed(i) /\ Scan' = Scan /\ watched' = watched
    BY <1>3 DEF Missed, Scan
  <2>2. ASSUME Missed(i) # 0, watched[i] \in due' \ reached' PROVE Nears(i)'
    <3>1. watched[i] \in due \ reached /\ watched[i] \notin Members(batch)
      BY <1>3, <2>2
    <3>2. Comes(i)
      BY <2>2, <3>1 DEF GatewayInv, Swept
    <3>3. ~Batched(k, i)
      BY <1>1, <1>2, <1>3, <3>1, BatchPerformed DEF Batched
    <3>4. Steps(k, i)
      BY <1>1, <1>3, <3>2, <3>3 DEF Comes
    <3>5. watched # << >> /\ data.scanned = Scan
      BY <1>1, <3>4 DEF Steps
    <3>6. Behind(i)' = Behind(i) - Scan
      BY <1>3, <1>6, <3>4, <3>5, CursorSteps DEF GatewayInv, Steps
    <3>7. Behind(i) \in Int /\ Scan \in Int /\ Missed(i) * Scan \in Int
      <4>1. Missed(i) \in Nat
        BY DEF GatewayInv, Shaped, Missed
      <4>2. Scan \in Nat /\ Behind(i) \in Nat
        BY ScanBounds, BehindBounds DEF GatewayInv
      <4>3. QED
        BY <4>1, <4>2
    <3>8. QED
      BY <2>1, <3>4, <3>6, <3>7 DEF Steps, Nears
  <2>3. Missed(i) # 0 => Missed(i) * Scan < Len(watched)
    BY DEF GatewayInv, Swept
  <2>4. QED
    BY <1>4, <2>1, <2>2, <2>3 DEF Swept, Comes
<1>9. QED
  BY <1>3, <1>4, <1>7, <1>8 DEF GatewayInv, Simulations

LEMMA AnyonePerformsKeeps ==
    ASSUME GatewayInv, NEW data \in Forged, AnyonePerforms(data) PROVE GatewayInv'
<1>1. /\ scanCursor' = IF watched = << >> THEN scanCursor ELSE PastScanned(data)
      /\ due' \subseteq due /\ overlooked' = [id \in Id |-> 0]
      /\ UNCHANGED <<watched, simulated>>
  BY DEF AnyonePerforms, PerformUpkeep
<1>2. scanCursor' \in Nat
  <2>1. CASE watched = << >>
    BY <1>1, <2>1 DEF GatewayInv, Shaped
  <2>2. CASE watched # << >>
    <3>1. Len(watched) \in Nat \ {0} /\ scanCursor \in Nat
      BY <2>2 DEF GatewayInv, Shaped
    <3>2. AtMost(data.scanned, MAX_SCAN) \in Nat
      BY GatewayAssumption DEF AtMost
    <3>3. PICK x \in Nat : x = scanCursor + AtMost(data.scanned, MAX_SCAN)
      BY <3>1, <3>2
    <3>4. PICK n \in Nat \ {0} : n = Len(watched)
      BY <3>1
    <3>5. scanCursor' = x % n
      BY <1>1, <2>2, <3>3, <3>4 DEF PastScanned
    <3>6. QED
      BY <3>5, Divides
  <2>3. QED
    BY <2>1, <2>2
<1>3. Shaped' /\ Simulations'
  BY <1>1, <1>2 DEF GatewayInv, Shaped, Simulations
<1>4. QED
  BY <1>1, <1>3, FreshSweep

\* The bound of the comment on scanCursor, for every length of the registry and width of
\* the scan, as long as one keeper performs and a batch holds a scan.
THEOREM SweepReachesInTime ==
    ASSUME \A j, k \in Keeper : j = k, MAX_SCAN <= MAX_BATCH
    PROVE  GatewaySpec => []ReachedInTime
<1>1. InitGateway => GatewayInv
  <2> SUFFICES ASSUME InitGateway PROVE GatewayInv
    OBVIOUS
  <2>1. Shaped /\ Len(watched) = 0
    BY DEF InitGateway, Shaped
  <2>2. Simulations
    BY DEF InitGateway, Simulations
  <2>3. QED
    BY <2>1, <2>2 DEF GatewayInv
<1>2. GatewayInv /\ [NextGateway]_gatewayVars => GatewayInv'
  <2>1. ASSUME GatewayInv, UNCHANGED gatewayVars PROVE GatewayInv'
    BY <2>1 DEF gatewayVars, GatewayInv, Shaped, Simulations, Swept, Comes, Nears, Batched,
       Steps, Missed, Behind, Scan
  <2>2. ASSUME GatewayInv, NextGateway PROVE GatewayInv'
    BY <2>2, RegisterKeeps, DeregisterKeeps, FallsDueKeeps, NoLongerDueKeeps, CheckKeeps,
       KeeperPerformsKeeps, AnyonePerformsKeeps DEF NextGateway
  <2>3. QED
    BY <2>1, <2>2
<1>3. GatewayInv => ReachedInTime
  <2> SUFFICES ASSUME GatewayInv, NEW id \in Watched
               PROVE  overlooked[id] < Ceiling(Len(watched), MAX_SCAN)
    BY DEF ReachedInTime
  <2>1. PICK i \in 1..Len(watched) : id = watched[i]
    BY DEF GatewayInv, Shaped, Watched
  <2>2. PICK n \in Nat : n = overlooked[id] /\ n = Missed(i)
    BY <2>1 DEF GatewayInv, Shaped, Missed
  <2>3. Len(watched) \in Nat \ {0} /\ MAX_SCAN \in Nat \ {0}
    BY GatewayAssumption DEF GatewayInv, Shaped
  <2>4. n * MAX_SCAN < Len(watched)
    <3>1. CASE n = 0
      BY <2>3, <3>1
    <3>2. CASE n # 0
      <4>1. n * Scan < Len(watched)
        BY <2>2, <3>2 DEF GatewayInv, Swept
      <4>2. CASE Scan = MAX_SCAN
        BY <4>1, <4>2
      <4>3. CASE Scan = Len(watched)
        <5>1. PICK d \in Nat : n = d + 1
          <6>1. n - 1 \in Nat /\ n = (n - 1) + 1
            BY <3>2
          <6> QED
            BY <6>1
        <5>2. n * Len(watched) = d * Len(watched) + Len(watched) /\ d * Len(watched) \in Nat
          BY <2>3, <5>1
        <5>3. QED
          BY <2>3, <4>1, <4>3, <5>2
      <4>4. QED
        BY <4>2, <4>3 DEF Scan, AtMost
    <3>3. QED
      BY <3>1, <3>2
  <2>5. QED
    BY <2>2, <2>3, <2>4, BelowCeiling
<1>4. QED
  BY <1>1, <1>2, <1>3, PTL DEF GatewaySpec

=============================================================================
