----------------------------- MODULE GrantProofs -----------------------------
(***************************************************************************)
(* An authorisation is good once.  For every set of owners and delegates,   *)
(* any number of nonces and any depth of relayed opens within relayed opens *)
(* one signature opens one session; and for any users, agents, proofs,      *)
(* server instances, calls, restarts and errors of the database one proof   *)
(* of personhood or sign-in earns one profile its method.  And it is good   *)
(* no longer than it says: over the same store an intent expires once.  Nor *)
(* is it good for two: over that store too, a casino serves by a human who   *)
(* operates no other.                                                       *)
(*                                                                          *)
(* Of sessions the invariant has to hold of the tables each frame would     *)
(* restore as well: a revert brings them back.                              *)
(***************************************************************************)
EXTENDS SessionGrant, Verification, Intents, Branding, SequenceTheorems, TLAPS

-----------------------------------------------------------------------------
(* Sessions. *)

IInv ==
    /\ TypeOK
    /\ Sound(sessions, nonces)
    /\ \A i \in 1..Len(frames) : Sound(frames[i].sessions, frames[i].nonces)

\* Opening a session by its owner, or by a grant it signed, keeps the tables
\* typed and sound.
LEMMA OpenSound ==
    ASSUME SessionAssumption, IInv,
           NEW grant \in Grant, Open(grant), UNCHANGED <<grants, now>>,
           grant.owner \notin Counterfactual \/ grant \in grants
    PROVE  /\ sessions' \in [SessionId -> {Unknown} \cup Session]
           /\ nonces' \in [Owner -> 0..MaxNonce]
           /\ Sound(sessions, nonces)'
<1> DEFINE new == [owner |-> grant.owner, delegate |-> grant.delegate, nonce |-> grant.nonce]
           opened == [delegate |-> grant.delegate, expiry |-> grant.expiry,
                      budgetCap |-> grant.budgetCap, spent |-> 0, revoked |-> FALSE]
<1> USE DEF IInv
<1>1. /\ grant.owner \in Owner /\ grant.delegate \in Delegate /\ grant.budgetCap \in Nat
      /\ grant.expiry \in Nat /\ grant.nonce \in 0..MaxNonce
      /\ grant = [owner |-> grant.owner, delegate |-> grant.delegate,
                  budgetCap |-> grant.budgetCap, expiry |-> grant.expiry,
                  nonce |-> grant.nonce]
  BY DEF Grant
<1>2. /\ nonces[grant.owner] = grant.nonce /\ grant.nonce < MaxNonce
      /\ nonces' = [nonces EXCEPT ![grant.owner] = grant.nonce + 1]
      /\ sessions' = [sessions EXCEPT ![new] = opened]
  BY DEF Open, MayOpen, NextNonces, Opened, IdOf
<1>3. MaxNonce \in Nat /\ grant.nonce \in Nat /\ grant.nonce \in Nonce
      /\ grant.nonce + 1 \in 0..MaxNonce
  BY <1>1, <1>2 DEF SessionAssumption, Nonce
<1>4. new \in SessionId /\ opened \in Session /\ opened # Unknown
  BY <1>1, <1>3 DEF SessionAssumption, SessionId, Session, Unknown
<1>5. /\ sessions' \in [SessionId -> {Unknown} \cup Session]
      /\ sessions'[new] = opened
      /\ \A id \in SessionId : id # new => sessions'[id] = sessions[id]
  BY <1>2, <1>4 DEF TypeOK
<1>6. /\ nonces' \in [Owner -> 0..MaxNonce]
      /\ nonces'[grant.owner] = grant.nonce + 1
      /\ \A o \in Owner : o # grant.owner => nonces'[o] = nonces[o]
  BY <1>1, <1>2, <1>3 DEF TypeOK
<1>t. /\ new.owner = grant.owner /\ new.delegate = grant.delegate /\ new.nonce = grant.nonce
      /\ opened.delegate = grant.delegate /\ opened.spent = 0
      /\ opened.budgetCap = grant.budgetCap /\ opened.expiry = grant.expiry
  OBVIOUS
<1>8. \A id \in SessionId : id.nonce \in Nat /\ id.owner \in Owner
  BY DEF SessionId, Nonce
<1> HIDE DEF new, opened
<1>9. ASSUME NEW id \in SessionId, sessions'[id] # Unknown
      PROVE  /\ id.nonce < nonces'[id.owner]
             /\ sessions'[id].delegate = id.delegate
             /\ sessions'[id].spent <= sessions'[id].budgetCap
             /\ id.owner \in Counterfactual =>
                   [owner |-> id.owner, delegate |-> id.delegate, nonce |-> id.nonce,
                    budgetCap |-> sessions'[id].budgetCap,
                    expiry |-> sessions'[id].expiry] \in grants'
  <2>1. CASE id = new
    <3>1. id.nonce < nonces'[id.owner]
      BY <1>3, <1>6, <1>t, <2>1
    <3>2. /\ sessions'[id].delegate = id.delegate
          /\ sessions'[id].spent <= sessions'[id].budgetCap
      BY <1>1, <1>5, <1>t, <2>1
    <3>3. [owner |-> id.owner, delegate |-> id.delegate, nonce |-> id.nonce,
           budgetCap |-> sessions'[id].budgetCap, expiry |-> sessions'[id].expiry] = grant
      BY <1>1, <1>5, <1>t, <2>1
    <3>4. QED
      BY <1>t, <2>1, <3>1, <3>2, <3>3
  <2>2. CASE id # new
    <3>1. /\ sessions'[id] = sessions[id]
          /\ id.nonce < nonces[id.owner]
      BY <1>5, <1>9, <2>2 DEF Sound
    <3>2. id.nonce < nonces'[id.owner]
      BY <1>2, <1>3, <1>6, <1>8, <3>1
    <3>3. QED
      BY <1>9, <3>1, <3>2 DEF Sound
  <2>3. QED
    BY <2>1, <2>2
<1>10. ASSUME NEW id \in SessionId, NEW other \in SessionId,
              sessions'[id] # Unknown, sessions'[other] # Unknown,
              id.owner = other.owner, id.nonce = other.nonce
       PROVE  id = other
  <2>1. ASSUME NEW k \in SessionId, k # new, sessions'[k] # Unknown,
               k.owner = grant.owner
        PROVE  k.nonce # grant.nonce
    <3>1. k.nonce < nonces[k.owner]
      BY <1>5, <2>1 DEF Sound
    <3>2. QED
      BY <1>2, <1>3, <1>8, <2>1, <3>1
  <2>2. CASE id # new /\ other # new
    BY <1>5, <1>10, <2>2 DEF Sound
  <2>3. CASE id = new \/ other = new
    BY <1>10, <1>t, <2>1, <2>3
  <2>4. QED
    BY <2>2, <2>3
<1>11. Sound(sessions, nonces)'
  BY <1>9, <1>10 DEF Sound
<1>12. QED
  BY <1>5, <1>6, <1>11

\* A change of one session that keeps it, its terms and its cap.
LEMMA SameTerms ==
    ASSUME IInv, NEW id \in SessionId, NEW s \in Session, Exists(id),
           s.delegate = sessions[id].delegate, s.budgetCap = sessions[id].budgetCap,
           s.expiry = sessions[id].expiry, s.spent <= s.budgetCap,
           sessions' = [sessions EXCEPT ![id] = s], UNCHANGED <<nonces, grants, frames, now>>
    PROVE  IInv'
<1> USE DEF IInv
<1>1. /\ sessions' \in [SessionId -> {Unknown} \cup Session]
      /\ sessions'[id] = s /\ sessions[id] # Unknown
      /\ \A k \in SessionId : k # id => sessions'[k] = sessions[k]
  BY DEF TypeOK, Exists
<1>2. \A k \in SessionId : sessions'[k] # Unknown => sessions[k] # Unknown
  BY <1>1
<1>3. Sound(sessions, nonces)'
  BY <1>1, <1>2 DEF Sound
<1>4. QED
  BY <1>1, <1>3 DEF TypeOK, Sound

\* What is on the stack below the top stays typed and sound.
LEMMA Popped ==
    ASSUME IInv, frames # << >>, frames' = Pop, UNCHANGED grants
    PROVE  /\ frames' \in Seq(Frame)
           /\ \A i \in 1..Len(frames') : Sound(frames[i].sessions, frames[i].nonces)'
<1>1. frames \in Seq(Frame) /\ Len(frames) \in Nat \ {0}
  BY DEF IInv, TypeOK
<1>2. /\ frames' \in Seq(Frame) /\ Len(frames') = Len(frames) - 1
      /\ \A i \in 1..(Len(frames) - 1) : frames'[i] = frames[i]
  <2> DEFINE n == Len(frames) - 1
  <2>1. n \in Int /\ 1 \in Int /\ n >= 0 /\ n - 1 + 1 = n
        /\ \A i \in 1..n : frames[i] \in Frame /\ 1 + i - 1 = i
    BY <1>1
  <2>2. frames' = SubSeq(frames, 1, n)
    BY DEF Pop
  <2> HIDE DEF n
  <2>3. /\ frames' \in Seq(Frame)
        /\ Len(frames') = IF 1 <= n THEN n - 1 + 1 ELSE 0
        /\ \A i \in 1..(n - 1 + 1) : frames'[i] = frames[1 + i - 1]
    BY <2>1, <2>2, SubSeqProperties
  <2>4. Len(frames') = n
    BY <2>1, <2>3
  <2>5. QED
    BY <2>1, <2>3, <2>4 DEF n
<1>3. ASSUME NEW i \in 1..Len(frames')
      PROVE  Sound(frames[i].sessions, frames[i].nonces)'
  <2>1. i \in 1..Len(frames) /\ frames'[i] = frames[i]
    BY <1>1, <1>2
  <2>2. Sound(frames[i].sessions, frames[i].nonces)
    BY <2>1 DEF IInv
  <2>3. QED
    BY <2>1, <2>2 DEF Sound
<1>4. QED
  BY <1>2, <1>3

LEMMA NextSound ==
    ASSUME SessionAssumption, IInv, [Next]_sessionVars
    PROVE  IInv'
<1> USE DEF IInv
<1>1. ASSUME NEW owner \in Owner, NEW delegate \in Delegate, NEW cap \in Cap,
             NEW expiry \in Expiry, OpenSession(owner, delegate, cap, expiry)
      PROVE  IInv'
  <2> DEFINE g == [owner |-> owner, delegate |-> delegate, budgetCap |-> cap,
                   expiry |-> expiry, nonce |-> nonces[owner]]
  <2>1. g \in Grant /\ g.owner = owner
    BY DEF SessionAssumption, Grant, TypeOK
  <2>2. Open(g) /\ g.owner \notin Counterfactual /\ UNCHANGED <<grants, frames, now>>
    BY <1>1 DEF OpenSession
  <2> HIDE DEF g
  <2>3. /\ sessions' \in [SessionId -> {Unknown} \cup Session]
        /\ nonces' \in [Owner -> 0..MaxNonce]
        /\ Sound(sessions, nonces)'
    BY <2>1, <2>2, OpenSound
  <2>4. QED
    BY <2>2, <2>3 DEF TypeOK, Sound
<1>2. ASSUME NEW owner \in Owner, NEW delegate \in Delegate, NEW cap \in Cap,
             NEW expiry \in Expiry, BeginOpenFor(owner, delegate, cap, expiry)
      PROVE  IInv'
  <2> DEFINE f == [grant |-> [owner |-> owner, delegate |-> delegate, budgetCap |-> cap,
                              expiry |-> expiry, nonce |-> nonces[owner]],
                   sessions |-> sessions, nonces |-> nonces]
  <2>1. /\ frames' = Append(frames, f)
        /\ UNCHANGED <<sessions, nonces, grants, now>>
    BY <1>2 DEF BeginOpenFor
  <2>2. f \in Frame /\ f.sessions = sessions /\ f.nonces = nonces
    <3>1. f.grant \in Grant
      BY DEF SessionAssumption, TypeOK, Grant
    <3>2. QED
      BY <3>1 DEF TypeOK, Frame
  <2> HIDE DEF f
  <2>3. frames \in Seq(Frame)
    BY DEF TypeOK
  <2>4. /\ frames' \in Seq(Frame) /\ Len(frames') = Len(frames) + 1
        /\ frames'[Len(frames) + 1] = f
        /\ \A i \in 1..Len(frames) : frames'[i] = frames[i]
    BY <2>1, <2>2, <2>3
  <2>5. ASSUME NEW i \in 1..Len(frames')
        PROVE  Sound(frames[i].sessions, frames[i].nonces)'
    <3>1. Len(frames) \in Nat
      BY <2>3
    <3>2. CASE i = Len(frames) + 1
      BY <2>1, <2>2, <2>4, <3>2 DEF Sound
    <3>3. CASE i \in 1..Len(frames)
      BY <2>1, <2>4, <3>3 DEF Sound
    <3>4. QED
      BY <2>4, <2>5, <3>1, <3>2, <3>3
  <2>6. QED
    BY <2>1, <2>4, <2>5 DEF TypeOK, Sound
<1>3. ASSUME NEW owner \in Owner, NEW delegate \in Delegate, NEW cap \in Cap,
             NEW expiry \in Expiry, NEW nonce \in Nonce,
             SignGrant([owner |-> owner, delegate |-> delegate, budgetCap |-> cap,
                        expiry |-> expiry, nonce |-> nonce])
      PROVE  IInv'
  <2> DEFINE g == [owner |-> owner, delegate |-> delegate, budgetCap |-> cap,
                   expiry |-> expiry, nonce |-> nonce]
  <2>1. g \in Grant
    BY DEF SessionAssumption, Grant, Nonce
  <2>2. grants' = grants \cup {g} /\ UNCHANGED <<sessions, nonces, frames, now>>
    BY <1>3 DEF SignGrant
  <2> HIDE DEF g
  <2>3. TypeOK'
    BY <2>1, <2>2 DEF TypeOK
  <2>4. Sound(sessions, nonces)'
    BY <2>2 DEF Sound
  <2>5. \A i \in 1..Len(frames') : Sound(frames[i].sessions, frames[i].nonces)'
    BY <2>2 DEF Sound
  <2>6. QED
    BY <2>3, <2>4, <2>5
<1>4. ASSUME EndOpenFor
      PROVE  IInv'
  <2>1. /\ frames # << >> /\ Top.grant \in grants /\ Open(Top.grant) /\ frames' = Pop
        /\ UNCHANGED <<grants, now>>
    BY <1>4 DEF EndOpenFor
  <2>2. Top.grant \in Grant
    BY <2>1 DEF TypeOK
  <2>3. /\ sessions' \in [SessionId -> {Unknown} \cup Session]
        /\ nonces' \in [Owner -> 0..MaxNonce]
        /\ Sound(sessions, nonces)'
    BY <2>1, <2>2, OpenSound
  <2>4. QED
    BY <2>1, <2>3, Popped DEF TypeOK
<1>5. ASSUME RevertOpenFor
      PROVE  IInv'
  <2>1. /\ frames # << >> /\ frames' = Pop /\ UNCHANGED <<grants, now>>
        /\ sessions' = Top.sessions /\ nonces' = Top.nonces
    BY <1>5 DEF RevertOpenFor
  <2>2. Len(frames) \in 1..Len(frames) /\ Top \in Frame
    BY <2>1 DEF TypeOK, Top
  <2>3. Sound(Top.sessions, Top.nonces)
    BY <2>2 DEF Top
  <2>4. Sound(sessions, nonces)'
    BY <2>1, <2>3 DEF Sound
  <2>5. QED
    BY <2>1, <2>2, <2>4, Popped DEF TypeOK, Frame
<1>6. ASSUME NEW id \in SessionId, NEW caller \in Delegate, NEW amount \in Spending,
             Spend(id, caller, amount), UNCHANGED <<nonces, grants, frames, now>>
      PROVE  IInv'
  <2> DEFINE s == [sessions[id] EXCEPT !.spent = sessions[id].spent + amount]
  <2>1. /\ Exists(id) /\ sessions[id] \in Session /\ amount \in Nat
        /\ amount <= sessions[id].budgetCap - sessions[id].spent
        /\ sessions' = [sessions EXCEPT ![id] = s]
    BY <1>6 DEF SessionAssumption, Spend, Affords, Debited, Exists, TypeOK
  <2>2. /\ s \in Session
        /\ s.delegate = sessions[id].delegate /\ s.budgetCap = sessions[id].budgetCap
        /\ s.expiry = sessions[id].expiry /\ s.spent = sessions[id].spent + amount
        /\ sessions[id].spent \in Nat /\ sessions[id].budgetCap \in Nat
    BY <2>1 DEF Session
  <2> HIDE DEF s
  <2>3. s.spent <= s.budgetCap
    BY <2>1, <2>2
  <2>4. QED
    BY <1>6, <2>1, <2>2, <2>3, SameTerms
<1>7. ASSUME NEW id \in SessionId, NEW caller \in Owner,
             Revoke(id, caller), UNCHANGED <<nonces, grants, frames, now>>
      PROVE  IInv'
  <2> DEFINE s == [sessions[id] EXCEPT !.revoked = TRUE]
  <2>1. /\ Exists(id) /\ sessions[id] \in Session
        /\ sessions' = [sessions EXCEPT ![id] = s]
    BY <1>7 DEF Revoke, MayRevoke, Exists, TypeOK
  <2>2. /\ s \in Session
        /\ s.delegate = sessions[id].delegate /\ s.budgetCap = sessions[id].budgetCap
        /\ s.expiry = sessions[id].expiry /\ s.spent = sessions[id].spent
    BY <2>1 DEF Session
  <2>3. sessions[id].spent <= sessions[id].budgetCap
    BY <2>1 DEF Sound, Exists
  <2> HIDE DEF s
  <2>4. QED
    BY <1>7, <2>1, <2>2, <2>3, SameTerms
<1>8. ASSUME Tick
      PROVE  IInv'
  BY <1>8 DEF Tick, TypeOK, Sound
<1>9. ASSUME UNCHANGED sessionVars
      PROVE  IInv'
  BY <1>9 DEF sessionVars, TypeOK, Sound
<1>10. QED
  BY <1>1, <1>2, <1>3, <1>4, <1>5, <1>6, <1>7, <1>8, <1>9 DEF Next

LEMMA InvariantHolds == ASSUME SessionAssumption PROVE Spec => []IInv
<1>1. Init => IInv
  BY DEF SessionAssumption, Init, IInv, TypeOK, Sound
<1>2. IInv /\ [Next]_sessionVars => IInv'
  BY NextSound
<1>3. QED
  BY <1>1, <1>2, PTL DEF Spec

\* The tables, the signed grants and the stack of relayed opens keep their types.
THEOREM SessionTypes == ASSUME SessionAssumption PROVE Spec => []TypeOK
<1>1. IInv => TypeOK
  BY DEF IInv
<1>2. QED
  BY <1>1, InvariantHolds, PTL

\* One authorisation opens one session, on the terms signed and within its cap,
\* whatever runs within a relayed open.
THEOREM SessionsAuthorised == ASSUME SessionAssumption PROVE Spec => []OneSessionPerGrant
<1>1. IInv => OneSessionPerGrant
  BY DEF IInv, OneSessionPerGrant
<1>2. QED
  BY <1>1, InvariantHolds, PTL

\* The delegate of every session can spend an amount exactly when it is at most
\* what remaining reports: at the expiry, after it, revoked or used up.
THEOREM RemainingTellsSpend == ASSUME SessionAssumption PROVE Spec => []RemainingIsSpendable
<1>1. ASSUME IInv, NEW id \in SessionId, NEW amount \in Spending \ {0}, Exists(id)
      PROVE  Affords(sessions, id, id.delegate, amount) <=> amount <= Remaining(id)
  <2>1. sessions[id] \in Session /\ sessions[id] # Unknown /\ sessions[id].delegate = id.delegate
    BY <1>1 DEF IInv, TypeOK, Sound, Exists
  <2>2. amount \in Nat \ {0}
    BY DEF SessionAssumption
  <2>3. QED
    BY <2>1, <2>2 DEF Session, Affords, Remaining, RemainingOf
<1>2. IInv => RemainingIsSpendable
  BY <1>1 DEF RemainingIsSpendable
<1>3. QED
  BY <1>2, InvariantHolds, PTL

-----------------------------------------------------------------------------
(* One proof earns one profile. *)

Kept == [Key -> (SUBSET Method) \cup {Absent}]

\* A statement, whatever its number.
IsWrite(w) ==
    /\ w = [n |-> w.n, at |-> w.at, key |-> w.key, value |-> w.value]
    /\ w.key \in Key
    /\ w.value \in (SUBSET Method) \cup {Absent}

IsCall(call) ==
    /\ call = [pc |-> call.pc, at |-> call.at, route |-> call.route, user |-> call.user,
               slot |-> call.slot]
    /\ call.pc \in {"claiming", "won"} => call.slot \in Slot
    /\ call.pc \in {"claiming", "won"} /\ call.route # "world" => call.user \in User
    /\ call.pc \in {"claiming", "won"} /\ call.route = "oidc" => GateOf[call.slot] = "oidc"
    /\ call.at \in Instance \cup {Gone}
    /\ call.pc = "won" => call.at \in Instance

Shapes ==
    /\ rows \in Kept
    /\ profiles \in [Instance -> Kept]
    /\ boot \in [Instance -> [pc : {"asked", "read", "done"}, seen : Kept]]
    /\ \A w \in writes : IsWrite(w)
    /\ calls = [c \in Call |-> calls[c]] /\ \A c \in Call : IsCall(calls[c])

\* Every method of p that needs a proof was credited to k, if C is who was credited.
Earned(C, k, p) ==
    \A m \in Methods(p) \ OpenMethod :
        \E slot \in Slot : <<slot, k>> \in C /\ MethodOf(slot) = m

AllEarned(C, map) == \A k \in Key : Earned(C, k, map[k])

CopiesEarned ==
    /\ AllEarned(credited, rows)
    /\ \A i \in Instance : AllEarned(credited, profiles[i]) /\ AllEarned(credited, boot[i].seen)
    /\ \A w \in writes : Earned(credited, w.key, w.value)

\* A claim is won by one call, before anything is credited for its slot.
WonOnce ==
    /\ \A c \in Call : calls[c].pc = "won" =>
          /\ calls[c].slot \in claims
          /\ \A k : <<calls[c].slot, k>> \notin credited
    /\ \A c, d \in Call :
          calls[c].pc = "won" /\ calls[d].pc = "won" /\ calls[c].slot = calls[d].slot => c = d

CreditedOnce ==
    /\ credited \subseteq Slot \X Key
    /\ \A a \in credited : a[1] \in claims
    /\ \A a, b \in credited : a[1] = b[1] /\ {a[2], b[2]} \subseteq User => a[2] = b[2]

ProofInv == Shapes /\ CopiesEarned /\ WonOnce /\ CreditedOnce

-----------------------------------------------------------------------------
\* What was earned stays earned as more is credited.
LEMMA EarnedStays ==
    ASSUME NEW C, NEW D, C \subseteq D, NEW k, NEW p, Earned(C, k, p) PROVE Earned(D, k, p)
  BY DEF Earned

\* addMethod adds nothing but the method, which is open or was credited.
LEMMA AddedIsEarned ==
    ASSUME NEW C, NEW D, C \subseteq D, NEW map \in Kept, AllEarned(C, map),
           NEW key \in Key, NEW method \in Method,
           method \in OpenMethod \/ \E slot \in Slot : <<slot, key>> \in D /\ MethodOf(slot) = method
    PROVE  Added(map, key, method) \in Kept /\ AllEarned(D, Added(map, key, method))
  <1> DEFINE new == Methods(map[key]) \cup {method}
  <1>1. Methods(map[key]) \in SUBSET Method
    BY DEF Methods, Kept
  <1>2. new \in SUBSET Method
    BY <1>1
  <1>3. Added(map, key, method) = [map EXCEPT ![key] = new]
    BY DEF Added
  <1>4. Earned(D, key, new)
    <2>1. \A m \in Methods(new) : m \in Methods(map[key]) \/ m = method
      BY DEF Methods
    <2>2. Earned(D, key, map[key])
      BY EarnedStays DEF AllEarned
    <2> QED
      BY <2>1, <2>2 DEF Earned
  <1> HIDE DEF new
  <1>5. \A k \in Key : Earned(D, k, map[k])
    BY EarnedStays DEF AllEarned
  <1> QED
    BY <1>2, <1>3, <1>4, <1>5 DEF Kept, AllEarned

\* durableSet adds at most the one statement.
LEMMA SentIsEarned ==
    ASSUME NEW C, NEW W, NEW i, NEW k \in Key, NEW v \in (SUBSET Method) \cup {Absent},
           Earned(C, k, v), \A w \in W : IsWrite(w) /\ Earned(C, w.key, w.value)
    PROVE  \A w \in Sent(W, i, k, v) : IsWrite(w) /\ Earned(C, w.key, w.value)
  <1> DEFINE n == CHOOSE m \in 1..MaxWrites : \A w \in W : w.n # m
             one == [n |-> n, at |-> i, key |-> k, value |-> v]
  <1>1. Sent(W, i, k, v) \subseteq W \cup {one}
    BY DEF Sent
  <1> HIDE DEF n
  <1>2. IsWrite(one) /\ Earned(C, one.key, one.value)
    BY DEF IsWrite
  <1> QED
    BY <1>1, <1>2

\* What the copies hold is earned after a step that changes none of them.
LEMMA CopiesStay ==
    ASSUME ProofInv, credited \subseteq credited',
           UNCHANGED <<rows, writes, boot, profiles>>
    PROVE  CopiesEarned'
  BY EarnedStays DEF ProofInv, CopiesEarned, AllEarned

-----------------------------------------------------------------------------
LEMMA ProofInitially == ASSUME InitProfiles PROVE ProofInv
  <1> USE VerificationAssumption, KvAssumption DEF InitProfiles, KvInit, OwnInit, Nothing
  <1>1. Shapes
    BY DEF Shapes, Kept, IsCall, Idle
  <1>2. \A C : AllEarned(C, [k \in Key |-> Absent])
    BY DEF AllEarned, Earned, Methods
  <1>3. CopiesEarned
    BY <1>2 DEF CopiesEarned
  <1>4. WonOnce /\ CreditedOnce
    BY DEF WonOnce, CreditedOnce, Idle
  <1> QED
    BY <1>1, <1>3, <1>4 DEF ProofInv

LEMMA VerifyKeeps ==
    ASSUME ProofInv, NEW c \in Call, NEW i \in Instance,
           NEW route \in {"verify", "oidc", "world"}, NEW user \in User \cup {NoUser},
           NEW slot \in Slot, Verify(c, i, route, user, slot)
    PROVE  ProofInv'
  <1> DEFINE call == [pc |-> "claiming", at |-> i, route |-> route, user |-> user,
                      slot |-> slot]
  <1>1. calls' = [calls EXCEPT ![c] = call]
        /\ UNCHANGED <<kvVars, claims, profiles, unlocked, credited>>
    BY DEF Verify
  <1>2. IsCall(call) /\ call.pc # "won"
    BY VerificationAssumption DEF Verify, IsCall, Serves
  <1> HIDE DEF call
  <1>3. calls' = [d \in Call |-> calls'[d]]
    BY <1>1 DEF ProofInv, Shapes
  <1>4. \A d \in Call : calls'[d] = IF d = c THEN call ELSE calls[d]
    BY <1>1 DEF ProofInv, Shapes
  <1>5. Shapes' /\ WonOnce'
    BY <1>1, <1>2, <1>3, <1>4 DEF ProofInv, Shapes, WonOnce, IsCall, IsWrite, kvVars
  <1> QED
    BY <1>1, <1>5, CopiesStay DEF ProofInv, CreditedOnce, kvVars

\* A slot is won only if nobody claimed it, so nobody won it before, and nothing was
\* credited for it.
LEMMA ClaimKeeps == ASSUME ProofInv, NEW c \in Call, Claim(c) PROVE ProofInv'
  <1>1. PICK ran \in BOOLEAN, told \in BOOLEAN :
          /\ told => ran
          /\ claims' = IF ran THEN Claimed(calls[c].slot) ELSE claims
          /\ calls' = [calls EXCEPT ![c].pc =
                 IF calls[c].at = Gone THEN "gone" ELSE Verdict(calls[c].slot, told)]
    BY DEF Claim
  <1> DEFINE pc == IF calls[c].at = Gone THEN "gone" ELSE Verdict(calls[c].slot, told)
             call == [calls[c] EXCEPT !.pc = pc]
             slot == calls[c].slot
  <1>2. UNCHANGED <<rows, schema, writes, boot, profiles, unlocked, credited>>
        /\ calls[c].pc = "claiming"
    BY DEF Claim
  <1>3. IsCall(calls[c]) /\ slot \in Slot
    BY <1>2 DEF ProofInv, Shapes, IsCall
  <1>4. claims \subseteq claims' /\ pc # "idle"
    BY <1>1 DEF Claimed, Verdict
  <1>5. ASSUME pc = "won"
        PROVE  /\ slot \notin claims /\ slot \in claims' /\ calls[c].at \in Instance
               /\ \A k : <<slot, k>> \notin credited
    <2>1. slot \notin claims /\ told
      BY <1>5 DEF Verdict, Wins
    <2>2. slot \in claims'
      BY <1>1, <2>1 DEF Claimed
    <2>3. calls[c].at \in Instance
      BY <1>3, <1>5 DEF IsCall
    <2> QED
      BY <2>1, <2>2, <2>3 DEF ProofInv, CreditedOnce
  <1>6. calls' = [calls EXCEPT ![c] = call]
    BY <1>1
  <1>7. call.slot = slot /\ call.pc = pc /\ IsCall(call)
    BY <1>2, <1>3, <1>4, <1>5 DEF IsCall
  <1> HIDE DEF call, pc
  <1>8. calls' = [d \in Call |-> calls'[d]]
        /\ \A d \in Call : calls'[d] = IF d = c THEN call ELSE calls[d]
    BY <1>6 DEF ProofInv, Shapes
  <1> HIDE DEF slot
  <1>9. Shapes'
    BY <1>2, <1>7, <1>8 DEF ProofInv, Shapes, IsCall, IsWrite
  <1>10. WonOnce'
    <2>1. \A d \in Call : calls[d].pc = "won" => calls[d].slot \in claims
      BY DEF ProofInv, WonOnce
    <2> QED
      BY <1>2, <1>4, <1>5, <1>7, <1>8, <2>1 DEF ProofInv, WonOnce
  <1>11. CreditedOnce'
    BY <1>2, <1>4 DEF ProofInv, CreditedOnce
  <1> QED
    BY <1>2, <1>9, <1>10, <1>11, CopiesStay DEF ProofInv

\* The won call is done when its slot is credited, to a user and perhaps to an agent:
\* no second user will be.
LEMMA CreditedStaysOnce ==
    ASSUME ProofInv, NEW c \in Call, calls[c].pc = "won", UNCHANGED claims,
           calls' = [calls EXCEPT ![c].pc = "done"],
           NEW user \in User, NEW E, E \subseteq {calls[c].slot} \X ({user} \cup Agent),
           credited' = credited \cup E
    PROVE  WonOnce' /\ CreditedOnce'
  <1> DEFINE slot == calls[c].slot
  <1>1. slot \in Slot /\ slot \in claims /\ \A k : <<slot, k>> \notin credited
    BY DEF ProofInv, Shapes, IsCall, WonOnce
  <1>2. \A d \in Call : calls'[d].slot = calls[d].slot
                        /\ (calls'[d].pc = "won" => d # c /\ calls[d].pc = "won")
    BY DEF ProofInv, Shapes, IsCall
  <1>3. \A d \in Call : calls[d].pc = "won" /\ d # c => calls[d].slot # slot
    BY DEF ProofInv, WonOnce
  <1>4. \A e \in E : /\ e = <<e[1], e[2]>> /\ e[1] = slot /\ e[2] \in {user} \cup Agent
                     /\ (e[2] \in User => e[2] = user)
    BY VerificationAssumption
  <1>5. WonOnce'
    <2>1. \A d \in Call : calls'[d].pc = "won" =>
             \A k : <<calls'[d].slot, k>> \notin credited \cup E
      BY <1>2, <1>3, <1>4 DEF ProofInv, WonOnce
    <2> QED
      BY <1>2, <2>1 DEF ProofInv, WonOnce
  <1>6. credited' \subseteq Slot \X Key
    BY <1>1, VerificationAssumption DEF ProofInv, CreditedOnce
  <1>7. \A a \in credited : a[1] # slot
    <2>1. \A a \in credited : a = <<a[1], a[2]>>
      BY DEF ProofInv, CreditedOnce
    <2> QED
      BY <1>1, <2>1
  <1>8. \A a, b \in credited' : a[1] = b[1] /\ {a[2], b[2]} \subseteq User => a[2] = b[2]
    <2> SUFFICES ASSUME NEW a \in credited', NEW b \in credited', a[1] = b[1],
                        a[2] \in User, b[2] \in User
                 PROVE  a[2] = b[2]
      OBVIOUS
    <2>1. CASE a[1] = slot
      BY <1>4, <1>7, <2>1
    <2>2. CASE a[1] # slot
      BY <1>4, <2>2 DEF ProofInv, CreditedOnce
    <2> QED
      BY <2>1, <2>2
  <1>9. \A a \in credited' : a[1] \in claims'
    BY <1>1, <1>4 DEF ProofInv, CreditedOnce
  <1> QED
    BY <1>5, <1>6, <1>8, <1>9 DEF CreditedOnce

\* A call that is over is still a call.
LEMMA CallDone ==
    ASSUME ProofInv, NEW c \in Call, calls' = [calls EXCEPT ![c].pc = "done"]
    PROVE  calls' = [d \in Call |-> calls'[d]] /\ \A d \in Call : IsCall(calls'[d])
  <1> DEFINE call == [calls[c] EXCEPT !.pc = "done"]
  <1>1. calls' = [calls EXCEPT ![c] = call]
    OBVIOUS
  <1>2. IsCall(call)
    BY DEF ProofInv, Shapes, IsCall
  <1> HIDE DEF call
  <1> QED
    BY <1>1, <1>2 DEF ProofInv, Shapes

LEMMA CreditKeeps == ASSUME ProofInv, NEW c \in Call, Credit(c) PROVE ProofInv'
  <1> DEFINE i == calls[c].at
             slot == calls[c].slot
             user == calls[c].user
             agent == AgentOf[slot]
             one == Added(profiles[i], user, MethodOf(slot))
             both == Added(one, agent, "oidc")
             sent == Sent(writes, i, user, one[user])
  <1>1. /\ calls[c].pc = "won"
        /\ calls' = [calls EXCEPT ![c].pc = "done"]
        /\ UNCHANGED <<rows, schema, boot, faults, claims, unlocked>>
    BY DEF Credit
  <1>2. i \in Instance /\ slot \in Slot /\ user \in User
    BY DEF Credit, ProofInv, Shapes, IsCall
  <1>3. profiles[i] \in Kept /\ AllEarned(credited, profiles[i]) /\ user \in Key
    BY <1>2, VerificationAssumption DEF ProofInv, Shapes, CopiesEarned
  <1>4. MethodOf(slot) \in Method
    BY DEF MethodOf, Method
  <1>5. \A w \in writes : IsWrite(w) /\ Earned(credited, w.key, w.value)
    BY DEF ProofInv, Shapes, CopiesEarned
  <1>6. calls' = [d \in Call |-> calls'[d]] /\ \A d \in Call : IsCall(calls'[d])
    BY <1>1, CallDone
  <1>7. ASSUME NEW C, credited \cup {<<slot, user>>} \subseteq C
        PROVE  /\ one \in Kept /\ AllEarned(C, one)
               /\ \A w \in sent : IsWrite(w) /\ Earned(C, w.key, w.value)
    <2>1. one \in Kept /\ AllEarned(C, one)
      BY <1>2, <1>3, <1>4, <1>7, AddedIsEarned
    <2>2. one[user] \in (SUBSET Method) \cup {Absent} /\ Earned(C, user, one[user])
      BY <1>3, <2>1 DEF Kept, AllEarned
    <2>3. \A w \in writes : IsWrite(w) /\ Earned(C, w.key, w.value)
      BY <1>5, <1>7, EarnedStays
    <2> HIDE DEF one
    <2> QED
      BY <1>3, <2>1, <2>2, <2>3, SentIsEarned
  <1>8. ASSUME NEW map \in Kept, AllEarned(credited', map),
               \A w \in writes' : IsWrite(w) /\ Earned(credited', w.key, w.value),
               profiles' = [profiles EXCEPT ![i] = map],
               credited \subseteq credited'
        PROVE  Shapes' /\ CopiesEarned'
    <2>1. profiles' \in [Instance -> Kept]
          /\ \A j \in Instance : profiles'[j] = IF j = i THEN map ELSE profiles[j]
      BY <1>2, <1>8 DEF ProofInv, Shapes
    <2>2. Shapes'
      BY <1>1, <1>6, <1>8, <2>1 DEF ProofInv, Shapes
    <2>3. \A j \in Instance : AllEarned(credited', profiles'[j])
      BY <1>8, <2>1, EarnedStays DEF ProofInv, CopiesEarned, AllEarned
    <2>4. AllEarned(credited', rows) /\ \A j \in Instance : AllEarned(credited', boot[j].seen)
      BY <1>8, EarnedStays DEF ProofInv, CopiesEarned, AllEarned
    <2> QED
      BY <1>1, <1>8, <2>2, <2>3, <2>4 DEF CopiesEarned
  <1>9. CASE /\ profiles' = [profiles EXCEPT ![i] = one]
             /\ writes' = sent
             /\ credited' = credited \cup {<<slot, user>>}
    <2>1. Shapes' /\ CopiesEarned'
      BY <1>7, <1>8, <1>9
    <2> DEFINE E == {<<slot, user>>}
    <2>2. E \subseteq {slot} \X ({user} \cup Agent) /\ credited' = credited \cup E
      BY <1>9
    <2> HIDE DEF E
    <2>3. WonOnce' /\ CreditedOnce'
      BY <1>1, <1>2, <2>2, CreditedStaysOnce
    <2> QED
      BY <2>1, <2>3 DEF ProofInv
  <1>10. CASE /\ calls[c].route = "oidc" /\ agent # NoAgent
              /\ profiles' = [profiles EXCEPT ![i] = both]
              /\ writes' = Sent(sent, i, agent, both[agent])
              /\ credited' = credited \cup {<<slot, user>>, <<slot, agent>>}
    <2>1. agent \in Agent /\ agent \in Key
      BY <1>2, <1>10, VerificationAssumption
    <2>2. MethodOf(slot) = "oidc" /\ "oidc" \in Method
      BY <1>1, <1>2, <1>10 DEF ProofInv, Shapes, IsCall, MethodOf, Method
    <2>3. one \in Kept /\ AllEarned(credited', one)
          /\ \A w \in sent : IsWrite(w) /\ Earned(credited', w.key, w.value)
      BY <1>7, <1>10
    <2> HIDE DEF one, sent
    <2>4. both \in Kept /\ AllEarned(credited', both)
      BY <1>2, <1>10, <2>1, <2>2, <2>3, AddedIsEarned
    <2>5. both[agent] \in (SUBSET Method) \cup {Absent} /\ Earned(credited', agent, both[agent])
      BY <2>1, <2>4 DEF Kept, AllEarned
    <2> HIDE DEF both
    <2>6. \A w \in writes' : IsWrite(w) /\ Earned(credited', w.key, w.value)
      BY <1>10, <2>1, <2>3, <2>5, SentIsEarned
    <2>7. Shapes' /\ CopiesEarned'
      BY <1>8, <1>10, <2>4, <2>6
    <2> DEFINE E == {<<slot, user>>, <<slot, agent>>}
    <2>8. E \subseteq {slot} \X ({user} \cup Agent) /\ credited' = credited \cup E
      BY <1>10, <2>1
    <2> HIDE DEF E
    <2>9. WonOnce' /\ CreditedOnce'
      BY <1>1, <1>2, <2>8, CreditedStaysOnce
    <2> QED
      BY <2>7, <2>9 DEF ProofInv
  <1> QED
    BY <1>9, <1>10 DEF Credit

LEMMA AdmitKeeps == ASSUME ProofInv, NEW c \in Call, Admit(c) PROVE ProofInv'
  <1>1. /\ calls' = [calls EXCEPT ![c].pc = "done"]
        /\ UNCHANGED <<kvVars, claims, profiles, credited>>
    BY DEF Admit
  <1>2. calls' = [d \in Call |-> calls'[d]] /\ \A d \in Call : IsCall(calls'[d])
    BY <1>1, CallDone
  <1>3. \A d \in Call : calls'[d].slot = calls[d].slot
                        /\ (calls'[d].pc = "won" => calls[d].pc = "won")
    BY <1>1 DEF ProofInv, Shapes, IsCall
  <1>4. Shapes' /\ WonOnce' /\ CreditedOnce'
    BY <1>1, <1>2, <1>3 DEF ProofInv, Shapes, IsWrite, WonOnce, CreditedOnce, kvVars
  <1> QED
    BY <1>1, <1>4, CopiesStay DEF ProofInv, kvVars

LEMMA VerifyOpenKeeps ==
    ASSUME ProofInv, NEW c \in Call, NEW i \in Instance, NEW user \in User,
           NEW method \in OpenMethod, VerifyOpen(c, i, user, method)
    PROVE  ProofInv'
  <1> DEFINE one == Added(profiles[i], user, method)
  <1>1. /\ calls' = [calls EXCEPT ![c].pc = "done"]
        /\ profiles' = [profiles EXCEPT ![i] = one]
        /\ writes' = Sent(writes, i, user, one[user])
        /\ UNCHANGED <<rows, schema, boot, faults, claims, unlocked, credited>>
    BY DEF VerifyOpen
  <1>2. calls' = [d \in Call |-> calls'[d]] /\ \A d \in Call : IsCall(calls'[d])
    BY <1>1, CallDone
  <1>3. \A d \in Call : calls'[d].slot = calls[d].slot
                        /\ (calls'[d].pc = "won" => calls[d].pc = "won")
    BY <1>1 DEF ProofInv, Shapes, IsCall
  <1>4. WonOnce' /\ CreditedOnce'
    BY <1>1, <1>3 DEF ProofInv, WonOnce, CreditedOnce
  <1>5. one \in Kept /\ AllEarned(credited, one) /\ user \in Key
    BY AddedIsEarned, VerificationAssumption
       DEF ProofInv, Shapes, CopiesEarned, Method
  <1> HIDE DEF one
  <1>6. one[user] \in (SUBSET Method) \cup {Absent} /\ Earned(credited, user, one[user])
    BY <1>5 DEF Kept, AllEarned
  <1>7. \A w \in writes : IsWrite(w) /\ Earned(credited, w.key, w.value)
    BY DEF ProofInv, Shapes, CopiesEarned
  <1>8. \A w \in writes' : IsWrite(w) /\ Earned(credited, w.key, w.value)
    BY <1>1, <1>5, <1>6, <1>7, SentIsEarned
  <1>9. profiles' \in [Instance -> Kept]
        /\ \A j \in Instance : profiles'[j] = IF j = i THEN one ELSE profiles[j]
    BY <1>1, <1>5 DEF ProofInv, Shapes
  <1>10. Shapes' /\ CopiesEarned'
    BY <1>1, <1>2, <1>5, <1>8, <1>9 DEF ProofInv, Shapes, CopiesEarned
  <1> QED
    BY <1>4, <1>10 DEF ProofInv

\* A row that is read at boot was earned, whatever it replaces.
LEMMA HydrateKeeps == ASSUME ProofInv, NEW i \in Instance, Hydrate(i) PROVE ProofInv'
  <1> DEFINE map == Hydrated(i, profiles[i])
             empty == [pc |-> "done", seen |-> Nothing(Key)]
  <1>1. /\ profiles' = [profiles EXCEPT ![i] = map]
        /\ boot' = [boot EXCEPT ![i] = empty]
        /\ UNCHANGED <<rows, schema, writes, faults, claims, unlocked, calls, credited>>
    BY DEF Hydrate, KvHydrate
  <1>2. boot[i].seen \in Kept /\ profiles[i] \in Kept
    BY DEF ProofInv, Shapes
  <1>3. map \in Kept /\ AllEarned(credited, map)
    BY <1>2 DEF Hydrated, Kept, AllEarned, ProofInv, CopiesEarned
  <1>4. empty \in [pc : {"asked", "read", "done"}, seen : Kept] /\ AllEarned(credited, empty.seen)
    BY DEF Nothing, Kept, AllEarned, Earned, Methods
  <1> HIDE DEF map, empty
  <1>5. /\ profiles' \in [Instance -> Kept]
        /\ \A j \in Instance : profiles'[j] = IF j = i THEN map ELSE profiles[j]
        /\ boot' \in [Instance -> [pc : {"asked", "read", "done"}, seen : Kept]]
        /\ \A j \in Instance : boot'[j] = IF j = i THEN empty ELSE boot[j]
    BY <1>1, <1>3, <1>4 DEF ProofInv, Shapes
  <1>6. Shapes' /\ CopiesEarned'
    BY <1>1, <1>3, <1>4, <1>5 DEF ProofInv, Shapes, IsWrite, IsCall, CopiesEarned
  <1> QED
    BY <1>1, <1>6 DEF ProofInv, WonOnce, CreditedOnce

\* A stop loses wins, and credits none.
LEMMA RestartKeeps == ASSUME ProofInv, NEW i \in Instance, Restart(i) PROVE ProofInv'
  <1> DEFINE asked == [pc |-> "asked", seen |-> Nothing(Key)]
             Left(call) ==
                 IF call.at # i THEN call
                 ELSE [call EXCEPT !.at = Gone,
                         !.pc = IF call.pc \in {"won", "lost", "failed"} THEN "gone" ELSE call.pc]
             Orphan(w) == [w EXCEPT !.at = IF w.at = i THEN Gone ELSE w.at]
  <1>1. /\ profiles' = [profiles EXCEPT ![i] = Nothing(Key)]
        /\ boot' = [boot EXCEPT ![i] = asked]
        /\ calls' = [c \in Call |-> Left(calls[c])]
        /\ UNCHANGED <<rows, claims, credited>>
    BY DEF Restart, KvRestart
  <1>2. PICK cut : writes' = {Orphan(w) : w \in writes \ cut}
    BY DEF Restart, KvRestart
  <1>3. \A c \in Call : /\ IsCall(Left(calls[c])) /\ Left(calls[c]).slot = calls[c].slot
                        /\ (Left(calls[c]).pc = "won" => calls[c].pc = "won")
    <2> SUFFICES ASSUME NEW c \in Call
                 PROVE  /\ IsCall(Left(calls[c])) /\ Left(calls[c]).slot = calls[c].slot
                        /\ (Left(calls[c]).pc = "won" => calls[c].pc = "won")
      OBVIOUS
    <2> DEFINE call == calls[c]
               pc == IF call.pc \in {"won", "lost", "failed"} THEN "gone" ELSE call.pc
    <2>1. IsCall(call)
      BY DEF ProofInv, Shapes
    <2>2. CASE call.at # i
      BY <2>1, <2>2
    <2>3. CASE call.at = i
      <3>1. Left(call) = [pc |-> pc, at |-> Gone, route |-> call.route, user |-> call.user,
                          slot |-> call.slot]
        BY <2>1, <2>3 DEF IsCall
      <3>2. pc # "won" /\ (pc \in {"claiming", "won"} => call.pc \in {"claiming", "won"})
        OBVIOUS
      <3> HIDE DEF Left, call, pc
      <3>3. /\ Left(call).pc = pc /\ Left(call).slot = call.slot /\ Left(call).at = Gone
            /\ Left(call).route = call.route /\ Left(call).user = call.user
        BY <3>1
      <3>4. IsCall(Left(call))
        BY <2>1, <3>1, <3>2, <3>3 DEF IsCall
      <3> QED
        BY <3>2, <3>3, <3>4 DEF call
    <2> QED
      BY <2>2, <2>3
  <1>4. \A w \in writes : IsWrite(Orphan(w)) /\ Earned(credited, Orphan(w).key, Orphan(w).value)
    BY DEF ProofInv, Shapes, CopiesEarned, IsWrite
  <1>5. Nothing(Key) \in Kept /\ AllEarned(credited, Nothing(Key))
    BY DEF Nothing, Kept, AllEarned, Earned, Methods
  <1>6. asked \in [pc : {"asked", "read", "done"}, seen : Kept] /\ AllEarned(credited, asked.seen)
    BY <1>5
  <1> HIDE DEF asked, Left, Orphan
  <1>7. /\ profiles' \in [Instance -> Kept]
        /\ \A j \in Instance : profiles'[j] = IF j = i THEN Nothing(Key) ELSE profiles[j]
        /\ boot' \in [Instance -> [pc : {"asked", "read", "done"}, seen : Kept]]
        /\ \A j \in Instance : boot'[j] = IF j = i THEN asked ELSE boot[j]
    BY <1>1, <1>5, <1>6 DEF ProofInv, Shapes
  <1>8. \A w \in writes' : IsWrite(w) /\ Earned(credited, w.key, w.value)
    BY <1>2, <1>4
  <1>9. /\ calls' = [c \in Call |-> calls'[c]] /\ \A c \in Call : IsCall(calls'[c])
        /\ \A c \in Call : /\ calls'[c].slot = calls[c].slot
                           /\ (calls'[c].pc = "won" => calls[c].pc = "won")
    BY <1>1, <1>3
  <1>10. Shapes'
    BY <1>1, <1>7, <1>8, <1>9 DEF ProofInv, Shapes
  <1>11. CopiesEarned'
    <2>1. AllEarned(credited, rows)
          /\ \A j \in Instance : AllEarned(credited, profiles[j]) /\ AllEarned(credited, boot[j].seen)
      BY DEF ProofInv, CopiesEarned
    <2>2. \A j \in Instance : AllEarned(credited, profiles'[j]) /\ AllEarned(credited, boot'[j].seen)
      BY <1>5, <1>6, <1>7, <2>1
    <2> QED
      BY <1>1, <1>8, <2>1, <2>2 DEF CopiesEarned
  <1>12. WonOnce' /\ CreditedOnce'
    BY <1>1, <1>9 DEF ProofInv, WonOnce, CreditedOnce
  <1> QED
    BY <1>10, <1>11, <1>12 DEF ProofInv

\* The statements carry values that were earned when they were sent.
LEMMA KvStepKeeps ==
    ASSUME ProofInv, KvStep, UNCHANGED <<claims, profiles, unlocked, calls, credited>>
    PROVE  ProofInv'
  <1>1. WonOnce' /\ CreditedOnce' /\ (\A i \in Instance : AllEarned(credited, profiles[i])')
    BY DEF ProofInv, WonOnce, CreditedOnce, CopiesEarned, AllEarned
  <1>2. ASSUME NEW i \in Instance, CreateTableFails(i) PROVE Shapes' /\ CopiesEarned'
    <2>1. /\ boot' = [boot EXCEPT ![i].pc = "done"] /\ writes' \subseteq writes /\ rows' = rows
      BY <1>2 DEF CreateTableFails
    <2>2. /\ boot' \in [Instance -> [pc : {"asked", "read", "done"}, seen : Kept]]
          /\ \A j \in Instance : boot'[j].seen = boot[j].seen
      BY <2>1 DEF ProofInv, Shapes
    <2> QED
      BY <1>1, <2>1, <2>2 DEF ProofInv, Shapes, CopiesEarned
  <1>3. ASSUME NEW i \in Instance, ReadRows(i) PROVE Shapes' /\ CopiesEarned'
    <2>1. /\ UNCHANGED <<rows, writes>>
          /\ \/ boot' = [boot EXCEPT ![i] = [pc |-> "read", seen |-> rows]]
             \/ boot' = [boot EXCEPT ![i].pc = "done"]
      BY <1>3 DEF ReadRows
    <2>2. /\ boot' \in [Instance -> [pc : {"asked", "read", "done"}, seen : Kept]]
          /\ \A j \in Instance : boot'[j].seen \in {boot[j].seen, rows}
      BY <2>1 DEF ProofInv, Shapes
    <2>3. \A j \in Instance : AllEarned(credited, boot'[j].seen)
      BY <2>2 DEF ProofInv, CopiesEarned
    <2> QED
      BY <1>1, <2>1, <2>2, <2>3 DEF ProofInv, Shapes, CopiesEarned
  <1>4. ASSUME Land PROVE Shapes' /\ CopiesEarned'
    <2>1. PICK w \in writes : /\ rows' = [rows EXCEPT ![w.key] = w.value]
                              /\ writes' = writes \ {w} /\ boot' = boot
      BY <1>4 DEF Land
    <2>2. w.key \in Key /\ w.value \in (SUBSET Method) \cup {Absent}
          /\ Earned(credited, w.key, w.value)
      BY DEF ProofInv, Shapes, IsWrite, CopiesEarned
    <2>3. rows' \in Kept /\ AllEarned(credited, rows')
      BY <2>1, <2>2 DEF ProofInv, Shapes, Kept, CopiesEarned, AllEarned
    <2> QED
      BY <1>1, <2>1, <2>3 DEF ProofInv, Shapes, CopiesEarned
  <1>5. ASSUME Lose PROVE Shapes' /\ CopiesEarned'
    <2>1. writes' \subseteq writes /\ UNCHANGED <<rows, boot>>
      BY <1>5 DEF Lose
    <2> QED
      BY <1>1, <2>1 DEF ProofInv, Shapes, CopiesEarned
  <1> QED
    BY <1>1, <1>2, <1>3, <1>4, <1>5 DEF KvStep, ProofInv

LEMMA ProofStep == ASSUME ProofInv, [NextProfiles]_profileVars PROVE ProofInv'
  <1>1. CASE UNCHANGED profileVars
    BY <1>1, CopiesStay
       DEF profileVars, kvVars, ProofInv, Shapes, IsCall, IsWrite, WonOnce, CreditedOnce
  <1>2. CASE NextProfiles
    BY <1>2, VerifyKeeps, ClaimKeeps, CreditKeeps, AdmitKeeps, VerifyOpenKeeps, HydrateKeeps,
       RestartKeeps, KvStepKeeps
       DEF NextProfiles
  <1> QED
    BY <1>1, <1>2

-----------------------------------------------------------------------------
\* One human and one account earn one profile: what api/verify, api/oidc/verify and
\* api/world/verify write is credited to whoever's call won the slot in the shared
\* replay store, at whichever instance, over restarts, lost statements and hydration.
THEOREM ProofsEarnOneProfile == ProfilesSpec => []OneProofOneProfile
  <1>1. InitProfiles => ProofInv
    BY ProofInitially
  <1>2. ProofInv /\ [NextProfiles]_profileVars => ProofInv'
    BY ProofStep
  <1>3. ProofInv => OneProofOneProfile
    <2> SUFFICES ASSUME ProofInv PROVE OneProofOneProfile
      OBVIOUS
    <2>1. \A k \in Key : \A p \in Copies(k) : Earned(credited, k, p)
      BY DEF Copies, ProofInv, CopiesEarned, AllEarned
    <2> QED
      BY <2>1 DEF OneProofOneProfile, Earned, ProofInv, CreditedOnce
  <1> QED
    BY <1>1, <1>2, <1>3, PTL DEF ProfilesSpec

-----------------------------------------------------------------------------
(* An intent expires once. *)

IntentValue == [status : Statuses, expiresAt : Nat] \cup {Absent}

IntentMap == [Key -> IntentValue]

IntentShapes ==
    /\ rows \in IntentMap
    /\ intents \in [Instance -> IntentMap]
    /\ boot \in [Instance -> [pc : {"asked", "read", "done"}, seen : IntentMap]]
    /\ \A w \in writes : /\ w = [n |-> w.n, at |-> w.at, key |-> w.key, value |-> w.value]
                         /\ w.key \in Key /\ w.value \in IntentValue
    /\ time \in Nat
    /\ said \in [Key -> Statuses \cup {"nothing"}]

\* Everywhere a value of the intent is.
IntentCopies(k) ==
    {rows[k]} \cup {intents[i][k] : i \in Instance} \cup {boot[i].seen[k] : i \in Instance}
        \cup {w.value : w \in {x \in writes : x.key = k}}

\* A value that expires at d, looked at at t: it says it has expired only once it has.
Dated(t, d, v) ==
    v = Absent \/ (v.expiresAt = d /\ (v.status = "expired" => t >= d))

\* The intent expires at d in every copy, and nobody was told so before.
ExpiresAt(k, d) ==
    /\ said[k] = "expired" => time >= d
    /\ \A v \in IntentCopies(k) : Dated(time, d, v)

ExpiryInv == IntentShapes /\ \A k \in Key : \E d \in Nat : ExpiresAt(k, d)

-----------------------------------------------------------------------------
\* Time and statements that move copies about change nothing an intent says.
LEMMA CopiesMove ==
    ASSUME ExpiryInv, IntentShapes', time' >= time, UNCHANGED said,
           \A k \in Key : IntentCopies(k)' \subseteq IntentCopies(k) \cup {Absent}
    PROVE  ExpiryInv'
  <1> SUFFICES ASSUME NEW k \in Key PROVE \E d \in Nat : ExpiresAt(k, d)'
    BY DEF ExpiryInv
  <1>1. PICK d \in Nat : ExpiresAt(k, d)
    BY DEF ExpiryInv
  <1>2. time \in Nat /\ time' \in Nat /\ IntentCopies(k)' \subseteq IntentCopies(k) \cup {Absent}
    BY DEF ExpiryInv, IntentShapes
  <1>3. \A v \in IntentCopies(k)' : Dated(time, d, v)
    BY <1>1, <1>2 DEF ExpiresAt, Dated
  <1>4. \A v \in IntentCopies(k)' : Dated(time', d, v)
    BY <1>2, <1>3 DEF Dated
  <1>5. said'[k] = "expired" => time' >= d
    BY <1>1, <1>2 DEF ExpiresAt
  <1> QED
    BY <1>4, <1>5 DEF ExpiresAt

\* durableSet adds at most the one statement, of its key and value.
LEMMA SentIsOne ==
    ASSUME NEW W, NEW i, NEW k, NEW v
    PROVE  \A w \in Sent(W, i, k, v) :
             w \in W \/ w = [n |-> w.n, at |-> w.at, key |-> k, value |-> v]
  <1> DEFINE n == CHOOSE m \in 1..MaxWrites : \A w \in W : w.n # m
             one == [n |-> n, at |-> i, key |-> k, value |-> v]
  <1>1. Sent(W, i, k, v) \subseteq W \cup {one}
    BY DEF Sent
  <1> HIDE DEF n
  <1>2. one = [n |-> one.n, at |-> one.at, key |-> k, value |-> v]
    OBVIOUS
  <1> QED
    BY <1>1, <1>2

\* A step by which an instance has a value of one intent, tells it and may send it;
\* and what it does to the copies.
Tells(i, key, v) ==
    /\ intents' = [intents EXCEPT ![i][key] = v]
    /\ writes' = writes \/ writes' = Sent(writes, i, key, v)
    /\ said' = [said EXCEPT ![key] = v.status]
    /\ UNCHANGED <<rows, boot, time>>

OneMore(key, v) ==
    /\ time' = time
    /\ \A c \in IntentCopies(key)' : c \in IntentCopies(key) \/ c = v
    /\ said'[key] = v.status
    /\ \A k \in Key \ {key} :
          IntentCopies(k)' \subseteq IntentCopies(k) /\ said'[k] = said[k]

LEMMA OneTold ==
    ASSUME ExpiryInv, NEW i \in Instance, NEW key \in Key,
           NEW v \in [status : Statuses, expiresAt : Nat], Tells(i, key, v)
    PROVE  IntentShapes' /\ OneMore(key, v)
  <1> USE DEF Tells
  <1>1. intents[i] \in IntentMap /\ v \in IntentValue
    BY DEF ExpiryInv, IntentShapes, IntentValue
  <1> DEFINE map == [intents[i] EXCEPT ![key] = v]
  <1>2. map \in IntentMap /\ \A k \in Key : map[k] = IF k = key THEN v ELSE intents[i][k]
    BY <1>1 DEF IntentMap
  <1>3. intents' = [intents EXCEPT ![i] = map]
    BY DEF ExpiryInv, IntentShapes
  <1> HIDE DEF map
  <1>4. /\ intents' \in [Instance -> IntentMap]
        /\ \A j \in Instance : intents'[j] = IF j = i THEN map ELSE intents[j]
    BY <1>2, <1>3 DEF ExpiryInv, IntentShapes
  <1>5. \A w \in writes' :
             /\ w = [n |-> w.n, at |-> w.at, key |-> w.key, value |-> w.value]
             /\ w.key \in Key /\ w.value \in IntentValue
             /\ w \in writes \/ (w.key = key /\ w.value = v)
    BY <1>1, SentIsOne DEF ExpiryInv, IntentShapes
  <1>6. v.status \in Statuses
    OBVIOUS
  <1>7. /\ said' \in [Key -> Statuses \cup {"nothing"}]
        /\ \A k \in Key : said'[k] = IF k = key THEN v.status ELSE said[k]
    BY <1>6 DEF ExpiryInv, IntentShapes
  <1>8. IntentShapes'
    BY <1>4, <1>5, <1>7 DEF ExpiryInv, IntentShapes
  <1>9. ASSUME NEW k \in Key, NEW c \in IntentCopies(k)'
        PROVE  c \in IntentCopies(k) \/ (k = key /\ c = v)
    <2>1. \/ c = rows[k] \/ (\E j \in Instance : c = intents'[j][k])
          \/ (\E j \in Instance : c = boot[j].seen[k])
          \/ \E w \in writes' : w.key = k /\ c = w.value
      BY <1>9 DEF IntentCopies
    <2>2. \A j \in Instance : intents'[j][k] = intents[j][k] \/ (k = key /\ intents'[j][k] = v)
      BY <1>2, <1>4
    <2> QED
      BY <1>5, <2>1, <2>2 DEF IntentCopies
  <1> QED
    BY <1>7, <1>8, <1>9 DEF OneMore

LEMMA OthersStay ==
    ASSUME ExpiryInv, NEW key, NEW v, OneMore(key, v), NEW k \in Key \ {key}
    PROVE  \E d \in Nat : ExpiresAt(k, d)'
  <1>1. PICK d \in Nat : ExpiresAt(k, d)
    BY DEF ExpiryInv
  <1> QED
    BY <1>1 DEF OneMore, ExpiresAt

\* An intent that nobody has used gets its one expiry.
LEMMA CreateIntentKeeps ==
    ASSUME ExpiryInv, IntentsAssumption, NEW i \in Instance, NEW key \in Key, NEW ttl \in Ttl,
           CreateIntent(i, key, ttl)
    PROVE  ExpiryInv' /\ \A k \in Key : said[k] = "expired" => said'[k] = "expired"
  <1>1. time \in Nat /\ time + ttl \in Nat
    BY DEF ExpiryInv, IntentShapes, IntentsAssumption
  <1>2. PICK d \in Nat : d = time + ttl
    BY <1>1
  <1>3. PICK intent : intent = [status |-> "created", expiresAt |-> d]
    OBVIOUS
  <1>4. /\ intent \in [status : Statuses, expiresAt : Nat]
        /\ intent.status = "created" /\ intent.expiresAt = d
    BY <1>2, <1>3 DEF Statuses
  <1>5. Tells(i, key, intent) /\ Fresh(key)
    BY <1>2, <1>3 DEF CreateIntent, Tells
  <1>6. said[key] = "nothing" /\ \A c \in IntentCopies(key) : c = Absent
    BY <1>5 DEF Fresh, IntentCopies
  <1>7. IntentShapes' /\ OneMore(key, intent)
    BY <1>4, <1>5, OneTold
  <1>8. ExpiresAt(key, d)'
    <2>1. \A c \in IntentCopies(key)' : c = Absent \/ c = intent
      BY <1>6, <1>7 DEF OneMore
    <2>2. \A c \in IntentCopies(key)' : Dated(time', d, c)
      BY <1>4, <2>1 DEF Dated
    <2>3. said'[key] = "created"
      BY <1>4, <1>7 DEF OneMore
    <2> QED
      BY <2>2, <2>3 DEF ExpiresAt
  <1>9. ExpiryInv'
    BY <1>2, <1>7, <1>8, OthersStay DEF ExpiryInv
  <1> QED
    BY <1>6, <1>7, <1>9 DEF OneMore

\* A reader is told by the clock, from whichever copy.
LEMMA GetIntentKeeps ==
    ASSUME ExpiryInv, NEW i \in Instance, NEW key \in Key, GetIntent(i, key)
    PROVE  ExpiryInv' /\ \A k \in Key : said[k] = "expired" => said'[k] = "expired"
  <1>1. PICK answer : answer = Settled(intents[i][key])
    OBVIOUS
  <1>2. intents[i][key] # Absent /\ intents[i][key] \in IntentValue
    BY DEF GetIntent, ExpiryInv, IntentShapes, IntentMap
  <1>3. PICK intent \in [status : Statuses, expiresAt : Nat] : intent = intents[i][key]
    BY <1>2 DEF IntentValue
  <1>4. intent \in IntentCopies(key) /\ intent # Absent
    BY <1>2, <1>3 DEF IntentCopies
  <1>5. PICK d \in Nat : ExpiresAt(key, d)
    BY DEF ExpiryInv
  <1>6. intent.expiresAt = d /\ (intent.status = "expired" => time >= d)
    BY <1>4, <1>5 DEF ExpiresAt, Dated
  <1>7. /\ answer \in [status : Statuses, expiresAt : Nat]
        /\ answer.expiresAt = d
        /\ answer.status = "expired" <=> time >= d
    <2>1. CASE intent.status = "created" /\ time >= intent.expiresAt
      <3>1. answer = [intent EXCEPT !.status = "expired"]
        BY <1>1, <1>3, <2>1 DEF Settled
      <3> QED
        BY <1>6, <2>1, <3>1 DEF Statuses
    <2>2. CASE ~(intent.status = "created" /\ time >= intent.expiresAt)
      <3>1. answer = intent
        BY <1>1, <1>3, <2>2 DEF Settled
      <3>2. intent.status \in Statuses
        OBVIOUS
      <3> QED
        BY <1>6, <2>2, <3>1, <3>2 DEF Statuses
    <2> QED
      BY <2>1, <2>2
  <1>8. Tells(i, key, answer)
    BY <1>1 DEF GetIntent, Tells
  <1>9. IntentShapes' /\ OneMore(key, answer)
    BY <1>7, <1>8, OneTold
  <1>10. ExpiresAt(key, d)'
    <2>1. \A c \in IntentCopies(key)' : Dated(time, d, c)
      BY <1>5, <1>7, <1>9 DEF ExpiresAt, Dated, OneMore
    <2>2. said'[key] = "expired" => time >= d
      BY <1>7, <1>9 DEF OneMore
    <2>3. time' = time
      BY <1>9 DEF OneMore
    <2> QED
      BY <2>1, <2>2, <2>3 DEF ExpiresAt
  <1>11. ExpiryInv'
    BY <1>5, <1>9, <1>10, OthersStay DEF ExpiryInv
  <1>12. said[key] = "expired" => answer.status = "expired"
    BY <1>5, <1>7 DEF ExpiresAt
  <1> QED
    BY <1>9, <1>11, <1>12 DEF OneMore

LEMMA HydrateIntentsKeeps ==
    ASSUME ExpiryInv, NEW i \in Instance, HydrateIntents(i) PROVE ExpiryInv'
  <1> DEFINE map == Hydrated(i, intents[i])
             empty == [pc |-> "done", seen |-> Nothing(Key)]
  <1>1. /\ intents' = [intents EXCEPT ![i] = map]
        /\ boot' = [boot EXCEPT ![i] = empty]
        /\ UNCHANGED <<rows, writes, time, said>>
    BY DEF HydrateIntents, KvHydrate
  <1>2. boot[i].seen \in IntentMap /\ intents[i] \in IntentMap
    BY DEF ExpiryInv, IntentShapes
  <1>3. map \in IntentMap /\ \A k \in Key : map[k] \in {intents[i][k], boot[i].seen[k]}
    BY <1>2 DEF Hydrated, IntentMap
  <1>4. /\ empty \in [pc : {"asked", "read", "done"}, seen : IntentMap]
        /\ \A k \in Key : empty.seen[k] = Absent
    BY DEF Nothing, IntentMap, IntentValue
  <1> HIDE DEF map, empty
  <1>5. /\ intents' \in [Instance -> IntentMap]
        /\ \A j \in Instance : intents'[j] = IF j = i THEN map ELSE intents[j]
        /\ boot' \in [Instance -> [pc : {"asked", "read", "done"}, seen : IntentMap]]
        /\ \A j \in Instance : boot'[j] = IF j = i THEN empty ELSE boot[j]
    BY <1>1, <1>3, <1>4 DEF ExpiryInv, IntentShapes
  <1>6. IntentShapes' /\ time' >= time
    BY <1>1, <1>5 DEF ExpiryInv, IntentShapes
  <1>7. ASSUME NEW k \in Key PROVE IntentCopies(k)' \subseteq IntentCopies(k) \cup {Absent}
    BY <1>1, <1>3, <1>4, <1>5 DEF IntentCopies
  <1> QED
    BY <1>1, <1>6, <1>7, CopiesMove

LEMMA RestartIntentsKeeps ==
    ASSUME ExpiryInv, NEW i \in Instance, RestartIntents(i) PROVE ExpiryInv'
  <1> DEFINE asked == [pc |-> "asked", seen |-> Nothing(Key)]
             Orphan(w) == [w EXCEPT !.at = IF w.at = i THEN Gone ELSE w.at]
  <1>1. /\ intents' = [intents EXCEPT ![i] = Nothing(Key)]
        /\ boot' = [boot EXCEPT ![i] = asked]
        /\ UNCHANGED <<rows, time, said>>
    BY DEF RestartIntents, KvRestart
  <1>2. PICK cut : writes' = {Orphan(w) : w \in writes \ cut}
    BY DEF RestartIntents, KvRestart
  <1>3. \A w \in writes :
            /\ Orphan(w) = [n |-> Orphan(w).n, at |-> Orphan(w).at, key |-> Orphan(w).key,
                            value |-> Orphan(w).value]
            /\ Orphan(w).key = w.key /\ Orphan(w).value = w.value
    BY DEF ExpiryInv, IntentShapes
  <1>4. /\ Nothing(Key) \in IntentMap /\ \A k \in Key : Nothing(Key)[k] = Absent
        /\ asked \in [pc : {"asked", "read", "done"}, seen : IntentMap]
        /\ asked.seen = Nothing(Key)
    BY DEF Nothing, IntentMap, IntentValue
  <1> HIDE DEF asked, Orphan
  <1>5. /\ intents' \in [Instance -> IntentMap]
        /\ \A j \in Instance : intents'[j] = IF j = i THEN Nothing(Key) ELSE intents[j]
        /\ boot' \in [Instance -> [pc : {"asked", "read", "done"}, seen : IntentMap]]
        /\ \A j \in Instance : boot'[j] = IF j = i THEN asked ELSE boot[j]
    BY <1>1, <1>4 DEF ExpiryInv, IntentShapes
  <1>6. \A w \in writes' :
            /\ w = [n |-> w.n, at |-> w.at, key |-> w.key, value |-> w.value]
            /\ \E x \in writes : w.key = x.key /\ w.value = x.value
    BY <1>2, <1>3
  <1>7. IntentShapes' /\ time' >= time
    BY <1>1, <1>5, <1>6 DEF ExpiryInv, IntentShapes
  <1>8. ASSUME NEW k \in Key PROVE IntentCopies(k)' \subseteq IntentCopies(k) \cup {Absent}
    <2>1. {w.value : w \in {x \in writes' : x.key = k}} \subseteq IntentCopies(k)
      BY <1>6 DEF IntentCopies
    <2>2. \A j \in Instance : /\ intents'[j][k] \in {intents[j][k], Absent}
                             /\ boot'[j].seen[k] \in {boot[j].seen[k], Absent}
      BY <1>4, <1>5
    <2> QED
      BY <1>1, <2>1, <2>2 DEF IntentCopies
  <1> QED
    BY <1>1, <1>7, <1>8, CopiesMove

\* What is read at boot and what lands in the table was a copy already.
LEMMA KvStepMoves ==
    ASSUME ExpiryInv, KvStep, UNCHANGED <<intents, time, said>> PROVE ExpiryInv'
  <1>0. time' >= time
    BY DEF ExpiryInv, IntentShapes
  <1>1. ASSUME NEW i \in Instance, CreateTableFails(i) PROVE ExpiryInv'
    <2>1. /\ boot' = [boot EXCEPT ![i].pc = "done"] /\ writes' \subseteq writes /\ rows' = rows
      BY <1>1 DEF CreateTableFails
    <2>2. /\ boot' \in [Instance -> [pc : {"asked", "read", "done"}, seen : IntentMap]]
          /\ \A j \in Instance : boot'[j].seen = boot[j].seen
      BY <2>1 DEF ExpiryInv, IntentShapes
    <2>3. IntentShapes'
      BY <2>1, <2>2 DEF ExpiryInv, IntentShapes
    <2>4. \A k \in Key : IntentCopies(k)' \subseteq IntentCopies(k) \cup {Absent}
      BY <2>1, <2>2 DEF IntentCopies
    <2> QED
      BY <1>0, <2>3, <2>4, CopiesMove
  <1>2. ASSUME NEW i \in Instance, ReadRows(i) PROVE ExpiryInv'
    <2>1. /\ UNCHANGED <<rows, writes>>
          /\ \/ boot' = [boot EXCEPT ![i] = [pc |-> "read", seen |-> rows]]
             \/ boot' = [boot EXCEPT ![i].pc = "done"]
      BY <1>2 DEF ReadRows
    <2>2. /\ boot' \in [Instance -> [pc : {"asked", "read", "done"}, seen : IntentMap]]
          /\ \A j \in Instance : boot'[j].seen \in {boot[j].seen, rows}
      BY <2>1 DEF ExpiryInv, IntentShapes
    <2>3. IntentShapes'
      BY <2>1, <2>2 DEF ExpiryInv, IntentShapes
    <2>4. \A k \in Key : IntentCopies(k)' \subseteq IntentCopies(k) \cup {Absent}
      BY <2>1, <2>2 DEF IntentCopies
    <2> QED
      BY <1>0, <2>3, <2>4, CopiesMove
  <1>3. ASSUME Land PROVE ExpiryInv'
    <2>1. PICK w \in writes : /\ rows' = [rows EXCEPT ![w.key] = w.value]
                              /\ writes' = writes \ {w} /\ boot' = boot
      BY <1>3 DEF Land
    <2>2. w.key \in Key /\ w.value \in IntentValue
      BY DEF ExpiryInv, IntentShapes
    <2>3. rows' \in IntentMap
          /\ \A k \in Key : rows'[k] = IF k = w.key THEN w.value ELSE rows[k]
      BY <2>1, <2>2 DEF ExpiryInv, IntentShapes, IntentMap
    <2>4. IntentShapes'
      BY <2>1, <2>3 DEF ExpiryInv, IntentShapes
    <2>5. \A k \in Key : IntentCopies(k)' \subseteq IntentCopies(k) \cup {Absent}
      BY <2>1, <2>3 DEF IntentCopies
    <2> QED
      BY <1>0, <2>4, <2>5, CopiesMove
  <1>4. ASSUME Lose PROVE ExpiryInv'
    <2>1. writes' \subseteq writes /\ UNCHANGED <<rows, boot>>
      BY <1>4 DEF Lose
    <2>2. IntentShapes'
      BY <2>1 DEF ExpiryInv, IntentShapes
    <2>3. \A k \in Key : IntentCopies(k)' \subseteq IntentCopies(k) \cup {Absent}
      BY <2>1 DEF IntentCopies
    <2> QED
      BY <1>0, <2>2, <2>3, CopiesMove
  <1> QED
    BY <1>1, <1>2, <1>3, <1>4 DEF KvStep

LEMMA IntentStep ==
    ASSUME ExpiryInv, IntentsAssumption, [NextIntents]_intentVars
    PROVE  ExpiryInv' /\ \A k \in Key : said[k] = "expired" => said'[k] = "expired"
  <1>1. CASE UNCHANGED intentVars
    BY <1>1 DEF intentVars, kvVars, ExpiryInv, IntentShapes, IntentCopies, ExpiresAt
  <1>2. CASE TimePasses
    <2>1. IntentShapes' /\ time' >= time /\ UNCHANGED <<rows, writes, boot, intents, said>>
      BY <1>2 DEF TimePasses, kvVars, ExpiryInv, IntentShapes
    <2>2. \A k \in Key : IntentCopies(k)' \subseteq IntentCopies(k) \cup {Absent}
      BY <2>1 DEF IntentCopies
    <2> QED
      BY <2>1, <2>2, CopiesMove
  <1>3. CASE \E i \in Instance : HydrateIntents(i) \/ RestartIntents(i)
    BY <1>3, HydrateIntentsKeeps, RestartIntentsKeeps DEF HydrateIntents, RestartIntents
  <1>4. CASE KvStep /\ UNCHANGED <<intents, time, said>>
    BY <1>4, KvStepMoves
  <1>5. CASE \E i \in Instance, k \in Key :
                (\E ttl \in Ttl : CreateIntent(i, k, ttl)) \/ GetIntent(i, k)
    BY <1>5, CreateIntentKeeps, GetIntentKeeps
  <1> QED
    BY <1>1, <1>2, <1>3, <1>4, <1>5 DEF NextIntents

\* What intents/store.ts answers of one intent: once a reader was told it has expired,
\* none is told that it is payable, whatever instance answers and whichever copy it has
\* after restarts, late hydration and statements lost or out of order.
THEOREM ExpiryIsFinal == ASSUME IntentsAssumption PROVE IntentsSpec => ExpiryFinal
  <1>1. InitIntents => ExpiryInv
    <2> SUFFICES ASSUME InitIntents PROVE ExpiryInv
      OBVIOUS
    <2>1. IntentShapes
      BY DEF InitIntents, KvInit, Nothing, IntentShapes, IntentMap, IntentValue
    <2>2. \A k \in Key : said[k] = "nothing" /\ \A c \in IntentCopies(k) : c = Absent
      BY DEF InitIntents, KvInit, Nothing, IntentCopies
    <2>3. \A k \in Key : ExpiresAt(k, 0)
      BY <2>2 DEF ExpiresAt, Dated
    <2> QED
      BY <2>1, <2>3 DEF ExpiryInv
  <1>2. ExpiryInv /\ [NextIntents]_intentVars =>
            ExpiryInv' /\ [\A k \in Key : said[k] = "expired" => said'[k] = "expired"]_intentVars
    BY IntentStep
  <1> QED
    BY <1>1, <1>2, PTL DEF IntentsSpec, ExpiryFinal

-----------------------------------------------------------------------------
(* A casino has a human of its own. *)

RowValue == Row \cup {Absent}

RowMap == [Key -> RowValue]

VerifyCall ==
    [pc : {"idle", "claiming", "won", "lost", "failed", "gone", "done"},
     at : Instance \cup {Gone}, tenant : Tenant \cup {NoTenant}, human : Human \cup {NoHuman}]

\* A call that goes on was made for a tenant, by a human.
OfSomeone(call) ==
    call.pc \in {"claiming", "won"} => call.tenant \in Tenant /\ call.human \in Human

StoreShapes ==
    /\ rows \in RowMap
    /\ byTenant \in [Instance -> RowMap]
    /\ boot \in [Instance -> [pc : {"asked", "read", "done"}, seen : RowMap]]
    /\ \A w \in writes : /\ w = [n |-> w.n, at |-> w.at, key |-> w.key, value |-> w.value]
                         /\ w.key \in Key /\ w.value \in RowValue

CallShapes ==
    /\ operatorCalls \in [OperatorCall -> VerifyCall]
    /\ \A c \in OperatorCall : OfSomeone(operatorCalls[c])

\* A casino's row asks for a human, and names one.
Gated(row) ==
    row.vertical = "casino" => row.mode = "verified-human" /\ row.operator \in Human

AllGated == \A t \in Tenant : \A row \in RowCopies(t) : Gated(row)

\* Some copy of the tenant's row names the human.
Operates(t, h) == \E row \in RowCopies(t) : row.operator = h

\* A human whom a row names holds the operator's slot, and is named for no other tenant.
Unshared ==
    \A t \in Tenant, h \in Human : Operates(t, h) =>
        h \in claims /\ \A u \in Tenant \ {t} : ~Operates(u, h)

\* Nor is one named whose claim has just won, until the row is written.
WonAlone ==
    \A c \in OperatorCall : operatorCalls[c].pc = "won" =>
        /\ operatorCalls[c].at \in Instance
        /\ operatorCalls[c].human \in claims
        /\ \A t \in Tenant : ~Operates(t, operatorCalls[c].human)
        /\ \A d \in OperatorCall \ {c} :
              operatorCalls[d].pc = "won" => operatorCalls[d].human # operatorCalls[c].human

CasinoInv == StoreShapes /\ CallShapes /\ AllGated /\ Unshared /\ WonAlone

-----------------------------------------------------------------------------
\* What is a copy of the tenant's row.
LEMMA CopyCases ==
    ASSUME NEW t, NEW row \in RowCopies(t)
    PROVE  /\ row # Absent
           /\ \/ row = rows[t]
              \/ \E i \in Instance : row = byTenant[i][t] \/ row = boot[i].seen[t]
              \/ \E w \in writes : w.key = t /\ row = w.value
  BY DEF RowCopies

LEMMA CopiesAreRows ==
    ASSUME StoreShapes, NEW t \in Tenant PROVE RowCopies(t) \subseteq Row
  <1> SUFFICES ASSUME NEW row \in RowCopies(t) PROVE row \in Row
    OBVIOUS
  <1> QED
    BY CopyCases DEF StoreShapes, RowMap, RowValue, Tenant

\* No step of another call makes a call win; one that goes on is as it was.
CallsWait ==
    \A c \in OperatorCall :
        operatorCalls'[c].pc = "won" => operatorCalls'[c] = operatorCalls[c]

\* Copies only move.
RowsMove == \A t \in Tenant : RowCopies(t)' \subseteq RowCopies(t)

\* A step after which at most one more tenant is operated by one more human.
Hires(t, h) ==
    \A u \in Tenant, g \in Human :
        Operates(u, g)' => Operates(u, g) \/ (u = t /\ g = h)

LEMMA RowsMoveKeeps ==
    ASSUME CasinoInv, StoreShapes', CallShapes', RowsMove, CallsWait, claims' = claims
    PROVE  CasinoInv'
  <1>1. AllGated'
    BY DEF CasinoInv, AllGated, RowsMove
  <1>2. ASSUME NEW t \in Tenant, NEW h, Operates(t, h)' PROVE Operates(t, h)
    BY <1>2 DEF Operates, RowsMove
  <1>3. Unshared'
    BY <1>2 DEF CasinoInv, Unshared
  <1>4. WonAlone'
    BY <1>2 DEF CasinoInv, WonAlone, CallsWait
  <1> QED
    BY <1>1, <1>3, <1>4 DEF CasinoInv

\* A row of the tenant may name whom a row of it names already, or who has just won.
Entitled(t, h) ==
    \/ Operates(t, h)
    \/ \E c \in OperatorCall : /\ operatorCalls[c].pc = "won" /\ operatorCalls'[c].pc # "won"
                               /\ operatorCalls[c].tenant = t /\ operatorCalls[c].human = h

LEMMA HiresKeeps ==
    ASSUME CasinoInv, StoreShapes', CallShapes', AllGated', CallsWait, claims' = claims,
           NEW t \in Tenant, NEW h \in Human, Hires(t, h), Entitled(t, h)
    PROVE  CasinoInv'
  <1>1. h \in claims /\ \A u \in Tenant \ {t} : ~Operates(u, h)
    BY DEF Entitled, CasinoInv, Unshared, WonAlone
  <1>2. Unshared'
    BY <1>1 DEF Hires, CasinoInv, Unshared
  <1>3. ASSUME NEW c \in OperatorCall, operatorCalls'[c].pc = "won"
        PROVE  /\ operatorCalls'[c] = operatorCalls[c]
               /\ operatorCalls[c].human \in Human
               /\ operatorCalls[c].human # h
    <2>1. operatorCalls'[c] = operatorCalls[c]
      BY <1>3 DEF CallsWait
    <2>2. operatorCalls[c].human \in Human
      BY <1>3, <2>1 DEF CasinoInv, CallShapes, OfSomeone
    <2> QED
      BY <1>3, <2>1, <2>2 DEF Entitled, CasinoInv, WonAlone
  <1>4. WonAlone'
    BY <1>3 DEF Hires, CasinoInv, WonAlone
  <1> QED
    BY <1>2, <1>4 DEF CasinoInv

-----------------------------------------------------------------------------
\* What a route hands to upsertBranding.
Input ==
    [slug : Slug \cup {Keep}, merchant : Merchant \cup {Keep}, vertical : Vertical \cup {Keep},
     mode : CheckoutMode \cup {Keep}, operator : Human \cup {Keep}]

\* The row a save makes is a casino's only with a gate, and names whom the input names or
\* the row before it named.
LEMMA RowMade ==
    ASSUME BrandingAssumption, NEW i \in Instance, NEW t \in Tenant, byTenant[i][t] \in RowValue,
           NEW input \in Input, NEW slug \in SlugsFor(i, t, input),
           Accepts(i, t, input, RowOf(i, t, input, slug))
    PROVE  /\ RowOf(i, t, input, slug) \in Row
           /\ Gated(RowOf(i, t, input, slug))
           /\ \/ RowOf(i, t, input, slug).operator = NoHuman
              \/ /\ input.operator # Keep
                 /\ RowOf(i, t, input, slug).operator = input.operator
              \/ /\ byTenant[i][t] # Absent
                 /\ RowOf(i, t, input, slug).operator = byTenant[i][t].operator
  <1> DEFINE old == IF byTenant[i][t] = Absent THEN Default ELSE byTenant[i][t]
             row == RowOf(i, t, input, slug)
             vertical == Over(input.vertical, old.vertical)
  <1>1. /\ old.merchant \in Merchant \cup {NoMerchant} /\ old.vertical \in Vertical
        /\ old.mode \in CheckoutMode /\ old.operator \in Human \cup {NoHuman}
        /\ \/ old.operator = NoHuman
           \/ byTenant[i][t] # Absent /\ old.operator = byTenant[i][t].operator
    BY DEF Default, RowValue, Row, Vertical, CheckoutMode
  <1>2. /\ input.slug \in Slug \cup {Keep} /\ input.merchant \in Merchant \cup {Keep}
        /\ input.vertical \in Vertical \cup {Keep} /\ input.mode \in CheckoutMode \cup {Keep}
        /\ input.operator \in Human \cup {Keep}
    BY DEF Input
  <1>3. slug \in Slug
    BY <1>2 DEF SlugsFor, RowValue, Row
  <1>4. row = [slug |-> slug, merchant |-> Over(input.merchant, old.merchant),
               vertical |-> vertical,
               mode |-> ModeOf(vertical, Over(input.mode, old.mode)),
               operator |-> Over(input.operator, old.operator)]
    BY DEF RowOf
  <1>5. row.vertical = "casino" => row.operator # NoHuman
    BY DEF Accepts
  <1> HIDE DEF old, row
  <1>6. row \in Row
    BY <1>1, <1>2, <1>3, <1>4 DEF Row, Over, ModeOf, CheckoutMode
  <1>7. Gated(row)
    BY <1>4, <1>5, <1>6 DEF Gated, Row, ModeOf
  <1>8. \/ row.operator = NoHuman \/ (input.operator # Keep /\ row.operator = input.operator)
        \/ (byTenant[i][t] # Absent /\ row.operator = byTenant[i][t].operator)
    BY <1>1, <1>4 DEF Over
  <1> QED
    BY <1>6, <1>7, <1>8 DEF row

\* One more row of the tenant.
AddsRow(t, row) ==
    /\ claims' = claims
    /\ \A u \in Tenant : \A copy \in RowCopies(u)' :
          copy \in RowCopies(u) \/ (u = t /\ copy = row)

\* upsertBranding: the one row it adds, wherever it is kept.
LEMMA UpsertAdds ==
    ASSUME CasinoInv, BrandingAssumption, NEW i \in Instance, NEW t \in Tenant,
           NEW input \in Input, Upsert(i, t, input)
    PROVE  /\ StoreShapes'
           /\ \E row \in Row :
                 /\ Gated(row) /\ AddsRow(t, row)
                 /\ \/ row.operator = NoHuman \/ Operates(t, row.operator)
                    \/ input.operator # Keep /\ row.operator = input.operator
  <1>1. byTenant[i] \in RowMap /\ byTenant[i][t] \in RowValue
    BY DEF CasinoInv, StoreShapes, RowMap, Tenant
  <1>2. PICK slug \in SlugsFor(i, t, input) :
            /\ Accepts(i, t, input, RowOf(i, t, input, slug))
            /\ byTenant' = [byTenant EXCEPT ![i][t] = RowOf(i, t, input, slug)]
            /\ writes' = Sent(writes, i, t, RowOf(i, t, input, slug))
            /\ UNCHANGED <<rows, boot, claims>>
    BY DEF Upsert
  <1>3. PICK row : row = RowOf(i, t, input, slug)
    OBVIOUS
  <1>4. /\ row \in Row /\ Gated(row)
        /\ \/ row.operator = NoHuman
           \/ input.operator # Keep /\ row.operator = input.operator
           \/ byTenant[i][t] # Absent /\ row.operator = byTenant[i][t].operator
    BY <1>1, <1>2, <1>3, RowMade
  <1>5. PICK map : map = [byTenant[i] EXCEPT ![t] = row]
    OBVIOUS
  <1>6. map \in RowMap /\ \A k \in Key : map[k] = IF k = t THEN row ELSE byTenant[i][k]
    BY <1>1, <1>4, <1>5 DEF RowMap, RowValue, Tenant
  <1>7. byTenant' = [byTenant EXCEPT ![i] = map]
    BY <1>2, <1>3, <1>5 DEF CasinoInv, StoreShapes
  <1>8. /\ byTenant' \in [Instance -> RowMap]
        /\ \A j \in Instance : byTenant'[j] = IF j = i THEN map ELSE byTenant[j]
    BY <1>6, <1>7 DEF CasinoInv, StoreShapes
  <1>9. \A w \in writes' :
             /\ w = [n |-> w.n, at |-> w.at, key |-> w.key, value |-> w.value]
             /\ w.key \in Key /\ w.value \in RowValue
             /\ w \in writes \/ (w.key = t /\ w.value = row)
    BY <1>2, <1>3, <1>4, SentIsOne DEF CasinoInv, StoreShapes, RowValue, Tenant
  <1>10. StoreShapes'
    BY <1>2, <1>8, <1>9 DEF CasinoInv, StoreShapes
  <1>11. ASSUME NEW u \in Tenant, NEW copy \in RowCopies(u)'
         PROVE  copy \in RowCopies(u) \/ (u = t /\ copy = row)
    <2>1. /\ copy # Absent
          /\ \/ copy = rows[u]
             \/ \E j \in Instance : copy = byTenant'[j][u] \/ copy = boot[j].seen[u]
             \/ \E w \in writes' : w.key = u /\ copy = w.value
      BY <1>2, <1>11 DEF RowCopies
    <2>2. \A j \in Instance : byTenant'[j][u] = byTenant[j][u] \/ (u = t /\ byTenant'[j][u] = row)
      BY <1>6, <1>8 DEF Tenant
    <2> QED
      BY <1>9, <2>1, <2>2 DEF RowCopies
  <1>12. byTenant[i][t] # Absent => byTenant[i][t] \in RowCopies(t)
    BY DEF RowCopies
  <1>13. \/ row.operator = NoHuman \/ Operates(t, row.operator)
         \/ input.operator # Keep /\ row.operator = input.operator
    BY <1>4, <1>12 DEF Operates
  <1> QED
    BY <1>2, <1>4, <1>10, <1>11, <1>13 DEF AddsRow

LEMMA UpsertKeeps ==
    ASSUME CasinoInv, BrandingAssumption, NEW i \in Instance, NEW t \in Tenant,
           NEW input \in Input, Upsert(i, t, input), CallShapes', CallsWait,
           input.operator = Keep \/ Entitled(t, input.operator)
    PROVE  CasinoInv'
  <1>1. StoreShapes'
    BY UpsertAdds
  <1>2. PICK row \in Row :
            /\ Gated(row) /\ AddsRow(t, row)
            /\ \/ row.operator = NoHuman \/ Operates(t, row.operator)
               \/ input.operator # Keep /\ row.operator = input.operator
    BY UpsertAdds
  <1>3. claims' = claims /\ AllGated'
    BY <1>2 DEF AddsRow, AllGated, CasinoInv
  <1>4. Hires(t, row.operator)
    BY <1>2 DEF AddsRow, Hires, Operates
  <1>5. row.operator \in Human \cup {NoHuman}
    BY <1>2 DEF Row
  <1>6. CASE row.operator = NoHuman
    <2>1. ASSUME NEW u \in Tenant, NEW h \in Human, Operates(u, h)' PROVE Operates(u, h)
      BY <1>4, <1>6, <2>1 DEF Hires, BrandingAssumption
    <2>2. Unshared'
      BY <1>3, <2>1 DEF CasinoInv, Unshared
    <2>3. \A c \in OperatorCall : operatorCalls'[c].pc = "won" =>
              operatorCalls'[c] = operatorCalls[c] /\ operatorCalls[c].human \in Human
      BY DEF CallsWait, CallShapes, CasinoInv, OfSomeone
    <2>4. WonAlone'
      BY <1>3, <2>1, <2>3 DEF CasinoInv, WonAlone
    <2> QED
      BY <1>1, <1>3, <2>2, <2>4 DEF CasinoInv
  <1>7. CASE row.operator \in Human /\ Entitled(t, row.operator)
    BY <1>1, <1>3, <1>4, <1>7, HiresKeeps
  <1> QED
    BY <1>2, <1>5, <1>6, <1>7 DEF Entitled

-----------------------------------------------------------------------------
\* What the routes of the row itself do.
Edits(i, t) ==
    \/ \E slug \in Slug \cup {Keep} : Save(i, t, slug)
    \/ \E m \in Merchant : Attach(i, t, m)
    \/ \E mode \in CheckoutMode, vertical \in Vertical \cup {Keep} :
          SetCheckoutMode(i, t, mode, vertical)

LEMMA EditKeeps ==
    ASSUME CasinoInv, BrandingAssumption, NEW i \in Instance, NEW t \in Tenant, Edits(i, t)
    PROVE  CasinoInv'
  <1>1. operatorCalls' = operatorCalls
    BY Zenon DEF Edits, Save, Attach, SetCheckoutMode
  <1>2. CallShapes' /\ CallsWait
    BY <1>1 DEF CasinoInv, CallShapes, CallsWait
  <1>3. byTenant[i][t] # Absent => byTenant[i][t].slug \in Slug
    BY DEF CasinoInv, StoreShapes, RowMap, RowValue, Row, Tenant
  <1>4. \E input \in Input : Upsert(i, t, input) /\ input.operator = Keep
    <2>1. ASSUME NEW slug \in Slug \cup {Keep}, Save(i, t, slug)
          PROVE  \E input \in Input : Upsert(i, t, input) /\ input.operator = Keep
      <3>1. PICK input : input = [Unchanged EXCEPT !.slug = slug]
        OBVIOUS
      <3>2. Upsert(i, t, input)
        BY <2>1, <3>1, Zenon DEF Save
      <3>3. input \in Input /\ input.operator = Keep
        BY <3>1 DEF Unchanged, Input
      <3> QED
        BY <3>2, <3>3
    <2>2. ASSUME NEW m \in Merchant, Attach(i, t, m)
          PROVE  \E input \in Input : Upsert(i, t, input) /\ input.operator = Keep
      <3>1. PICK slug : slug = byTenant[i][t].slug
        OBVIOUS
      <3>2. slug \in Slug
        BY <1>3, <2>2, <3>1, Zenon DEF Attach
      <3>3. PICK input : input = [Unchanged EXCEPT !.slug = slug, !.merchant = m]
        OBVIOUS
      <3>4. Upsert(i, t, input)
        BY <2>2, <3>1, <3>3, Zenon DEF Attach
      <3>5. input \in Input /\ input.operator = Keep
        BY <3>2, <3>3 DEF Unchanged, Input
      <3> QED
        BY <3>4, <3>5
    <2>3. ASSUME NEW mode \in CheckoutMode, NEW vertical \in Vertical \cup {Keep},
                 SetCheckoutMode(i, t, mode, vertical)
          PROVE  \E input \in Input : Upsert(i, t, input) /\ input.operator = Keep
      <3>1. PICK input : input = [Unchanged EXCEPT !.mode = mode, !.vertical = vertical]
        OBVIOUS
      <3>2. Upsert(i, t, input)
        BY <2>3, <3>1, Zenon DEF SetCheckoutMode
      <3>3. input \in Input /\ input.operator = Keep
        BY <3>1 DEF Unchanged, Input
      <3> QED
        BY <3>2, <3>3
    <2> QED
      BY <2>1, <2>2, <2>3 DEF Edits
  <1> QED
    BY <1>2, <1>4, UpsertKeeps

LEMMA OperatorVerifyKeeps ==
    ASSUME CasinoInv, NEW c \in OperatorCall, NEW i \in Instance, NEW t \in Tenant,
           NEW human \in Human, OperatorVerify(c, i, t, human)
    PROVE  CasinoInv'
  <1>1. PICK call : call = [pc |-> "claiming", at |-> i, tenant |-> t, human |-> human]
    OBVIOUS
  <1>2. /\ call \in VerifyCall /\ OfSomeone(call) /\ call.pc # "won"
        /\ operatorCalls' = [operatorCalls EXCEPT ![c] = call]
        /\ UNCHANGED <<rows, writes, boot, claims, byTenant>>
    BY <1>1 DEF OperatorVerify, VerifyCall, OfSomeone, kvVars, indexes
  <1>3. \A d \in OperatorCall : operatorCalls'[d] = IF d = c THEN call ELSE operatorCalls[d]
    BY <1>2 DEF CasinoInv, CallShapes
  <1>4. CallShapes' /\ CallsWait
    BY <1>2, <1>3 DEF CasinoInv, CallShapes, CallsWait
  <1>5. StoreShapes' /\ RowsMove
    BY <1>2 DEF CasinoInv, StoreShapes, RowsMove, RowCopies
  <1> QED
    BY <1>2, <1>4, <1>5, RowsMoveKeeps

\* The one statement that takes the slot: who wins it is named nowhere.
LEMMA ClaimOperatorKeeps ==
    ASSUME CasinoInv, BrandingAssumption, NEW c \in OperatorCall, ClaimOperator(c)
    PROVE  CasinoInv'
  <1>1. PICK call : call = operatorCalls[c]
    OBVIOUS
  <1>2. PICK ran \in BOOLEAN, told \in BOOLEAN :
            /\ told => ran
            /\ claims' = IF ran THEN Claimed(call.human) ELSE claims
            /\ operatorCalls' = [operatorCalls EXCEPT ![c].pc =
                   IF call.at = Gone THEN "gone" ELSE Verdict(call.human, told)]
    BY <1>1 DEF ClaimOperator
  <1>3. /\ call.pc = "claiming" /\ UNCHANGED <<rows, writes, boot, byTenant>>
        /\ call \in VerifyCall /\ call.tenant \in Tenant /\ call.human \in Human
    BY <1>1 DEF ClaimOperator, indexes, CasinoInv, CallShapes, OfSomeone
  <1>4. PICK pc : pc = IF call.at = Gone THEN "gone" ELSE Verdict(call.human, told)
    OBVIOUS
  <1>5. /\ pc \in {"won", "lost", "failed", "gone"}
        /\ pc = "won" => /\ call.at \in Instance /\ call.human \notin claims
                         /\ claims' = claims \cup {call.human}
    BY <1>2, <1>3, <1>4 DEF Verdict, Wins, Claimed, VerifyCall
  <1>6. PICK answered : answered = [call EXCEPT !.pc = pc]
    OBVIOUS
  <1>7. /\ answered \in VerifyCall /\ OfSomeone(answered) /\ answered.pc = pc
        /\ answered.at = call.at /\ answered.human = call.human
    BY <1>3, <1>5, <1>6 DEF VerifyCall, OfSomeone
  <1>8. /\ operatorCalls' = [operatorCalls EXCEPT ![c] = answered]
        /\ \A d \in OperatorCall : operatorCalls'[d] = IF d = c THEN answered ELSE operatorCalls[d]
    BY <1>1, <1>2, <1>4, <1>6 DEF CasinoInv, CallShapes
  <1>9. CallShapes'
    BY <1>7, <1>8 DEF CasinoInv, CallShapes
  <1>10. StoreShapes' /\ AllGated' /\ \A t \in Tenant : RowCopies(t)' = RowCopies(t)
    BY <1>3 DEF CasinoInv, StoreShapes, AllGated, RowCopies
  <1>11. claims \subseteq claims'
    BY <1>2 DEF Claimed
  <1>12. Unshared'
    BY <1>10, <1>11 DEF CasinoInv, Unshared, Operates
  <1>13. ASSUME NEW d \in OperatorCall, operatorCalls'[d].pc = "won"
         PROVE  /\ operatorCalls'[d].at \in Instance
                /\ operatorCalls'[d].human \in claims'
                /\ \A t \in Tenant : ~Operates(t, operatorCalls'[d].human)
                /\ d = c => operatorCalls'[d].human \notin claims
                /\ d # c => operatorCalls'[d].human \in claims
    <2>1. CASE d = c
      <3>1. \A t \in Tenant : ~Operates(t, call.human)
        BY <1>3, <1>5, <1>7, <1>8, <1>13, <2>1 DEF CasinoInv, Unshared
      <3> QED
        BY <1>5, <1>7, <1>8, <1>13, <2>1, <3>1
    <2>2. CASE d # c
      BY <1>8, <1>11, <1>13, <2>2 DEF CasinoInv, WonAlone
    <2> QED
      BY <2>1, <2>2
  <1>14. ASSUME NEW d \in OperatorCall, NEW e \in OperatorCall \ {d},
                operatorCalls'[d].pc = "won", operatorCalls'[e].pc = "won"
         PROVE  operatorCalls'[e].human # operatorCalls'[d].human
    <2>1. CASE d # c /\ e # c
      BY <1>8, <1>14, <2>1 DEF CasinoInv, WonAlone
    <2>2. CASE d = c \/ e = c
      BY <1>13, <1>14, <2>2
    <2> QED
      BY <2>1, <2>2
  <1>15. WonAlone'
    BY <1>10, <1>13, <1>14 DEF WonAlone, Operates
  <1> QED
    BY <1>9, <1>10, <1>12, <1>15 DEF CasinoInv

LEMMA OperatorRecordKeeps ==
    ASSUME CasinoInv, BrandingAssumption, NEW c \in OperatorCall, OperatorRecord(c)
    PROVE  CasinoInv'
  <1>1. PICK call : call = operatorCalls[c]
    OBVIOUS
  <1>2. PICK input : input = [Unchanged EXCEPT !.operator = call.human]
    OBVIOUS
  <1>3. /\ call.pc = "won" /\ call \in VerifyCall /\ call.at \in Instance
        /\ call.tenant \in Tenant /\ call.human \in Human
    BY <1>1 DEF OperatorRecord, CasinoInv, CallShapes, OfSomeone, WonAlone
  <1>4. input \in Input /\ input.operator = call.human
    BY <1>2, <1>3 DEF Unchanged, Input
  <1>5. PICK done : done = [call EXCEPT !.pc = "done"]
    OBVIOUS
  <1>6. done \in VerifyCall /\ OfSomeone(done) /\ done.pc = "done"
    BY <1>3, <1>5 DEF VerifyCall, OfSomeone
  <1>7. /\ operatorCalls' = [operatorCalls EXCEPT ![c] = done]
        /\ \A d \in OperatorCall : operatorCalls'[d] = IF d = c THEN done ELSE operatorCalls[d]
    BY <1>1, <1>5 DEF OperatorRecord, CasinoInv, CallShapes
  <1>8. CallShapes' /\ CallsWait
    BY <1>6, <1>7 DEF CasinoInv, CallShapes, CallsWait
  <1>9. Entitled(call.tenant, call.human)
    BY <1>1, <1>3, <1>6, <1>7 DEF Entitled
  <1>10. CASE Upsert(call.at, call.tenant, input)
    BY <1>3, <1>4, <1>8, <1>9, <1>10, UpsertKeeps
  <1>11. CASE UNCHANGED <<kvVars, claims, indexes, edits>>
    <2>1. claims' = claims /\ StoreShapes' /\ RowsMove
      BY <1>11 DEF kvVars, indexes, CasinoInv, StoreShapes, RowsMove, RowCopies
    <2> QED
      BY <1>8, <2>1, RowsMoveKeeps
  <1> QED
    BY <1>1, <1>2, <1>10, <1>11 DEF OperatorRecord

\* What a boot reads was a copy already; what an instance forgets is none.
LEMMA HydrateRowsKeeps ==
    ASSUME CasinoInv, NEW i \in Instance, HydrateRows(i) PROVE CasinoInv'
  <1>1. PICK map : map = Hydrated(i, byTenant[i])
    OBVIOUS
  <1>2. PICK empty : empty = [pc |-> "done", seen |-> Nothing(Key)]
    OBVIOUS
  <1>3. /\ byTenant' = [byTenant EXCEPT ![i] = map]
        /\ boot' = [boot EXCEPT ![i] = empty]
        /\ UNCHANGED <<rows, writes, claims, operatorCalls>>
    BY <1>1, <1>2 DEF HydrateRows, KvHydrate
  <1>4. boot[i].seen \in RowMap /\ byTenant[i] \in RowMap
    BY DEF CasinoInv, StoreShapes
  <1>5. map \in RowMap /\ \A k \in Key : map[k] \in {byTenant[i][k], boot[i].seen[k]}
    BY <1>1, <1>4 DEF Hydrated, RowMap
  <1>6. /\ empty \in [pc : {"asked", "read", "done"}, seen : RowMap]
        /\ \A k \in Key : empty.seen[k] = Absent
    BY <1>2 DEF Nothing, RowMap, RowValue
  <1>7. /\ byTenant' \in [Instance -> RowMap]
        /\ \A j \in Instance : byTenant'[j] = IF j = i THEN map ELSE byTenant[j]
        /\ boot' \in [Instance -> [pc : {"asked", "read", "done"}, seen : RowMap]]
        /\ \A j \in Instance : boot'[j] = IF j = i THEN empty ELSE boot[j]
    BY <1>3, <1>5, <1>6 DEF CasinoInv, StoreShapes
  <1>8. StoreShapes' /\ CallShapes' /\ CallsWait
    BY <1>3, <1>7 DEF CasinoInv, StoreShapes, CallShapes, CallsWait
  <1>9. RowsMove
    BY <1>3, <1>5, <1>6, <1>7 DEF RowsMove, RowCopies, Tenant
  <1> QED
    BY <1>3, <1>8, <1>9, RowsMoveKeeps

LEMMA RestartBrandingKeeps ==
    ASSUME CasinoInv, NEW i \in Instance, RestartBranding(i) PROVE CasinoInv'
  <1> DEFINE Orphan(w) == [w EXCEPT !.at = IF w.at = i THEN Gone ELSE w.at]
  <1>1. PICK asked : asked = [pc |-> "asked", seen |-> Nothing(Key)]
    OBVIOUS
  <1>2. /\ byTenant' = [byTenant EXCEPT ![i] = Nothing(Key)]
        /\ boot' = [boot EXCEPT ![i] = asked]
        /\ UNCHANGED <<rows, claims>>
    BY <1>1 DEF RestartBranding, KvRestart
  <1>3. PICK cut : writes' = {Orphan(w) : w \in writes \ cut}
    BY DEF RestartBranding, KvRestart
  <1>4. \A w \in writes :
            /\ Orphan(w) = [n |-> Orphan(w).n, at |-> Orphan(w).at, key |-> Orphan(w).key,
                            value |-> Orphan(w).value]
            /\ Orphan(w).key = w.key /\ Orphan(w).value = w.value
    BY DEF CasinoInv, StoreShapes
  <1>5. /\ Nothing(Key) \in RowMap /\ \A k \in Key : Nothing(Key)[k] = Absent
        /\ asked \in [pc : {"asked", "read", "done"}, seen : RowMap]
        /\ asked.seen = Nothing(Key)
    BY <1>1 DEF Nothing, RowMap, RowValue
  <1> HIDE DEF Orphan
  <1>6. /\ byTenant' \in [Instance -> RowMap]
        /\ \A j \in Instance : byTenant'[j] = IF j = i THEN Nothing(Key) ELSE byTenant[j]
        /\ boot' \in [Instance -> [pc : {"asked", "read", "done"}, seen : RowMap]]
        /\ \A j \in Instance : boot'[j] = IF j = i THEN asked ELSE boot[j]
    BY <1>2, <1>5 DEF CasinoInv, StoreShapes
  <1>7. \A w \in writes' :
            /\ w = [n |-> w.n, at |-> w.at, key |-> w.key, value |-> w.value]
            /\ \E x \in writes : w.key = x.key /\ w.value = x.value
    BY <1>3, <1>4
  <1>8. StoreShapes'
    BY <1>2, <1>6, <1>7 DEF CasinoInv, StoreShapes
  <1>9. RowsMove
    <2> SUFFICES ASSUME NEW t \in Tenant, NEW row \in RowCopies(t)' PROVE row \in RowCopies(t)
      BY DEF RowsMove
    <2>1. /\ row # Absent
          /\ \/ row = rows[t]
             \/ \E j \in Instance : row = byTenant'[j][t] \/ row = boot'[j].seen[t]
             \/ \E w \in writes' : w.key = t /\ row = w.value
      BY <1>2 DEF RowCopies
    <2>2. \A j \in Instance : /\ byTenant'[j][t] \in {byTenant[j][t], Absent}
                             /\ boot'[j].seen[t] \in {boot[j].seen[t], Absent}
      BY <1>5, <1>6 DEF Tenant
    <2> QED
      BY <1>7, <2>1, <2>2 DEF RowCopies
  <1>10. ASSUME NEW c \in OperatorCall
         PROVE  /\ operatorCalls'[c] \in VerifyCall /\ OfSomeone(operatorCalls'[c])
                /\ operatorCalls'[c].pc = "won" => operatorCalls'[c] = operatorCalls[c]
    <2>1. PICK call : call = operatorCalls[c]
      OBVIOUS
    <2>2. call \in VerifyCall /\ OfSomeone(call)
      BY <2>1 DEF CasinoInv, CallShapes
    <2>3. operatorCalls'[c] = Stopped(i, call)
      BY <2>1 DEF RestartBranding
    <2> QED
      BY <2>1, <2>2, <2>3 DEF Stopped, VerifyCall, OfSomeone
  <1>11. CallShapes' /\ CallsWait
    <2>1. operatorCalls' = [c \in OperatorCall |-> operatorCalls'[c]]
      BY DEF RestartBranding
    <2> QED
      BY <1>10, <2>1 DEF CallShapes, CallsWait
  <1> QED
    BY <1>2, <1>8, <1>9, <1>11, RowsMoveKeeps

LEMMA KvStepKeepsRows ==
    ASSUME CasinoInv, KvStep, UNCHANGED <<claims, indexes, operatorCalls, edits>>
    PROVE  CasinoInv'
  <1>0. CallShapes' /\ CallsWait /\ claims' = claims /\ byTenant' = byTenant
    BY DEF CasinoInv, CallShapes, CallsWait, indexes
  <1>1. ASSUME NEW i \in Instance, CreateTableFails(i) PROVE StoreShapes' /\ RowsMove
    <2>1. /\ boot' = [boot EXCEPT ![i].pc = "done"] /\ writes' \subseteq writes /\ rows' = rows
      BY <1>1 DEF CreateTableFails
    <2>2. /\ boot' \in [Instance -> [pc : {"asked", "read", "done"}, seen : RowMap]]
          /\ \A j \in Instance : boot'[j].seen = boot[j].seen
      BY <2>1 DEF CasinoInv, StoreShapes
    <2> QED
      BY <1>0, <2>1, <2>2 DEF CasinoInv, StoreShapes, RowsMove, RowCopies
  <1>2. ASSUME NEW i \in Instance, ReadRows(i) PROVE StoreShapes' /\ RowsMove
    <2>1. /\ UNCHANGED <<rows, writes>>
          /\ \/ boot' = [boot EXCEPT ![i] = [pc |-> "read", seen |-> rows]]
             \/ boot' = [boot EXCEPT ![i].pc = "done"]
      BY <1>2 DEF ReadRows
    <2>2. /\ boot' \in [Instance -> [pc : {"asked", "read", "done"}, seen : RowMap]]
          /\ \A j \in Instance : boot'[j].seen \in {boot[j].seen, rows}
      BY <2>1 DEF CasinoInv, StoreShapes
    <2> QED
      BY <1>0, <2>1, <2>2 DEF CasinoInv, StoreShapes, RowsMove, RowCopies
  <1>3. ASSUME Land PROVE StoreShapes' /\ RowsMove
    <2>1. PICK w \in writes : /\ rows' = [rows EXCEPT ![w.key] = w.value]
                              /\ writes' = writes \ {w} /\ boot' = boot
      BY <1>3 DEF Land
    <2>2. w.key \in Key /\ w.value \in RowValue
      BY DEF CasinoInv, StoreShapes
    <2>3. rows' \in RowMap
          /\ \A k \in Key : rows'[k] = IF k = w.key THEN w.value ELSE rows[k]
      BY <2>1, <2>2 DEF CasinoInv, StoreShapes, RowMap
    <2> QED
      BY <1>0, <2>1, <2>3 DEF CasinoInv, StoreShapes, RowsMove, RowCopies, Tenant
  <1>4. ASSUME Lose PROVE StoreShapes' /\ RowsMove
    <2>1. writes' \subseteq writes /\ UNCHANGED <<rows, boot>>
      BY <1>4 DEF Lose
    <2> QED
      BY <1>0, <2>1 DEF CasinoInv, StoreShapes, RowsMove, RowCopies
  <1> QED
    BY <1>0, <1>1, <1>2, <1>3, <1>4, RowsMoveKeeps DEF KvStep

LEMMA BrandingStep ==
    ASSUME CasinoInv, BrandingAssumption, [NextBranding]_brandingVars PROVE CasinoInv'
  <1>1. CASE UNCHANGED brandingVars
    <2>1. StoreShapes' /\ CallShapes' /\ RowsMove /\ CallsWait /\ claims' = claims
      BY <1>1 DEF brandingVars, kvVars, indexes, CasinoInv, StoreShapes, CallShapes, RowsMove,
                  RowCopies, CallsWait
    <2> QED
      BY <2>1, RowsMoveKeeps
  <1>2. CASE \E i \in Instance, t \in Tenant : Edits(i, t)
    BY <1>2, EditKeeps
  <1>3. CASE \E i \in Instance, t \in Tenant, c \in OperatorCall, human \in Human :
                OperatorVerify(c, i, t, human)
    BY <1>3, OperatorVerifyKeeps
  <1>4. CASE \E c \in OperatorCall : ClaimOperator(c) \/ OperatorRecord(c)
    BY <1>4, ClaimOperatorKeeps, OperatorRecordKeeps
  <1>5. CASE \E i \in Instance : HydrateRows(i) \/ RestartBranding(i)
    BY <1>5, HydrateRowsKeeps, RestartBrandingKeeps
  <1>6. CASE KvStep /\ UNCHANGED <<claims, indexes, operatorCalls, edits>>
    BY <1>6, KvStepKeepsRows
  <1> QED
    BY <1>1, <1>2, <1>3, <1>4, <1>5, <1>6, Zenon DEF NextBranding, Edits

\* What branding/store.ts and the operator's route keep of a casino: no copy of its row
\* lets it serve without a gate and a human who claimed the operator's slot and operates
\* no other tenant, whatever instance wrote it and whatever restarts, late hydration and
\* statements lost or out of order did to it.
THEOREM CasinosBacked == ASSUME BrandingAssumption PROVE BrandingSpec => []CasinoBacked
  <1>1. InitBranding => CasinoInv
    <2> SUFFICES ASSUME InitBranding PROVE CasinoInv
      OBVIOUS
    <2>1. StoreShapes /\ CallShapes
      BY DEF InitBranding, KvInit, Nothing, StoreShapes, RowMap, RowValue, CallShapes,
             VerifyCall, OfSomeone
    <2>2. \A t \in Tenant : RowCopies(t) = {}
      BY DEF InitBranding, KvInit, Nothing, RowCopies, Tenant
    <2>3. \A c \in OperatorCall : operatorCalls[c].pc = "idle"
      BY DEF InitBranding
    <2> QED
      BY <2>1, <2>2, <2>3 DEF CasinoInv, AllGated, Unshared, WonAlone, Operates
  <1>2. CasinoInv /\ [NextBranding]_brandingVars => CasinoInv'
    BY BrandingStep
  <1>3. CasinoInv => CasinoBacked
    <2> SUFFICES ASSUME CasinoInv, NEW t \in Tenant, NEW row \in RowCopies(t),
                        row.vertical = "casino"
                 PROVE  /\ row.mode = "verified-human"
                        /\ row.operator \in claims
                        /\ \A u \in Tenant \ {t} : \A other \in RowCopies(u) :
                              other.operator # row.operator
      BY DEF CasinoBacked
    <2>1. row.mode = "verified-human" /\ row.operator \in Human
      BY DEF CasinoInv, AllGated, Gated
    <2> QED
      BY <2>1 DEF CasinoInv, Unshared, Operates
  <1> QED
    BY <1>1, <1>2, <1>3, PTL DEF BrandingSpec

=============================================================================
