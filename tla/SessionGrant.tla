---------------------------- MODULE SessionGrant ----------------------------
(***************************************************************************)
(* SessionGrant: an owner authorises a delegate to spend up to a budget     *)
(* until an expiry.  The owner opens the session itself, or signs a grant   *)
(* over its current nonce that anyone may submit.  Checking the signature   *)
(* of an account not yet deployed calls a factory (ERC-6492), and whatever  *)
(* that factory does happens in the middle of openSessionFor: a relayed     *)
(* open is a frame on a stack here, and other calls run inside it.          *)
(***************************************************************************)
EXTENDS Integers, Sequences, FiniteSets

CONSTANTS
    Owner,
    Counterfactual,    \* owners that only sign: no code is deployed at them yet
    Delegate, NoAddress,
    Cap, Expiry, Spending,           \* the arguments of the functions
    MaxNonce,          \* bound: sessions per owner
    MaxGrants,         \* bound: grants signed in a behaviour
    MaxDepth,          \* bound: relayed opens within relayed opens
    MaxTime            \* bound: the last block time looked at

Nonce == 0..(MaxNonce - 1)

\* Assumed of the constants wherever the module is instantiated.
SessionAssumption ==
    /\ Counterfactual \subseteq Owner
    /\ NoAddress \notin Delegate
    /\ Cap \subseteq Nat
    /\ Expiry \subseteq Nat
    /\ Spending \subseteq Nat
    /\ MaxNonce \in Nat
    /\ MaxGrants \in Nat
    /\ MaxDepth \in Nat
    /\ MaxTime \in Nat

VARIABLES
    sessions,    \* session id -> delegate, expiry, budgetCap, spent, revoked
    nonces,      \* owner -> the nonce its next session takes
    grants,      \* the grants signed off-chain
    frames,      \* the relayed opens under way, innermost last
    now          \* block.timestamp

sessionVars == <<sessions, nonces, grants, frames, now>>

\* _sessionId: the hash stands for what it is taken over.
SessionId == [owner : Owner, delegate : Delegate, nonce : Nonce]

Unknown == [delegate |-> NoAddress]

Session ==
    [delegate : Delegate, expiry : Nat, budgetCap : Nat, spent : Nat, revoked : BOOLEAN]

\* What grantDigest binds.
Grant ==
    [owner : Owner, delegate : Delegate, budgetCap : Nat, expiry : Nat, nonce : 0..MaxNonce]

Init ==
    /\ sessions = [id \in SessionId |-> Unknown]
    /\ nonces = [o \in Owner |-> 0]
    /\ grants = {}
    /\ frames = << >>
    /\ now = 0

-----------------------------------------------------------------------------
Exists(id) == sessions[id] # Unknown

\* What a session of the table ss may still spend; a dead one reads as 0.
RemainingOf(ss, id) ==
    IF ss[id] # Unknown /\ ~ss[id].revoked /\ now <= ss[id].expiry
    THEN ss[id].budgetCap - ss[id].spent
    ELSE 0

Remaining(id) == RemainingOf(sessions, id)

IdOf(grant) == [owner |-> grant.owner, delegate |-> grant.delegate, nonce |-> grant.nonce]

\* Mutant: the nonce is not checked again after the signature.
MayOpenUnpinned(grant) ==
    /\ grant.budgetCap # 0
    /\ grant.expiry > now
    /\ grant.nonce < MaxNonce
    /\ ~Exists(IdOf(grant))

MayOpen(grant) ==
    /\ grant.budgetCap # 0
    /\ grant.expiry > now
    /\ nonces[grant.owner] = grant.nonce
    /\ grant.nonce < MaxNonce
    /\ ~Exists(IdOf(grant))

NextNonces(grant) == [nonces EXCEPT ![grant.owner] = grant.nonce + 1]

Opened(grant) ==
    [sessions EXCEPT ![IdOf(grant)] =
        [delegate |-> grant.delegate, expiry |-> grant.expiry,
         budgetCap |-> grant.budgetCap, spent |-> 0, revoked |-> FALSE]]

\* _open: pinned to the nonce the caller was authorised at.
Open(grant) ==
    /\ MayOpen(grant)
    /\ nonces' = NextNonces(grant)
    /\ sessions' = Opened(grant)

OpenSession(owner, delegate, budgetCap, expiry) ==
    /\ owner \notin Counterfactual
    /\ Open([owner |-> owner, delegate |-> delegate, budgetCap |-> budgetCap,
             expiry |-> expiry, nonce |-> nonces[owner]])
    /\ UNCHANGED <<grants, frames, now>>

\* openSessionFor up to the call of the factory: the nonce is read here.
BeginOpenFor(owner, delegate, budgetCap, expiry) ==
    /\ Len(frames) < MaxDepth
    /\ frames' = Append(frames,
           [grant |-> [owner |-> owner, delegate |-> delegate, budgetCap |-> budgetCap,
                       expiry |-> expiry, nonce |-> nonces[owner]],
            sessions |-> sessions, nonces |-> nonces])
    /\ UNCHANGED <<sessions, nonces, grants, now>>

Top == frames[Len(frames)]
Pop == SubSeq(frames, 1, Len(frames) - 1)

\* The rest of openSessionFor, once the factory has returned.
EndOpenFor ==
    /\ frames # << >>
    /\ Top.grant \in grants
    /\ Open(Top.grant)
    /\ frames' = Pop
    /\ UNCHANGED <<grants, now>>

\* A relayed open that reverts undoes all that ran within it.
RevertOpenFor ==
    /\ frames # << >>
    /\ sessions' = Top.sessions
    /\ nonces' = Top.nonces
    /\ frames' = Pop
    /\ UNCHANGED <<grants, now>>

\* Mutant: the last second of the session is lost.
AffordsBeforeExpiry(ss, id, caller, amount) ==
    /\ amount # 0
    /\ ss[id] # Unknown
    /\ caller = ss[id].delegate
    /\ ~ss[id].revoked
    /\ now < ss[id].expiry
    /\ amount <= ss[id].budgetCap - ss[id].spent

\* Whether spend of an amount would go through, in the table ss.
Affords(ss, id, caller, amount) ==
    /\ amount # 0
    /\ ss[id] # Unknown
    /\ caller = ss[id].delegate
    /\ ~ss[id].revoked
    /\ now <= ss[id].expiry
    /\ amount <= ss[id].budgetCap - ss[id].spent

Debited(ss, id, amount) == [ss EXCEPT ![id].spent = ss[id].spent + amount]

Spend(id, caller, amount) ==
    /\ Affords(sessions, id, caller, amount)
    /\ sessions' = Debited(sessions, id, amount)

MayRevoke(id, caller) ==
    /\ Exists(id)
    /\ caller = id.owner
    /\ ~sessions[id].revoked

Revoke(id, caller) ==
    /\ MayRevoke(id, caller)
    /\ sessions' = [sessions EXCEPT ![id].revoked = TRUE]

\* An owner signs a grant over its current nonce or over a later one.
SignGrant(grant) ==
    /\ frames = << >>
    /\ Cardinality(grants) < MaxGrants
    /\ grants' = grants \cup {grant}
    /\ UNCHANGED <<sessions, nonces, frames, now>>

Tick ==
    /\ frames = << >>
    /\ now < MaxTime
    /\ now' = now + 1
    /\ UNCHANGED <<sessions, nonces, grants, frames>>

Next ==
    \/ \E owner \in Owner, delegate \in Delegate, cap \in Cap, expiry \in Expiry :
          \/ OpenSession(owner, delegate, cap, expiry)
          \/ BeginOpenFor(owner, delegate, cap, expiry)
          \/ \E nonce \in Nonce :
                SignGrant([owner |-> owner, delegate |-> delegate, budgetCap |-> cap,
                           expiry |-> expiry, nonce |-> nonce])
    \/ EndOpenFor
    \/ RevertOpenFor
    \/ \E id \in SessionId :
          \/ \E caller \in Delegate, amount \in Spending :
                Spend(id, caller, amount) /\ UNCHANGED <<nonces, grants, frames, now>>
          \/ \E caller \in Owner :
                Revoke(id, caller) /\ UNCHANGED <<nonces, grants, frames, now>>
    \/ Tick

Spec == Init /\ [][Next]_sessionVars

-----------------------------------------------------------------------------
Frame ==
    [grant : Grant, sessions : [SessionId -> {Unknown} \cup Session],
     nonces : [Owner -> 0..MaxNonce]]

\* A table of sessions and nonces that the code may have built: one authorised
\* session per nonce used, no budget overdrawn.
Sound(ss, ns) ==
    /\ \A id \in SessionId : ss[id] # Unknown =>
          /\ id.nonce < ns[id.owner]
          /\ ss[id].delegate = id.delegate
          /\ ss[id].spent <= ss[id].budgetCap
          /\ id.owner \in Counterfactual =>
                [owner |-> id.owner, delegate |-> id.delegate, nonce |-> id.nonce,
                 budgetCap |-> ss[id].budgetCap, expiry |-> ss[id].expiry] \in grants
    /\ \A id, other \in SessionId :
          /\ ss[id] # Unknown /\ ss[other] # Unknown
          /\ id.owner = other.owner /\ id.nonce = other.nonce
          => id = other

TypeOK ==
    /\ sessions \in [SessionId -> {Unknown} \cup Session]
    /\ nonces \in [Owner -> 0..MaxNonce]
    /\ grants \subseteq Grant
    /\ frames \in Seq(Frame)
    /\ now \in Nat

\* One authorisation opens one session, on the terms signed: whatever a factory
\* does in the middle of a relayed open, no two sessions share a nonce, an
\* account that has only ever signed has no session it did not sign, and no
\* session spends past its cap.
OneSessionPerGrant == Sound(sessions, nonces)

\* The view integrators gate a spend on tells what a spend does: the delegate
\* can spend an amount exactly when it is at most what remaining reports.
RemainingIsSpendable ==
    \A id \in SessionId, amount \in Spending \ {0} :
        Exists(id) => (Affords(sessions, id, id.delegate, amount) <=> amount <= Remaining(id))

=============================================================================
