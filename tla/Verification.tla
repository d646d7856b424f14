------------------------------ MODULE Verification ------------------------------
(***************************************************************************)
(* Verification profiles: verification/store.ts, and the three routes that   *)
(* turn a proof of personhood or a sign-in into a method of a profile         *)
(* (api/verify, api/oidc/verify) or into the agent's trial (api/world/verify). *)
(* A proof is good once: its slot is claimed in the replay store, and only    *)
(* then, in a later step of the same instance, is the profile written.        *)
(***************************************************************************)
EXTENDS DurableKv, ReplayStore

CONSTANTS
    User, Agent, NoAgent,
    Slot,            \* what a proof claims: a human under an action, or an account
    GateOf,          \* slot -> the gate whose action it is of: buyer, agent or oidc
    AgentOf,         \* slot -> the agent a token names, or NoAgent
    OpenMethod,      \* methods proved without a claim: ens, dynamic, onchain
    Call, NoSlot, NoUser

Gate == {"buyer", "agent", "oidc"}

ASSUME VerificationAssumption ==
    /\ Key = User \cup Agent /\ User \cap Agent = {}
    /\ GateOf \in [Slot -> Gate]
    /\ AgentOf \in [Slot -> Agent \cup {NoAgent}]
    /\ NoAgent \notin Agent
    /\ NoSlot \notin Slot
    /\ NoUser \notin User
    /\ OpenMethod \cap {"world-id", "oidc"} = {}

Method == {"world-id", "oidc"} \cup OpenMethod

VARIABLES
    profiles,        \* instance -> its hot map of profiles
    unlocked,        \* instance -> whether a human stands behind its agent
    calls,           \* call -> its route, its instance, its user and its proof's slot
    credited         \* the slots and who they were credited to; for the properties

profileVars == <<kvVars, claims, profiles, unlocked, calls, credited>>

Idle == [pc |-> "idle", at |-> Gone, route |-> "world", user |-> NoUser, slot |-> NoSlot]

OwnInit ==
    /\ claims = {}
    /\ profiles = [i \in Instance |-> Nothing(Key)]
    /\ unlocked = [i \in Instance |-> FALSE]
    /\ calls = [c \in Call |-> Idle]
    /\ credited = {}

InitProfiles == KvInit /\ OwnInit

Methods(profile) == IF profile = Absent THEN {} ELSE profile

\* The gates a route serves; world takes no user.
Serves(route, gate) ==
    \/ route = "verify" /\ gate \in {"buyer", "oidc"}
    \/ route = "oidc" /\ gate = "oidc"
    \/ route = "world" /\ gate \in {"buyer", "agent"}

\* Up to the claim: the caller owns the user, and the portal or the provider found
\* the proof good under the action of the gate.  A refusal changes nothing.
Verify(c, i, route, user, slot) ==
    /\ calls[c].pc = "idle"
    /\ Serves(route, GateOf[slot])
    /\ (route = "world") <=> (user = NoUser)
    /\ calls' = [calls EXCEPT ![c] =
          [pc |-> "claiming", at |-> i, route |-> route, user |-> user, slot |-> slot]]
    /\ UNCHANGED <<kvVars, claims, profiles, unlocked, credited>>

\* Mutant: a claim that cannot be made counts as fresh.
ClaimFailsOpen(c) ==
    /\ calls[c].pc = "claiming"
    /\ \E ran, told \in BOOLEAN :
          /\ IF told THEN ran /\ UNCHANGED faults ELSE Fault
          /\ claims' = IF ran THEN Claimed(calls[c].slot) ELSE claims
          /\ calls' = [calls EXCEPT ![c].pc =
                 IF calls[c].at = Gone THEN "gone"
                 ELSE IF Verdict(calls[c].slot, told) = "lost" THEN "lost" ELSE "won"]
    /\ UNCHANGED <<rows, schema, writes, boot, profiles, unlocked, credited>>

\* claimNullifier and claimSubject: the statement runs, or an error says nothing of
\* whether it did.
Claim(c) ==
    /\ calls[c].pc = "claiming"
    /\ \E ran, told \in BOOLEAN :
          /\ IF told THEN ran /\ UNCHANGED faults ELSE Fault
          /\ claims' = IF ran THEN Claimed(calls[c].slot) ELSE claims
          /\ calls' = [calls EXCEPT ![c].pc =
                 IF calls[c].at = Gone THEN "gone" ELSE Verdict(calls[c].slot, told)]
    /\ UNCHANGED <<rows, schema, writes, boot, profiles, unlocked, credited>>

\* addMethod, addAgentMethod.
Added(map, key, method) == [map EXCEPT ![key] = Methods(map[key]) \cup {method}]

MethodOf(slot) == IF GateOf[slot] = "oidc" THEN "oidc" ELSE "world-id"

\* A fresh claim through api/verify, or through api/oidc/verify, which credits the
\* agent its token names too.
Credit(c) ==
    LET i == calls[c].at
        slot == calls[c].slot
        user == calls[c].user
        agent == AgentOf[slot]
        one == Added(profiles[i], user, MethodOf(slot))
        both == Added(one, agent, "oidc")
        sent == Sent(writes, i, user, one[user])
    IN  /\ calls[c].pc = "won" /\ calls[c].route \in {"verify", "oidc"}
        /\ calls' = [calls EXCEPT ![c].pc = "done"]
        /\ \/ /\ calls[c].route = "verify" \/ agent = NoAgent
              /\ Room(1)
              /\ profiles' = [profiles EXCEPT ![i] = one]
              /\ writes' = sent
              /\ credited' = credited \cup {<<slot, user>>}
           \/ /\ calls[c].route = "oidc" /\ agent # NoAgent
              /\ Room(2)
              /\ profiles' = [profiles EXCEPT ![i] = both]
              /\ writes' = Sent(sent, i, agent, both[agent])
              /\ credited' = credited \cup {<<slot, user>>, <<slot, agent>>}
        /\ UNCHANGED <<rows, schema, boot, faults, claims, unlocked>>

\* A fresh claim through api/world/verify: the gate, not the action, says whether it
\* unlocks the trial.
Admit(c) ==
    /\ calls[c].pc = "won" /\ calls[c].route = "world"
    /\ calls' = [calls EXCEPT ![c].pc = "done"]
    /\ unlocked' = [unlocked EXCEPT ![calls[c].at] =
          unlocked[calls[c].at] \/ GateOf[calls[c].slot] = "agent"]
    /\ UNCHANGED <<kvVars, claims, profiles, credited>>

\* ens, dynamic and onchain: a check of a fact about the user, and nothing to claim.
VerifyOpen(c, i, user, method) ==
    /\ calls[c].pc = "idle"
    /\ Room(1)
    /\ calls' = [calls EXCEPT ![c].pc = "done"]
    /\ profiles' = [profiles EXCEPT ![i] = Added(profiles[i], user, method)]
    /\ writes' = Sent(writes, i, user, Added(profiles[i], user, method)[user])
    /\ UNCHANGED <<rows, schema, boot, faults, claims, unlocked, credited>>

Hydrate(i) ==
    /\ KvHydrate(i)
    /\ profiles' = [profiles EXCEPT ![i] = Hydrated(i, profiles[i])]
    /\ UNCHANGED <<claims, unlocked, calls, credited>>

\* The calls of a stopped instance are gone; a claim under way may still be made.
Restart(i) ==
    /\ KvRestart(i)
    /\ profiles' = [profiles EXCEPT ![i] = Nothing(Key)]
    /\ unlocked' = [unlocked EXCEPT ![i] = FALSE]
    /\ calls' = [c \in Call |->
          IF calls[c].at # i THEN calls[c]
          ELSE [calls[c] EXCEPT !.at = Gone,
                   !.pc = IF calls[c].pc \in {"won", "lost", "failed"} THEN "gone" ELSE calls[c].pc]]
    /\ UNCHANGED <<claims, credited>>

NextProfiles ==
    \/ \E c \in Call :
          \/ \E i \in Instance, route \in {"verify", "oidc", "world"},
                user \in User \cup {NoUser}, slot \in Slot : Verify(c, i, route, user, slot)
          \/ Claim(c)
          \/ Credit(c)
          \/ Admit(c)
          \/ \E i \in Instance, user \in User, method \in OpenMethod :
                VerifyOpen(c, i, user, method)
    \/ \E i \in Instance : Hydrate(i) \/ Restart(i)
    \/ KvStep /\ UNCHANGED <<claims, profiles, unlocked, calls, credited>>

ProfilesSpec == InitProfiles /\ [][NextProfiles]_profileVars

-----------------------------------------------------------------------------
Profile == SUBSET Method

ProfilesTypeOK ==
    /\ KvTypeOK(Profile)
    /\ claims \subseteq Slot
    /\ profiles \in [Instance -> [Key -> Profile \cup {Absent}]]
    /\ unlocked \in [Instance -> BOOLEAN]
    /\ calls \in [Call ->
          [pc : {"idle", "claiming", "won", "lost", "failed", "gone", "done"},
           at : Instance \cup {Gone}, route : {"verify", "oidc", "world"},
           user : User \cup {NoUser}, slot : Slot \cup {NoSlot}]]
    /\ credited \subseteq Slot \X Key

\* Every copy there is of a key's profile: in memory, in the table, on its way to
\* either.
Copies(k) ==
    {profiles[i][k] : i \in Instance} \cup {rows[k]}
        \cup {boot[i].seen[k] : i \in Instance}
        \cup {w.value : w \in {w \in writes : w.key = k}}

\* Who has world-id or oidc, on any instance and in the table, was credited a proof
\* of it; and a proof is credited to one user only, however many calls present it
\* at however many instances, before and after restarts and failed statements.
OneProofOneProfile ==
    /\ \A k \in Key : \A p \in Copies(k) : \A m \in Methods(p) \ OpenMethod :
          \E slot \in Slot : <<slot, k>> \in credited /\ MethodOf(slot) = m
    /\ \A a, b \in credited : a[1] = b[1] /\ {a[2], b[2]} \subseteq User => a[2] = b[2]

=============================================================================
