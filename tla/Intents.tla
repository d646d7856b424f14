-------------------------------- MODULE Intents --------------------------------
(***************************************************************************)
(* Payment intents: intents/store.ts and the routes that create and read    *)
(* one.  The service owns created -> expired only; expiry is settled by      *)
(* whoever reads, against a hot copy that may be older than the table.        *)
(***************************************************************************)
EXTENDS DurableKv

CONSTANTS
    Ttl,             \* lifetimes an intent is created with
    LastTime         \* bound: the last moment looked at

\* Assumed where the module is instantiated.
IntentsAssumption == Ttl \subseteq Nat \ {0} /\ LastTime \in Nat

VARIABLES
    intents,         \* instance -> its hot map
    time,            \* the clock, which the instances share
    said             \* intent -> the last status a reader was told; for the properties

intentVars == <<kvVars, intents, time, said>>

InitIntents ==
    /\ KvInit
    /\ intents = [i \in Instance |-> Nothing(Key)]
    /\ time = 0
    /\ said = [k \in Key |-> "nothing"]

\* A ulid nobody has used.
Fresh(k) ==
    /\ said[k] = "nothing" /\ rows[k] = Absent
    /\ \A i \in Instance : intents[i][k] = Absent /\ boot[i].seen[k] = Absent
    /\ \A w \in writes : w.key # k

\* POST /api/intents: the creator is told the intent.
CreateIntent(i, k, ttl) ==
    LET intent == [status |-> "created", expiresAt |-> time + ttl] IN
    /\ Fresh(k) /\ Room(1)
    /\ intents' = [intents EXCEPT ![i][k] = intent]
    /\ writes' = Sent(writes, i, k, intent)
    /\ said' = [said EXCEPT ![k] = "created"]
    /\ UNCHANGED <<rows, schema, boot, faults, time>>

\* getIntent: what a reader is told of an intent.
Settled(intent) ==
    IF intent.status = "created" /\ time >= intent.expiresAt
    THEN [intent EXCEPT !.status = "expired"] ELSE intent

\* GET /api/intents/[id].  It does not wait for the hydration; an intent the
\* instance has not heard of is a 404, which says nothing of its status.
GetIntent(i, k) ==
    LET intent == intents[i][k]
        answer == Settled(intent)
    IN  /\ intent # Absent
        /\ intents' = [intents EXCEPT ![i][k] = answer]
        /\ said' = [said EXCEPT ![k] = answer.status]
        /\ \/ answer = intent /\ UNCHANGED writes
           \/ answer # intent /\ Room(1) /\ writes' = Sent(writes, i, k, answer)
        /\ UNCHANGED <<rows, schema, boot, faults, time>>

\* Mutant: an intent that is restored gets its lifetime again.
HydrateRenewed(i) ==
    /\ KvHydrate(i)
    /\ \E ttl \in Ttl :
          LET renewed(intent) ==
                  IF intent = Absent \/ time < intent.expiresAt THEN intent
                  ELSE [intent EXCEPT !.expiresAt = time + ttl]
          IN  intents' = [intents EXCEPT ![i] =
                  [k \in Key |-> renewed(Hydrated(i, intents[i])[k])]]
    /\ UNCHANGED <<time, said>>

HydrateIntents(i) ==
    /\ KvHydrate(i)
    /\ intents' = [intents EXCEPT ![i] = Hydrated(i, intents[i])]
    /\ UNCHANGED <<time, said>>

RestartIntents(i) ==
    /\ KvRestart(i)
    /\ intents' = [intents EXCEPT ![i] = Nothing(Key)]
    /\ UNCHANGED <<time, said>>

TimePasses ==
    /\ time < LastTime
    /\ time' = time + 1
    /\ UNCHANGED <<kvVars, intents, said>>

NextIntents ==
    \/ \E i \in Instance, k \in Key :
          \/ \E ttl \in Ttl : CreateIntent(i, k, ttl)
          \/ GetIntent(i, k)
    \/ \E i \in Instance : HydrateIntents(i) \/ RestartIntents(i)
    \/ TimePasses
    \/ KvStep /\ UNCHANGED <<intents, time, said>>

IntentsSpec == InitIntents /\ [][NextIntents]_intentVars

-----------------------------------------------------------------------------
Statuses == {"created", "expired"}

IntentsTypeOK ==
    /\ KvTypeOK([status : Statuses, expiresAt : Nat])
    /\ intents \in [Instance -> [Key -> [status : Statuses, expiresAt : Nat] \cup {Absent}]]
    /\ time \in 0..LastTime
    /\ said \in [Key -> Statuses \cup {"nothing"}]

\* A customer told that an intent has expired is never told afterwards that it is
\* payable: not by another instance, nor after a restart, nor by a copy that a late
\* hydration or the write of the created row behind the expired one brought back.
ExpiryFinal == [][\A k \in Key : said[k] = "expired" => said'[k] = "expired"]_intentVars

=============================================================================
