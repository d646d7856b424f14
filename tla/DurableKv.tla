------------------------------- MODULE DurableKv -------------------------------
(***************************************************************************)
(* durableKv.ts over postgresKvStore.ts: the table behind a store whose hot *)
(* copy is a map in memory.  A write is sent and not waited for; the table   *)
(* is read once, at boot.  A module that keeps such a store extends this one *)
(* and says what Hydrated and a restart do to its memory.                    *)
(***************************************************************************)
EXTENDS Integers, FiniteSets

CONSTANTS
    Instance,        \* server instances
    Key, Absent,
    Gone,            \* the sender of a statement whose instance was stopped
    MaxWrites,       \* bound: statements under way at a time
    MaxFaults        \* bound: restarts and errors of the database in a behaviour

ASSUME KvAssumption ==
    /\ Gone \notin Instance
    /\ MaxWrites \in Nat
    /\ MaxFaults \in Nat

VARIABLES
    rows,            \* key -> its value in the table
    schema,          \* instance -> its CREATE TABLE, which is tried once: it is known to
                     \* have succeeded when a statement after it does
    writes,          \* the statements sent, each on a connection of its own
    boot,            \* instance -> its read of the table
    faults           \* how many restarts and errors there were

kvVars == <<rows, schema, writes, boot, faults>>

Nothing(keys) == [k \in keys |-> Absent]

KvInit ==
    /\ rows = Nothing(Key)
    /\ schema = [i \in Instance |-> "creating"]
    /\ writes = {}
    /\ boot = [i \in Instance |-> [pc |-> "asked", seen |-> Nothing(Key)]]
    /\ faults = 0

Fault == faults < MaxFaults /\ faults' = faults + 1

\* ensureSchema: one promise for the life of the instance, its failure included.
Created(i) ==
    IF i = Gone THEN schema ELSE [schema EXCEPT ![i] = "ready"]

CreateTableFails(i) ==
    /\ schema[i] = "creating"
    /\ schema' = [schema EXCEPT ![i] = "failed"]
    /\ boot' = [boot EXCEPT ![i].pc = "done"]
    /\ writes' = {w \in writes : w.at # i}
    /\ Fault
    /\ UNCHANGED rows

\* durableSet and durableDelete (of the value Absent): W with one more statement.
\* Its outcome is only logged.
Sent(W, i, k, v) ==
    IF schema[i] = "failed" THEN W
    ELSE LET n == CHOOSE m \in 1..MaxWrites : \A w \in W : w.n # m
         IN  W \cup {[n |-> n, at |-> i, key |-> k, value |-> v]}

\* The bound: room for so many statements more.
Room(count) == Cardinality(writes) + count <= MaxWrites

\* Statements reach the table in any order, or fail.
Land ==
    \E w \in writes :
        /\ schema' = Created(w.at)
        /\ rows' = [rows EXCEPT ![w.key] = w.value]
        /\ writes' = writes \ {w}
        /\ UNCHANGED <<boot, faults>>

Lose ==
    /\ Fault
    /\ \E w \in writes : writes' = writes \ {w}
    /\ UNCHANGED <<rows, schema, boot>>

\* hydrate, up to its await: what the SELECT sees, or its failure.
ReadRows(i) ==
    /\ boot[i].pc = "asked"
    /\ schema' = Created(i)
    /\ \/ boot' = [boot EXCEPT ![i] = [pc |-> "read", seen |-> rows]] /\ UNCHANGED faults
       \/ boot' = [boot EXCEPT ![i].pc = "done"] /\ Fault
    /\ UNCHANGED <<rows, writes>>

KvStep ==
    \/ \E i \in Instance : CreateTableFails(i) \/ ReadRows(i)
    \/ Land
    \/ Lose

\* The rest of hydrate.  Hydrated is the map it leaves: a row that was read
\* replaces what the instance has learned of its key meanwhile.
Hydrated(i, map) ==
    [k \in Key |-> IF boot[i].seen[k] = Absent THEN map[k] ELSE boot[i].seen[k]]

KvHydrate(i) ==
    /\ boot[i].pc = "read"
    /\ boot' = [boot EXCEPT ![i] = [pc |-> "done", seen |-> Nothing(Key)]]
    /\ UNCHANGED <<rows, schema, writes, faults>>

\* An instance is stopped and another boots in its place.  What it had sent may
\* still be carried out.
KvRestart(i) ==
    /\ Fault
    /\ schema' = [schema EXCEPT ![i] = "creating"]
    /\ boot' = [boot EXCEPT ![i] = [pc |-> "asked", seen |-> Nothing(Key)]]
    /\ \E cut \in SUBSET {w \in writes : w.at = i} :
          writes' = {[w EXCEPT !.at = IF w.at = i THEN Gone ELSE w.at] : w \in writes \ cut}
    /\ UNCHANGED rows

KvTypeOK(Value) ==
    /\ rows \in [Key -> Value \cup {Absent}]
    /\ schema \in [Instance -> {"creating", "ready", "failed"}]
    /\ writes \subseteq [n : 1..MaxWrites, at : Instance \cup {Gone}, key : Key,
                         value : Value \cup {Absent}]
    /\ boot \in [Instance -> [pc : {"asked", "read", "done"}, seen : [Key -> Value \cup {Absent}]]]
    /\ faults \in 0..MaxFaults

=============================================================================
