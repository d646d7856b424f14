------------------------------ MODULE AgentMeter ------------------------------
(***************************************************************************)
(* The daily budget of the autonomous agent: agentMeter.ts over durableKv.ts *)
(* and postgresKvStore.ts, as payPerCall.ts uses it.  Server instances come  *)
(* and go, each with a ledger in memory; when a database is configured they  *)
(* share one row a day.  An instance runs one event loop, so what it does    *)
(* between two awaits is one step; a statement of the database is one step.  *)
(***************************************************************************)
EXTENDS Integers, FiniteSets, Functions

CONSTANTS
    Call, Instance, NoInstance,
    Amount,          \* USD a call may reserve
    CAP,             \* AGENT_DAILY_USD_CAP
    MaxDay,          \* bound: the last UTC day looked at
    MaxFaults        \* bound: restarts and errors of the database in a behaviour

Day == 1..MaxDay
Unset == 0                     \* a ledger's dayKey before its first use

ASSUME MeterAssumption ==
    /\ IsFiniteSet(Call)
    /\ NoInstance \notin Instance
    /\ Amount \subseteq Nat \ {0}
    /\ CAP \in Nat
    /\ MaxDay \in Nat \ {0}
    /\ MaxFaults \in Nat

VARIABLES
    configured,      \* whether there is a database; it never changes
    today,           \* the UTC day
    ledger,          \* instance -> its dayKey and what it takes to be spent
    rows,            \* day -> what the database's row says, NoRow if there is none
    calls,           \* call -> where agentPay is, the instance that knows of it,
                     \* its locals; for the properties, whether its day's row
                     \* counts it, the day an increment in memory was of, and
                     \* the day of its refund
    hydration,       \* instance -> the hydration of its boot
    faults           \* how many restarts and errors there were

vars == <<configured, today, ledger, rows, calls, hydration, faults>>

NoRow == -1

\* What a statement of the database answers, other than a new total: that the cap
\* is reached, or an error, which says nothing of whether it ran.
Over == -1
Failed == -2

Quiet == [pc |-> "done", day |-> Unset, spent |-> NoRow]

Booted ==
    IF configured THEN [pc |-> "asked", day |-> today, spent |-> NoRow] ELSE Quiet

Init ==
    /\ configured \in BOOLEAN
    /\ today = 1
    /\ ledger = [i \in Instance |-> [dayKey |-> Unset, spent |-> 0]]
    /\ rows = [d \in Day |-> NoRow]
    /\ calls = [c \in Call |->
          [pc |-> "idle", at |-> NoInstance, usd |-> 0, day |-> Unset, reply |-> Failed,
           durable |-> FALSE, onRow |-> FALSE, booked |-> Unset, refundDay |-> Unset]]
    /\ hydration = [i \in Instance |-> Booted]
    /\ faults = 0

Larger(a, b) == IF a >= b THEN a ELSE b

\* rollToToday.
Rolled(i) ==
    IF ledger[i].dayKey = today THEN ledger[i] ELSE [dayKey |-> today, spent |-> 0]

Fault == faults < MaxFaults /\ faults' = faults + 1

Spent(d) == IF rows[d] = NoRow THEN 0 ELSE rows[d]

-----------------------------------------------------------------------------
(* reserveDailySpend. *)

\* Up to the await: the fast reject, then the reserve statement of today's row.
\* Without a database the await is for nothing.
Ask(c, i, usd) ==
    /\ calls[c].pc = "idle"
    /\ ledger' = [ledger EXCEPT ![i] = Rolled(i)]
    /\ calls' = [calls EXCEPT ![c] =
          [calls[c] EXCEPT
              !.at = i, !.usd = usd, !.day = today,
              !.pc = IF Rolled(i).spent + usd > CAP THEN "refused"
                     ELSE IF configured THEN "asking"
                     ELSE "answered"]]
    /\ UNCHANGED <<configured, faults, today, rows, hydration>>

\* Mutant: only a fresh row is gated by the cap.
FitsFreshRow(d, usd) == rows[d] # NoRow \/ usd <= CAP

\* reserveWithinCap: the condition of the one INSERT ... ON CONFLICT.
Fits(d, usd) == Spent(d) + usd <= CAP

DbReserve(c) ==
    LET d == calls[c].day
        total == Spent(d) + calls[c].usd
        fits == Fits(d, calls[c].usd)
    IN  /\ calls[c].pc = "asking"
        /\ \E ran, told \in BOOLEAN :
              /\ IF told THEN ran /\ UNCHANGED faults ELSE Fault
              /\ calls' = [calls EXCEPT ![c] =
                     [calls[c] EXCEPT !.pc = "answered", !.onRow = ran /\ fits,
                         !.reply = IF ~told THEN Failed ELSE IF fits THEN total ELSE Over]]
              /\ rows' = IF ran /\ fits THEN [rows EXCEPT ![d] = total] ELSE rows
        /\ UNCHANGED <<configured, today, ledger, hydration>>

\* Mutant: the cap is not checked again after the await.
NoRecheck(i, usd) == TRUE

\* The check again, of a ledger that may have moved during the await.
Recheck(i, usd) == ledger[i].spent + usd <= CAP

\* After the await: take over the shared total, or fall back to memory.
Reserved(c) ==
    LET i == calls[c].at
        usd == calls[c].usd
        reply == calls[c].reply
    IN  /\ calls[c].pc = "answered"
        /\ \/ /\ reply >= 0
              /\ ledger' = [ledger EXCEPT ![i].spent = Larger(ledger[i].spent + usd, reply)]
              /\ calls' = [calls EXCEPT ![c] =
                     [calls[c] EXCEPT !.pc = "paying", !.reply = Failed, !.durable = TRUE]]
           \/ /\ reply = Failed
              /\ Recheck(i, usd)
              /\ ledger' = [ledger EXCEPT ![i].spent = ledger[i].spent + usd]
              /\ calls' = [calls EXCEPT ![c] =
                     [calls[c] EXCEPT !.pc = "paying", !.booked = ledger[i].dayKey]]
           \/ /\ reply = Over \/ (reply = Failed /\ ~Recheck(i, usd))
              /\ calls' = [calls EXCEPT ![c] =
                     [calls[c] EXCEPT !.pc = "refused", !.reply = Failed, !.at = NoInstance]]
              /\ UNCHANGED ledger
        /\ UNCHANGED <<configured, faults, today, rows, hydration>>

-----------------------------------------------------------------------------
(* agentPay once the budget is reserved, and refundDailySpend. *)

\* The endpoint was paid; what it answers then makes no difference.
Settle(c) ==
    /\ calls[c].pc = "paying"
    /\ calls' = [calls EXCEPT ![c] =
          [calls[c] EXCEPT !.pc = "settled",
              !.at = IF calls[c].durable THEN NoInstance ELSE calls[c].at]]
    /\ UNCHANGED <<configured, faults, today, ledger, rows, hydration>>

\* Mutant: a refund is durable whatever the reservation was.
AnyReceipt(c) == configured

\* The receipt of the reservation says whether the row counted it.
Receipt(c) == calls[c].durable

\* A refund that is larger than what is there leaves 0.
Clamped(a, b) == Larger(0, a - b)

\* Nothing settled: the refund, up to its await.  It is of today's row.
Refund(c) ==
    LET i == calls[c].at IN
    /\ calls[c].pc = "paying"
    /\ ledger' = [ledger EXCEPT ![i] =
          [dayKey |-> today, spent |-> Clamped(Rolled(i).spent, calls[c].usd)]]
    /\ calls' = [calls EXCEPT ![c] =
          [calls[c] EXCEPT !.refundDay = today,
              !.pc = IF Receipt(c) THEN "refunding" ELSE "refunded"]]
    /\ UNCHANGED <<configured, faults, today, rows, hydration>>

\* decrementClamped: a missing row stays missing.
DbDecrement(c) ==
    LET d == calls[c].refundDay
        left == Clamped(Spent(d), calls[c].usd)
    IN  /\ calls[c].pc = "refunding"
        /\ \E ran, told \in BOOLEAN :
              /\ IF told THEN ran /\ UNCHANGED faults ELSE Fault
              /\ calls' = [calls EXCEPT ![c] =
                     [calls[c] EXCEPT !.pc = "credited",
                         !.reply = IF told THEN left ELSE Failed,
                         !.onRow = calls[c].onRow /\ ~(ran /\ d = calls[c].day)]]
              /\ rows' = IF ran /\ rows[d] # NoRow THEN [rows EXCEPT ![d] = left] ELSE rows
        /\ UNCHANGED <<configured, today, ledger, hydration>>

\* The rest of the refund.  persist writes nothing here: a row with the two
\* counter statements is never overwritten, and without a database there is none.
Refunded(c) ==
    LET i == calls[c].at
        reply == calls[c].reply
    IN  /\ calls[c].pc = "credited"
        /\ calls' = [calls EXCEPT ![c] =
              [calls[c] EXCEPT !.pc = "refunded", !.reply = Failed, !.at = NoInstance]]
        /\ ledger' = IF reply = Failed THEN ledger ELSE [ledger EXCEPT ![i].spent = reply]
        /\ UNCHANGED <<configured, faults, today, rows, hydration>>

-----------------------------------------------------------------------------
(* Instances and days. *)

\* hydrate's SELECT, which may fail.
DbHydrate(i) ==
    /\ hydration[i].pc = "asked"
    /\ \/ /\ hydration' = [hydration EXCEPT ![i] =
                 [hydration[i] EXCEPT !.pc = "read", !.spent = rows[hydration[i].day]]]
          /\ UNCHANGED faults
       \/ hydration' = [hydration EXCEPT ![i] = Quiet] /\ Fault
    /\ UNCHANGED <<configured, today, ledger, rows, calls>>

\* hydrateMeterFromDurable: the row of the day of the boot, if there is one.
Hydrated(i) ==
    LET h == hydration[i] IN
    /\ h.pc = "read"
    /\ hydration' = [hydration EXCEPT ![i] = Quiet]
    /\ ledger' = IF h.spent = NoRow THEN ledger
                 ELSE [ledger EXCEPT ![i] =
                         [dayKey |-> h.day, spent |-> Larger(ledger[i].spent, h.spent)]]
    /\ UNCHANGED <<configured, faults, today, rows, calls>>

\* An instance is stopped and another boots in its place.  Its calls are gone; a
\* payment on its way counts as made.
Restart(i) ==
    /\ Fault
    /\ ledger' = [ledger EXCEPT ![i] = [dayKey |-> Unset, spent |-> 0]]
    /\ hydration' = [hydration EXCEPT ![i] = Booted]
    /\ calls' = [c \in Call |->
          IF calls[c].at # i THEN calls[c]
          ELSE [calls[c] EXCEPT !.at = NoInstance, !.reply = Failed,
                   !.pc = CASE calls[c].pc = "paying" -> "settled"
                            [] calls[c].pc \in {"asking", "answered", "refunding", "credited"} -> "gone"
                            [] OTHER -> calls[c].pc]]
    /\ UNCHANGED <<configured, today, rows>>

Midnight ==
    /\ today < MaxDay
    /\ today' = today + 1
    /\ UNCHANGED <<configured, faults, ledger, rows, calls, hydration>>

Next ==
    \/ \E c \in Call :
          \/ \E i \in Instance, usd \in Amount : Ask(c, i, usd)
          \/ DbReserve(c)
          \/ Reserved(c)
          \/ Settle(c)
          \/ Refund(c)
          \/ DbDecrement(c)
          \/ Refunded(c)
    \/ \E i \in Instance : DbHydrate(i) \/ Hydrated(i) \/ Restart(i)
    \/ Midnight

Spec == Init /\ [][Next]_vars

-----------------------------------------------------------------------------
TypeOK ==
    /\ configured \in BOOLEAN
    /\ today \in Day
    /\ ledger \in [Instance -> [dayKey : {Unset} \cup Day, spent : Nat]]
    /\ rows \in [Day -> Nat \cup {NoRow}]
    /\ calls \in [Call ->
          [pc : {"idle", "refused", "asking", "answered", "paying", "settled",
                 "refunding", "credited", "refunded", "gone"},
           at : Instance \cup {NoInstance}, usd : Amount \cup {0},
           day : {Unset} \cup Day, reply : Nat \cup {Over, Failed},
           durable : BOOLEAN, onRow : BOOLEAN,
           booked : {Unset} \cup Day, refundDay : {Unset} \cup Day]]
    /\ faults \in 0..MaxFaults
    /\ hydration \in [Instance ->
          [pc : {"asked", "read", "done"}, day : {Unset} \cup Day, spent : Nat \cup {NoRow}]]

UsdOf(S) == SumFunction([c \in S |-> calls[c].usd])

Paid(c) == calls[c].pc \in {"paying", "settled"}

\* The refunds credited to a day of calls charged to another.
Strays(d) ==
    {c \in Call : calls[c].durable /\ calls[c].refundDay = d /\ calls[c].day # d}

\* Over all instances, with any errors of the database, any of them restarted and
\* answers in any order, the payments charged to the row of a day stay within the
\* cap, but for refunds that the code credits to the day after their reservation.
BudgetHolds ==
    \A d \in Day :
        UsdOf({c \in Call : calls[c].durable /\ calls[c].day = d /\ Paid(c)})
            <= CAP + UsdOf(Strays(d))

\* Nothing settled, nothing spent: a row counts no call but those that reserved on
\* it and were not refunded (or whose statement was lost with its answer), and
\* misses none but what a refund of another day took away.
RowIsExact ==
    \A d \in Day :
        LET counted == UsdOf({c \in Call : calls[c].day = d /\ calls[c].onRow})
        IN  Spent(d) <= counted /\ counted <= Spent(d) + UsdOf(Strays(d))

\* Without a database each instance keeps to the cap by itself from its boot on,
\* with any number of calls between their check and their increment, but for
\* refunds that come a day late.
InstanceCeiling ==
    ~configured => \A i \in Instance, d \in Day :
        UsdOf({c \in Call : calls[c].at = i /\ calls[c].booked = d /\ Paid(c)})
            <= CAP + UsdOf({c \in Call : /\ calls[c].at = i /\ calls[c].refundDay = d
                                         /\ calls[c].booked # d})

\* agentMeter.ts: "so the cap is enforced GLOBALLY".
CapEnforcedGlobally ==
    \A d \in Day :
        UsdOf({c \in Call : calls[c].durable /\ calls[c].day = d /\ Paid(c)}) <= CAP

=============================================================================
