---------------------------- MODULE AgentsProofs ----------------------------
(***************************************************************************)
(* Proofs about what callers spend, for any number of calls, server         *)
(* instances, days, sessions, requests, coins and errors of the database:   *)
(* the daily budget of the autonomous agent, the row it is counted on and   *)
(* the ceiling an instance keeps without a database; the budget of a        *)
(* metered session; the one rail a request pays on; what the hosted page    *)
(* makes a buyer pay; and which payment the hook's receipt is of.           *)
(*                                                                          *)
(* The budgets are sums over calls.  A step but a restart changes one       *)
(* call, and with it each sum by that call's term.                          *)
(***************************************************************************)
EXTENDS AgentMeter, AiSessions, AgentPay, Checkout, UsePayment, BankProofs

CallRecord ==
    [pc : {"idle", "refused", "asking", "answered", "paying", "settled",
           "refunding", "credited", "refunded", "gone"},
     at : Instance \cup {NoInstance}, usd : Amount \cup {0},
     day : {Unset} \cup Day, reply : Nat \cup {Over, Failed},
     durable : BOOLEAN, onRow : BOOLEAN,
     booked : {Unset} \cup Day, refundDay : {Unset} \cup Day]

Calls == [Call -> CallRecord]

Ledgers == [Instance -> [dayKey : {Unset} \cup Day, spent : Nat]]

\* What a call counts for: on the row of a day, as a refund that went to that day
\* from another (once its statement is over), and in the memory of an instance.
CountedOf(k, d) == IF k.day = d /\ k.onRow THEN k.usd ELSE 0

StrayOf(k, d) ==
    IF k.durable /\ k.refundDay = d /\ k.day # d /\ k.pc # "refunding" THEN k.usd ELSE 0

BookedOf(k, i, d) ==
    IF k.at = i /\ k.booked = d /\ k.pc \in {"paying", "settled"} THEN k.usd ELSE 0

LateOf(k, i, d) == IF k.at = i /\ k.refundDay = d /\ k.booked # d THEN k.usd ELSE 0

Counted(cs, d) == SumFunction([c \in Call |-> CountedOf(cs[c], d)])
Strayed(cs, d) == SumFunction([c \in Call |-> StrayOf(cs[c], d)])
Booked(cs, i, d) == SumFunction([c \in Call |-> BookedOf(cs[c], i, d)])
Late(cs, i, d) == SumFunction([c \in Call |-> LateOf(cs[c], i, d)])

\* The locals of a call agree with where it is.
CallOK(k) ==
    /\ k.pc = "idle" => k.at = NoInstance /\ k.reply = Failed
    /\ k.pc \in {"idle", "asking"} => ~k.onRow
    /\ k.pc \in {"idle", "asking", "answered"} => ~k.durable
    /\ k.pc \in {"idle", "asking", "answered", "paying"} => k.refundDay = Unset
    /\ k.pc # "idle" => k.day \in Day
    /\ k.pc = "answered" /\ k.reply >= 0 => k.onRow
    /\ k.durable /\ k.pc \in {"paying", "settled", "refunding"} => k.onRow
    /\ k.pc = "refunding" => k.durable /\ k.refundDay \in Day
    /\ k.pc = "credited" => k.reply # Over
    /\ k.pc \in {"asking", "answered", "paying", "refunding", "credited"} => k.at \in Instance

\* A row says at most what it counts and misses only what strays took away, and
\* its statement keeps it within the cap.
RowOK(d) ==
    /\ Spent(d) <= CAP
    /\ Spent(d) <= Counted(calls, d)
    /\ Counted(calls, d) <= Spent(d) + Strayed(calls, d)

\* A call that no database knows of.
InMemory(k) ==
    /\ ~k.durable
    /\ k.pc \notin {"asking", "refunding", "credited"}
    /\ k.reply = Failed
    /\ k.pc \in {"idle", "answered"} => k.booked = Unset

\* What a ledger admits to have spent on a day: what it says of its own day, at
\* most the cap of a day that is over, nothing of one to come.
Admits(l, d) == IF d = l.dayKey THEN l.spent ELSE IF d < l.dayKey THEN CAP ELSE 0

MemoryOK ==
    ~configured =>
        /\ \A c \in Call : InMemory(calls[c])
        /\ \A i \in Instance :
               /\ hydration[i].pc = "done"
               /\ ledger[i].spent <= CAP
               /\ ledger[i].dayKey <= today
               /\ \A d \in Day :
                      Booked(calls, i, d) <= Admits(ledger[i], d) + Late(calls, i, d)

MInv ==
    /\ TypeOK
    /\ \A i \in Instance : hydration[i].pc # "done" => hydration[i].day \in Day
    /\ \A c \in Call : CallOK(calls[c])
    /\ \A d \in Day : RowOK(d)
    /\ MemoryOK

-----------------------------------------------------------------------------
\* The terms of a call are natural numbers.
LEMMA TermsTyped ==
    ASSUME NEW k \in CallRecord, NEW i, NEW d
    PROVE  /\ CountedOf(k, d) \in Nat /\ StrayOf(k, d) \in Nat
           /\ BookedOf(k, i, d) \in Nat /\ LateOf(k, i, d) \in Nat
           /\ k.usd \in Nat
<1>1. k.usd \in Nat
  <2>1. k.usd \in Amount \cup {0}
    BY DEF CallRecord
  <2>2. \A x \in Amount : x \in Nat
    BY MeterAssumption
  <2>3. k.usd \in Amount \/ k.usd = 0
    BY <2>1
  <2>4. QED
    BY <2>2, <2>3
<1>2. QED
  BY <1>1 DEF CountedOf, StrayOf, BookedOf, LateOf

\* So are their sums.
LEMMA TotalsTyped ==
    ASSUME NEW cs \in Calls, NEW i, NEW d
    PROVE  /\ Counted(cs, d) \in Nat /\ Strayed(cs, d) \in Nat
           /\ Booked(cs, i, d) \in Nat /\ Late(cs, i, d) \in Nat
<1>1. \A c \in Call : /\ CountedOf(cs[c], d) \in Nat /\ StrayOf(cs[c], d) \in Nat
                      /\ BookedOf(cs[c], i, d) \in Nat /\ LateOf(cs[c], i, d) \in Nat
  BY TermsTyped DEF Calls
<1>2. /\ [c \in Call |-> CountedOf(cs[c], d)] \in [Call -> Nat]
      /\ [c \in Call |-> StrayOf(cs[c], d)] \in [Call -> Nat]
      /\ [c \in Call |-> BookedOf(cs[c], i, d)] \in [Call -> Nat]
      /\ [c \in Call |-> LateOf(cs[c], i, d)] \in [Call -> Nat]
  BY <1>1
<1>3. QED
  BY <1>2, SumNat, MeterAssumption DEF Counted, Strayed, Booked, Late

\* One call changes, and each sum by its term.
LEMMA OneCallChanges ==
    ASSUME NEW cs \in Calls, NEW new \in Calls, NEW c \in Call,
           \A k \in Call : k # c => new[k] = cs[k],
           NEW i, NEW d
    PROVE  /\ Counted(new, d) = Counted(cs, d) + CountedOf(new[c], d) - CountedOf(cs[c], d)
           /\ Strayed(new, d) = Strayed(cs, d) + StrayOf(new[c], d) - StrayOf(cs[c], d)
           /\ Booked(new, i, d) =
                  Booked(cs, i, d) + BookedOf(new[c], i, d) - BookedOf(cs[c], i, d)
           /\ Late(new, i, d) = Late(cs, i, d) + LateOf(new[c], i, d) - LateOf(cs[c], i, d)
<1> DEFINE C(t) == [x \in Call |-> CountedOf(t[x], d)]
           S(t) == [x \in Call |-> StrayOf(t[x], d)]
           B(t) == [x \in Call |-> BookedOf(t[x], i, d)]
           L(t) == [x \in Call |-> LateOf(t[x], i, d)]
<1>1. ASSUME NEW t \in Calls
      PROVE  /\ C(t) \in [Call -> Int] /\ S(t) \in [Call -> Int]
             /\ B(t) \in [Call -> Int] /\ L(t) \in [Call -> Int]
  <2>1. \A x \in Call : /\ CountedOf(t[x], d) \in Nat /\ StrayOf(t[x], d) \in Nat
                        /\ BookedOf(t[x], i, d) \in Nat /\ LateOf(t[x], i, d) \in Nat
    BY TermsTyped DEF Calls
  <2>2. QED
    BY <2>1
<1>2. \A k \in Call : k # c => /\ C(new)[k] = C(cs)[k] /\ S(new)[k] = S(cs)[k]
                               /\ B(new)[k] = B(cs)[k] /\ L(new)[k] = L(cs)[k]
  OBVIOUS
<1>3. /\ C(new)[c] = CountedOf(new[c], d) /\ C(cs)[c] = CountedOf(cs[c], d)
      /\ S(new)[c] = StrayOf(new[c], d) /\ S(cs)[c] = StrayOf(cs[c], d)
      /\ B(new)[c] = BookedOf(new[c], i, d) /\ B(cs)[c] = BookedOf(cs[c], i, d)
      /\ L(new)[c] = LateOf(new[c], i, d) /\ L(cs)[c] = LateOf(cs[c], i, d)
  OBVIOUS
<1>4. \A t : /\ Counted(t, d) = SumFunction(C(t)) /\ Strayed(t, d) = SumFunction(S(t))
             /\ Booked(t, i, d) = SumFunction(B(t)) /\ Late(t, i, d) = SumFunction(L(t))
  BY DEF Counted, Strayed, Booked, Late
<1>5. IsFiniteSet(Call)
  BY MeterAssumption
<1> HIDE DEF C, S, B, L
<1>6. SumFunction(C(new)) = SumFunction(C(cs)) + C(new)[c] - C(cs)[c]
  BY <1>1, <1>2, <1>5, SumChange
<1>7. SumFunction(S(new)) = SumFunction(S(cs)) + S(new)[c] - S(cs)[c]
  BY <1>1, <1>2, <1>5, SumChange
<1>8. SumFunction(B(new)) = SumFunction(B(cs)) + B(new)[c] - B(cs)[c]
  BY <1>1, <1>2, <1>5, SumChange
<1>9. SumFunction(L(new)) = SumFunction(L(cs)) + L(new)[c] - L(cs)[c]
  BY <1>1, <1>2, <1>5, SumChange
<1>10. QED
  BY <1>3, <1>4, <1>6, <1>7, <1>8, <1>9

\* The rows after a step that changes the call c and the row of a day e.
LEMMA RowsKept ==
    ASSUME MInv, NEW c \in Call, calls' \in Calls,
           \A k \in Call : k # c => calls'[k] = calls[k],
           NEW d \in Day,
           Spent(d)' <= CAP,
           Spent(d)' - Spent(d) <= CountedOf(calls'[c], d) - CountedOf(calls[c], d)
               \/ Spent(d)' = 0,
           CountedOf(calls'[c], d) - CountedOf(calls[c], d)
               <= Spent(d)' - Spent(d) + StrayOf(calls'[c], d) - StrayOf(calls[c], d),
           Spent(d) \in Nat, Spent(d)' \in Nat
    PROVE  RowOK(d)'
<1>1. calls \in Calls
  BY DEF MInv, TypeOK, Calls, CallRecord
<1>2. /\ Counted(calls', d) =
             Counted(calls, d) + CountedOf(calls'[c], d) - CountedOf(calls[c], d)
      /\ Strayed(calls', d) =
             Strayed(calls, d) + StrayOf(calls'[c], d) - StrayOf(calls[c], d)
  BY <1>1, OneCallChanges
<1>3. /\ Counted(calls, d) \in Nat /\ Strayed(calls, d) \in Nat
      /\ Counted(calls', d) \in Nat /\ Strayed(calls', d) \in Nat
  BY <1>1, TotalsTyped
<1>4. /\ CountedOf(calls'[c], d) \in Nat /\ CountedOf(calls[c], d) \in Nat
      /\ StrayOf(calls'[c], d) \in Nat /\ StrayOf(calls[c], d) \in Nat
  BY <1>1, TermsTyped DEF Calls
<1>5. Spent(d) <= Counted(calls, d) /\ Counted(calls, d) <= Spent(d) + Strayed(calls, d)
  BY DEF MInv, RowOK
<1>6. /\ Spent(d)' <= Counted(calls', d)
      /\ Counted(calls', d) <= Spent(d)' + Strayed(calls', d)
  BY <1>2, <1>3, <1>4, <1>5
<1>7. QED
  BY <1>6 DEF RowOK

\* What the instance i has in memory after a step that changes the call c.
LEMMA MemoryKept ==
    ASSUME MInv, ~configured, NEW c \in Call, calls' \in Calls,
           \A k \in Call : k # c => calls'[k] = calls[k],
           NEW i \in Instance, NEW d \in Day, ledger' \in Ledgers,
           BookedOf(calls'[c], i, d) - BookedOf(calls[c], i, d)
               <= Admits(ledger'[i], d) - Admits(ledger[i], d)
                      + LateOf(calls'[c], i, d) - LateOf(calls[c], i, d)
    PROVE  Booked(calls', i, d) <= Admits(ledger'[i], d) + Late(calls', i, d)
<1>1. calls \in Calls /\ ledger \in Ledgers
  BY DEF MInv, TypeOK, Calls, CallRecord, Ledgers
<1>2. /\ Booked(calls', i, d) =
             Booked(calls, i, d) + BookedOf(calls'[c], i, d) - BookedOf(calls[c], i, d)
      /\ Late(calls', i, d) =
             Late(calls, i, d) + LateOf(calls'[c], i, d) - LateOf(calls[c], i, d)
  BY <1>1, OneCallChanges
<1>3. Booked(calls, i, d) \in Nat /\ Late(calls, i, d) \in Nat
  BY <1>1, TotalsTyped
<1>4. /\ BookedOf(calls'[c], i, d) \in Nat /\ BookedOf(calls[c], i, d) \in Nat
      /\ LateOf(calls'[c], i, d) \in Nat /\ LateOf(calls[c], i, d) \in Nat
  BY <1>1, TermsTyped DEF Calls
<1>5. Admits(ledger[i], d) \in Nat /\ Admits(ledger'[i], d) \in Nat
  BY <1>1, MeterAssumption DEF Admits, Ledgers
<1>6. Booked(calls, i, d) <= Admits(ledger[i], d) + Late(calls, i, d)
  BY DEF MInv, MemoryOK
<1>7. QED
  BY <1>2, <1>3, <1>4, <1>5, <1>6

LEMMA MeterTyped ==
    ASSUME MInv
    PROVE  /\ calls \in Calls /\ ledger \in Ledgers /\ today \in Day /\ today \in Nat
           /\ \A c \in Call : calls[c] \in CallRecord
           /\ \A d \in Day : Spent(d) \in Nat /\ d \in Nat /\ d # Unset
           /\ CAP \in Nat
<1>1. calls \in Calls /\ ledger \in Ledgers /\ today \in Day /\ today \in Nat
  BY DEF MInv, TypeOK, Calls, CallRecord, Ledgers, Day
<1>2. \A d \in Day : Spent(d) \in Nat /\ d \in Nat /\ d # Unset
  BY DEF MInv, TypeOK, Spent, Day, Unset, NoRow
<1>3. QED
  BY <1>1, <1>2, MeterAssumption DEF Calls

\* What a step of the call c leaves of the row of a day.
RowStep(c, d) ==
    /\ Spent(d)' \in Nat
    /\ Spent(d)' <= CAP
    /\ \/ Spent(d)' - Spent(d) <= CountedOf(calls'[c], d) - CountedOf(calls[c], d)
       \/ Spent(d)' = 0
    /\ CountedOf(calls'[c], d) - CountedOf(calls[c], d)
           <= Spent(d)' - Spent(d) + StrayOf(calls'[c], d) - StrayOf(calls[c], d)

\* What it leaves of the memory of an instance.
MemoryStep(c, i) ==
    /\ hydration'[i].pc = "done"
    /\ ledger'[i].spent <= CAP
    /\ ledger'[i].dayKey <= today'
    /\ \A d \in Day :
           BookedOf(calls'[c], i, d) - BookedOf(calls[c], i, d)
               <= Admits(ledger'[i], d) - Admits(ledger[i], d)
                      + LateOf(calls'[c], i, d) - LateOf(calls[c], i, d)

\* What is left to show of a step that changes one call and no day.
LEMMA CallStep ==
    ASSUME MInv, NEW c \in Call, calls' \in Calls, ledger' \in Ledgers, TypeOK',
           \A k \in Call : k # c => calls'[k] = calls[k],
           UNCHANGED <<configured, today, hydration>>,
           CallOK(calls'[c]),
           \A d \in Day : RowStep(c, d),
           ~configured => InMemory(calls'[c]) /\ \A i \in Instance : MemoryStep(c, i)
    PROVE  MInv'
<1>1. \A k \in Call : CallOK(calls'[k])
  BY DEF MInv
<1>2. ASSUME NEW d \in Day PROVE RowOK(d)'
  <2>1. Spent(d) \in Nat
    BY MeterTyped
  <2>2. RowStep(c, d)
    OBVIOUS
  <2>3. QED
    BY <2>1, <2>2, RowsKept DEF RowStep
<1>3. MemoryOK'
  <2> SUFFICES ASSUME ~configured
               PROVE  /\ \A k \in Call : InMemory(calls'[k])
                      /\ \A i \in Instance :
                             /\ hydration'[i].pc = "done"
                             /\ ledger'[i].spent <= CAP
                             /\ ledger'[i].dayKey <= today'
                             /\ \A d \in Day :
                                    Booked(calls', i, d)
                                        <= Admits(ledger'[i], d) + Late(calls', i, d)
    BY DEF MemoryOK
  <2>1. \A k \in Call : InMemory(calls'[k])
    BY DEF MInv, MemoryOK
  <2>2. \A i \in Instance : MemoryStep(c, i)
    OBVIOUS
  <2>3. ASSUME NEW i \in Instance, NEW d \in Day
        PROVE  Booked(calls', i, d) <= Admits(ledger'[i], d) + Late(calls', i, d)
    BY <2>2, MemoryKept DEF MemoryStep
  <2>4. QED
    BY <2>1, <2>2, <2>3 DEF MemoryStep
<1>4. QED
  BY <1>1, <1>2, <1>3 DEF MInv

-----------------------------------------------------------------------------
(* One lemma for every action. *)

LEMMA AskStep ==
    ASSUME MInv, NEW c \in Call, NEW i \in Instance, NEW usd \in Amount, Ask(c, i, usd)
    PROVE  MInv'
<1>1. /\ calls \in Calls /\ ledger \in Ledgers /\ today \in Day /\ today \in Nat
      /\ calls[c] \in CallRecord
      /\ \A d \in Day : Spent(d) \in Nat /\ d \in Nat /\ d # Unset
      /\ CAP \in Nat /\ usd \in Nat
  BY MeterTyped, MeterAssumption
<1>2. calls[c].pc = "idle" /\ CallOK(calls[c])
  BY DEF Ask, MInv
<1>3. /\ UNCHANGED <<configured, faults, today, rows, hydration>>
      /\ ledger' = [ledger EXCEPT ![i] = Rolled(i)]
  BY DEF Ask
<1>4. /\ calls' \in Calls
      /\ \A k \in Call : k # c => calls'[k] = calls[k]
      /\ calls'[c].pc \in {"refused", "asking", "answered"}
      /\ ~configured => calls'[c].pc # "asking"
      /\ calls'[c].at = i /\ calls'[c].usd = usd /\ calls'[c].day = today
      /\ calls'[c].reply = calls[c].reply /\ calls'[c].durable = calls[c].durable
      /\ calls'[c].onRow = calls[c].onRow /\ calls'[c].booked = calls[c].booked
      /\ calls'[c].refundDay = calls[c].refundDay
  <2> DEFINE to == IF Rolled(i).spent + usd > CAP THEN "refused"
                   ELSE IF configured THEN "asking"
                   ELSE "answered"
             r == [calls[c] EXCEPT !.at = i, !.usd = usd, !.day = today, !.pc = to]
  <2>1. calls' = [calls EXCEPT ![c] = r]
    BY DEF Ask
  <2>2. to \in {"refused", "asking", "answered"} /\ (~configured => to # "asking")
    OBVIOUS
  <2>3. /\ i \in Instance \cup {NoInstance} /\ usd \in Amount \cup {0}
        /\ today \in {Unset} \cup Day
    BY <1>1
  <2> HIDE DEF to
  <2>4. r \in CallRecord
    BY <1>1, <2>2, <2>3 DEF CallRecord
  <2>5. /\ r.pc \in {"refused", "asking", "answered"} /\ (~configured => r.pc # "asking")
        /\ r.at = i /\ r.usd = usd /\ r.day = today
        /\ r.reply = calls[c].reply /\ r.durable = calls[c].durable
        /\ r.onRow = calls[c].onRow /\ r.booked = calls[c].booked
        /\ r.refundDay = calls[c].refundDay
    BY <1>1, <2>2 DEF CallRecord
  <2> HIDE DEF r
  <2>6. QED
    BY <1>1, <2>1, <2>4, <2>5 DEF Calls
<1>5. /\ ledger' \in Ledgers
      /\ ledger'[i] = Rolled(i) /\ Rolled(i).dayKey = today
      /\ \A j \in Instance : j # i => ledger'[j] = ledger[j]
  BY <1>1, <1>3 DEF Rolled, Ledgers
<1>6. TypeOK'
  BY <1>3, <1>4, <1>5 DEF MInv, TypeOK, Calls, CallRecord, Ledgers
<1>7. CallOK(calls'[c])
  BY <1>1, <1>2, <1>4 DEF CallOK, Failed
<1>8. ASSUME NEW d \in Day PROVE RowStep(c, d)
  <2>1. /\ CountedOf(calls'[c], d) = 0 /\ CountedOf(calls[c], d) = 0
        /\ StrayOf(calls'[c], d) = 0 /\ StrayOf(calls[c], d) = 0
    BY <1>2, <1>4 DEF CallOK, CountedOf, StrayOf
  <2>2. Spent(d)' = Spent(d) /\ Spent(d) <= CAP /\ Spent(d) \in Nat
    BY <1>1, <1>3 DEF Spent, MInv, RowOK
  <2>3. QED
    BY <2>1, <2>2 DEF RowStep
<1>9. ASSUME ~configured
      PROVE  InMemory(calls'[c]) /\ \A j \in Instance : MemoryStep(c, j)
  <2>1. /\ InMemory(calls[c])
        /\ \A j \in Instance : /\ hydration[j].pc = "done"
                               /\ ledger[j].spent <= CAP /\ ledger[j].dayKey <= today
    BY <1>9 DEF MInv, MemoryOK
  <2>2. InMemory(calls'[c])
    BY <1>2, <1>4, <1>9, <2>1 DEF InMemory
  <2>3. ASSUME NEW j \in Instance
        PROVE  MemoryStep(c, j)
    <3> DEFINE l == ledger[j]
               n == ledger'[j]
    <3>1. /\ l.dayKey \in Nat /\ l.spent \in Nat
          /\ l.dayKey <= today /\ l.spent <= CAP
      BY <1>1, <2>1 DEF Ledgers, Unset, Day
    <3>2. \/ n = l
          \/ n.dayKey = today /\ n.spent = 0 /\ l.dayKey # today
      BY <1>1, <1>5 DEF Rolled
    <3> HIDE DEF l, n
    <3>3. n.spent <= CAP /\ n.dayKey <= today
      BY <1>1, <3>1, <3>2
    <3>4. ASSUME NEW d \in Day
          PROVE  BookedOf(calls'[c], j, d) - BookedOf(calls[c], j, d)
                     <= Admits(n, d) - Admits(l, d)
                            + LateOf(calls'[c], j, d) - LateOf(calls[c], j, d)
      <4>1. /\ BookedOf(calls'[c], j, d) = 0 /\ BookedOf(calls[c], j, d) = 0
            /\ LateOf(calls'[c], j, d) = 0 /\ LateOf(calls[c], j, d) = 0
        BY <1>1, <1>2, <1>4 DEF CallOK, BookedOf, LateOf
      <4>2. Admits(l, d) <= Admits(n, d) /\ Admits(l, d) \in Nat /\ Admits(n, d) \in Nat
        BY <1>1, <3>1, <3>2 DEF Admits
      <4>3. QED
        BY <4>1, <4>2
    <3>5. QED
      BY <1>3, <2>1, <3>3, <3>4 DEF MemoryStep, l, n
  <2>4. QED
    BY <2>2, <2>3
<1>10. QED
  BY <1>3, <1>4, <1>5, <1>6, <1>7, <1>8, <1>9, CallStep

LEMMA DbReserveStep ==
    ASSUME MInv, NEW c \in Call, DbReserve(c)
    PROVE  MInv'
<1> DEFINE d0 == calls[c].day
           usd == calls[c].usd
           total == Spent(d0) + usd
           fits == Fits(d0, usd)
<1>1. /\ calls \in Calls /\ ledger \in Ledgers /\ today \in Day /\ today \in Nat
      /\ calls[c] \in CallRecord
      /\ \A d \in Day : Spent(d) \in Nat /\ d \in Nat /\ d # Unset
      /\ CAP \in Nat /\ usd \in Nat /\ rows \in [Day -> Nat \cup {NoRow}]
  <2>1. calls[c] \in CallRecord
    BY MeterTyped
  <2>2. usd \in Nat
    BY <2>1, TermsTyped
  <2>3. QED
    BY <2>1, <2>2, MeterTyped DEF MInv, TypeOK
<1>2. calls[c].pc = "asking" /\ CallOK(calls[c])
  BY DEF DbReserve, MInv
<1>3. d0 \in Day /\ ~calls[c].onRow /\ ~calls[c].durable /\ calls[c].refundDay = Unset
      /\ calls[c].at \in Instance
  BY <1>2 DEF CallOK
<1>4. PICK ran \in BOOLEAN, told \in BOOLEAN :
          /\ told => ran
          /\ faults' = faults \/ (faults < MaxFaults /\ faults' = faults + 1)
          /\ calls' = [calls EXCEPT ![c] =
                 [calls[c] EXCEPT !.pc = "answered", !.onRow = ran /\ fits,
                     !.reply = IF ~told THEN Failed ELSE IF fits THEN total ELSE Over]]
          /\ rows' = IF ran /\ fits THEN [rows EXCEPT ![d0] = total] ELSE rows
  BY DEF DbReserve, Fault
<1>5. UNCHANGED <<configured, today, ledger, hydration>>
  BY DEF DbReserve
<1>6. fits \in BOOLEAN /\ (fits => total <= CAP)
  BY DEF Fits
<1>7. total \in Nat
  <2>1. Spent(d0) \in Nat
    BY <1>1, <1>3
  <2>2. QED
    BY <1>1, <2>1
<1> DEFINE on == ran /\ fits
           answer == IF ~told THEN Failed ELSE IF fits THEN total ELSE Over
<1>8. /\ on \in BOOLEAN /\ answer \in Nat \cup {Over, Failed}
      /\ answer >= 0 => on
  BY <1>4, <1>6, <1>7 DEF Over, Failed
<1>9. rows' = IF on THEN [rows EXCEPT ![d0] = total] ELSE rows
  BY <1>4
<1>10. /\ calls' \in Calls
       /\ \A k \in Call : k # c => calls'[k] = calls[k]
       /\ calls'[c].pc = "answered" /\ calls'[c].onRow = on /\ calls'[c].reply = answer
       /\ calls'[c].at = calls[c].at /\ calls'[c].usd = usd /\ calls'[c].day = d0
       /\ calls'[c].durable = calls[c].durable /\ calls'[c].booked = calls[c].booked
       /\ calls'[c].refundDay = calls[c].refundDay
  <2> DEFINE r == [calls[c] EXCEPT !.pc = "answered", !.onRow = on, !.reply = answer]
  <2>1. calls' = [calls EXCEPT ![c] = r]
    BY <1>4
  <2> HIDE DEF on, answer
  <2>2. r \in CallRecord
    BY <1>1, <1>8 DEF CallRecord
  <2>3. /\ r.pc = "answered" /\ r.onRow = on /\ r.reply = answer
        /\ r.at = calls[c].at /\ r.usd = usd /\ r.day = d0
        /\ r.durable = calls[c].durable /\ r.booked = calls[c].booked
        /\ r.refundDay = calls[c].refundDay
    BY <1>1 DEF CallRecord
  <2> HIDE DEF r
  <2>4. QED
    BY <1>1, <2>1, <2>2, <2>3 DEF Calls
<1>11. /\ rows' \in [Day -> Nat \cup {NoRow}]
       /\ \A d \in Day : Spent(d)' = IF on /\ d = d0 THEN total ELSE Spent(d)
  <2>1. total # NoRow
    BY <1>7 DEF NoRow
  <2>2. rows' \in [Day -> Nat \cup {NoRow}]
        /\ \A d \in Day : rows'[d] = IF on /\ d = d0 THEN total ELSE rows[d]
    <3> HIDE DEF total, on
    <3>1. QED
      BY <1>1, <1>3, <1>7, <1>9
  <2> HIDE DEF total, on
  <2>3. QED
    BY <2>1, <2>2 DEF Spent
<1>12. on => total <= CAP
  BY <1>6
<1>13. total = Spent(d0) + usd
  OBVIOUS
<1> HIDE DEF on, answer, fits, total
<1>14. TypeOK'
  <2>1. faults' \in 0..MaxFaults
    <3>1. faults \in 0..MaxFaults /\ MaxFaults \in Nat
      BY MeterAssumption DEF MInv, TypeOK
    <3>2. QED
      BY <1>4, <3>1
  <2>2. QED
    BY <1>5, <1>10, <1>11, <2>1 DEF MInv, TypeOK, Calls, CallRecord
<1>15. CallOK(calls'[c])
  BY <1>1, <1>3, <1>8, <1>10 DEF CallOK
<1>16. ASSUME NEW d \in Day PROVE RowStep(c, d)
  <2>1. /\ CountedOf(calls[c], d) = 0
        /\ CountedOf(calls'[c], d) = (IF d = d0 /\ on THEN usd ELSE 0)
        /\ StrayOf(calls'[c], d) = 0 /\ StrayOf(calls[c], d) = 0
    BY <1>3, <1>10 DEF CountedOf, StrayOf
  <2>2. Spent(d) <= CAP /\ Spent(d) \in Nat
    BY <1>1 DEF MInv, RowOK
  <2>3. QED
    BY <1>1, <1>7, <1>11, <1>12, <1>13, <2>1, <2>2 DEF RowStep
<1>17. configured
  BY <1>2 DEF MInv, MemoryOK, InMemory
<1>18. QED
  BY <1>1, <1>5, <1>10, <1>14, <1>15, <1>16, <1>17, CallStep

\* A step that leaves the row and the call's part in it alone, of a call whose
\* refund is not under way.
LEMMA RowUntouched ==
    ASSUME MInv, NEW c \in Call, calls'[c] \in CallRecord, UNCHANGED rows,
           calls'[c].day = calls[c].day, calls'[c].usd = calls[c].usd,
           calls'[c].onRow = calls[c].onRow,
           \A d \in Day : StrayOf(calls[c], d) <= StrayOf(calls'[c], d)
    PROVE  \A d \in Day : RowStep(c, d)
<1> SUFFICES ASSUME NEW d \in Day PROVE RowStep(c, d)
  OBVIOUS
<1>1. Spent(d)' = Spent(d) /\ Spent(d) \in Nat /\ Spent(d) <= CAP
  BY MeterTyped DEF Spent, MInv, RowOK
<1>2. CountedOf(calls'[c], d) = CountedOf(calls[c], d)
  BY DEF CountedOf
<1>3. calls[c] \in CallRecord
  BY MeterTyped
<1>4. /\ CountedOf(calls[c], d) \in Nat
      /\ StrayOf(calls[c], d) \in Nat /\ StrayOf(calls'[c], d) \in Nat
  BY <1>3, TermsTyped
<1>5. QED
  BY <1>1, <1>2, <1>4 DEF RowStep

LEMMA ReservedStep ==
    ASSUME MInv, NEW c \in Call, Reserved(c)
    PROVE  MInv'
<1> DEFINE i == calls[c].at
           usd == calls[c].usd
           reply == calls[c].reply
           l == ledger[i]
<1>1. /\ calls \in Calls /\ ledger \in Ledgers /\ today \in Day /\ today \in Nat
      /\ calls[c] \in CallRecord
      /\ \A d \in Day : Spent(d) \in Nat /\ d \in Nat /\ d # Unset
      /\ CAP \in Nat /\ usd \in Nat
  <2>1. calls[c] \in CallRecord
    BY MeterTyped
  <2>2. usd \in Nat
    BY <2>1, TermsTyped
  <2>3. QED
    BY <2>1, <2>2, MeterTyped
<1>2. /\ calls[c].pc = "answered" /\ CallOK(calls[c])
      /\ UNCHANGED <<configured, faults, today, rows, hydration>>
  BY DEF Reserved, MInv
<1>3. /\ i \in Instance /\ ~calls[c].durable /\ calls[c].refundDay = Unset
      /\ calls[c].day \in Day /\ (reply >= 0 => calls[c].onRow)
  BY <1>2 DEF CallOK
<1>4. /\ l.dayKey \in {Unset} \cup Day /\ l.spent \in Nat
      /\ reply \in Nat \cup {Over, Failed}
  BY <1>1, <1>3 DEF Ledgers, CallRecord
<1>5. /\ calls' \in Calls
      /\ \A k \in Call : k # c => calls'[k] = calls[k]
      /\ calls'[c].usd = usd /\ calls'[c].day = calls[c].day
      /\ calls'[c].onRow = calls[c].onRow /\ calls'[c].refundDay = Unset
      /\ ledger' \in Ledgers
      /\ \A j \in Instance : j # i => ledger'[j] = ledger[j]
      /\ \/ /\ reply >= 0
            /\ calls'[c].pc = "paying" /\ calls'[c].at = i /\ calls'[c].durable
         \/ /\ reply = Failed /\ l.spent + usd <= CAP
            /\ ledger'[i].dayKey = l.dayKey /\ ledger'[i].spent = l.spent + usd
            /\ calls'[c].pc = "paying" /\ calls'[c].at = i /\ ~calls'[c].durable
            /\ calls'[c].booked = l.dayKey /\ calls'[c].reply = Failed
         \/ /\ ledger'[i] = l
            /\ calls'[c].pc = "refused" /\ ~calls'[c].durable /\ calls'[c].reply = Failed
            /\ calls'[c].at = NoInstance
  <2>1. CASE /\ reply >= 0
             /\ ledger' = [ledger EXCEPT ![i].spent = Larger(ledger[i].spent + usd, reply)]
             /\ calls' = [calls EXCEPT ![c] =
                    [calls[c] EXCEPT !.pc = "paying", !.reply = Failed, !.durable = TRUE]]
    <3> DEFINE r == [calls[c] EXCEPT !.pc = "paying", !.reply = Failed, !.durable = TRUE]
               more == Larger(ledger[i].spent + usd, reply)
    <3>1. more \in Nat
      <4>1. l.spent + usd \in Nat /\ reply \in Nat
        <5> HIDE DEF l, usd, reply
        <5>1. QED
          BY <1>1, <1>4, <2>1 DEF Over, Failed
      <4>2. QED
        BY <4>1 DEF Larger
    <3>2. r \in CallRecord
      BY <1>1 DEF CallRecord
    <3>3. /\ r.pc = "paying" /\ r.durable /\ r.at = i /\ r.usd = usd
          /\ r.day = calls[c].day /\ r.onRow = calls[c].onRow
          /\ r.refundDay = calls[c].refundDay
      BY <1>1 DEF CallRecord
    <3> HIDE DEF r, more
    <3>4. ledger' \in Ledgers /\ \A j \in Instance : j # i => ledger'[j] = ledger[j]
      BY <1>1, <1>3, <2>1, <3>1 DEF Ledgers, more
    <3>5. /\ calls' \in Calls /\ calls'[c] = r
          /\ \A k \in Call : k # c => calls'[k] = calls[k]
      BY <1>1, <2>1, <3>2 DEF Calls, r
    <3>6. QED
      BY <1>3, <2>1, <3>3, <3>4, <3>5
  <2>2. CASE /\ reply = Failed
             /\ Recheck(i, usd)
             /\ ledger' = [ledger EXCEPT ![i].spent = ledger[i].spent + usd]
             /\ calls' = [calls EXCEPT ![c] =
                    [calls[c] EXCEPT !.pc = "paying", !.booked = ledger[i].dayKey]]
    <3> DEFINE r == [calls[c] EXCEPT !.pc = "paying", !.booked = ledger[i].dayKey]
    <3>1. r \in CallRecord
      BY <1>1, <1>4 DEF CallRecord
    <3>2. /\ r.pc = "paying" /\ r.durable = calls[c].durable /\ r.at = i /\ r.usd = usd
          /\ r.day = calls[c].day /\ r.onRow = calls[c].onRow
          /\ r.refundDay = calls[c].refundDay /\ r.booked = l.dayKey /\ r.reply = reply
      BY <1>1 DEF CallRecord
    <3> HIDE DEF r
    <3>3. /\ ledger' \in Ledgers /\ \A j \in Instance : j # i => ledger'[j] = ledger[j]
          /\ ledger'[i].dayKey = l.dayKey /\ ledger'[i].spent = l.spent + usd
      BY <1>1, <1>3, <1>4, <2>2 DEF Ledgers
    <3>4. /\ calls' \in Calls /\ calls'[c] = r
          /\ \A k \in Call : k # c => calls'[k] = calls[k]
      BY <1>1, <2>2, <3>1 DEF Calls, r
    <3>5. l.spent + usd <= CAP
      BY <2>2 DEF Recheck
    <3>6. QED
      BY <1>3, <2>2, <3>2, <3>3, <3>4, <3>5
  <2>3. CASE /\ reply = Over \/ (reply = Failed /\ ~Recheck(i, usd))
             /\ calls' = [calls EXCEPT ![c] =
                    [calls[c] EXCEPT !.pc = "refused", !.reply = Failed, !.at = NoInstance]]
             /\ UNCHANGED ledger
    <3> DEFINE r == [calls[c] EXCEPT !.pc = "refused", !.reply = Failed, !.at = NoInstance]
    <3>1. r \in CallRecord
      BY <1>1 DEF CallRecord
    <3>2. /\ r.pc = "refused" /\ r.durable = calls[c].durable /\ r.usd = usd
          /\ r.day = calls[c].day /\ r.onRow = calls[c].onRow
          /\ r.refundDay = calls[c].refundDay /\ r.reply = Failed /\ r.at = NoInstance
      BY <1>1 DEF CallRecord
    <3> HIDE DEF r
    <3>3. /\ calls' \in Calls /\ calls'[c] = r
          /\ \A k \in Call : k # c => calls'[k] = calls[k]
      BY <1>1, <2>3, <3>1 DEF Calls, r
    <3>4. QED
      BY <1>1, <1>3, <2>3, <3>2, <3>3
  <2>4. QED
    BY <2>1, <2>2, <2>3 DEF Reserved
<1> HIDE DEF i, usd, reply, l
<1>6. TypeOK'
  BY <1>2, <1>5 DEF MInv, TypeOK, Calls, CallRecord, Ledgers
<1>7. CallOK(calls'[c])
  BY <1>1, <1>3, <1>4, <1>5 DEF CallOK
<1>8. \A d \in Day : RowStep(c, d)
  <2>1. \A d \in Day : StrayOf(calls[c], d) = 0 /\ StrayOf(calls'[c], d) = 0
    BY <1>1, <1>3, <1>5 DEF StrayOf
  <2>2. calls'[c] \in CallRecord
    BY <1>5 DEF Calls
  <2>3. QED
    BY <1>2, <1>5, <2>1, <2>2, RowUntouched DEF usd
<1>9. ASSUME ~configured
      PROVE  InMemory(calls'[c]) /\ \A j \in Instance : MemoryStep(c, j)
  <2>1. /\ InMemory(calls[c]) /\ reply = Failed
        /\ \A j \in Instance : /\ hydration[j].pc = "done"
                               /\ ledger[j].spent <= CAP /\ ledger[j].dayKey <= today
    BY <1>9 DEF MInv, MemoryOK, InMemory, reply
  <2>2. InMemory(calls'[c])
    BY <2>1, <1>5 DEF InMemory, Failed
  <2>3. ASSUME NEW j \in Instance
        PROVE  MemoryStep(c, j)
    <3> DEFINE lj == ledger[j]
               nj == ledger'[j]
    <3>1. lj.dayKey \in Nat /\ lj.spent \in Nat
      BY <1>1 DEF Ledgers, Unset, Day
    <3>2. \/ nj = lj /\ (j # i \/ calls'[c].pc = "refused")
          \/ /\ j = i /\ nj.dayKey = lj.dayKey /\ nj.spent = lj.spent + usd
             /\ nj.spent <= CAP
             /\ calls'[c].pc = "paying" /\ calls'[c].booked = lj.dayKey
      BY <1>5, <2>1 DEF l, Failed
    <3>3. nj.spent <= CAP /\ nj.dayKey <= today
      BY <2>1, <3>2
    <3>4. ASSUME NEW d \in Day
          PROVE  BookedOf(calls'[c], j, d) - BookedOf(calls[c], j, d)
                     <= Admits(nj, d) - Admits(lj, d)
                            + LateOf(calls'[c], j, d) - LateOf(calls[c], j, d)
      <4>1. BookedOf(calls[c], j, d) = 0
        BY <1>2 DEF BookedOf
      <4>2. LateOf(calls'[c], j, d) = 0 /\ LateOf(calls[c], j, d) = 0
        BY <1>1, <1>3, <1>5 DEF LateOf
      <4>3. BookedOf(calls'[c], j, d) =
                IF j = i /\ calls'[c].pc = "paying" /\ calls'[c].booked = d THEN usd ELSE 0
        <5>1. \/ calls'[c].pc = "paying" /\ calls'[c].at = i
              \/ calls'[c].pc = "refused"
          BY <1>5
        <5>2. QED
          BY <1>5, <5>1 DEF BookedOf
      <4> HIDE DEF lj, nj
      <4>4. CASE nj = lj /\ (j # i \/ calls'[c].pc = "refused")
        <5>1. BookedOf(calls'[c], j, d) = 0
          BY <4>3, <4>4
        <5>2. Admits(lj, d) \in Nat
          BY <1>1, <3>1 DEF Admits
        <5>3. QED
          BY <4>1, <4>2, <4>4, <5>1, <5>2
      <4>5. CASE /\ j = i /\ nj.dayKey = lj.dayKey /\ nj.spent = lj.spent + usd
                 /\ calls'[c].pc = "paying" /\ calls'[c].booked = lj.dayKey
        BY <1>1, <3>1, <4>1, <4>2, <4>3, <4>5 DEF Admits, usd
      <4>6. QED
        BY <3>2, <4>4, <4>5
    <3>5. QED
      BY <1>2, <2>1, <3>3, <3>4 DEF MemoryStep
  <2>4. QED
    BY <2>2, <2>3
<1>10. QED
  BY <1>2, <1>5, <1>6, <1>7, <1>8, <1>9, CallStep

LEMMA SettleStep ==
    ASSUME MInv, NEW c \in Call, Settle(c)
    PROVE  MInv'
<1>1. /\ calls \in Calls /\ ledger \in Ledgers /\ today \in Day /\ today \in Nat
      /\ calls[c] \in CallRecord
      /\ \A d \in Day : Spent(d) \in Nat /\ d \in Nat /\ d # Unset
      /\ CAP \in Nat
  BY MeterTyped
<1>2. /\ calls[c].pc = "paying" /\ CallOK(calls[c])
      /\ UNCHANGED <<configured, faults, today, ledger, rows, hydration>>
  BY DEF Settle, MInv
<1>3. /\ calls[c].at \in Instance /\ calls[c].refundDay = Unset /\ calls[c].day \in Day
      /\ (calls[c].durable => calls[c].onRow)
  BY <1>2 DEF CallOK
<1>4. /\ calls' \in Calls
      /\ \A k \in Call : k # c => calls'[k] = calls[k]
      /\ calls'[c].pc = "settled"
      /\ ~calls[c].durable => calls'[c].at = calls[c].at
      /\ calls'[c].usd = calls[c].usd /\ calls'[c].day = calls[c].day
      /\ calls'[c].reply = calls[c].reply /\ calls'[c].durable = calls[c].durable
      /\ calls'[c].onRow = calls[c].onRow /\ calls'[c].booked = calls[c].booked
      /\ calls'[c].refundDay = calls[c].refundDay
  <2> DEFINE a == IF calls[c].durable THEN NoInstance ELSE calls[c].at
             r == [calls[c] EXCEPT !.pc = "settled", !.at = a]
  <2>1. calls' = [calls EXCEPT ![c] = r]
    BY DEF Settle
  <2>2. a \in Instance \cup {NoInstance} /\ (~calls[c].durable => a = calls[c].at)
    BY <1>3
  <2> HIDE DEF a
  <2>3. r \in CallRecord
    BY <1>1, <2>2 DEF CallRecord
  <2>4. /\ r.pc = "settled" /\ r.at = a
        /\ r.usd = calls[c].usd /\ r.day = calls[c].day
        /\ r.reply = calls[c].reply /\ r.durable = calls[c].durable
        /\ r.onRow = calls[c].onRow /\ r.booked = calls[c].booked
        /\ r.refundDay = calls[c].refundDay
    BY <1>1 DEF CallRecord
  <2> HIDE DEF r
  <2>5. QED
    BY <1>1, <2>1, <2>2, <2>3, <2>4 DEF Calls
<1>5. TypeOK'
  BY <1>2, <1>4 DEF MInv, TypeOK, Calls, CallRecord
<1>6. CallOK(calls'[c])
  BY <1>1, <1>3, <1>4 DEF CallOK
<1>7. \A d \in Day : RowStep(c, d)
  <2>1. \A d \in Day : StrayOf(calls[c], d) = 0 /\ StrayOf(calls'[c], d) = 0
    BY <1>1, <1>3, <1>4 DEF StrayOf
  <2>2. calls'[c] \in CallRecord
    BY <1>4 DEF Calls
  <2>3. QED
    BY <1>2, <1>4, <2>1, <2>2, RowUntouched
<1>8. ASSUME ~configured
      PROVE  InMemory(calls'[c]) /\ \A j \in Instance : MemoryStep(c, j)
  <2>1. /\ InMemory(calls[c])
        /\ \A j \in Instance : /\ hydration[j].pc = "done"
                               /\ ledger[j].spent <= CAP /\ ledger[j].dayKey <= today
    BY <1>8 DEF MInv, MemoryOK
  <2>2. InMemory(calls'[c])
    BY <1>4, <2>1 DEF InMemory
  <2>3. ASSUME NEW j \in Instance
        PROVE  MemoryStep(c, j)
    <3>1. ASSUME NEW d \in Day
          PROVE  /\ BookedOf(calls'[c], j, d) - BookedOf(calls[c], j, d) = 0
                 /\ LateOf(calls'[c], j, d) - LateOf(calls[c], j, d) = 0
                 /\ Admits(ledger[j], d) \in Nat
      <4>1. /\ BookedOf(calls'[c], j, d) = BookedOf(calls[c], j, d)
            /\ LateOf(calls'[c], j, d) = LateOf(calls[c], j, d)
        BY <1>2, <1>4, <2>1 DEF BookedOf, LateOf, InMemory
      <4>2. BookedOf(calls[c], j, d) \in Nat /\ LateOf(calls[c], j, d) \in Nat
        BY <1>1, TermsTyped
      <4>3. Admits(ledger[j], d) \in Nat
        BY <1>1 DEF Admits, Ledgers
      <4>4. QED
        BY <4>1, <4>2, <4>3
    <3>2. QED
      BY <1>2, <2>1, <3>1 DEF MemoryStep
  <2>4. QED
    BY <2>2, <2>3
<1>9. QED
  BY <1>1, <1>2, <1>4, <1>5, <1>6, <1>7, <1>8, CallStep

LEMMA RefundStep ==
    ASSUME MInv, NEW c \in Call, Refund(c)
    PROVE  MInv'
<1> DEFINE i == calls[c].at
           usd == calls[c].usd
           left == Clamped(Rolled(i).spent, usd)
           new == [dayKey |-> today, spent |-> left]
<1>1. /\ calls \in Calls /\ ledger \in Ledgers /\ today \in Day /\ today \in Nat
      /\ calls[c] \in CallRecord
      /\ \A d \in Day : Spent(d) \in Nat /\ d \in Nat /\ d # Unset
      /\ CAP \in Nat /\ usd \in Nat
  <2>1. calls[c] \in CallRecord
    BY MeterTyped
  <2>2. usd \in Nat
    BY <2>1, TermsTyped
  <2>3. QED
    BY <2>1, <2>2, MeterTyped
<1>2. /\ calls[c].pc = "paying" /\ CallOK(calls[c])
      /\ UNCHANGED <<configured, faults, today, rows, hydration>>
      /\ ledger' = [ledger EXCEPT ![i] = new]
  BY DEF Refund, MInv
<1>3. /\ i \in Instance /\ calls[c].refundDay = Unset /\ calls[c].day \in Day
      /\ (calls[c].durable => calls[c].onRow)
  BY <1>2 DEF CallOK
<1>4. /\ calls' \in Calls
      /\ \A k \in Call : k # c => calls'[k] = calls[k]
      /\ calls'[c].pc = (IF calls[c].durable THEN "refunding" ELSE "refunded")
      /\ calls'[c].at = i /\ calls'[c].usd = usd /\ calls'[c].day = calls[c].day
      /\ calls'[c].reply = calls[c].reply /\ calls'[c].durable = calls[c].durable
      /\ calls'[c].onRow = calls[c].onRow /\ calls'[c].booked = calls[c].booked
      /\ calls'[c].refundDay = today
  <2> DEFINE to == IF calls[c].durable THEN "refunding" ELSE "refunded"
             r == [calls[c] EXCEPT !.refundDay = today, !.pc = to]
  <2>1. calls' = [calls EXCEPT ![c] = r]
    BY DEF Refund, Receipt
  <2>2. to \in {"refunding", "refunded"}
    OBVIOUS
  <2>3. r \in CallRecord
    <3> HIDE DEF to
    <3>1. QED
      BY <1>1, <2>2 DEF CallRecord
  <2>4. /\ r.pc = to /\ r.at = i
        /\ r.usd = calls[c].usd /\ r.day = calls[c].day
        /\ r.reply = calls[c].reply /\ r.durable = calls[c].durable
        /\ r.onRow = calls[c].onRow /\ r.booked = calls[c].booked
        /\ r.refundDay = today
    <3> HIDE DEF to
    <3>1. QED
      BY <1>1 DEF CallRecord
  <2> HIDE DEF r
  <2>5. QED
    BY <1>1, <2>1, <2>3, <2>4 DEF Calls
<1>5. /\ ledger[i].dayKey = today => left \in Nat /\ left <= ledger[i].spent
                                        /\ left >= ledger[i].spent - usd
      /\ ledger[i].dayKey # today => left = 0
      /\ left \in Nat
  <2> DEFINE before == Rolled(i).spent
  <2>1. /\ before = (IF ledger[i].dayKey = today THEN ledger[i].spent ELSE 0)
        /\ before \in Nat
    BY <1>1, <1>3 DEF Rolled, Ledgers
  <2> HIDE DEF before
  <2>2. Clamped(before, usd) \in Nat /\ Clamped(before, usd) <= before
        /\ Clamped(before, usd) >= before - usd
    <3> HIDE DEF usd
    <3>1. QED
      BY <1>1, <2>1 DEF Clamped, Larger
  <2>3. left = Clamped(before, usd)
    BY DEF before
  <2> HIDE DEF left
  <2>4. QED
    BY <2>1, <2>2, <2>3
<1> HIDE DEF left
<1>6. /\ ledger' \in Ledgers /\ ledger'[i].dayKey = today /\ ledger'[i].spent = left
      /\ \A j \in Instance : j # i => ledger'[j] = ledger[j]
  BY <1>1, <1>2, <1>3, <1>5 DEF Ledgers
<1> HIDE DEF i, usd, new
<1>7. TypeOK'
  BY <1>2, <1>4, <1>6 DEF MInv, TypeOK, Calls, CallRecord, Ledgers
<1>8. CallOK(calls'[c])
  BY <1>1, <1>3, <1>4 DEF CallOK
<1>9. \A d \in Day : RowStep(c, d)
  <2>1. \A d \in Day : StrayOf(calls[c], d) = 0 /\ StrayOf(calls'[c], d) = 0
    BY <1>1, <1>3, <1>4 DEF StrayOf
  <2>2. calls'[c] \in CallRecord
    BY <1>4 DEF Calls
  <2>3. QED
    BY <1>2, <1>4, <2>1, <2>2, RowUntouched DEF usd
<1>10. ASSUME ~configured
       PROVE  InMemory(calls'[c]) /\ \A j \in Instance : MemoryStep(c, j)
  <2>1. /\ InMemory(calls[c]) /\ ~calls[c].durable
        /\ \A j \in Instance : /\ hydration[j].pc = "done"
                               /\ ledger[j].spent <= CAP /\ ledger[j].dayKey <= today
    BY <1>10 DEF MInv, MemoryOK, InMemory
  <2>2. InMemory(calls'[c])
    BY <1>4, <2>1 DEF InMemory
  <2>3. ASSUME NEW j \in Instance
        PROVE  MemoryStep(c, j)
    <3> DEFINE lj == ledger[j]
               nj == ledger'[j]
    <3>1. /\ lj.dayKey \in Nat /\ lj.spent \in Nat
          /\ lj.spent <= CAP /\ lj.dayKey <= today
      BY <1>1, <2>1 DEF Ledgers, Unset, Day
    <3>2. \/ j # i /\ nj = lj
          \/ /\ j = i /\ nj.dayKey = today /\ nj.spent = left
      BY <1>6
    <3>3. j = i => /\ lj.dayKey = today => left <= lj.spent /\ left >= lj.spent - usd
                   /\ lj.dayKey # today => left = 0
      BY <1>5
    <3> HIDE DEF lj, nj
    <3>4. nj.spent <= CAP /\ nj.dayKey <= today
      BY <1>1, <1>5, <3>1, <3>2, <3>3
    <3>5. ASSUME NEW d \in Day
          PROVE  BookedOf(calls'[c], j, d) - BookedOf(calls[c], j, d)
                     <= Admits(nj, d) - Admits(lj, d)
                            + LateOf(calls'[c], j, d) - LateOf(calls[c], j, d)
      <4>1. /\ BookedOf(calls'[c], j, d) = 0
            /\ BookedOf(calls[c], j, d) =
                   IF j = i /\ calls[c].booked = d THEN usd ELSE 0
            /\ LateOf(calls[c], j, d) = 0
            /\ LateOf(calls'[c], j, d) =
                   IF j = i /\ d = today /\ calls[c].booked # d THEN usd ELSE 0
        <5>1. calls'[c].pc \notin {"paying", "settled"}
          BY <1>4
        <5>2. QED
          BY <1>1, <1>2, <1>3, <1>4, <5>1 DEF BookedOf, LateOf, i, usd
      <4>2. CASE j # i
        <5>1. nj = lj
          BY <3>2, <4>2
        <5>2. Admits(lj, d) \in Nat
          BY <1>1, <3>1 DEF Admits
        <5>3. QED
          BY <4>1, <4>2, <5>1, <5>2
      <4>3. CASE j = i /\ d = today
        <5>1. /\ Admits(nj, d) = left
              /\ Admits(lj, d) = IF lj.dayKey = today THEN lj.spent ELSE 0
          BY <1>1, <3>1, <3>2, <4>3 DEF Admits
        <5>2. Admits(nj, d) - Admits(lj, d) >= 0 - usd /\ left \in Nat
          BY <1>1, <1>5, <3>1, <3>3, <4>3, <5>1 DEF usd
        <5>3. Admits(nj, d) \in Nat /\ Admits(lj, d) \in Nat /\ usd \in Nat
          BY <1>1, <1>5, <3>1, <5>1 DEF usd
        <5>4. QED
          BY <4>1, <4>3, <5>2, <5>3
      <4>4. CASE j = i /\ d # today
        <5>1. Admits(nj, d) >= Admits(lj, d) /\ Admits(nj, d) \in Nat /\ Admits(lj, d) \in Nat
          BY <1>1, <3>1, <3>2, <4>4 DEF Admits
        <5>2. usd \in Nat
          BY <1>1 DEF usd
        <5>3. QED
          BY <4>1, <4>4, <5>1, <5>2
      <4>5. QED
        BY <4>2, <4>3, <4>4
    <3>6. QED
      BY <1>2, <2>1, <3>4, <3>5 DEF MemoryStep, lj, nj
  <2>4. QED
    BY <2>2, <2>3
<1>11. QED
  BY <1>2, <1>4, <1>6, <1>7, <1>8, <1>9, <1>10, CallStep

LEMMA DbDecrementStep ==
    ASSUME MInv, NEW c \in Call, DbDecrement(c)
    PROVE  MInv'
<1> DEFINE d0 == calls[c].refundDay
           usd == calls[c].usd
           left == Clamped(Spent(d0), usd)
<1>1. /\ calls \in Calls /\ ledger \in Ledgers /\ today \in Day /\ today \in Nat
      /\ calls[c] \in CallRecord
      /\ \A d \in Day : Spent(d) \in Nat /\ d \in Nat /\ d # Unset
      /\ CAP \in Nat /\ usd \in Nat /\ rows \in [Day -> Nat \cup {NoRow}]
  <2>1. calls[c] \in CallRecord
    BY MeterTyped
  <2>2. usd \in Nat
    BY <2>1, TermsTyped
  <2>3. QED
    BY <2>1, <2>2, MeterTyped DEF MInv, TypeOK
<1>2. calls[c].pc = "refunding" /\ CallOK(calls[c])
  BY DEF DbDecrement, MInv
<1>3. d0 \in Day /\ calls[c].onRow /\ calls[c].durable /\ calls[c].at \in Instance
      /\ calls[c].day \in Day
  BY <1>2 DEF CallOK
<1>4. PICK ran \in BOOLEAN, told \in BOOLEAN :
          /\ told => ran
          /\ faults' = faults \/ (faults < MaxFaults /\ faults' = faults + 1)
          /\ calls' = [calls EXCEPT ![c] =
                 [calls[c] EXCEPT !.pc = "credited",
                     !.reply = IF told THEN left ELSE Failed,
                     !.onRow = calls[c].onRow /\ ~(ran /\ d0 = calls[c].day)]]
          /\ rows' = IF ran /\ rows[d0] # NoRow THEN [rows EXCEPT ![d0] = left] ELSE rows
  BY DEF DbDecrement, Fault
<1>5. UNCHANGED <<configured, today, ledger, hydration>>
  BY DEF DbDecrement
<1>6. /\ left \in Nat /\ left <= Spent(d0)
      /\ left = 0 \/ left = Spent(d0) - usd
  <2>1. Spent(d0) \in Nat
    BY <1>1, <1>3
  <2> HIDE DEF usd
  <2>2. QED
    BY <1>1, <2>1 DEF Clamped, Larger
<1> DEFINE on == calls[c].onRow /\ ~(ran /\ d0 = calls[c].day)
           answer == IF told THEN left ELSE Failed
<1>7. /\ on \in BOOLEAN /\ (on <=> ~(ran /\ d0 = calls[c].day))
      /\ answer \in Nat \cup {Failed}
  <2> HIDE DEF left
  <2>1. QED
    BY <1>3, <1>4, <1>6
<1>8. /\ calls' \in Calls
      /\ \A k \in Call : k # c => calls'[k] = calls[k]
      /\ calls'[c].pc = "credited" /\ calls'[c].onRow = on /\ calls'[c].reply = answer
      /\ calls'[c].at = calls[c].at /\ calls'[c].usd = usd /\ calls'[c].day = calls[c].day
      /\ calls'[c].durable = calls[c].durable /\ calls'[c].booked = calls[c].booked
      /\ calls'[c].refundDay = d0
  <2> DEFINE r == [calls[c] EXCEPT !.pc = "credited", !.reply = answer, !.onRow = on]
  <2>1. calls' = [calls EXCEPT ![c] = r]
    BY <1>4
  <2> HIDE DEF on, answer
  <2>2. r \in CallRecord
    BY <1>1, <1>7 DEF CallRecord
  <2>3. /\ r.pc = "credited" /\ r.onRow = on /\ r.reply = answer
        /\ r.at = calls[c].at /\ r.usd = usd /\ r.day = calls[c].day
        /\ r.durable = calls[c].durable /\ r.booked = calls[c].booked
        /\ r.refundDay = d0
    BY <1>1 DEF CallRecord
  <2> HIDE DEF r
  <2>4. QED
    BY <1>1, <2>1, <2>2, <2>3 DEF Calls
<1> DEFINE wrote == ran /\ rows[d0] # NoRow
<1>9. /\ rows' \in [Day -> Nat \cup {NoRow}]
      /\ \A d \in Day : Spent(d)' = IF wrote /\ d = d0 THEN left ELSE Spent(d)
  <2>1. left # NoRow
    <3> HIDE DEF left
    <3>1. QED
      BY <1>6 DEF NoRow
  <2>2. rows' \in [Day -> Nat \cup {NoRow}]
        /\ \A d \in Day : rows'[d] = IF wrote /\ d = d0 THEN left ELSE rows[d]
    <3>1. rows' = IF wrote THEN [rows EXCEPT ![d0] = left] ELSE rows
      BY <1>4
    <3> HIDE DEF left, wrote
    <3>2. QED
      BY <1>1, <1>3, <1>6, <3>1
  <2> HIDE DEF left, wrote
  <2>3. QED
    BY <2>1, <2>2 DEF Spent
<1>10. ran /\ ~wrote => Spent(d0) = 0
  BY DEF Spent
<1>11. wrote => ran
  OBVIOUS
<1> HIDE DEF on, answer, left, wrote
<1>12. TypeOK'
  <2>1. faults' \in 0..MaxFaults
    <3>1. faults \in 0..MaxFaults /\ MaxFaults \in Nat
      BY MeterAssumption DEF MInv, TypeOK
    <3>2. QED
      BY <1>4, <3>1
  <2>2. QED
    BY <1>5, <1>8, <1>9, <2>1 DEF MInv, TypeOK, Calls, CallRecord
<1>13. CallOK(calls'[c])
  BY <1>1, <1>3, <1>7, <1>8 DEF CallOK, Over, Failed
<1>14. ASSUME NEW d \in Day PROVE RowStep(c, d)
  <2>1. /\ CountedOf(calls[c], d) = (IF d = calls[c].day THEN usd ELSE 0)
        /\ CountedOf(calls'[c], d) = (IF d = calls[c].day /\ on THEN usd ELSE 0)
        /\ StrayOf(calls[c], d) = 0
        /\ StrayOf(calls'[c], d) = (IF d = d0 /\ d # calls[c].day THEN usd ELSE 0)
    BY <1>2, <1>3, <1>8 DEF CountedOf, StrayOf
  <2>2. Spent(d) <= CAP /\ Spent(d) \in Nat
    BY <1>1 DEF MInv, RowOK
  <2> HIDE DEF usd, d0
  <2>3. CASE d # d0
    <3>1. Spent(d)' = Spent(d)
      BY <1>9, <2>3
    <3>2. CountedOf(calls'[c], d) = CountedOf(calls[c], d) /\ StrayOf(calls'[c], d) = 0
      BY <1>7, <2>1, <2>3
    <3>3. CountedOf(calls[c], d) \in Nat
      BY <1>1, <2>1
    <3>4. QED
      BY <2>1, <2>2, <3>1, <3>2, <3>3 DEF RowStep
  <2>4. CASE d = d0 /\ wrote
    <3>1. Spent(d)' = left
      BY <1>9, <2>4
    <3>2. \/ /\ d = calls[c].day /\ CountedOf(calls'[c], d) = 0
             /\ CountedOf(calls[c], d) = usd /\ StrayOf(calls'[c], d) = 0
          \/ /\ CountedOf(calls'[c], d) = 0 /\ CountedOf(calls[c], d) = 0
             /\ StrayOf(calls'[c], d) = usd
      BY <1>7, <1>11, <2>1, <2>4
    <3>3. left \in Nat /\ left <= Spent(d) /\ (left = 0 \/ left = Spent(d) - usd)
      BY <1>6, <2>4 DEF left
    <3>4. left >= Spent(d) - usd
      BY <1>6, <2>4, <3>3, <1>1, <2>2 DEF left, Clamped, Larger
    <3>5. QED
      BY <1>1, <2>1, <2>2, <3>1, <3>2, <3>3, <3>4 DEF RowStep
  <2>5. CASE d = d0 /\ ~wrote
    <3>1. Spent(d)' = Spent(d) /\ (ran => Spent(d) = 0)
      BY <1>9, <1>10, <2>5
    <3>2. /\ ~ran => CountedOf(calls'[c], d) = CountedOf(calls[c], d)
          /\ StrayOf(calls'[c], d) \in Nat /\ CountedOf(calls[c], d) \in Nat
          /\ CountedOf(calls'[c], d) \in Nat
          /\ CountedOf(calls'[c], d) <= CountedOf(calls[c], d)
      BY <1>1, <1>7, <2>1, <2>5
    <3>3. QED
      BY <2>1, <2>2, <3>1, <3>2 DEF RowStep
  <2>6. QED
    BY <2>3, <2>4, <2>5
<1>15. configured
  BY <1>2 DEF MInv, MemoryOK, InMemory
<1>16. QED
  BY <1>1, <1>5, <1>8, <1>12, <1>13, <1>14, <1>15, CallStep

LEMMA RefundedStep ==
    ASSUME MInv, NEW c \in Call, Refunded(c)
    PROVE  MInv'
<1> DEFINE i == calls[c].at
           reply == calls[c].reply
<1>1. /\ calls \in Calls /\ ledger \in Ledgers /\ today \in Day /\ today \in Nat
      /\ calls[c] \in CallRecord
      /\ \A d \in Day : Spent(d) \in Nat /\ d \in Nat /\ d # Unset
      /\ CAP \in Nat
  BY MeterTyped
<1>2. /\ calls[c].pc = "credited" /\ CallOK(calls[c])
      /\ UNCHANGED <<configured, faults, today, rows, hydration>>
      /\ ledger' = IF reply = Failed THEN ledger ELSE [ledger EXCEPT ![i].spent = reply]
  BY DEF Refunded, MInv
<1>3. /\ i \in Instance /\ calls[c].day \in Day /\ reply \in Nat \cup {Failed}
  BY <1>1, <1>2 DEF CallOK, CallRecord
<1>4. /\ calls' \in Calls
      /\ \A k \in Call : k # c => calls'[k] = calls[k]
      /\ calls'[c].pc = "refunded" /\ calls'[c].reply = Failed /\ calls'[c].at = NoInstance
      /\ calls'[c].usd = calls[c].usd /\ calls'[c].day = calls[c].day
      /\ calls'[c].durable = calls[c].durable
      /\ calls'[c].onRow = calls[c].onRow /\ calls'[c].booked = calls[c].booked
      /\ calls'[c].refundDay = calls[c].refundDay
  <2> DEFINE r == [calls[c] EXCEPT !.pc = "refunded", !.reply = Failed, !.at = NoInstance]
  <2>1. calls' = [calls EXCEPT ![c] = r]
    BY DEF Refunded
  <2>2. r \in CallRecord
    BY <1>1 DEF CallRecord
  <2>3. /\ r.pc = "refunded" /\ r.at = NoInstance /\ r.reply = Failed
        /\ r.usd = calls[c].usd /\ r.day = calls[c].day
        /\ r.durable = calls[c].durable
        /\ r.onRow = calls[c].onRow /\ r.booked = calls[c].booked
        /\ r.refundDay = calls[c].refundDay
    BY <1>1 DEF CallRecord
  <2> HIDE DEF r
  <2>4. QED
    BY <1>1, <2>1, <2>2, <2>3 DEF Calls
<1>5. ledger' \in Ledgers
  <2> HIDE DEF i, reply
  <2>1. QED
    BY <1>1, <1>2, <1>3 DEF Ledgers
<1>6. TypeOK'
  BY <1>2, <1>4, <1>5 DEF MInv, TypeOK, Calls, CallRecord, Ledgers
<1>7. CallOK(calls'[c])
  BY <1>1, <1>2, <1>3, <1>4 DEF CallOK, Failed
<1>8. \A d \in Day : RowStep(c, d)
  <2>1. calls[c] \in CallRecord /\ calls'[c] \in CallRecord
    BY <1>1, <1>4 DEF Calls
  <2>2. ASSUME NEW d \in Day PROVE StrayOf(calls[c], d) <= StrayOf(calls'[c], d)
    <3>1. StrayOf(calls[c], d) = StrayOf(calls'[c], d)
      BY <1>2, <1>4 DEF StrayOf
    <3>2. QED
      BY <2>1, <3>1, TermsTyped
  <2>3. QED
    BY <1>2, <1>4, <2>1, <2>2, RowUntouched
<1>9. configured
  BY <1>2 DEF MInv, MemoryOK, InMemory
<1>10. QED
  BY <1>1, <1>2, <1>4, <1>5, <1>6, <1>7, <1>8, <1>9, CallStep

\* Steps that leave the calls and the rows alone.
LEMMA CallsUntouched ==
    ASSUME MInv, UNCHANGED <<configured, rows, calls>>
    PROVE  /\ \A c \in Call : CallOK(calls'[c])
           /\ \A d \in Day : RowOK(d)'
<1>1. \A d \in Day : RowOK(d)'
  BY DEF MInv, RowOK, Spent
<1>2. QED
  BY <1>1 DEF MInv

LEMMA HydrationStep ==
    ASSUME MInv, NEW i \in Instance, DbHydrate(i) \/ Hydrated(i)
    PROVE  MInv'
<1> DEFINE h == hydration[i]
           Notes == [pc : {"asked", "read", "done"}, day : {Unset} \cup Day,
                     spent : Nat \cup {NoRow}]
<1>1. /\ h.pc # "done"
      /\ UNCHANGED <<configured, today, rows, calls>>
  BY DEF DbHydrate, Hydrated
<1>2. configured
  BY <1>1 DEF MInv, MemoryOK
<1>3. /\ hydration \in [Instance -> Notes] /\ h \in Notes /\ h.day \in Day
      /\ ledger \in Ledgers /\ ledger[i] \in [dayKey : {Unset} \cup Day, spent : Nat]
      /\ faults \in 0..MaxFaults /\ MaxFaults \in Nat
      /\ rows[h.day] \in Nat \cup {NoRow}
  BY <1>1, MeterAssumption DEF MInv, TypeOK, Ledgers
<1>4. /\ hydration' \in [Instance -> Notes]
      /\ \A j \in Instance : hydration'[j].pc # "done" => hydration'[j].day \in Day
  <2>1. CASE hydration' = [hydration EXCEPT ![i] = [h EXCEPT !.pc = "read",
                                                           !.spent = rows[h.day]]]
    <3> DEFINE r == [h EXCEPT !.pc = "read", !.spent = rows[h.day]]
    <3>1. r \in Notes /\ r.day = h.day
      BY <1>3
    <3> HIDE DEF r
    <3>2. hydration' = [hydration EXCEPT ![i] = r]
      BY <2>1 DEF r
    <3> HIDE DEF Notes
    <3>3. \A j \in Instance : hydration[j].pc # "done" => hydration[j].day \in Day
      BY DEF MInv
    <3>4. QED
      BY <1>3, <3>1, <3>2, <3>3
  <2>2. CASE hydration' = [hydration EXCEPT ![i] = Quiet]
    <3>1. Quiet \in Notes /\ Quiet.pc = "done"
      BY DEF Quiet
    <3> HIDE DEF Notes
    <3>2. \A j \in Instance : hydration[j].pc # "done" => hydration[j].day \in Day
      BY DEF MInv
    <3>3. QED
      BY <1>3, <2>2, <3>1, <3>2
  <2>3. QED
    BY <2>1, <2>2 DEF DbHydrate, Hydrated
<1>5. ledger' \in Ledgers /\ faults' \in 0..MaxFaults
  <2>1. CASE DbHydrate(i)
    BY <1>3, <2>1 DEF DbHydrate, Fault
  <2>2. CASE Hydrated(i)
    <3>1. faults' = faults
      BY <2>2 DEF Hydrated
    <3> DEFINE new == [dayKey |-> h.day, spent |-> Larger(ledger[i].spent, h.spent)]
    <3>2. CASE h.spent = NoRow
      BY <1>3, <2>2, <3>1, <3>2 DEF Hydrated
    <3>3. CASE h.spent # NoRow
      <4>1. ledger' = [ledger EXCEPT ![i] = new]
        BY <2>2, <3>3 DEF Hydrated
      <4>2. h.spent \in Nat /\ ledger[i].spent \in Nat
        BY <1>3, <3>3
      <4>3. new \in [dayKey : {Unset} \cup Day, spent : Nat]
        <5>1. Larger(ledger[i].spent, h.spent) \in Nat
          BY <4>2 DEF Larger
        <5>2. QED
          BY <1>3, <5>1
      <4> HIDE DEF new
      <4>4. QED
        BY <1>3, <3>1, <4>1, <4>3 DEF Ledgers
    <3>4. QED
      BY <3>2, <3>3
  <2>3. QED
    BY <2>1, <2>2
<1>6. TypeOK'
  BY <1>1, <1>4, <1>5 DEF MInv, TypeOK, Ledgers
<1>7. QED
  BY <1>1, <1>2, <1>4, <1>6, CallsUntouched DEF MInv, MemoryOK

LEMMA MidnightStep ==
    ASSUME MInv, Midnight
    PROVE  MInv'
<1>1. /\ UNCHANGED <<configured, faults, ledger, rows, calls, hydration>>
      /\ today' \in Day /\ today < today'
  BY MeterAssumption DEF Midnight, MInv, TypeOK, Day
<1>2. TypeOK'
  BY <1>1 DEF MInv, TypeOK
<1>3. MemoryOK'
  <2>1. \A i \in Instance : ledger[i].dayKey \in Nat
    BY MeterTyped DEF Ledgers, Unset, Day
  <2>2. today \in Nat /\ today' \in Nat
    BY <1>1, MeterTyped DEF Day
  <2>3. \A i \in Instance : ledger[i].dayKey <= today => ledger[i].dayKey <= today'
    BY <1>1, <2>1, <2>2
  <2>4. QED
    BY <1>1, <2>3 DEF MInv, MemoryOK
<1>4. QED
  BY <1>1, <1>2, <1>3, CallsUntouched DEF MInv

\* The calls of the instance that stopped are of no instance; the refund of one whose
\* statement was on its way is taken for a stray.
LEMMA RestartStep ==
    ASSUME MInv, NEW i \in Instance, Restart(i)
    PROVE  MInv'
<1> DEFINE to(c) == CASE calls[c].pc = "paying" -> "settled"
                      [] calls[c].pc \in {"asking", "answered", "refunding", "credited"} -> "gone"
                      [] OTHER -> calls[c].pc
           r(c) == [calls[c] EXCEPT !.at = NoInstance, !.reply = Failed, !.pc = to(c)]
<1>1. /\ calls \in Calls /\ ledger \in Ledgers /\ today \in Day /\ today \in Nat
      /\ \A c \in Call : calls[c] \in CallRecord
      /\ \A d \in Day : Spent(d) \in Nat /\ d \in Nat /\ d # Unset
      /\ CAP \in Nat
  BY MeterTyped
<1>2. /\ UNCHANGED <<configured, today, rows>>
      /\ ledger' = [ledger EXCEPT ![i] = [dayKey |-> Unset, spent |-> 0]]
      /\ hydration' = [hydration EXCEPT ![i] = Booted]
      /\ calls' = [c \in Call |-> IF calls[c].at # i THEN calls[c] ELSE r(c)]
      /\ faults' \in 0..MaxFaults
  <2>1. faults \in 0..MaxFaults /\ MaxFaults \in Nat
    BY MeterAssumption DEF MInv, TypeOK
  <2>2. faults < MaxFaults /\ faults' = faults + 1
    BY DEF Restart, Fault
  <2>3. faults' \in 0..MaxFaults
    BY <2>1, <2>2
  <2>4. calls' = [c \in Call |-> IF calls[c].at # i THEN calls[c] ELSE r(c)]
    BY Zenon DEF Restart
  <2>5. QED
    BY <2>3, <2>4 DEF Restart
<1>3. ASSUME NEW c \in Call
      PROVE  /\ r(c) \in CallRecord
             /\ r(c).at = NoInstance /\ r(c).reply = Failed /\ r(c).pc = to(c)
             /\ r(c).usd = calls[c].usd /\ r(c).day = calls[c].day
             /\ r(c).durable = calls[c].durable
             /\ r(c).onRow = calls[c].onRow /\ r(c).booked = calls[c].booked
             /\ r(c).refundDay = calls[c].refundDay
  <2> DEFINE t == to(c)
             k == [calls[c] EXCEPT !.at = NoInstance, !.reply = Failed, !.pc = t]
  <2>1. calls[c] \in CallRecord
    BY <1>1
  <2>2. t \in {"idle", "refused", "settled", "refunded", "gone"}
    <3>1. calls[c].pc \in {"idle", "refused", "asking", "answered", "paying", "settled",
                           "refunding", "credited", "refunded", "gone"}
      BY <2>1 DEF CallRecord
    <3>2. QED
      BY <3>1
  <2> HIDE DEF t
  <2>3. k \in CallRecord
    BY <2>1, <2>2 DEF CallRecord
  <2>4. /\ k.at = NoInstance /\ k.reply = Failed /\ k.pc = t
        /\ k.usd = calls[c].usd /\ k.day = calls[c].day
        /\ k.durable = calls[c].durable
        /\ k.onRow = calls[c].onRow /\ k.booked = calls[c].booked
        /\ k.refundDay = calls[c].refundDay
    BY <2>1 DEF CallRecord
  <2>5. QED
    BY <2>3, <2>4 DEF t
<1>4. \A c \in Call : calls[c].at = i => calls[c].pc # "idle"
  BY MeterAssumption DEF MInv, CallOK
<1>5. \A c \in Call :
          /\ \/ to(c) \notin {"idle", "asking", "answered", "paying", "refunding", "credited"}
             \/ calls[c].pc = "idle"
          /\ to(c) = "settled" => calls[c].pc \in {"paying", "settled"}
  BY <1>1
<1> HIDE DEF to, r
<1>6. /\ calls' \in Calls
      /\ \A c \in Call :
             \/ calls[c].at # i /\ calls'[c] = calls[c]
             \/ calls[c].at = i /\ calls'[c] = r(c)
  BY <1>1, <1>2, <1>3 DEF Calls
<1>7. /\ ledger' \in Ledgers
      /\ ledger'[i].dayKey = Unset /\ ledger'[i].spent = 0
      /\ \A j \in Instance : j # i => ledger'[j] = ledger[j]
  BY <1>1, <1>2 DEF Ledgers
<1>8. /\ hydration' \in [Instance -> [pc : {"asked", "read", "done"},
                                      day : {Unset} \cup Day, spent : Nat \cup {NoRow}]]
      /\ hydration'[i] = Booted
      /\ \A j \in Instance : j # i => hydration'[j] = hydration[j]
      /\ \A j \in Instance : hydration'[j].pc # "done" => hydration'[j].day \in Day
  <2>1. /\ Booted \in [pc : {"asked", "read", "done"},
                       day : {Unset} \cup Day, spent : Nat \cup {NoRow}]
        /\ Booted.pc # "done" => Booted.day \in Day
    BY <1>1 DEF Booted, Quiet
  <2>2. QED
    BY <1>2, <2>1 DEF MInv, TypeOK
<1>9. TypeOK'
  BY <1>2, <1>6, <1>7, <1>8 DEF MInv, TypeOK, Calls, CallRecord, Ledgers
<1>10. ASSUME NEW c \in Call PROVE CallOK(calls'[c])
  <2>1. CallOK(calls[c])
    BY DEF MInv
  <2>2. calls[c].at = i => CallOK(r(c))
    BY <1>3, <1>4, <1>5, <2>1 DEF CallOK, Failed
  <2>3. QED
    BY <1>6, <2>1, <2>2
<1>11. ASSUME NEW d \in Day PROVE RowOK(d)'
  <2> DEFINE C(cs) == [c \in Call |-> CountedOf(cs[c], d)]
             S(cs) == [c \in Call |-> StrayOf(cs[c], d)]
  <2>1. ASSUME NEW c \in Call
        PROVE  /\ CountedOf(calls'[c], d) = CountedOf(calls[c], d)
               /\ StrayOf(calls[c], d) <= StrayOf(calls'[c], d)
               /\ StrayOf(calls[c], d) \in Nat /\ StrayOf(calls'[c], d) \in Nat
    <3>1. /\ CountedOf(r(c), d) = CountedOf(calls[c], d)
          /\ StrayOf(calls[c], d) # 0 => StrayOf(calls[c], d) = calls[c].usd
          /\ calls[c].at = i /\ StrayOf(calls[c], d) # 0 => StrayOf(r(c), d) = calls[c].usd
      BY <1>3, <1>4, <1>5 DEF CountedOf, StrayOf
    <3>2. /\ StrayOf(calls[c], d) \in Nat /\ StrayOf(r(c), d) \in Nat
      BY <1>1, <1>3, TermsTyped
    <3>3. QED
      BY <1>6, <3>1, <3>2
  <2>2. C(calls') = C(calls)
    BY <2>1
  <2>3. /\ S(calls) \in [Call -> Int] /\ S(calls') \in [Call -> Int]
        /\ \A c \in Call : S(calls)[c] <= S(calls')[c]
    BY <2>1
  <2>4. IsFiniteSet(Call)
    BY MeterAssumption
  <2>5. SumFunction(S(calls)) <= SumFunction(S(calls'))
    <3> HIDE DEF S
    <3>1. QED
      BY <2>3, <2>4, SumMonotone
  <2>6. Strayed(calls, d) <= Strayed(calls', d) /\ Counted(calls', d) = Counted(calls, d)
    BY <2>2, <2>5 DEF Strayed, Counted
  <2>7. /\ Strayed(calls, d) \in Nat /\ Strayed(calls', d) \in Nat
        /\ Counted(calls, d) \in Nat
    BY <1>1, <1>6, TotalsTyped
  <2>8. Spent(d)' = Spent(d) /\ Spent(d) \in Nat
    BY <1>1, <1>2 DEF Spent
  <2>9. RowOK(d)
    BY DEF MInv
  <2> HIDE DEF C, S
  <2>10. QED
    BY <2>6, <2>7, <2>8, <2>9 DEF RowOK
<1>12. ASSUME ~configured, NEW j \in Instance, NEW d \in Day
       PROVE  Booked(calls', j, d) <= Admits(ledger'[j], d) + Late(calls', j, d)
  <2> DEFINE B(cs) == [c \in Call |-> BookedOf(cs[c], j, d)]
             L(cs) == [c \in Call |-> LateOf(cs[c], j, d)]
  <2>1. IsFiniteSet(Call) /\ NoInstance \notin Instance
    BY MeterAssumption
  <2>2. CASE j = i
    <3>1. \A c \in Call : BookedOf(calls'[c], j, d) = 0
      BY <1>3, <1>6, <2>1, <2>2 DEF BookedOf
    <3>2. B(calls') \in [Call -> Int] /\ \A c \in Call : B(calls')[c] = 0
      BY <3>1
    <3>3. SumFunction(B(calls')) = 0
      <4> HIDE DEF B
      <4>1. QED
        BY <2>1, <3>2, SumZero
    <3>4. Booked(calls', j, d) = 0
      BY <3>3 DEF Booked
    <3>5. Late(calls', j, d) \in Nat
      BY <1>6, TotalsTyped
    <3>6. Admits(ledger'[j], d) \in Nat
      BY <1>1, <1>7 DEF Admits, Ledgers
    <3>7. QED
      BY <3>4, <3>5, <3>6
  <2>3. CASE j # i
    <3>1. \A c \in Call : /\ BookedOf(calls'[c], j, d) = BookedOf(calls[c], j, d)
                          /\ LateOf(calls'[c], j, d) = LateOf(calls[c], j, d)
      BY <1>3, <1>6, <2>1, <2>3 DEF BookedOf, LateOf
    <3>2. B(calls') = B(calls) /\ L(calls') = L(calls)
      BY <3>1
    <3>3. Booked(calls', j, d) = Booked(calls, j, d) /\ Late(calls', j, d) = Late(calls, j, d)
      BY <3>2 DEF Booked, Late
    <3>4. QED
      BY <1>7, <1>12, <2>3, <3>3 DEF MInv, MemoryOK
  <2>4. QED
    BY <2>2, <2>3
<1>13. MemoryOK'
  <2> SUFFICES ASSUME ~configured PROVE MemoryOK'
    BY <1>2 DEF MemoryOK
  <2>1. \A c \in Call : InMemory(calls'[c])
    <3>1. \A c \in Call : InMemory(calls[c])
      BY DEF MInv, MemoryOK
    <3>2. \A c \in Call : calls[c].at = i => InMemory(r(c))
      BY <1>3, <1>4, <1>5, <3>1 DEF InMemory
    <3>3. QED
      BY <1>6, <3>1, <3>2
  <2>2. \A j \in Instance : hydration'[j].pc = "done"
    BY <1>8 DEF MInv, MemoryOK, Booted, Quiet
  <2>3. \A j \in Instance : ledger'[j].spent <= CAP /\ ledger'[j].dayKey <= today
    <3>1. \A j \in Instance : ledger[j].spent <= CAP /\ ledger[j].dayKey <= today
      BY DEF MInv, MemoryOK
    <3>2. QED
      BY <1>1, <1>7, <3>1 DEF Unset
  <2>4. QED
    BY <1>2, <1>12, <2>1, <2>2, <2>3 DEF MemoryOK
<1>14. QED
  BY <1>8, <1>9, <1>10, <1>11, <1>13 DEF MInv

LEMMA MeterInit ==
    ASSUME Init
    PROVE  MInv
<1>1. TypeOK /\ 0 \in Nat
  <2>1. today \in Day /\ 0 \in 0..MaxFaults
    BY MeterAssumption DEF Init, Day
  <2>2. Booted \in [pc : {"asked", "read", "done"}, day : {Unset} \cup Day,
                    spent : Nat \cup {NoRow}]
    BY <2>1 DEF Booted, Quiet
  <2>3. QED
    BY <2>1, <2>2 DEF Init, TypeOK, Failed, Over
<1>2. calls \in Calls /\ ledger \in Ledgers
  BY <1>1 DEF TypeOK, Calls, CallRecord, Ledgers
<1>3. \A i \in Instance : hydration[i].pc # "done" => hydration[i].day \in Day
  BY <1>1 DEF Init, TypeOK, Booted, Quiet
<1>4. \A c \in Call : CallOK(calls[c])
  BY DEF Init, CallOK, Failed, Unset
<1>5. IsFiniteSet(Call) /\ CAP \in Nat
  BY MeterAssumption
<1>6. ASSUME NEW d \in Day PROVE RowOK(d)
  <2> DEFINE C == [c \in Call |-> CountedOf(calls[c], d)]
  <2>1. \A c \in Call : CountedOf(calls[c], d) = 0
    BY DEF Init, CountedOf
  <2>2. C \in [Call -> Int] /\ \A c \in Call : C[c] = 0
    BY <2>1
  <2>3. SumFunction(C) = 0
    <3> HIDE DEF C
    <3>1. QED
      BY <1>5, <2>2, SumZero
  <2>4. Counted(calls, d) = 0
    BY <2>3 DEF Counted
  <2>5. Strayed(calls, d) \in Nat
    BY <1>2, TotalsTyped
  <2>6. Spent(d) = 0
    BY DEF Init, Spent, NoRow
  <2>7. QED
    BY <1>5, <2>4, <2>5, <2>6 DEF RowOK
<1>7. MemoryOK
  <2>1. ASSUME NEW i \in Instance, NEW d \in Day
        PROVE  Booked(calls, i, d) <= Admits(ledger[i], d) + Late(calls, i, d)
    <3> DEFINE B == [c \in Call |-> BookedOf(calls[c], i, d)]
    <3>1. \A c \in Call : BookedOf(calls[c], i, d) = 0
      BY DEF Init, BookedOf
    <3>2. B \in [Call -> Int] /\ \A c \in Call : B[c] = 0
      BY <3>1
    <3>3. SumFunction(B) = 0
      <4> HIDE DEF B
      <4>1. QED
        BY <1>5, <3>2, SumZero
    <3>4. Booked(calls, i, d) = 0
      BY <3>3 DEF Booked
    <3>5. Late(calls, i, d) \in Nat
      BY <1>2, TotalsTyped
    <3>6. Admits(ledger[i], d) \in Nat
      BY <1>2, <1>5 DEF Admits, Ledgers
    <3>7. QED
      BY <3>4, <3>5, <3>6
  <2>2. \A c \in Call : InMemory(calls[c])
    BY DEF Init, InMemory
  <2>3. ~configured => \A i \in Instance : hydration[i].pc = "done"
    BY DEF Init, Booted, Quiet
  <2>4. \A i \in Instance : ledger[i].spent <= CAP /\ ledger[i].dayKey <= today
    BY <1>5 DEF Init, Unset
  <2>5. QED
    BY <2>1, <2>2, <2>3, <2>4 DEF MemoryOK
<1>8. QED
  BY <1>1, <1>3, <1>4, <1>6, <1>7 DEF MInv

LEMMA MeterStutter ==
    ASSUME MInv, UNCHANGED vars
    PROVE  MInv'
<1>1. UNCHANGED <<configured, today, ledger, rows, calls, hydration, faults>>
  BY DEF vars
<1>2. TypeOK' /\ MemoryOK'
  BY <1>1 DEF MInv, TypeOK, MemoryOK
<1>3. QED
  BY <1>1, <1>2, CallsUntouched DEF MInv

LEMMA MeterInvariant == Spec => []MInv
<1>1. Init => MInv
  BY MeterInit
<1>2. MInv /\ [Next]_vars => MInv'
  <2> SUFFICES ASSUME MInv, [Next]_vars PROVE MInv'
    OBVIOUS
  <2>1. ASSUME NEW c \in Call,
               \/ \E i \in Instance, usd \in Amount : Ask(c, i, usd)
               \/ DbReserve(c) \/ Reserved(c) \/ Settle(c)
               \/ Refund(c) \/ DbDecrement(c) \/ Refunded(c)
        PROVE  MInv'
    BY <2>1, AskStep, DbReserveStep, ReservedStep, SettleStep, RefundStep, DbDecrementStep,
       RefundedStep
  <2>2. ASSUME NEW i \in Instance, DbHydrate(i) \/ Hydrated(i) \/ Restart(i)
        PROVE  MInv'
    BY <2>2, HydrationStep, RestartStep
  <2>3. CASE Midnight
    BY <2>3, MidnightStep
  <2>4. CASE UNCHANGED vars
    BY <2>4, MeterStutter
  <2>5. QED
    BY <2>1, <2>2, <2>3, <2>4 DEF Next
<1>3. QED
  BY <1>1, <1>2, PTL DEF Spec

-----------------------------------------------------------------------------
\* What some of the calls come to is a sum over all, in which the others count nothing.
LEMMA UsdCompare ==
    ASSUME MInv, NEW T \in SUBSET Call, NEW f \in [Call -> Int]
    PROVE  /\ UsdOf(T) \in Int
           /\ (\A c \in Call : f[c] <= IF c \in T THEN calls[c].usd ELSE 0)
                  => SumFunction(f) <= UsdOf(T)
           /\ (\A c \in Call : (IF c \in T THEN calls[c].usd ELSE 0) <= f[c])
                  => UsdOf(T) <= SumFunction(f)
<1> DEFINE usd == [c \in Call |-> calls[c].usd]
           g == [c \in Call |-> IF c \in T THEN usd[c] ELSE 0]
<1>1. usd \in [Call -> Int] /\ g \in [Call -> Int]
      /\ \A c \in Call : g[c] = IF c \in T THEN calls[c].usd ELSE 0
  <2>1. \A c \in Call : calls[c].usd \in Int
    BY MeterTyped, TermsTyped
  <2>2. QED
    BY <2>1
<1>2. IsFiniteSet(Call)
  BY MeterAssumption
<1>3. UsdOf(T) = SumFunction([c \in T |-> usd[c]])
  BY DEF UsdOf
<1> HIDE DEF usd
<1>4. UsdOf(T) = SumFunction(g)
  BY <1>1, <1>2, <1>3, SumPart
<1> HIDE DEF g
<1>5. SumFunction(g) \in Int
  BY <1>1, <1>2, SumInt
<1>6. ASSUME \A c \in Call : f[c] <= g[c]
      PROVE  SumFunction(f) <= SumFunction(g)
  BY <1>1, <1>2, <1>6, SumMonotone
<1>7. ASSUME \A c \in Call : g[c] <= f[c]
      PROVE  SumFunction(g) <= SumFunction(f)
  BY <1>1, <1>2, <1>7, SumMonotone
<1>8. QED
  BY <1>1, <1>4, <1>5, <1>6, <1>7

LEMMA UsdEqual ==
    ASSUME MInv, NEW T \in SUBSET Call, NEW f \in [Call -> Int],
           \A c \in Call : f[c] = IF c \in T THEN calls[c].usd ELSE 0
    PROVE  UsdOf(T) = SumFunction(f)
<1>1. \A c \in Call : calls[c].usd \in Nat
  BY MeterTyped, TermsTyped
<1>2. /\ \A c \in Call : f[c] <= IF c \in T THEN calls[c].usd ELSE 0
      /\ \A c \in Call : (IF c \in T THEN calls[c].usd ELSE 0) <= f[c]
  BY <1>1
<1>3. SumFunction(f) <= UsdOf(T) /\ UsdOf(T) <= SumFunction(f) /\ UsdOf(T) \in Int
  BY <1>2, UsdCompare
<1>4. SumFunction(f) \in Int
  BY SumInt, MeterAssumption
<1>5. QED
  BY <1>3, <1>4

\* The totals of the invariant and those of the properties.
LEMMA RowTotals ==
    ASSUME MInv, NEW d \in Day
    PROVE  /\ UsdOf({c \in Call : calls[c].day = d /\ calls[c].onRow}) = Counted(calls, d)
           /\ UsdOf({c \in Call : calls[c].durable /\ calls[c].day = d /\ Paid(c)})
                  <= Counted(calls, d)
           /\ UsdOf({c \in Call : calls[c].durable /\ calls[c].day = d /\ Paid(c)}) \in Int
           /\ Strayed(calls, d) <= UsdOf(Strays(d))
           /\ UsdOf(Strays(d)) \in Int
<1>1. calls \in Calls /\ \A c \in Call : calls[c] \in CallRecord /\ CallOK(calls[c])
  BY MeterTyped DEF MInv
<1>2. \A c \in Call : calls[c].usd \in Nat
  BY <1>1, TermsTyped
<1> DEFINE C == [c \in Call |-> CountedOf(calls[c], d)]
           S == [c \in Call |-> StrayOf(calls[c], d)]
           RowCalls == {c \in Call : calls[c].day = d /\ calls[c].onRow}
           PaidCalls == {c \in Call : calls[c].durable /\ calls[c].day = d /\ Paid(c)}
<1>3. C \in [Call -> Int] /\ S \in [Call -> Int]
  <2>1. \A c \in Call : CountedOf(calls[c], d) \in Nat /\ StrayOf(calls[c], d) \in Nat
    BY <1>1, TermsTyped
  <2>2. QED
    BY <2>1
<1>4. \A c \in Call : C[c] = IF c \in RowCalls THEN calls[c].usd ELSE 0
  BY DEF CountedOf
<1>5. \A c \in Call : (IF c \in PaidCalls THEN calls[c].usd ELSE 0) <= C[c]
  <2>1. ASSUME NEW c \in Call
        PROVE  (IF c \in PaidCalls THEN calls[c].usd ELSE 0) <= CountedOf(calls[c], d)
    <3>1. c \in PaidCalls => calls[c].day = d /\ calls[c].onRow
      BY <1>1 DEF CallOK, Paid
    <3> HIDE DEF PaidCalls
    <3>2. QED
      BY <1>2, <3>1 DEF CountedOf
  <2>2. QED
    BY <2>1
<1>6. \A c \in Call : S[c] <= IF c \in Strays(d) THEN calls[c].usd ELSE 0
  BY <1>2 DEF StrayOf, Strays
<1>7. Counted(calls, d) = SumFunction(C) /\ Strayed(calls, d) = SumFunction(S)
  BY DEF Counted, Strayed
<1>8. RowCalls \in SUBSET Call /\ PaidCalls \in SUBSET Call /\ Strays(d) \in SUBSET Call
  BY DEF Strays
<1> HIDE DEF C, S, RowCalls, PaidCalls
<1>9. UsdOf(RowCalls) = SumFunction(C)
  BY <1>3, <1>4, <1>8, UsdEqual
<1>10. UsdOf(PaidCalls) <= SumFunction(C) /\ UsdOf(PaidCalls) \in Int
  BY <1>3, <1>5, <1>8, UsdCompare
<1>11. SumFunction(S) <= UsdOf(Strays(d)) /\ UsdOf(Strays(d)) \in Int
  BY <1>3, <1>6, <1>8, UsdCompare
<1>12. QED
  BY <1>7, <1>9, <1>10, <1>11 DEF RowCalls, PaidCalls

LEMMA MemoryTotals ==
    ASSUME MInv, NEW i \in Instance, NEW d \in Day
    PROVE  /\ UsdOf({c \in Call : calls[c].at = i /\ calls[c].booked = d /\ Paid(c)})
                  = Booked(calls, i, d)
           /\ UsdOf({c \in Call : /\ calls[c].at = i /\ calls[c].refundDay = d
                                  /\ calls[c].booked # d})
                  = Late(calls, i, d)
<1> DEFINE B == [c \in Call |-> BookedOf(calls[c], i, d)]
           L == [c \in Call |-> LateOf(calls[c], i, d)]
           Bookers == {c \in Call : calls[c].at = i /\ calls[c].booked = d /\ Paid(c)}
           Latecomers == {c \in Call : /\ calls[c].at = i /\ calls[c].refundDay = d
                                       /\ calls[c].booked # d}
<1>1. B \in [Call -> Int] /\ L \in [Call -> Int]
  <2>1. \A c \in Call : BookedOf(calls[c], i, d) \in Nat /\ LateOf(calls[c], i, d) \in Nat
    BY MeterTyped, TermsTyped
  <2>2. QED
    BY <2>1
<1>2. \A c \in Call : B[c] = IF c \in Bookers THEN calls[c].usd ELSE 0
  BY DEF BookedOf, Paid
<1>3. \A c \in Call : L[c] = IF c \in Latecomers THEN calls[c].usd ELSE 0
  BY DEF LateOf
<1>4. Booked(calls, i, d) = SumFunction(B) /\ Late(calls, i, d) = SumFunction(L)
  BY DEF Booked, Late
<1>5. Bookers \in SUBSET Call /\ Latecomers \in SUBSET Call
  OBVIOUS
<1> HIDE DEF B, L, Bookers, Latecomers
<1>6. UsdOf(Bookers) = SumFunction(B)
  BY <1>1, <1>2, <1>5, UsdEqual
<1>7. UsdOf(Latecomers) = SumFunction(L)
  BY <1>1, <1>3, <1>5, UsdEqual
<1>8. QED
  BY <1>4, <1>6, <1>7 DEF Bookers, Latecomers

\* A row says of its day's calls neither too much nor, but for refunds that went astray,
\* too little: RowIsExact for any number of calls, instances, days and errors
\* (agentMeter.ts, postgresKvStore.ts).
THEOREM MeterRowExact == Spec => []RowIsExact
<1>1. MInv => RowIsExact
  <2> SUFFICES ASSUME MInv, NEW d \in Day
               PROVE  LET counted == UsdOf({c \in Call : calls[c].day = d /\ calls[c].onRow})
                      IN  /\ Spent(d) <= counted
                          /\ counted <= Spent(d) + UsdOf(Strays(d))
    BY DEF RowIsExact
  <2>1. Spent(d) <= Counted(calls, d) /\ Counted(calls, d) <= Spent(d) + Strayed(calls, d)
    BY DEF MInv, RowOK
  <2>2. /\ Counted(calls, d) \in Nat /\ Strayed(calls, d) \in Nat /\ Spent(d) \in Nat
    BY MeterTyped, TotalsTyped
  <2>3. UsdOf({c \in Call : calls[c].day = d /\ calls[c].onRow}) = Counted(calls, d)
        /\ Strayed(calls, d) <= UsdOf(Strays(d)) /\ UsdOf(Strays(d)) \in Int
    BY RowTotals
  <2>4. QED
    BY <2>1, <2>2, <2>3
<1>2. QED
  BY <1>1, MeterInvariant, PTL

\* The agent's day is within its budget, over all instances: BudgetHolds
\* (reserveDailySpend and refundDailySpend in agentMeter.ts).
THEOREM MeterBudgetHolds == Spec => []BudgetHolds
<1>1. MInv => BudgetHolds
  <2> SUFFICES ASSUME MInv, NEW d \in Day
               PROVE  UsdOf({c \in Call : calls[c].durable /\ calls[c].day = d /\ Paid(c)})
                          <= CAP + UsdOf(Strays(d))
    BY DEF BudgetHolds
  <2>1. Spent(d) <= CAP /\ Counted(calls, d) <= Spent(d) + Strayed(calls, d)
    BY DEF MInv, RowOK
  <2>2. /\ Counted(calls, d) \in Nat /\ Strayed(calls, d) \in Nat /\ Spent(d) \in Nat
        /\ CAP \in Nat
    BY MeterTyped, TotalsTyped
  <2> DEFINE paid == UsdOf({c \in Call : calls[c].durable /\ calls[c].day = d /\ Paid(c)})
  <2>3. paid <= Counted(calls, d) /\ Strayed(calls, d) <= UsdOf(Strays(d))
        /\ UsdOf(Strays(d)) \in Int /\ paid \in Int
    BY RowTotals
  <2> HIDE DEF paid
  <2>4. paid <= CAP + UsdOf(Strays(d))
    BY <2>1, <2>2, <2>3
  <2>5. QED
    BY <2>4 DEF paid
<1>2. QED
  BY <1>1, MeterInvariant, PTL

\* Without a database an instance keeps to the cap by itself: InstanceCeiling (the check
\* before the await and the one after it in reserveDailySpend).
THEOREM MeterInstanceCeiling == Spec => []InstanceCeiling
<1>1. MInv => InstanceCeiling
  <2> SUFFICES ASSUME MInv, ~configured, NEW i \in Instance, NEW d \in Day
               PROVE  UsdOf({c \in Call : calls[c].at = i /\ calls[c].booked = d /\ Paid(c)})
                          <= CAP + UsdOf({c \in Call : /\ calls[c].at = i
                                                       /\ calls[c].refundDay = d
                                                       /\ calls[c].booked # d})
    BY DEF InstanceCeiling
  <2>1. /\ Booked(calls, i, d) <= Admits(ledger[i], d) + Late(calls, i, d)
        /\ ledger[i].spent <= CAP
    BY DEF MInv, MemoryOK
  <2>2. /\ Booked(calls, i, d) \in Nat /\ Late(calls, i, d) \in Nat /\ CAP \in Nat
        /\ ledger[i].spent \in Nat
    BY MeterTyped, TotalsTyped DEF Ledgers
  <2>3. Admits(ledger[i], d) <= CAP /\ Admits(ledger[i], d) \in Nat
    BY <2>1, <2>2 DEF Admits
  <2>4. Booked(calls, i, d) <= CAP + Late(calls, i, d)
    BY <2>1, <2>2, <2>3
  <2>5. QED
    BY <2>4, MemoryTotals
<1>2. QED
  BY <1>1, MeterInvariant, PTL

-----------------------------------------------------------------------------
(* The sessions of the metered AI calls. *)

\* The record of a call, and of a session in the mirror.
AskRecord ==
    [pc : {"idle", "reserved", "settled", "served", "failed", "gone"},
     of : AiSession \cup {CHOOSE s \in AiSession : TRUE},
     price : Nat, opening : Nat, told : BOOLEAN, into : Nat]

Asks == [AiCall -> AskRecord]

MirrorRecord == [opening : Nat, cap : Nat, spent : Nat, dead : BOOLEAN]

\* What a call counts for: in the opening it holds its price of, and in the opening its
\* refund went to when that is another.
HeldOf(a, o) ==
    IF a.opening = o /\ a.pc \in {"reserved", "settled", "served"} THEN a.price ELSE 0

AstrayOf(a, o) == IF a.into = o /\ a.opening # a.into THEN a.price ELSE 0

HeldIn(cs, o) == SumFunction([c \in AiCall |-> HeldOf(cs[c], o)])
AstrayIn(cs, o) == SumFunction([c \in AiCall |-> AstrayOf(cs[c], o)])

AskOK(a) ==
    /\ a.pc = "idle" => a.opening = 0
    /\ a.pc \in {"idle", "reserved", "settled"} => a.into = 0
    /\ a.pc \in {"reserved", "settled"} => a.of \in AiSession
    /\ a.opening <= opened /\ a.into <= opened

\* An opening is of one session, and the calls that reserved in it are of that session.
OpeningsOK ==
    /\ \A s \in AiSession : mirror[s].opening <= opened
    /\ \A s, t \in AiSession :
           mirror[s].opening > 0 /\ mirror[s].opening = mirror[t].opening => s = t
    /\ \A c \in AiCall, s \in AiSession :
           mirror[s].opening > 0 /\ asks[c].opening = mirror[s].opening => asks[c].of = s

\* What BudgetTracksCalls says of one record of the mirror: more, since the code hands
\* back the price of a call whose handler threw.
Tracks(m, cs) ==
    m.opening > 0 =>
        /\ m.spent <= HeldIn(cs, m.opening)
        /\ HeldIn(cs, m.opening) - AstrayIn(cs, m.opening) <= m.spent
        /\ m.spent <= m.cap

AiInv ==
    /\ opened \in Nat
    /\ mirror \in [AiSession -> MirrorRecord]
    /\ asks \in Asks
    /\ \A c \in AiCall : AskOK(asks[c])
    /\ OpeningsOK
    /\ \A s \in AiSession : Tracks(mirror[s], asks)

LEMMA AskTermsTyped ==
    ASSUME NEW a \in AskRecord, NEW o
    PROVE  HeldOf(a, o) \in Nat /\ AstrayOf(a, o) \in Nat /\ a.price \in Nat
<1>1. a.price \in Nat
  BY DEF AskRecord
<1>2. QED
  BY <1>1 DEF HeldOf, AstrayOf

LEMMA AskTotalsTyped ==
    ASSUME NEW cs \in Asks, NEW o
    PROVE  HeldIn(cs, o) \in Nat /\ AstrayIn(cs, o) \in Nat
<1>1. \A c \in AiCall : HeldOf(cs[c], o) \in Nat /\ AstrayOf(cs[c], o) \in Nat
  BY AskTermsTyped DEF Asks
<1>2. /\ [c \in AiCall |-> HeldOf(cs[c], o)] \in [AiCall -> Nat]
      /\ [c \in AiCall |-> AstrayOf(cs[c], o)] \in [AiCall -> Nat]
  BY <1>1
<1>3. QED
  BY <1>2, SumNat, AiAssumption DEF HeldIn, AstrayIn

\* One call changes, and each sum by its term.
LEMMA OneAskChanges ==
    ASSUME NEW cs \in Asks, NEW new \in Asks, NEW c \in AiCall,
           \A k \in AiCall : k # c => new[k] = cs[k], NEW o
    PROVE  /\ HeldIn(new, o) = HeldIn(cs, o) + HeldOf(new[c], o) - HeldOf(cs[c], o)
           /\ AstrayIn(new, o) = AstrayIn(cs, o) + AstrayOf(new[c], o) - AstrayOf(cs[c], o)
<1> DEFINE H(t) == [x \in AiCall |-> HeldOf(t[x], o)]
           A(t) == [x \in AiCall |-> AstrayOf(t[x], o)]
<1>1. ASSUME NEW t \in Asks
      PROVE  H(t) \in [AiCall -> Int] /\ A(t) \in [AiCall -> Int]
  <2>1. \A x \in AiCall : HeldOf(t[x], o) \in Nat /\ AstrayOf(t[x], o) \in Nat
    BY AskTermsTyped DEF Asks
  <2>2. QED
    BY <2>1
<1>2. \A k \in AiCall : k # c => H(new)[k] = H(cs)[k] /\ A(new)[k] = A(cs)[k]
  OBVIOUS
<1>3. /\ H(new)[c] = HeldOf(new[c], o) /\ H(cs)[c] = HeldOf(cs[c], o)
      /\ A(new)[c] = AstrayOf(new[c], o) /\ A(cs)[c] = AstrayOf(cs[c], o)
  OBVIOUS
<1>4. \A t : HeldIn(t, o) = SumFunction(H(t)) /\ AstrayIn(t, o) = SumFunction(A(t))
  BY DEF HeldIn, AstrayIn
<1>5. IsFiniteSet(AiCall)
  BY AiAssumption
<1>6. /\ H(cs) \in [AiCall -> Int] /\ H(new) \in [AiCall -> Int]
      /\ A(cs) \in [AiCall -> Int] /\ A(new) \in [AiCall -> Int]
  <2> HIDE DEF H, A
  <2>1. QED
    BY <1>1
<1> HIDE DEF H, A
<1>7. /\ SumFunction(H(new)) = SumFunction(H(cs)) + H(new)[c] - H(cs)[c]
      /\ SumFunction(A(new)) = SumFunction(A(cs)) + A(new)[c] - A(cs)[c]
  <2>1. ASSUME NEW f \in [AiCall -> Int], NEW g \in [AiCall -> Int],
               \A k \in AiCall : k # c => g[k] = f[k]
        PROVE  SumFunction(g) = SumFunction(f) + g[c] - f[c]
    BY <1>5, <2>1, SumChange
  <2>2. QED
    BY <1>2, <1>6, <2>1
<1>8. QED
  BY <1>3, <1>4, <1>7

\* A session's record after a step in which one call changes.
LEMMA TracksKept ==
    ASSUME AiInv, NEW c \in AiCall, asks' \in Asks,
           \A k \in AiCall : k # c => asks'[k] = asks[k],
           NEW s \in AiSession, mirror'[s] \in MirrorRecord,
           mirror'[s].opening = mirror[s].opening, mirror'[s].cap = mirror[s].cap,
           mirror'[s].spent <= mirror'[s].cap \/ mirror'[s].spent <= mirror[s].spent,
           mirror[s].opening > 0 =>
               LET o == mirror[s].opening
                   held == HeldOf(asks'[c], o) - HeldOf(asks[c], o)
               IN  /\ \/ mirror'[s].spent - mirror[s].spent <= held
                      \/ mirror'[s].spent = 0
                   /\ held - (AstrayOf(asks'[c], o) - AstrayOf(asks[c], o))
                          <= mirror'[s].spent - mirror[s].spent
    PROVE  Tracks(mirror'[s], asks')
<1> SUFFICES ASSUME mirror[s].opening > 0
             PROVE  LET o == mirror[s].opening
                    IN  /\ mirror'[s].spent <= HeldIn(asks', o)
                        /\ HeldIn(asks', o) - AstrayIn(asks', o) <= mirror'[s].spent
                        /\ mirror'[s].spent <= mirror'[s].cap
  BY DEF Tracks
<1> DEFINE o == mirror[s].opening
<1>1. /\ asks \in Asks /\ mirror[s] \in MirrorRecord
      /\ mirror[s].spent \in Nat /\ mirror[s].cap \in Nat
      /\ mirror'[s].spent \in Nat /\ mirror'[s].cap \in Nat
  BY DEF AiInv, MirrorRecord
<1>2. /\ mirror[s].spent <= HeldIn(asks, o)
      /\ HeldIn(asks, o) - AstrayIn(asks, o) <= mirror[s].spent
      /\ mirror[s].spent <= mirror[s].cap
  BY DEF AiInv, Tracks
<1>3. /\ HeldIn(asks', o) = HeldIn(asks, o) + HeldOf(asks'[c], o) - HeldOf(asks[c], o)
      /\ AstrayIn(asks', o) =
             AstrayIn(asks, o) + AstrayOf(asks'[c], o) - AstrayOf(asks[c], o)
  BY <1>1, OneAskChanges
<1>4. /\ HeldIn(asks, o) \in Nat /\ AstrayIn(asks, o) \in Nat
      /\ HeldIn(asks', o) \in Nat /\ AstrayIn(asks', o) \in Nat
  BY <1>1, AskTotalsTyped
<1>5. /\ HeldOf(asks'[c], o) \in Nat /\ HeldOf(asks[c], o) \in Nat
      /\ AstrayOf(asks'[c], o) \in Nat /\ AstrayOf(asks[c], o) \in Nat
  BY <1>1, AskTermsTyped DEF Asks
<1>6. /\ \/ mirror'[s].spent - mirror[s].spent <= HeldOf(asks'[c], o) - HeldOf(asks[c], o)
         \/ mirror'[s].spent = 0
      /\ HeldOf(asks'[c], o) - HeldOf(asks[c], o)
             - (AstrayOf(asks'[c], o) - AstrayOf(asks[c], o))
             <= mirror'[s].spent - mirror[s].spent
  OBVIOUS
<1> HIDE DEF o
<1>7. /\ mirror'[s].spent <= HeldIn(asks', o)
      /\ HeldIn(asks', o) - AstrayIn(asks', o) <= mirror'[s].spent
  BY <1>1, <1>2, <1>3, <1>4, <1>5, <1>6
<1>8. mirror'[s].spent <= mirror'[s].cap
  BY <1>1, <1>2
<1>9. QED
  BY <1>7, <1>8 DEF o

LEMMA ConnectStep ==
    ASSUME AiInv, NEW s \in AiSession, NEW cap \in BudgetCap, Connect(s, cap)
    PROVE  AiInv'
<1> DEFINE new == [opening |-> opened + 1, cap |-> cap, spent |-> 0, dead |-> FALSE]
<1>1. /\ opened' = opened + 1 /\ asks' = asks /\ mirror' = [mirror EXCEPT ![s] = new]
      /\ opened \in Nat /\ mirror \in [AiSession -> MirrorRecord] /\ asks \in Asks
      /\ cap \in Nat
  BY AiAssumption DEF Connect, AiInv
<1>2. new \in MirrorRecord /\ new.opening = opened + 1 /\ new.cap = cap /\ new.spent = 0
  BY <1>1 DEF MirrorRecord
<1> HIDE DEF new
<1>3. /\ mirror' \in [AiSession -> MirrorRecord] /\ opened' \in Nat
      /\ \A t \in AiSession : mirror'[t] = IF t = s THEN new ELSE mirror[t]
  BY <1>1, <1>2
<1>4. /\ \A c \in AiCall : asks[c].opening \in Nat /\ asks[c].into \in Nat
      /\ \A t \in AiSession : mirror[t].opening \in Nat
  BY <1>1 DEF Asks, AskRecord, MirrorRecord
<1>5. /\ \A c \in AiCall : /\ AskOK(asks[c])
                           /\ asks[c].opening <= opened /\ asks[c].into <= opened
      /\ \A t \in AiSession : mirror[t].opening <= opened
      /\ OpeningsOK
  BY DEF AiInv, AskOK, OpeningsOK
<1>6. \A c \in AiCall : AskOK(asks[c])'
  BY <1>1, <1>4, <1>5 DEF AskOK
<1>7. OpeningsOK'
  <2>1. \A t \in AiSession : mirror'[t].opening <= opened'
    BY <1>1, <1>2, <1>3, <1>4, <1>5
  <2>2. ASSUME NEW t \in AiSession, NEW u \in AiSession,
               mirror'[t].opening > 0, mirror'[t].opening = mirror'[u].opening
        PROVE  t = u
    BY <1>1, <1>2, <1>3, <1>4, <1>5, <2>2 DEF OpeningsOK
  <2>3. ASSUME NEW c \in AiCall, NEW t \in AiSession,
               mirror'[t].opening > 0, asks[c].opening = mirror'[t].opening
        PROVE  asks[c].of = t
    BY <1>1, <1>2, <1>3, <1>4, <1>5, <2>3 DEF OpeningsOK
  <2>4. QED
    BY <1>1, <2>1, <2>2, <2>3 DEF OpeningsOK
<1>8. Tracks(new, asks)
  <2> DEFINE o == opened + 1
             H == [c \in AiCall |-> HeldOf(asks[c], o)]
             A == [c \in AiCall |-> AstrayOf(asks[c], o)]
  <2>1. \A c \in AiCall : HeldOf(asks[c], o) = 0 /\ AstrayOf(asks[c], o) = 0
    BY <1>1, <1>4, <1>5 DEF HeldOf, AstrayOf
  <2>2. /\ H \in [AiCall -> Int] /\ \A c \in AiCall : H[c] = 0
        /\ A \in [AiCall -> Int] /\ \A c \in AiCall : A[c] = 0
    BY <2>1
  <2>3. SumFunction(H) = 0 /\ SumFunction(A) = 0
    <3> HIDE DEF H, A
    <3>1. QED
      BY <2>2, SumZero, AiAssumption
  <2>4. HeldIn(asks, o) = 0 /\ AstrayIn(asks, o) = 0
    BY <2>3 DEF HeldIn, AstrayIn
  <2> HIDE DEF H, A
  <2>5. QED
    BY <1>1, <1>2, <2>4 DEF Tracks
<1>9. \A t \in AiSession : Tracks(mirror'[t], asks')
  BY <1>1, <1>3, <1>8 DEF AiInv
<1>10. QED
  BY <1>1, <1>3, <1>6, <1>7, <1>9 DEF AiInv

LEMMA RevokeOrExpireStep ==
    ASSUME AiInv, NEW s \in AiSession, RevokeOrExpire(s)
    PROVE  AiInv'
<1>1. /\ UNCHANGED <<asks, opened>> /\ mirror' = [mirror EXCEPT ![s].dead = TRUE]
      /\ opened \in Nat /\ mirror \in [AiSession -> MirrorRecord] /\ asks \in Asks
  BY DEF RevokeOrExpire, AiInv
<1>2. /\ mirror' \in [AiSession -> MirrorRecord]
      /\ \A t \in AiSession : /\ mirror'[t].opening = mirror[t].opening
                              /\ mirror'[t].spent = mirror[t].spent
                              /\ mirror'[t].cap = mirror[t].cap
  BY <1>1 DEF MirrorRecord
<1>3. OpeningsOK' /\ \A c \in AiCall : AskOK(asks[c])'
  BY <1>1, <1>2 DEF AiInv, OpeningsOK, AskOK
<1>4. \A t \in AiSession : Tracks(mirror'[t], asks')
  BY <1>1, <1>2 DEF AiInv, Tracks
<1>5. QED
  BY <1>1, <1>2, <1>3, <1>4 DEF AiInv

LEMMA RestartAiStep ==
    ASSUME AiInv, RestartAi
    PROVE  AiInv'
<1> DEFINE gone(c) == [asks[c] EXCEPT !.pc = "gone"]
<1>1. /\ opened' = opened /\ opened \in Nat /\ asks \in Asks
      /\ mirror' = [s \in AiSession |-> Closed]
      /\ asks' = [c \in AiCall |-> IF asks[c].pc \in {"reserved", "settled"}
                                   THEN gone(c) ELSE asks[c]]
  BY DEF RestartAi, AiInv
<1>2. ASSUME NEW c \in AiCall
      PROVE  /\ gone(c) \in AskRecord /\ gone(c).pc = "gone"
             /\ gone(c).opening = asks[c].opening /\ gone(c).into = asks[c].into
  BY <1>1 DEF Asks, AskRecord
<1> HIDE DEF gone
<1>3. asks' \in Asks
  BY <1>1, <1>2 DEF Asks
<1>4. Closed \in MirrorRecord /\ Closed.opening = 0
  BY DEF Closed, MirrorRecord
<1>5. /\ mirror' \in [AiSession -> MirrorRecord]
      /\ \A s \in AiSession : mirror'[s].opening = 0
  BY <1>1, <1>4
<1>6. \A c \in AiCall : AskOK(asks[c])'
  <2>1. \A c \in AiCall : AskOK(asks[c])
    BY DEF AiInv
  <2>2. \A c \in AiCall : asks'[c] = gone(c) \/ asks'[c] = asks[c]
    BY <1>1
  <2>3. QED
    BY <1>1, <1>2, <2>1, <2>2 DEF AskOK
<1>7. OpeningsOK'
  BY <1>1, <1>5 DEF OpeningsOK
<1>8. \A s \in AiSession : Tracks(mirror'[s], asks')
  BY <1>5 DEF Tracks
<1>9. QED
  BY <1>1, <1>3, <1>5, <1>6, <1>7, <1>8 DEF AiInv

LEMMA AskAiStep ==
    ASSUME AiInv, NEW c \in AiCall, NEW s \in AiSession, NEW cost \in CallPrice,
           AskAi(c, s, cost)
    PROVE  AiInv'
<1> DEFINE o == mirror[s].opening
           r == [asks[c] EXCEPT !.pc = "reserved", !.of = s, !.price = cost, !.opening = o]
           m == [mirror[s] EXCEPT !.spent = mirror[s].spent + cost]
<1>1. /\ opened' = opened /\ asks' = [asks EXCEPT ![c] = r]
      /\ mirror' = [mirror EXCEPT ![s] = m]
      /\ opened \in Nat /\ mirror \in [AiSession -> MirrorRecord] /\ asks \in Asks
      /\ asks[c].pc = "idle" /\ o > 0 /\ cost <= mirror[s].cap - mirror[s].spent
  BY DEF AskAi, AiInv, Left
<1>2. /\ cost \in Nat /\ asks[c] \in AskRecord /\ mirror[s] \in MirrorRecord
      /\ o \in Nat /\ mirror[s].cap \in Nat /\ mirror[s].spent \in Nat
  BY <1>1, AiAssumption DEF Asks, MirrorRecord
<1>3. r \in AskRecord
  <2>1. s \in AiSession \cup {CHOOSE t \in AiSession : TRUE}
    OBVIOUS
  <2> HIDE DEF o
  <2>2. QED
    BY <1>2, <2>1 DEF AskRecord
<1>4. /\ r.pc = "reserved" /\ r.of = s /\ r.price = cost /\ r.opening = o
      /\ r.into = asks[c].into
  BY <1>2 DEF AskRecord
<1>5. /\ m \in MirrorRecord /\ m.opening = o /\ m.cap = mirror[s].cap
      /\ m.spent = mirror[s].spent + cost
  BY <1>2 DEF MirrorRecord
<1> HIDE DEF r, m
<1>6. /\ asks' \in Asks /\ asks'[c] = r
      /\ \A k \in AiCall : k # c => asks'[k] = asks[k]
  BY <1>1, <1>3 DEF Asks
<1>7. /\ mirror' \in [AiSession -> MirrorRecord] /\ mirror'[s] = m
      /\ \A t \in AiSession : t # s => mirror'[t] = mirror[t]
  BY <1>1, <1>5
<1>8. AskOK(asks[c]) /\ OpeningsOK /\ asks[c].into = 0 /\ asks[c].opening = 0
  BY <1>1 DEF AiInv, AskOK
<1>9. \A k \in AiCall : AskOK(asks[k])'
  <2>1. o <= opened
    BY <1>8 DEF OpeningsOK
  <2>2. AskOK(r)
    BY <1>1, <1>4, <1>8, <2>1 DEF AskOK
  <2>3. QED
    BY <1>1, <1>6, <2>2 DEF AiInv, AskOK
<1>10. OpeningsOK'
  <2>1. \A t \in AiSession : mirror'[t].opening = mirror[t].opening
    BY <1>5, <1>7
  <2>2. ASSUME NEW k \in AiCall, NEW t \in AiSession,
               mirror[t].opening > 0, asks'[k].opening = mirror[t].opening
        PROVE  asks'[k].of = t
    <3>1. CASE k = c
      BY <1>4, <1>6, <1>8, <2>2, <3>1 DEF OpeningsOK
    <3>2. CASE k # c
      BY <1>6, <1>8, <2>2, <3>2 DEF OpeningsOK
    <3>3. QED
      BY <3>1, <3>2
  <2>3. QED
    BY <1>1, <1>8, <2>1, <2>2 DEF OpeningsOK
<1>11. ASSUME NEW t \in AiSession PROVE Tracks(mirror'[t], asks')
  <2>1. \A q : q > 0 => /\ HeldOf(asks[c], q) = 0 /\ AstrayOf(asks[c], q) = 0
                        /\ AstrayOf(r, q) = 0
                        /\ HeldOf(r, q) = IF q = o THEN cost ELSE 0
    BY <1>1, <1>4, <1>8 DEF HeldOf, AstrayOf
  <2>2. mirror[t] \in MirrorRecord /\ mirror[t].spent \in Nat /\ mirror[t].opening \in Nat
    BY <1>1 DEF MirrorRecord
  <2>3. mirror'[t] \in MirrorRecord
    BY <1>7
  <2>4. CASE t = s
    <3>1. /\ mirror'[s].opening = o /\ mirror'[s].cap = mirror[s].cap
          /\ mirror'[s].spent = mirror[s].spent + cost
      BY <1>5, <1>7
    <3> HIDE DEF o
    <3>2. /\ mirror'[s].spent <= mirror'[s].cap
          /\ mirror'[s].spent - mirror[s].spent = cost
          /\ HeldOf(asks'[c], o) - HeldOf(asks[c], o) = cost
          /\ AstrayOf(asks'[c], o) - AstrayOf(asks[c], o) = 0
      BY <1>1, <1>2, <1>6, <2>1, <3>1
    <3>3. /\ mirror'[s].spent - mirror[s].spent
                 <= HeldOf(asks'[c], o) - HeldOf(asks[c], o)
          /\ HeldOf(asks'[c], o) - HeldOf(asks[c], o)
                     - (AstrayOf(asks'[c], o) - AstrayOf(asks[c], o))
                 <= mirror'[s].spent - mirror[s].spent
      BY <1>2, <3>2
    <3>4. Tracks(mirror'[s], asks')
      BY <1>6, <1>7, <1>5, <3>1, <3>2, <3>3, TracksKept DEF o
    <3>5. QED
      BY <2>4, <3>4
  <2>5. CASE t # s
    <3>1. mirror[t].opening > 0 => mirror[t].opening # o
      BY <1>8, <2>5 DEF OpeningsOK
    <3>2. QED
      BY <1>6, <1>7, <2>1, <2>2, <2>3, <2>5, <3>1, TracksKept
  <2>6. QED
    BY <2>4, <2>5
<1>12. QED
  BY <1>1, <1>6, <1>7, <1>9, <1>10, <1>11 DEF AiInv

\* A step that leaves the mirror alone and the call's part in every opening.
LEMMA SettleAiStep ==
    ASSUME AiInv, NEW c \in AiCall, SettleAi(c) \/ Serve(c)
    PROVE  AiInv'
<1> DEFINE r == [asks[c] EXCEPT !.pc = "settled", !.told = TRUE]
           q == [asks[c] EXCEPT !.pc = "served", !.into = 0]
<1>1. /\ opened' = opened /\ mirror' = mirror
      /\ opened \in Nat /\ mirror \in [AiSession -> MirrorRecord] /\ asks \in Asks
      /\ asks[c].pc \in {"reserved", "settled"} /\ asks[c] \in AskRecord
  BY DEF SettleAi, Serve, Answered, RefundDue, AiInv, Asks
<1>2. asks' = [asks EXCEPT ![c] = r] \/ asks' = [asks EXCEPT ![c] = q]
  BY DEF SettleAi, Serve, Answered, RefundDue
<1>3. /\ r \in AskRecord /\ q \in AskRecord
      /\ r.pc = "settled" /\ r.of = asks[c].of /\ r.price = asks[c].price
      /\ r.opening = asks[c].opening /\ r.into = asks[c].into
      /\ q.pc = "served" /\ q.of = asks[c].of /\ q.price = asks[c].price
      /\ q.opening = asks[c].opening /\ q.into = 0
  BY <1>1 DEF AskRecord
<1> HIDE DEF r, q
<1>4. AskOK(asks[c]) /\ asks[c].into = 0
  BY <1>1 DEF AiInv, AskOK
<1>5. /\ asks' \in Asks
      /\ asks'[c].pc \in {"settled", "served"} /\ asks'[c].of = asks[c].of
      /\ asks'[c].price = asks[c].price /\ asks'[c].opening = asks[c].opening
      /\ asks'[c].into = 0
      /\ \A k \in AiCall : k # c => asks'[k] = asks[k]
  <2>1. PICK a \in {r, q} : asks' = [asks EXCEPT ![c] = a]
    BY <1>2
  <2>2. QED
    BY <1>1, <1>3, <1>4, <2>1 DEF Asks
<1>6. \A k \in AiCall : AskOK(asks[k])'
  BY <1>1, <1>4, <1>5 DEF AiInv, AskOK
<1>7. OpeningsOK'
  BY <1>1, <1>5 DEF AiInv, OpeningsOK
<1>8. ASSUME NEW s \in AiSession PROVE Tracks(mirror'[s], asks')
  <2> DEFINE o == mirror[s].opening
  <2>1. /\ HeldOf(asks'[c], o) = HeldOf(asks[c], o)
        /\ AstrayOf(asks'[c], o) = AstrayOf(asks[c], o)
    BY <1>1, <1>4, <1>5 DEF HeldOf, AstrayOf
  <2>2. HeldOf(asks[c], o) \in Nat /\ AstrayOf(asks[c], o) \in Nat
    BY <1>1, AskTermsTyped
  <2>3. mirror[s] \in MirrorRecord /\ mirror[s].spent \in Nat
    BY <1>1 DEF MirrorRecord
  <2> HIDE DEF o
  <2>4. /\ HeldOf(asks'[c], o) - HeldOf(asks[c], o) = 0
        /\ AstrayOf(asks'[c], o) - AstrayOf(asks[c], o) = 0
        /\ mirror'[s].spent - mirror[s].spent = 0
    BY <1>1, <2>1, <2>2, <2>3
  <2>5. QED
    BY <1>1, <1>5, <2>3, <2>4, TracksKept DEF o
<1>9. QED
  BY <1>1, <1>5, <1>6, <1>7, <1>8 DEF AiInv

\* The refund: to the opening it was reserved in, to a later one of the same session,
\* or to none.
LEMMA FailedStep ==
    ASSUME AiInv, NEW c \in AiCall, Unpaid(c) \/ HandlerThrows(c)
    PROVE  AiInv'
<1> DEFINE s == asks[c].of
           now == mirror[s].opening
           cost == asks[c].price
           left == mirror[s].spent - cost
           less == IF left > 0 THEN left ELSE 0
           r == [asks[c] EXCEPT !.pc = "failed", !.into = now]
           m == [mirror[s] EXCEPT !.spent = less]
<1>1. /\ opened' = opened /\ asks' = [asks EXCEPT ![c] = r]
      /\ mirror' = IF now > 0 THEN [mirror EXCEPT ![s] = m] ELSE mirror
      /\ opened \in Nat /\ mirror \in [AiSession -> MirrorRecord] /\ asks \in Asks
      /\ asks[c].pc \in {"reserved", "settled"}
  BY DEF Unpaid, HandlerThrows, Answered, RefundDue, AiInv
<1>2. AskOK(asks[c]) /\ OpeningsOK /\ asks[c].into = 0 /\ s \in AiSession
  BY <1>1 DEF AiInv, AskOK
<1>3. /\ asks[c] \in AskRecord /\ mirror[s] \in MirrorRecord
      /\ now \in Nat /\ mirror[s].spent \in Nat /\ cost \in Nat
      /\ asks[c].opening \in Nat
  BY <1>1, <1>2 DEF Asks, AskRecord, MirrorRecord
<1>4. /\ less \in Nat /\ less <= mirror[s].spent /\ less >= mirror[s].spent - cost
      /\ less = 0 \/ less = mirror[s].spent - cost
  BY <1>3
<1> HIDE DEF less
<1>5. /\ m \in MirrorRecord /\ m.opening = now /\ m.cap = mirror[s].cap /\ m.spent = less
  BY <1>3, <1>4 DEF MirrorRecord
<1>6. r \in AskRecord
  <2> HIDE DEF now
  <2>1. QED
    BY <1>3 DEF AskRecord
<1>7. /\ r.pc = "failed" /\ r.of = asks[c].of /\ r.price = cost
      /\ r.opening = asks[c].opening /\ r.into = now
  BY <1>3 DEF AskRecord
<1> HIDE DEF r, m
<1>8. /\ asks' \in Asks /\ asks'[c] = r
      /\ \A k \in AiCall : k # c => asks'[k] = asks[k]
  BY <1>1, <1>6 DEF Asks
<1>9. /\ mirror' \in [AiSession -> MirrorRecord]
      /\ \A t \in AiSession : mirror'[t] = IF t = s /\ now > 0 THEN m ELSE mirror[t]
  <2> HIDE DEF s, now
  <2>1. QED
    BY <1>1, <1>2, <1>5
<1>10. \A t \in AiSession : mirror'[t].opening = mirror[t].opening
  BY <1>5, <1>9
<1>11. \A k \in AiCall : AskOK(asks[k])'
  <2>1. now <= opened
    BY <1>2 DEF OpeningsOK
  <2>2. AskOK(r)
    BY <1>1, <1>2, <1>7, <2>1 DEF AskOK
  <2>3. QED
    BY <1>1, <1>8, <2>2 DEF AiInv, AskOK
<1>12. OpeningsOK'
  BY <1>1, <1>2, <1>7, <1>8, <1>10 DEF OpeningsOK
<1>13. ASSUME NEW t \in AiSession PROVE Tracks(mirror'[t], asks')
  <2> DEFINE o == mirror[t].opening
  <2>1. /\ HeldOf(asks[c], o) = (IF asks[c].opening = o THEN cost ELSE 0)
        /\ AstrayOf(asks[c], o) = (IF o = 0 /\ asks[c].opening # 0 THEN cost ELSE 0)
        /\ HeldOf(r, o) = 0
        /\ AstrayOf(r, o) = (IF now = o /\ asks[c].opening # now THEN cost ELSE 0)
    BY <1>1, <1>2, <1>7 DEF HeldOf, AstrayOf
  <2>2. mirror'[t] \in MirrorRecord /\ mirror'[t].opening = o
    BY <1>9, <1>10
  <2>3. mirror[t].spent \in Nat /\ o \in Nat /\ mirror[t] \in MirrorRecord
    BY <1>1 DEF MirrorRecord
  <2>4. CASE o = 0
    BY <2>2, <2>4 DEF Tracks
  <2>5. CASE o > 0 /\ t = s
    <3>1. /\ mirror'[t] = m /\ o = now
      BY <1>9, <2>5
    <3>2. /\ mirror'[t].cap = mirror[t].cap /\ mirror'[t].spent = less
          /\ mirror[t].spent = mirror[s].spent
      BY <1>5, <2>5, <3>1
    <3> HIDE DEF o, now, cost, s
    <3>3. /\ \/ mirror'[t].spent - mirror[t].spent <= HeldOf(r, o) - HeldOf(asks[c], o)
             \/ mirror'[t].spent = 0
          /\ HeldOf(r, o) - HeldOf(asks[c], o) - (AstrayOf(r, o) - AstrayOf(asks[c], o))
                 <= mirror'[t].spent - mirror[t].spent
          /\ mirror'[t].spent <= mirror[t].spent
      BY <1>3, <1>4, <2>1, <2>5, <3>1, <3>2
    <3>4. QED
      BY <1>8, <2>2, <3>2, <3>3, TracksKept DEF o
  <2>6. CASE o > 0 /\ t # s
    <3>1. mirror'[t] = mirror[t]
      BY <1>9, <2>6
    <3>2. asks[c].opening # o /\ now # o
      BY <1>2, <2>6 DEF OpeningsOK
    <3> HIDE DEF o, now, cost, s
    <3>3. /\ HeldOf(r, o) - HeldOf(asks[c], o) = 0
          /\ AstrayOf(r, o) - AstrayOf(asks[c], o) = 0
          /\ mirror'[t].spent - mirror[t].spent = 0
      BY <2>1, <2>3, <2>6, <3>1, <3>2
    <3>4. QED
      BY <1>8, <2>2, <2>3, <3>1, <3>3, TracksKept DEF o
  <2>7. QED
    BY <2>3, <2>4, <2>5, <2>6
<1>14. QED
  BY <1>1, <1>8, <1>9, <1>11, <1>12, <1>13 DEF AiInv

LEMMA AiInvariant == AiSpec => []AiInv
<1>1. InitAi => AiInv
  <2> SUFFICES ASSUME InitAi PROVE AiInv
    OBVIOUS
  <2>1. \A c \in AiCall : AskOK(asks[c])
    BY DEF InitAi, AskOK
  <2>2. OpeningsOK /\ \A s \in AiSession : Tracks(mirror[s], asks)
    BY DEF InitAi, OpeningsOK, Tracks, Closed
  <2>3. opened \in Nat /\ mirror \in [AiSession -> MirrorRecord] /\ asks \in Asks
    BY DEF InitAi, MirrorRecord, Asks, AskRecord, Closed
  <2>4. QED
    BY <2>1, <2>2, <2>3 DEF AiInv
<1>2. AiInv /\ [NextAi]_aiVars => AiInv'
  <2> SUFFICES ASSUME AiInv, [NextAi]_aiVars PROVE AiInv'
    OBVIOUS
  <2>1. ASSUME NEW s \in AiSession, RevokeOrExpire(s) \/ \E cap \in BudgetCap : Connect(s, cap)
        PROVE  AiInv'
    BY <2>1, RevokeOrExpireStep, ConnectStep
  <2>2. ASSUME NEW c \in AiCall,
               \/ Unpaid(c) \/ SettleAi(c) \/ Serve(c) \/ HandlerThrows(c)
               \/ \E s \in AiSession, cost \in CallPrice : AskAi(c, s, cost)
        PROVE  AiInv'
    BY <2>2, FailedStep, SettleAiStep, AskAiStep
  <2>3. CASE RestartAi
    BY <2>3, RestartAiStep
  <2>4. CASE UNCHANGED aiVars
    <3>1. UNCHANGED <<mirror, asks, opened>>
      BY <2>4 DEF aiVars
    <3>2. OpeningsOK' /\ \A c \in AiCall : AskOK(asks[c])'
      BY <3>1 DEF AiInv, OpeningsOK, AskOK
    <3>3. QED
      BY <3>1, <3>2 DEF AiInv
  <2>5. QED
    BY <2>1, <2>2, <2>3, <2>4 DEF NextAi
<1>3. QED
  BY <1>1, <1>2, PTL DEF AiSpec

LEMMA PriceEqual ==
    ASSUME AiInv, NEW T \in SUBSET AiCall, NEW f \in [AiCall -> Int],
           \A c \in AiCall : f[c] = IF c \in T THEN asks[c].price ELSE 0
    PROVE  PriceOf(T) = SumFunction(f)
<1> DEFINE cost == [c \in AiCall |-> asks[c].price]
<1>1. cost \in [AiCall -> Int]
  BY DEF AiInv, Asks, AskRecord
<1>2. f = [c \in AiCall |-> IF c \in T THEN cost[c] ELSE 0]
  OBVIOUS
<1>3. PriceOf(T) = SumFunction([c \in T |-> cost[c]])
  BY DEF PriceOf
<1>4. IsFiniteSet(AiCall)
  BY AiAssumption
<1> HIDE DEF cost
<1>5. QED
  BY <1>1, <1>2, <1>3, <1>4, SumPart

\* More calls cost more.
LEMMA PriceGrows ==
    ASSUME AiInv, NEW T \in SUBSET AiCall, NEW U \in SUBSET AiCall, T \subseteq U
    PROVE  PriceOf(T) <= PriceOf(U)
<1> DEFINE f == [c \in AiCall |-> IF c \in T THEN asks[c].price ELSE 0]
           g == [c \in AiCall |-> IF c \in U THEN asks[c].price ELSE 0]
<1>1. \A c \in AiCall : asks[c].price \in Nat
  BY DEF AiInv, Asks, AskRecord
<1>2. f \in [AiCall -> Int] /\ g \in [AiCall -> Int] /\ \A c \in AiCall : f[c] <= g[c]
  BY <1>1
<1>3. /\ \A c \in AiCall : f[c] = IF c \in T THEN asks[c].price ELSE 0
      /\ \A c \in AiCall : g[c] = IF c \in U THEN asks[c].price ELSE 0
  OBVIOUS
<1> HIDE DEF f, g
<1>4. PriceOf(T) = SumFunction(f) /\ PriceOf(U) = SumFunction(g)
  BY <1>2, <1>3, PriceEqual
<1>5. SumFunction(f) <= SumFunction(g)
  BY <1>2, SumMonotone, AiAssumption
<1> QED
  BY <1>4, <1>5

LEMMA PriceNat ==
    ASSUME AiInv, NEW T \in SUBSET AiCall
    PROVE  PriceOf(T) \in Nat
<1>1. [c \in T |-> asks[c].price] \in [T -> Nat] /\ IsFiniteSet(T)
  BY AiAssumption, FS_Subset DEF AiInv, Asks, AskRecord
<1> QED
  BY <1>1, SumNat DEF PriceOf

\* What a session's mirror says is spent is what its calls hold, whatever failed, and never
\* over the cap: BudgetTracksCalls for any number of calls, sessions and openings
\* (sessionMeter.ts, aiGateway.ts).
THEOREM AiBudgetTracksCalls == AiSpec => []BudgetTracksCalls
<1>1. AiInv => BudgetTracksCalls
  <2> SUFFICES ASSUME AiInv, NEW s \in AiSession, mirror[s].opening > 0
               PROVE  /\ mirror[s].spent <= PriceOf(MayHold(s))
                      /\ PriceOf(Holding(s)) - Astray(s) <= mirror[s].spent
                      /\ mirror[s].spent <= mirror[s].cap
    BY DEF BudgetTracksCalls
  <2> DEFINE o == mirror[s].opening
             H == [c \in AiCall |-> HeldOf(asks[c], o)]
             A == [c \in AiCall |-> AstrayOf(asks[c], o)]
             Holders == Holding(s)
             Strayers == {c \in AiCall : asks[c].into = o /\ asks[c].opening # asks[c].into}
  <2>1. H \in [AiCall -> Int] /\ A \in [AiCall -> Int]
    <3>1. \A c \in AiCall : HeldOf(asks[c], o) \in Nat /\ AstrayOf(asks[c], o) \in Nat
      BY AskTermsTyped DEF AiInv, Asks
    <3>2. QED
      BY <3>1
  <2>2. /\ \A c \in AiCall : H[c] = IF c \in Holders THEN asks[c].price ELSE 0
        /\ \A c \in AiCall : A[c] = IF c \in Strayers THEN asks[c].price ELSE 0
    BY DEF HeldOf, AstrayOf, Holding
  <2>3. /\ HeldIn(asks, o) = SumFunction(H) /\ AstrayIn(asks, o) = SumFunction(A)
        /\ Astray(s) = PriceOf(Strayers)
    BY DEF HeldIn, AstrayIn, Astray
  <2>4. /\ Holders \in SUBSET AiCall /\ Strayers \in SUBSET AiCall
        /\ MayHold(s) \in SUBSET AiCall /\ Holders \subseteq MayHold(s)
    BY DEF Holding, MayHold
  <2> HIDE DEF H, A, Strayers
  <2>5. PriceOf(Holders) = SumFunction(H) /\ PriceOf(Strayers) = SumFunction(A)
    BY <2>1, <2>2, <2>4, PriceEqual
  <2>6. PriceOf(Holders) <= PriceOf(MayHold(s))
    BY <2>4, PriceGrows
  <2>7. /\ PriceOf(Holders) \in Nat /\ PriceOf(MayHold(s)) \in Nat
        /\ mirror[s].spent \in Nat
    BY <2>4, PriceNat DEF AiInv, MirrorRecord
  <2>8. /\ mirror[s].spent <= PriceOf(Holders)
        /\ PriceOf(Holders) - Astray(s) <= mirror[s].spent
        /\ mirror[s].spent <= mirror[s].cap
    BY <2>3, <2>5 DEF AiInv, Tracks
  <2> HIDE DEF Holders
  <2>9. mirror[s].spent <= PriceOf(MayHold(s))
    BY <2>6, <2>7, <2>8
  <2>10. QED
    BY <2>8, <2>9 DEF Holders
<1>2. QED
  BY <1>1, AiInvariant, PTL

-----------------------------------------------------------------------------
(* The two rails of a request. *)

Place ==
    {"idle", "calling", "registering", "shielding", "waiting", "withdrawing", "withdrawn",
     "answered"}

State ==
    [pc : Place, route : {"agent", "payout"}, left : Nat, settled : Nat, sent : BOOLEAN,
     landed : BOOLEAN, paidOut : BOOLEAN,
     answer : {Pending, "bad_request", "not_configured", "error", "shield_failed",
               "withdraw_failed", "paid"}]

\* Nothing is sent before the shield and nothing is paid publicly after it.
OnOneRail(q) ==
    /\ q.pc \in {"idle", "registering", "shielding"} => ~q.sent /\ q.settled = 0
    /\ q.pc = "calling" => ~q.sent
    /\ q.sent => q.settled = 0
    /\ q.pc \in {"waiting", "withdrawing", "withdrawn"} => q.settled = 0
    /\ q.pc # "answered" => q.answer = Pending
    /\ q.answer \in {"not_configured", "bad_request"} => ~q.sent /\ q.settled = 0

\* A call is paid for by the wallet that was looked up.
RailsInv ==
    /\ requests \in [Request -> State]
    /\ \A r \in Request : OnOneRail(requests[r])
    /\ account \in {"unread"} \cup Outcome
    /\ \A r \in Request : requests[r].settled > 0 => account = "ready"

\* A wallet that was found is not looked up again.
AccountKept ==
    /\ account' \in {"unread"} \cup Outcome
    /\ account = "ready" => account' = "ready"

LEMMA SameAccount == ASSUME RailsInv, UNCHANGED account PROVE AccountKept
  BY DEF RailsInv, AccountKept

LEMMA LookupKeeps ==
    ASSUME RailsInv, NEW outcome \in Outcome, Lookup(outcome)
    PROVE  AccountKept /\ account' = outcome
  BY DEF RailsInv, AccountKept, Lookup

\* A step of one request leaves the others where they are.
LEMMA OneMoves ==
    ASSUME RailsInv, AccountKept, NEW r \in Request, NEW q \in State, OnOneRail(q),
           q.settled > 0 => account' = "ready",
           requests' = [requests EXCEPT ![r] = q]
    PROVE  RailsInv'
<1>1. requests' \in [Request -> State]
  BY DEF RailsInv
<1>2. ASSUME NEW s \in Request PROVE OnOneRail(requests'[s])
  <2>1. CASE s = r
    BY <2>1 DEF RailsInv
  <2>2. CASE s # r
    BY <2>2 DEF RailsInv
  <2> QED
    BY <2>1, <2>2
<1>3. ASSUME NEW s \in Request, requests'[s].settled > 0 PROVE account' = "ready"
  BY <1>3 DEF RailsInv, AccountKept
<1> QED
  BY <1>1, <1>2, <1>3 DEF RailsInv, AccountKept

\* A request that goes on or is answered, by what its place allows.
LEMMA OneGoes ==
    ASSUME RailsInv, AccountKept, NEW r \in Request, NEW pc \in Place \ {"answered"},
           Goes(r, pc),
           requests[r].pc # "answered",
           pc \in {"idle", "registering", "shielding"} =>
              ~requests[r].sent /\ requests[r].settled = 0,
           pc = "calling" => ~requests[r].sent,
           pc \in {"waiting", "withdrawing", "withdrawn"} => requests[r].settled = 0
    PROVE  RailsInv'
<1> DEFINE q == [requests[r] EXCEPT !.pc = pc]
<1>1. requests[r] \in State /\ OnOneRail(requests[r])
  BY DEF RailsInv
<1>2. q \in State /\ OnOneRail(q)
  BY <1>1 DEF State, OnOneRail
<1>3. requests' = [requests EXCEPT ![r] = q]
  BY DEF Goes
<1>4. q.settled > 0 => account' = "ready"
  BY <1>1 DEF RailsInv, AccountKept, State
<1> HIDE DEF q
<1> QED
  BY <1>2, <1>3, <1>4, OneMoves

LEMMA OneAnswers ==
    ASSUME RailsInv, AccountKept, NEW r \in Request,
           NEW answer \in {"bad_request", "not_configured", "error", "withdraw_failed", "paid"},
           Answers(r, answer), requests[r].pc # "answered",
           answer \in {"bad_request", "not_configured"} =>
              ~requests[r].sent /\ requests[r].settled = 0
    PROVE  RailsInv'
<1> DEFINE q == [requests[r] EXCEPT !.pc = "answered", !.answer = answer]
<1>1. requests[r] \in State /\ OnOneRail(requests[r])
  BY DEF RailsInv
<1>2. q \in State
  BY <1>1 DEF State, Place
<1>3. OnOneRail(q)
  BY <1>1, <1>2 DEF State, OnOneRail, Pending
<1>4. requests' = [requests EXCEPT ![r] = q]
  BY DEF Answers
<1>5. q.settled > 0 => account' = "ready"
  BY <1>1 DEF RailsInv, AccountKept, State
<1> HIDE DEF q
<1> QED
  BY <1>2, <1>3, <1>4, <1>5, OneMoves

\* Before the shield.
LEMMA EntryKeepsRails ==
    ASSUME RailsInv, NEW r \in Request,
           \/ \E count \in 1..MaxTrialCalls : PostPublic(r, count) \/ PostPrivate(r, count)
           \/ PostPayout(r)
           \/ Register(r)
    PROVE  RailsInv'
<1>1. requests[r] \in State /\ OnOneRail(requests[r])
  BY DEF RailsInv
<1>0. AccountKept
  BY SameAccount DEF PostPublic, PostPrivate, PostPayout, Register
<1>2. ASSUME NEW count \in 1..MaxTrialCalls, NEW pc \in {"calling", "registering"},
             requests[r].pc = "idle",
             requests' = [requests EXCEPT ![r].pc = pc, ![r].left = count]
      PROVE  RailsInv'
  <2> DEFINE q == [requests[r] EXCEPT !.pc = pc, !.left = count]
  <2>1. count \in Nat
    BY PayAssumption
  <2>2. q \in State
    BY <1>1, <2>1 DEF State, Place
  <2>3. OnOneRail(q)
    BY <1>1, <1>2, <2>2 DEF State, OnOneRail
  <2>4. requests' = [requests EXCEPT ![r] = q]
    BY <1>2
  <2>5. ~(q.settled > 0)
    BY <1>1, <1>2 DEF OnOneRail
  <2> HIDE DEF q
  <2> QED
    BY <1>0, <2>2, <2>3, <2>4, <2>5, OneMoves
<1>3. ASSUME PostPayout(r) PROVE RailsInv'
  <2> DEFINE q == [requests[r] EXCEPT !.pc = "registering", !.route = "payout"]
  <2>1. q \in State /\ OnOneRail(q)
    BY <1>1, <1>3 DEF State, OnOneRail, Place, PostPayout
  <2>2. requests' = [requests EXCEPT ![r] = q]
    BY <1>3 DEF PostPayout
  <2>3. ~(q.settled > 0)
    BY <1>1, <1>3 DEF OnOneRail, PostPayout
  <2> HIDE DEF q
  <2> QED
    BY <1>0, <2>1, <2>2, <2>3, OneMoves
<1>4. ASSUME NEW count \in 1..MaxTrialCalls, PostPrivate(r, count), Answers(r, "bad_request")
      PROVE  RailsInv'
  BY <1>0, <1>1, <1>4, OneAnswers DEF PostPrivate, OnOneRail
<1>5. ASSUME Register(r) PROVE RailsInv'
  <2>1. ~requests[r].sent /\ requests[r].settled = 0 /\ requests[r].pc = "registering"
    BY <1>1, <1>5 DEF Register, OnOneRail
  <2>2. CASE Goes(r, "shielding")
    BY <1>0, <2>1, <2>2, OneGoes DEF Place
  <2>3. CASE Goes(r, "calling")
    BY <1>0, <2>1, <2>3, OneGoes DEF Place
  <2>4. CASE Answers(r, "not_configured") \/ Answers(r, "error")
    BY <1>0, <2>1, <2>4, OneAnswers
  <2> QED
    BY <1>5, <2>2, <2>3, <2>4 DEF Register, SdkAbsent
<1> QED
  BY <1>2, <1>3, <1>4, <1>5 DEF PostPublic, PostPrivate

\* The private leg, whatever its errors say.
LEMMA PrivateLegKeepsRails ==
    ASSUME RailsInv, NEW r \in Request,
           Shield(r) \/ WaitForTx(r) \/ Withdraw(r) \/ WithdrawUnheard(r) \/ ReplyPrivate(r)
    PROVE  RailsInv'
<1>1. requests[r] \in State /\ OnOneRail(requests[r])
  BY DEF RailsInv
<1>0. ASSUME Shield(r) \/ WaitForTx(r) \/ Withdraw(r) \/ WithdrawUnheard(r)
      PROVE  AccountKept
  BY <1>0, SameAccount DEF Shield, WaitForTx, Withdraw, WithdrawUnheard
<1>2. ASSUME Shield(r) PROVE RailsInv'
  <2>1. PICK landed0, told \in BOOLEAN :
          requests' = [requests EXCEPT ![r] =
              [@ EXCEPT !.sent = TRUE, !.landed = landed0,
                        !.pc = IF told THEN "waiting" ELSE "answered",
                        !.answer = IF told THEN Pending ELSE "shield_failed"]]
    BY <1>2 DEF Shield
  <2> DEFINE q == [requests[r] EXCEPT !.sent = TRUE, !.landed = landed0,
                        !.pc = IF told THEN "waiting" ELSE "answered",
                        !.answer = IF told THEN Pending ELSE "shield_failed"]
  <2>2. q \in State /\ OnOneRail(q)
    BY <1>1, <1>2 DEF State, OnOneRail, Place, Pending, Shield
  <2>3. requests' = [requests EXCEPT ![r] = q]
    BY <2>1
  <2>0. requests[r].settled = 0
    BY <1>1, <1>2 DEF OnOneRail, Shield
  <2>4. q.settled = 0
    BY <1>1, <2>0 DEF State
  <2>5. AccountKept
    BY <1>0, <1>2
  <2>6. ~(q.settled > 0)
    BY <2>4
  <2> HIDE DEF q
  <2> QED
    BY <2>2, <2>3, <2>5, <2>6, OneMoves
<1>3. ASSUME WaitForTx(r) PROVE RailsInv'
  <2>1. requests[r].settled = 0 /\ requests[r].pc = "waiting"
    BY <1>1, <1>3 DEF WaitForTx, OnOneRail
  <2> AccountKept
    BY <1>0, <1>3
  <2>2. CASE Goes(r, "withdrawing")
    BY <2>1, <2>2, OneGoes DEF Place
  <2>3. CASE Answers(r, "error")
    BY <2>1, <2>3, OneAnswers
  <2> QED
    BY <1>3, <2>2, <2>3 DEF WaitForTx
<1>4. ASSUME NEW pc \in {"withdrawn", "answered"}, AccountKept, requests[r].pc = "withdrawing",
             NEW answer \in {requests[r].answer, "withdraw_failed"},
             pc = "withdrawn" => answer = requests[r].answer,
             requests' = [requests EXCEPT ![r] =
                [requests[r] EXCEPT !.pc = pc, !.paidOut = TRUE, !.answer = answer]]
      PROVE  RailsInv'
  <2> DEFINE q == [requests[r] EXCEPT !.pc = pc, !.paidOut = TRUE, !.answer = answer]
  <2>1. q \in State
    BY <1>1, <1>4 DEF State, Place
  <2>2. OnOneRail(q)
    BY <1>1, <1>4, <2>1 DEF State, OnOneRail, Pending
  <2>3. ~(q.settled > 0)
    BY <1>1, <1>4 DEF OnOneRail
  <2> HIDE DEF q
  <2> QED
    BY <1>4, <2>1, <2>2, <2>3, OneMoves DEF q
<1>5. ASSUME Withdraw(r) PROVE RailsInv'
  <2> AccountKept
    BY <1>0, <1>5
  <2>1. CASE WithdrawFailed(r)
    BY <1>5, <2>1, OneAnswers DEF Withdraw, WithdrawFailed
  <2>2. CASE requests' = [requests EXCEPT ![r].pc = "withdrawn", ![r].paidOut = TRUE]
    <3>1. requests' = [requests EXCEPT ![r] =
             [requests[r] EXCEPT !.pc = "withdrawn", !.paidOut = TRUE,
                                 !.answer = requests[r].answer]]
      BY <1>1, <2>2 DEF RailsInv, State
    <3> QED
      BY <1>4, <1>5, <3>1 DEF Withdraw
  <2> QED
    BY <1>5, <2>1, <2>2 DEF Withdraw
<1>6. ASSUME WithdrawUnheard(r) PROVE RailsInv'
  <2> AccountKept
    BY <1>0, <1>6
  <2>1. requests' = [requests EXCEPT ![r] =
             [requests[r] EXCEPT !.pc = "answered", !.paidOut = TRUE,
                                 !.answer = "withdraw_failed"]]
    BY <1>6 DEF WithdrawUnheard
  <2> QED
    BY <1>4, <1>6, <2>1 DEF WithdrawUnheard
<1>7. ASSUME ReplyPrivate(r) PROVE RailsInv'
  <2>1. AccountKept
    BY <1>7, SameAccount, LookupKeeps DEF ReplyPrivate
  <2>2. requests[r].pc = "withdrawn" /\ (Answers(r, "paid") \/ Answers(r, "error"))
    BY <1>7 DEF ReplyPrivate
  <2> QED
    BY <2>1, <2>2, OneAnswers
<1> QED
  BY <1>2, <1>3, <1>5, <1>6, <1>7

\* The public rail, however many of its calls were settled.
LEMMA PublicRailKeepsRails ==
    ASSUME RailsInv, NEW r \in Request, Quote(r) \/ PayOnce(r) \/ ReplyPublic(r)
    PROVE  RailsInv'
<1>1. requests[r] \in State /\ OnOneRail(requests[r])
  BY DEF RailsInv
<1>2. ASSUME PayOnce(r), AccountKept, account' = "ready",
             requests' = [requests EXCEPT ![r].left = @ - 1, ![r].settled = @ + 1]
      PROVE  RailsInv'
  <2> DEFINE q == [requests[r] EXCEPT !.left = @ - 1, !.settled = @ + 1]
  <2>1. requests[r].left - 1 \in Nat /\ requests[r].settled + 1 \in Nat
    BY <1>1, <1>2 DEF State, PayOnce
  <2>2. q \in State
    BY <1>1, <2>1 DEF State
  <2>3. OnOneRail(q)
    BY <1>1, <1>2, <2>2 DEF OnOneRail, State, PayOnce, Pending
  <2>4. requests' = [requests EXCEPT ![r] = q]
    BY <1>2
  <2> HIDE DEF q
  <2> QED
    BY <1>2, <2>2, <2>3, <2>4, OneMoves
<1>3. ASSUME PayOnce(r), AccountKept, account' = "ready",
             requests' = [requests EXCEPT ![r].settled = @ + 1,
                                          ![r].pc = "answered", ![r].answer = "error"]
      PROVE  RailsInv'
  <2> DEFINE q == [requests[r] EXCEPT !.settled = @ + 1, !.pc = "answered", !.answer = "error"]
  <2>1. requests[r].settled + 1 \in Nat
    BY <1>1 DEF State
  <2>2. q \in State
    BY <1>1, <2>1 DEF State, Place
  <2>3. OnOneRail(q)
    BY <1>1, <1>3, <2>2 DEF OnOneRail, State, PayOnce, Pending
  <2>4. requests' = [requests EXCEPT ![r] = q]
    BY <1>3
  <2> HIDE DEF q
  <2> QED
    BY <1>3, <2>2, <2>3, <2>4, OneMoves
<1>4. ASSUME NEW outcome \in Outcome, Lookup(outcome), outcome # "ready",
             CallFails(r, outcome), requests[r].pc = "calling"
      PROVE  RailsInv'
  <2>1. AccountKept /\ account # "ready"
    BY <1>4, LookupKeeps DEF Lookup
  <2>2. ~requests[r].sent /\ requests[r].settled = 0
    BY <1>1, <1>4, <2>1 DEF RailsInv, OnOneRail, State
  <2>3. Answers(r, "not_configured") \/ Answers(r, "error")
    BY <1>4 DEF CallFails
  <2> QED
    BY <1>4, <2>1, <2>2, <2>3, OneAnswers
<1>5. ASSUME AccountKept, Answers(r, "error") \/ Answers(r, "paid"),
             requests[r].pc = "calling"
      PROVE  RailsInv'
  BY <1>5, OneAnswers
<1>6. ASSUME PayOnce(r) PROVE RailsInv'
  <2>1. CASE Answers(r, "error") /\ UNCHANGED account
    BY <1>5, <1>6, <2>1, SameAccount DEF PayOnce
  <2>2. ASSUME NEW outcome \in Outcome, Lookup(outcome), outcome # "ready",
               CallFails(r, outcome)
        PROVE  RailsInv'
    BY <1>4, <1>6, <2>2 DEF PayOnce
  <2>3. ASSUME Lookup("ready"), Answers(r, "error") PROVE RailsInv'
    BY <1>5, <1>6, <2>3, LookupKeeps DEF PayOnce, Outcome
  <2>4. ASSUME Lookup("ready") PROVE AccountKept /\ account' = "ready"
    BY <2>4, LookupKeeps DEF Outcome
  <2> QED
    BY <1>2, <1>3, <1>6, <2>1, <2>2, <2>3, <2>4 DEF PayOnce
<1>7. ASSUME ReplyPublic(r) PROVE RailsInv'
  <2>1. PICK outcome \in Outcome :
          /\ Lookup(outcome)
          /\ IF outcome = "ready" THEN Answers(r, "paid") ELSE CallFails(r, outcome)
    BY <1>7 DEF ReplyPublic
  <2>2. AccountKept /\ requests[r].pc = "calling"
    BY <1>7, <2>1, LookupKeeps DEF ReplyPublic
  <2> QED
    BY <1>4, <1>5, <2>1, <2>2
<1>8. ASSUME Quote(r) PROVE RailsInv'
  <2>1. AccountKept /\ UNCHANGED requests
    BY <1>8, LookupKeeps DEF Quote
  <2> QED
    BY <2>1 DEF RailsInv, AccountKept
<1> QED
  BY <1>6, <1>7, <1>8

\* A request of api/agent/pay or api/payout pays on one rail only, whatever fails and
\* whatever an error leaves open, for any number of requests and of calls they ask for.
THEOREM PaysOnOneRail == PaySpec => []OneRail
<1>1. InitPay => RailsInv
  <2> SUFFICES ASSUME InitPay PROVE RailsInv
    OBVIOUS
  <2>1. \A r \in Request : requests[r] \in State /\ OnOneRail(requests[r])
    BY DEF InitPay, State, Place, OnOneRail, Pending
  <2>2. \A r \in Request : ~(requests[r].settled > 0)
    BY DEF InitPay
  <2>3. requests \in [Request -> State] /\ account = "unread"
    BY <2>1 DEF InitPay
  <2> QED
    BY <2>1, <2>2, <2>3 DEF RailsInv
<1>2. RailsInv /\ [NextPay]_requestVars => RailsInv'
  <2>1. ASSUME RailsInv, UNCHANGED requestVars PROVE RailsInv'
    <3>1. requests' = requests /\ account' = account
      BY <2>1 DEF requestVars
    <3>2. AccountKept
      BY <2>1, <3>1, SameAccount
    <3>3. \A r \in Request : OnOneRail(requests'[r])
      BY <2>1, <3>1 DEF RailsInv
    <3>4. \A r \in Request : requests'[r].settled > 0 => account' = "ready"
      BY <2>1, <3>1 DEF RailsInv
    <3> QED
      BY <2>1, <3>1, <3>2, <3>3, <3>4 DEF RailsInv, AccountKept
  <2> QED
    BY <2>1, EntryKeepsRails, PrivateLegKeepsRails, PublicRailKeepsRails DEF NextPay
<1>3. RailsInv => OneRail
  BY DEF RailsInv, OneRail, OnOneRail
<1> QED
  BY <1>1, <1>2, <1>3, PTL DEF PaySpec

-----------------------------------------------------------------------------
(* What the checkout page is charged. *)

\* An amount that some payToken was quoted, or less.
Within(quotes, token, n) == \E quote \in quotes : quote[1] = token /\ n <= quote[2]

Tx == [kind : {"approve", "pay"}, task : Task, token : Token, amount : Nat]

Page == [token : Token, shown : Token \cup {NoToken}, failed : BOOLEAN, loading : BOOLEAN,
         paying : BOOLEAN, receipt : Token \cup {NoToken}]

TaskState ==
    [pc : {"idle", "asked", "requoting", "quoting", "allowance", "approve", "approving",
           "confirm", "sent", "over"},
     token : Token \cup {NoToken}, amount : Nat, mined : {"no", "taken", "reverted"}]

PageShapes ==
    /\ page \in Page
    /\ tasks \in [Task -> TaskState]
    /\ \A t \in Task : tasks[t].pc # "idle" => tasks[t].token \in Token

ChainShapes ==
    /\ price \in [Token -> Price]
    /\ allowance \in [Token -> Nat]
    /\ mempool \in Seq(Tx)
    /\ quoted \subseteq Token \X Nat
    /\ elsewhere \subseteq Token \X Nat
    /\ charged \subseteq Token \X Nat

TasksQuoted == \A t \in Task : tasks[t].pc \in {"allowance", "approve"} =>
    Within(Agreed, tasks[t].token, tasks[t].amount)

AllowancesQuoted == \A token \in Token :
    allowance[token] # 0 => Within(Agreed, token, allowance[token])

MempoolQuoted == \A i \in 1..Len(mempool) : mempool[i].kind = "approve" =>
    Within(Agreed, mempool[i].token, mempool[i].amount)

CheckoutInv ==
    /\ PageShapes /\ ChainShapes
    /\ TasksQuoted /\ AllowancesQuoted /\ MempoolQuoted
    /\ ChargedAsQuoted

\* A step of a task that asks for nothing new and changes nothing on the chain.
LEMMA TaskTurns ==
    ASSUME CheckoutInv, UNCHANGED chain, page' \in Page,
           NEW t \in Task, NEW q \in TaskState, tasks' = [tasks EXCEPT ![t] = q],
           q.pc # "idle" => q.token \in Token,
           q.pc \in {"allowance", "approve"} => Within(Agreed, q.token, q.amount)
    PROVE  CheckoutInv'
<1>1. PageShapes'
  BY DEF CheckoutInv, PageShapes
<1>2. TasksQuoted'
  BY DEF CheckoutInv, PageShapes, TasksQuoted, chain, Agreed
<1>3. (ChainShapes /\ AllowancesQuoted /\ MempoolQuoted /\ ChargedAsQuoted)'
  BY DEF CheckoutInv, ChainShapes, AllowancesQuoted, MempoolQuoted, ChargedAsQuoted, chain, Agreed
<1> QED
  BY <1>1, <1>2, <1>3 DEF CheckoutInv

\* A task that goes on, or fails, but not to where it needs a quote.
LEMMA PlainTurn ==
    ASSUME CheckoutInv, UNCHANGED chain, page' \in Page, NEW t \in Task,
           NEW pc \in {"requoting", "quoting", "approving", "confirm", "sent", "over"},
           tasks[t].pc # "idle", Turns(t, pc)
    PROVE  CheckoutInv'
<1> DEFINE q == [tasks[t] EXCEPT !.pc = pc]
<1>1. tasks[t] \in TaskState /\ tasks[t].token \in Token
  BY DEF CheckoutInv, PageShapes
<1>2. q \in TaskState /\ q.token \in Token /\ q.pc = pc
  BY <1>1 DEF TaskState
<1>3. tasks' = [tasks EXCEPT ![t] = q]
  BY DEF Turns
<1> HIDE DEF q
<1> QED
  BY <1>2, <1>3, TaskTurns

LEMMA PageSteps ==
    ASSUME CheckoutInv, NEW t \in Task,
           \/ \E token \in Token : SelectToken(t, token)
           \/ PressPay(t) \/ QuoteShown(t) \/ Requoted(t) \/ QuoteThrows(t)
    PROVE  CheckoutInv'
<1>1. page \in Page /\ tasks[t] \in TaskState
  BY DEF CheckoutInv, PageShapes
<1>2. ASSUME NEW token \in Token, NEW pc \in {"asked", "requoting"},
             tasks' = [tasks EXCEPT ![t] = [Task0 EXCEPT !.pc = pc, !.token = token]],
             page' \in Page, UNCHANGED chain
      PROVE  CheckoutInv'
  <2> DEFINE q == [Task0 EXCEPT !.pc = pc, !.token = token]
  <2>1. q \in TaskState /\ q.token = token /\ q.pc = pc
    BY DEF TaskState, Task0
  <2> HIDE DEF q
  <2> QED
    BY <1>2, <2>1, TaskTurns DEF q
<1>3. ASSUME NEW token \in Token, SelectToken(t, token) PROVE CheckoutInv'
  <2>1. page' \in Page
    BY <1>1, <1>3 DEF SelectToken, Asking, Page
  <2> QED
    BY <1>2, <1>3, <2>1 DEF SelectToken
<1>4. ASSUME PressPay(t) PROVE CheckoutInv'
  <2>1. page' \in Page /\ page.token \in Token
    BY <1>1, <1>4 DEF PressPay, Asking, Page
  <2> QED
    BY <1>2, <1>4, <2>1 DEF PressPay
<1>5. ASSUME tasks[t].pc # "idle", NEW answered \in Replied(t) PROVE answered \in Page
  <2>1. tasks[t].token \in Token
    BY <1>5 DEF CheckoutInv, PageShapes
  <2> QED
    BY <1>1, <1>5, <2>1 DEF Replied, Page
<1>6. ASSUME Ends(t), UNCHANGED chain, page' \in Page PROVE CheckoutInv'
  <2>1. Task0 \in TaskState /\ Task0.pc = "idle"
    BY DEF TaskState, Task0
  <2> QED
    BY <1>6, <2>1, TaskTurns DEF Ends
<1>7. ASSUME Requoted(t) PROVE CheckoutInv'
  <2>1. PICK answered \in Replied(t) : page' = [answered EXCEPT !.paying = TRUE]
    BY <1>7 DEF Requoted
  <2>2. answered \in Page
    BY <1>5, <1>7 DEF Requoted
  <2>3. page' \in Page
    BY <2>1, <2>2 DEF Page
  <2> QED
    BY <1>7, <2>3, PlainTurn DEF Requoted
<1>8. ASSUME QuoteShown(t) PROVE CheckoutInv'
  BY <1>5, <1>6, <1>8 DEF QuoteShown
<1>9. ASSUME QuoteThrows(t) PROVE CheckoutInv'
  BY <1>1, <1>6, <1>9 DEF QuoteThrows
<1> QED
  BY <1>3, <1>4, <1>7, <1>8, <1>9

\* More quotes break nothing.
LEMMA WithinMore ==
    ASSUME NEW Q, NEW R, Q \subseteq R, NEW token, NEW n, Within(Q, token, n)
    PROVE  Within(R, token, n)
  BY DEF Within

LEMMA GetQuoteKeeps == ASSUME CheckoutInv, NEW t \in Task, GetQuote(t) PROVE CheckoutInv'
<1> DEFINE token == tasks[t].token
           asked == price[token]
<1>1. token \in Token /\ asked \in Nat
  BY CheckoutAssumption DEF CheckoutInv, PageShapes, ChainShapes, GetQuote
<1>2. Agreed \subseteq Agreed' /\ Within(Agreed', token, asked)
  <2>1. quoted' = quoted \cup {<<token, asked>>} /\ elsewhere' = elsewhere
    BY DEF GetQuote
  <2>2. asked <= asked
    BY <1>1
  <2> HIDE DEF token, asked
  <2>3. <<token, asked>>[1] = token /\ <<token, asked>>[2] = asked
    OBVIOUS
  <2> QED
    BY <2>1, <2>2, <2>3 DEF Within, Agreed
<1>3. PageShapes'
  <2>1. [tasks[t] EXCEPT !.pc = "allowance", !.amount = asked] \in TaskState
    BY <1>1 DEF CheckoutInv, PageShapes, TaskState
  <2> QED
    BY <1>1, <2>1 DEF CheckoutInv, PageShapes, GetQuote
<1>4. ChainShapes'
  BY <1>1 DEF CheckoutInv, ChainShapes, GetQuote
<1>5. TasksQuoted'
  <2> SUFFICES ASSUME NEW s \in Task, tasks'[s].pc \in {"allowance", "approve"}
               PROVE  Within(Agreed', tasks'[s].token, tasks'[s].amount)
    BY DEF TasksQuoted
  <2>1. CASE s = t
    BY <1>2, <2>1 DEF CheckoutInv, PageShapes, TaskState, GetQuote
  <2>2. CASE s # t
    <3>1. tasks'[s] = tasks[s]
      BY <2>2 DEF CheckoutInv, PageShapes, GetQuote
    <3> QED
      BY <1>2, <3>1, WithinMore DEF CheckoutInv, TasksQuoted
  <2> QED
    BY <2>1, <2>2
<1>6. AllowancesQuoted'
  BY <1>2, WithinMore DEF CheckoutInv, AllowancesQuoted, GetQuote
<1>7. MempoolQuoted'
  BY <1>2, WithinMore DEF CheckoutInv, MempoolQuoted, GetQuote
<1>8. ChargedAsQuoted'
  BY <1>2 DEF CheckoutInv, ChargedAsQuoted, GetQuote
<1> QED
  BY <1>3, <1>4, <1>5, <1>6, <1>7, <1>8 DEF CheckoutInv

LEMMA ReadAllowanceKeeps ==
    ASSUME CheckoutInv, NEW t \in Task, ReadAllowance(t) PROVE CheckoutInv'
<1>1. tasks[t] \in TaskState /\ tasks[t].token \in Token
      /\ Within(Agreed, tasks[t].token, tasks[t].amount) /\ page' \in Page /\ UNCHANGED chain
  BY DEF CheckoutInv, PageShapes, TasksQuoted, ReadAllowance
<1>2. ASSUME NEW pc \in {"approve", "confirm"}, Turns(t, pc) PROVE CheckoutInv'
  <2> DEFINE q == [tasks[t] EXCEPT !.pc = pc]
  <2>1. q \in TaskState /\ q.token = tasks[t].token /\ q.amount = tasks[t].amount
    BY <1>1 DEF TaskState
  <2>2. tasks' = [tasks EXCEPT ![t] = q]
    BY <1>2 DEF Turns
  <2> HIDE DEF q
  <2> QED
    BY <1>1, <2>1, <2>2, TaskTurns
<1> QED
  BY <1>2 DEF ReadAllowance

\* What the wallet sends: an approval of what was quoted, or a payment.
LEMMA SendsKeeps ==
    ASSUME CheckoutInv, NEW t \in Task, SendApproval(t) \/ SendPayment(t) PROVE CheckoutInv'
<1>1. PICK tx \in Tx, pc \in {"approving", "sent"} :
         /\ Sends(t, tx, pc)
         /\ tx.kind = "approve" => Within(Agreed, tx.token, tx.amount)
  <2>1. tasks[t] \in TaskState /\ tasks[t].token \in Token
    BY DEF CheckoutInv, PageShapes, SendApproval, SendPayment
  <2>2. CASE SendApproval(t)
    <3> DEFINE tx == [kind |-> "approve", task |-> t, token |-> tasks[t].token,
                      amount |-> Approval(t)]
    <3>1. tx \in Tx /\ Sends(t, tx, "approving")
      BY <2>1, <2>2 DEF SendApproval, Tx, TaskState, Approval
    <3>2. Within(Agreed, tx.token, tx.amount)
      BY <2>2 DEF SendApproval, CheckoutInv, TasksQuoted, Approval
    <3> QED
      BY <3>1, <3>2
  <2>3. CASE SendPayment(t)
    <3> DEFINE tx == [kind |-> "pay", task |-> t, token |-> tasks[t].token, amount |-> 0]
    <3>1. tx \in Tx /\ Sends(t, tx, "sent") /\ tx.kind # "approve"
      BY <2>1, <2>3 DEF SendPayment, Tx
    <3> QED
      BY <3>1
  <2> QED
    BY <2>2, <2>3
<1>2. tasks[t].pc # "idle"
  BY DEF SendApproval, SendPayment
<1>3. PICK to \in {"approving", "sent", "over"} : Turns(t, to) /\ page' \in Page
  <2>1. page \in Page /\ [page EXCEPT !.paying = FALSE] \in Page
    BY DEF CheckoutInv, PageShapes, Page
  <2> QED
    BY <1>1, <2>1 DEF Sends, Fails
<1>4. PageShapes' /\ TasksQuoted'
  <2>1. [tasks[t] EXCEPT !.pc = to] \in TaskState
    BY DEF CheckoutInv, PageShapes, TaskState
  <2>2. PageShapes'
    BY <1>2, <1>3, <2>1 DEF CheckoutInv, PageShapes, Turns, TaskState
  <2>3. TasksQuoted'
    BY <1>1, <1>3, <2>1 DEF CheckoutInv, PageShapes, TasksQuoted, Turns, Sends, TaskState, Agreed
  <2> QED
    BY <2>2, <2>3
<1>5. mempool' \in Seq(Tx) /\ Len(mempool') = Len(mempool) + 1 /\ Len(mempool) \in Nat
      /\ \A i \in 1..Len(mempool') :
            mempool'[i] = IF i = Len(mempool) + 1 THEN tx ELSE mempool[i]
  BY <1>1 DEF Sends, CheckoutInv, ChainShapes
<1>6. ChainShapes'
  BY <1>1, <1>5 DEF CheckoutInv, ChainShapes, Sends
<1>7. MempoolQuoted'
  <2> SUFFICES ASSUME NEW i \in 1..Len(mempool'), mempool'[i].kind = "approve"
               PROVE  Within(Agreed', mempool'[i].token, mempool'[i].amount)
    BY DEF MempoolQuoted
  <2>1. CASE i = Len(mempool) + 1
    BY <1>1, <1>5, <2>1 DEF Sends, Agreed
  <2>2. CASE i # Len(mempool) + 1
    <3>1. i \in 1..Len(mempool) /\ mempool'[i] = mempool[i]
      BY <1>5, <2>2
    <3> QED
      BY <1>1, <3>1 DEF Sends, CheckoutInv, MempoolQuoted, Agreed
  <2> QED
    BY <2>1, <2>2
<1>8. AllowancesQuoted' /\ ChargedAsQuoted'
  BY <1>1 DEF CheckoutInv, AllowancesQuoted, ChargedAsQuoted, Sends, Agreed
<1> QED
  BY <1>4, <1>6, <1>7, <1>8 DEF CheckoutInv

LEMMA WaitsKeep ==
    ASSUME CheckoutInv, NEW t \in Task, Approved(t) \/ Confirmed(t) \/ PayFails(t)
    PROVE  CheckoutInv'
<1>1. page \in Page /\ (tasks[t].pc # "idle" => tasks[t].token \in Token)
  BY DEF CheckoutInv, PageShapes
<1>2. CASE Approved(t)
  BY <1>1, <1>2, PlainTurn DEF Approved
<1>3. CASE Confirmed(t)
  <2>1. page' \in Page
    BY <1>1, <1>3 DEF Confirmed, Page
  <2> QED
    BY <1>3, <2>1, PlainTurn DEF Confirmed
<1>4. CASE PayFails(t)
  <2>1. page' \in Page
    BY <1>1, <1>4 DEF PayFails, Fails, Page
  <2> QED
    BY <1>4, <2>1, PlainTurn DEF PayFails, Fails
<1> QED
  BY <1>2, <1>3, <1>4

\* A transaction that is mined leaves the rest of the mempool as it is.
LEMMA MempoolShrinks ==
    ASSUME CheckoutInv, mempool # <<>>, mempool' = Tail(mempool), quoted' = quoted,
           elsewhere' = elsewhere
    PROVE  /\ mempool' \in Seq(Tx)
           /\ MempoolQuoted'
           /\ Head(mempool) \in Tx
           /\ Head(mempool).kind = "approve" =>
                 Within(Agreed, Head(mempool).token, Head(mempool).amount)
<1>1. mempool \in Seq(Tx) /\ Len(mempool) \in Nat \ {0} /\ Head(mempool) = mempool[1]
  BY DEF CheckoutInv, ChainShapes
<1>2. mempool' \in Seq(Tx) /\ Len(mempool') = Len(mempool) - 1
      /\ \A i \in 1..Len(mempool') : mempool'[i] = mempool[i + 1]
  BY <1>1
<1>3. MempoolQuoted'
  <2> SUFFICES ASSUME NEW i \in 1..Len(mempool'), mempool'[i].kind = "approve"
               PROVE  Within(Agreed', mempool'[i].token, mempool'[i].amount)
    BY DEF MempoolQuoted
  <2>1. i + 1 \in 1..Len(mempool) /\ mempool'[i] = mempool[i + 1]
    BY <1>1, <1>2
  <2> QED
    BY <2>1 DEF CheckoutInv, MempoolQuoted, Agreed
<1>4. 1 \in 1..Len(mempool) /\ Head(mempool) \in Tx
  BY <1>1
<1> QED
  BY <1>1, <1>2, <1>3, <1>4 DEF CheckoutInv, MempoolQuoted

LEMMA MineApprovalKeeps == ASSUME CheckoutInv, MineApproval PROVE CheckoutInv'
<1>1. mempool' \in Seq(Tx) /\ MempoolQuoted' /\ Head(mempool) \in Tx
      /\ Within(Agreed, Head(mempool).token, Head(mempool).amount)
  BY MempoolShrinks DEF MineApproval
<1>2. Head(mempool).token \in Token /\ Head(mempool).amount \in Nat
  BY <1>1 DEF Tx
<1>3. allowance' \in [Token -> Nat] /\ AllowancesQuoted'
  BY <1>1, <1>2 DEF MineApproval, CheckoutInv, ChainShapes, AllowancesQuoted, Agreed
<1>4. PageShapes' /\ TasksQuoted' /\ ChargedAsQuoted'
  BY DEF MineApproval, CheckoutInv, PageShapes, TasksQuoted, ChargedAsQuoted, Agreed
<1> QED
  BY <1>1, <1>3, <1>4 DEF MineApproval, CheckoutInv, ChainShapes

LEMMA MinePaymentKeeps == ASSUME CheckoutInv, MinePayment PROVE CheckoutInv'
<1> DEFINE t == Head(mempool).task
           token == Head(mempool).token
<1>1. mempool' \in Seq(Tx) /\ MempoolQuoted' /\ Head(mempool) \in Tx
  BY MempoolShrinks DEF MinePayment
<1>2. t \in Task /\ token \in Token /\ price[token] \in Nat \ {0}
  BY <1>1, CheckoutAssumption DEF Tx, CheckoutInv, ChainShapes
<1>3. PageShapes' /\ TasksQuoted'
  <2>1. PICK mined \in {"taken", "reverted"} : tasks' = [tasks EXCEPT ![t].mined = mined]
    BY DEF MinePayment
  <2>2. [tasks[t] EXCEPT !.mined = mined] \in TaskState
    BY <1>2 DEF CheckoutInv, PageShapes, TaskState
  <2>3. PageShapes'
    BY <1>2, <2>1, <2>2 DEF MinePayment, CheckoutInv, PageShapes, TaskState
  <2>4. TasksQuoted'
    BY <1>2, <2>1, <2>2 DEF MinePayment, CheckoutInv, PageShapes, TasksQuoted, TaskState, Agreed
  <2> QED
    BY <2>3, <2>4
<1>4. CASE UNCHANGED <<allowance, charged>>
  BY <1>1, <1>3, <1>4
     DEF MinePayment, CheckoutInv, ChainShapes, AllowancesQuoted, ChargedAsQuoted, Agreed
<1>5. CASE /\ allowance[token] >= price[token]
           /\ allowance' = [allowance EXCEPT ![token] = @ - price[token]]
           /\ charged' = charged \cup {<<token, price[token]>>}
  <2>1. allowance[token] \in Nat /\ allowance[token] - price[token] \in Nat
    BY <1>2, <1>5 DEF CheckoutInv, ChainShapes
  <2>2. PICK quote \in Agreed : quote[1] = token /\ allowance[token] <= quote[2]
    BY <1>2, <1>5, <2>1 DEF CheckoutInv, AllowancesQuoted, Within
  <2>3. quote[2] \in Nat
    BY <2>2 DEF CheckoutInv, ChainShapes, Agreed
  <2>4. allowance' \in [Token -> Nat] /\ charged' \subseteq Token \X Nat
    BY <1>2, <1>5, <2>1 DEF CheckoutInv, ChainShapes
  <2>5. AllowancesQuoted'
    <3> SUFFICES ASSUME NEW other \in Token, allowance'[other] # 0
                 PROVE  Within(Agreed', other, allowance'[other])
      BY DEF AllowancesQuoted
    <3>1. CASE other = token
      <4>1. allowance'[other] = allowance[token] - price[token]
        BY <1>2, <1>5, <3>1 DEF CheckoutInv, ChainShapes
      <4>2. allowance[token] - price[token] <= quote[2]
        BY <1>2, <2>1, <2>2, <2>3
      <4> QED
        BY <2>2, <3>1, <4>1, <4>2 DEF Within, MinePayment, Agreed
    <3>2. CASE other # token
      BY <1>2, <1>5, <3>2 DEF CheckoutInv, ChainShapes, AllowancesQuoted, MinePayment, Agreed
    <3> QED
      BY <3>1, <3>2
  <2>6. price[token] <= quote[2]
    BY <1>2, <1>5, <2>1, <2>2, <2>3
  <2>7. ChargedAsQuoted'
    BY <1>5, <2>2, <2>6 DEF CheckoutInv, ChargedAsQuoted, MinePayment, Agreed
  <2> QED
    BY <1>1, <1>3, <2>4, <2>5, <2>7 DEF MinePayment, CheckoutInv, ChainShapes
<1> QED
  BY <1>4, <1>5 DEF MinePayment

LEMMA ApproveElsewhereKeeps ==
    ASSUME CheckoutInv, NEW token \in Token, NEW amount \in Leftover,
           ApproveElsewhere(token, amount)
    PROVE  CheckoutInv'
<1>1. amount \in Nat /\ amount <= amount
  BY CheckoutAssumption
<1>2. elsewhere' = elsewhere \cup {<<token, amount>>} /\ quoted' = quoted
      /\ allowance' = [allowance EXCEPT ![token] = amount]
  BY DEF ApproveElsewhere
<1>3. Agreed \subseteq Agreed' /\ Within(Agreed', token, amount)
  <2>1. <<token, amount>>[1] = token /\ <<token, amount>>[2] = amount
    OBVIOUS
  <2> QED
    BY <1>1, <1>2, <2>1 DEF Within, Agreed
<1>4. PageShapes'
  BY DEF CheckoutInv, PageShapes, ApproveElsewhere
<1>5. ChainShapes'
  BY <1>1, <1>2 DEF CheckoutInv, ChainShapes, ApproveElsewhere
<1>6. AllowancesQuoted'
  <2> SUFFICES ASSUME NEW other \in Token, allowance'[other] # 0
               PROVE  Within(Agreed', other, allowance'[other])
    BY DEF AllowancesQuoted
  <2>1. CASE other = token
    BY <1>2, <1>3, <2>1 DEF CheckoutInv, ChainShapes
  <2>2. CASE other # token
    <3>1. allowance'[other] = allowance[other]
      BY <1>2, <2>2 DEF CheckoutInv, ChainShapes
    <3> QED
      BY <1>3, <3>1, WithinMore DEF CheckoutInv, AllowancesQuoted
  <2> QED
    BY <2>1, <2>2
<1>7. TasksQuoted'
  BY <1>3, WithinMore DEF CheckoutInv, TasksQuoted, ApproveElsewhere
<1>8. MempoolQuoted'
  BY <1>3, WithinMore DEF CheckoutInv, MempoolQuoted, ApproveElsewhere
<1>9. ChargedAsQuoted'
  BY <1>3 DEF CheckoutInv, ChargedAsQuoted, ApproveElsewhere
<1> QED
  BY <1>4, <1>5, <1>6, <1>7, <1>8, <1>9 DEF CheckoutInv

\* The router never pulls more of a coin from the buyer of a checkout page than a
\* payToken of that page was quoted, or than the buyer approved in it on another visit or
\* page, for any coins, prices and number of payments that run at once, fail, are repeated
\* or are mined after the page gave up on them, whatever allowance the page finds.
THEOREM NeverChargedMore == CheckoutSpec => []ChargedAsQuoted
<1>1. InitCheckout => CheckoutInv
  <2> SUFFICES ASSUME InitCheckout PROVE CheckoutInv
    OBVIOUS
  <2>1. PageShapes /\ TasksQuoted
    <3>1. PICK first \in Token, t \in Task :
            /\ page = [token |-> first, shown |-> NoToken, failed |-> FALSE,
                       loading |-> TRUE, paying |-> FALSE, receipt |-> NoToken]
            /\ tasks = [s \in Task |-> IF s = t
                           THEN [Task0 EXCEPT !.pc = "asked", !.token = first] ELSE Task0]
      BY DEF InitCheckout
    <3>2. Task0 \in TaskState /\ [Task0 EXCEPT !.pc = "asked", !.token = first] \in TaskState
      BY DEF TaskState, Task0
    <3>3. page \in Page /\ tasks \in [Task -> TaskState]
      BY <3>1, <3>2 DEF Page
    <3> QED
      BY <3>1, <3>2, <3>3 DEF PageShapes, TasksQuoted, Task0
  <2>2. ChainShapes /\ MempoolQuoted /\ ChargedAsQuoted
    <3>1. /\ price \in [Token -> Price] /\ allowance \in [Token -> {0} \cup Leftover]
          /\ mempool = <<>> /\ quoted = {} /\ charged = {}
      BY DEF InitCheckout
    <3>2. elsewhere =
             {<<token, allowance[token]>> : token \in {coin \in Token : allowance[coin] > 0}}
      BY DEF InitCheckout
    <3>0. {0} \cup Leftover \subseteq Nat
      BY CheckoutAssumption
    <3>3. allowance \in [Token -> Nat]
      BY <3>0, <3>1
    <3>4. elsewhere \subseteq Token \X Nat
      BY <3>2, <3>3
    <3> QED
      BY <3>1, <3>3, <3>4 DEF ChainShapes, MempoolQuoted, ChargedAsQuoted
  <2>3. AllowancesQuoted
    <3> SUFFICES ASSUME NEW token \in Token, allowance[token] # 0
                 PROVE  Within(Agreed, token, allowance[token])
      BY DEF AllowancesQuoted
    <3>1. allowance[token] \in Nat
      BY <2>2 DEF ChainShapes
    <3>2. allowance[token] > 0 /\ allowance[token] <= allowance[token]
      BY <3>1
    <3>3. <<token, allowance[token]>> \in elsewhere
      BY <3>2 DEF InitCheckout
    <3>4. <<token, allowance[token]>>[1] = token
          /\ <<token, allowance[token]>>[2] = allowance[token]
      OBVIOUS
    <3> QED
      BY <3>2, <3>3, <3>4 DEF Within, Agreed
  <2> QED
    BY <2>1, <2>2, <2>3 DEF CheckoutInv
<1>2. CheckoutInv /\ [NextCheckout]_checkoutVars => CheckoutInv'
  <2> SUFFICES ASSUME CheckoutInv, [NextCheckout]_checkoutVars PROVE CheckoutInv'
    OBVIOUS
  <2>1. CASE UNCHANGED checkoutVars
    BY <2>1 DEF checkoutVars, chain, CheckoutInv, PageShapes, ChainShapes, TasksQuoted,
                AllowancesQuoted, MempoolQuoted, ChargedAsQuoted, Agreed
  <2>2. ASSUME NEW token \in Token, NEW p \in Price, PriceMoves(token, p) PROVE CheckoutInv'
    <3>1. price' \in [Token -> Price]
      BY <2>2 DEF PriceMoves, CheckoutInv, ChainShapes
    <3> QED
      BY <2>2, <3>1 DEF PriceMoves, CheckoutInv, PageShapes, ChainShapes, TasksQuoted,
                        AllowancesQuoted, MempoolQuoted, ChargedAsQuoted, Agreed
  <2> QED
    BY <2>1, <2>2, ApproveElsewhereKeeps, PageSteps, GetQuoteKeeps, ReadAllowanceKeeps, SendsKeeps, WaitsKeep,
       MineApprovalKeeps, MinePaymentKeeps DEF NextCheckout
<1>3. CheckoutInv => ChargedAsQuoted
  BY DEF CheckoutInv
<1> QED
  BY <1>1, <1>2, <1>3, PTL DEF CheckoutSpec

-----------------------------------------------------------------------------
(* Runs of the payment hook. *)

Paying == {"confirm", "pending", "included", "success", "error"}
Status == {"idle", "quoting", "approving"} \cup Paying

IsRun == [status : Status, order : Order, receipt : Run \cup {NoRun}]

\* A run whose payment was sent, or that has a receipt, has its order for good.
Ordered(r) ==
    /\ r \in sent \/ runs[r].receipt # NoRun => runs[r].status \in Paying
    /\ runs[r].receipt # NoRun =>
          /\ runs[r].receipt \in landed
          /\ runs[runs[r].receipt].order = runs[r].order

\* The event of a run's own payment is to come or has come, from the moment it asks the
\* wallet until it gives up.
Heard(r) ==
    Watches(r) /\ r \in landed => r \in heard[r] \/ runs[r].receipt # NoRun

RunsInv ==
    /\ runs \in [Run -> IsRun]
    /\ heard \in [Run -> SUBSET landed]
    /\ sent \subseteq Run /\ landed \subseteq sent
    /\ \A r \in Run : Ordered(r) /\ Heard(r)

\* A run that moves on, past its quote or having sent nothing yet.
LEMMA RunTurns ==
    ASSUME RunsInv, NEW r \in Run, NEW new \in IsRun,
           runs' = [runs EXCEPT ![r] = new],
           UNCHANGED <<heard, sent, landed>>,
           new.receipt = runs[r].receipt,
           runs[r].status \in Paying => new.status \in Paying /\ new.order = runs[r].order,
           new.status \in {"confirm", "pending", "included"} =>
               runs[r].status \notin Paying \/ Watches(r)
    PROVE  RunsInv'
<1>1. /\ runs' \in [Run -> IsRun]
      /\ runs'[r] = new
      /\ \A k \in Run : k # r => runs'[k] = runs[k]
  BY DEF RunsInv
<1>2. \A k \in Run : k \in sent \/ runs[k].receipt # NoRun =>
          /\ runs[k].status \in Paying
          /\ runs'[k].status \in Paying
          /\ runs'[k].order = runs[k].order
  BY <1>1 DEF RunsInv, Ordered
<1>3. \A k \in Run : runs'[k].receipt = runs[k].receipt
  BY <1>1
<1>4. \A k \in Run : Ordered(k)'
  BY <1>2, <1>3 DEF RunsInv, Ordered
<1>5. \A k \in Run : Heard(k)'
  <2>1. Heard(r)'
    BY <1>1, <1>2, <1>3 DEF RunsInv, Heard, Watches
  <2>2. ASSUME NEW k \in Run, k # r PROVE Heard(k)'
    BY <1>1, <2>2 DEF RunsInv, Heard, Watches
  <2>3. QED
    BY <2>1, <2>2
<1>6. QED
  BY <1>1, <1>4, <1>5 DEF RunsInv

\* A run that changes its status only.
LEMMA RunMoves ==
    ASSUME RunsInv, NEW r \in Run, NEW status \in Status, Moves(r, status),
           UNCHANGED <<heard, sent, landed>>,
           runs[r].status \in Paying => status \in Paying,
           status \in {"confirm", "pending", "included"} =>
               runs[r].status \notin Paying \/ Watches(r)
    PROVE  RunsInv'
<1>1. PICK new : new = [runs[r] EXCEPT !.status = status]
  OBVIOUS
<1>2. /\ new \in IsRun /\ new.status = status
      /\ new.receipt = runs[r].receipt /\ new.order = runs[r].order
  BY <1>1 DEF RunsInv, IsRun
<1>3. runs' = [runs EXCEPT ![r] = new]
  BY <1>1 DEF Moves
<1>4. QED
  BY <1>2, <1>3, RunTurns

LEMMA LandsKeeps ==
    ASSUME RunsInv, NEW r \in Run, Lands(r)
    PROVE  RunsInv'
<1>1. /\ landed' = landed \cup {r} /\ landed \subseteq landed' /\ r \in sent
      /\ UNCHANGED <<runs, sent>>
      /\ heard' = [w \in Run |-> IF Watches(w) THEN heard[w] \cup {r} ELSE heard[w]]
  BY DEF Lands
<1>2. heard' \in [Run -> SUBSET landed'] /\ landed' \subseteq sent'
  BY <1>1 DEF RunsInv
<1>3. \A k \in Run : Ordered(k)'
  BY <1>1 DEF RunsInv, Ordered
<1>4. \A k \in Run : Heard(k)'
  BY <1>1 DEF RunsInv, Heard, Watches
<1>5. QED
  BY <1>1, <1>2, <1>3, <1>4 DEF RunsInv

\* The event that is handed over resolves the run, or is another order's.
LEMMA OnLogsKeeps ==
    ASSUME RunsInv, NEW r \in Run, NEW e \in Run, OnLogs(r, e)
    PROVE  RunsInv'
<1>1. /\ Watches(r) /\ e \in heard[r] /\ e \in landed
      /\ heard' = [heard EXCEPT ![r] = heard[r] \ {e}]
      /\ UNCHANGED <<sent, landed>>
      /\ heard' \in [Run -> SUBSET landed]
      /\ runs \in [Run -> IsRun]
  BY DEF OnLogs, RunsInv
<1>2. runs[r].status \in Paying
  BY <1>1 DEF Watches, Paying
<1>3. CASE OfThisOrder(r, e) /\ runs[r].receipt = NoRun
  <2>1. PICK new : new = [runs[r] EXCEPT !.receipt = e]
    OBVIOUS
  <2>2. /\ new \in IsRun /\ new.receipt = e /\ e # NoRun
        /\ new.status = runs[r].status /\ new.order = runs[r].order
    BY <1>1, <2>1, RunAssumption DEF IsRun
  <2>3. runs' = [runs EXCEPT ![r] = new]
    BY <1>3, <2>1 DEF OnLogs
  <2>4. /\ runs' \in [Run -> IsRun] /\ runs'[r] = new
        /\ \A k \in Run : k # r => runs'[k] = runs[k]
        /\ \A k \in Run : runs'[k].order = runs[k].order /\ runs'[k].status = runs[k].status
    BY <1>1, <2>2, <2>3
  <2>5. Ordered(r)'
    BY <1>1, <1>2, <1>3, <2>2, <2>4 DEF Ordered, OfThisOrder
  <2>6. \A k \in Run : k # r => Ordered(k)'
    BY <1>1, <2>4 DEF RunsInv, Ordered
  <2>7. \A k \in Run : Heard(k)'
    BY <1>1, <2>2, <2>4 DEF RunsInv, Heard, Watches
  <2>8. QED
    BY <1>1, <2>4, <2>5, <2>6, <2>7 DEF RunsInv
<1>4. CASE ~(OfThisOrder(r, e) /\ runs[r].receipt = NoRun)
  <2>1. runs' = runs
    BY <1>4 DEF OnLogs
  <2>2. \A k \in Run : Ordered(k)'
    BY <1>1, <2>1 DEF RunsInv, Ordered
  <2>3. e = r => runs[r].receipt # NoRun
    BY <1>4 DEF OfThisOrder
  <2>4. \A k \in Run : Heard(k)'
    BY <1>1, <2>1, <2>3 DEF RunsInv, Heard, Watches
  <2>5. QED
    BY <1>1, <2>1, <2>2, <2>4 DEF RunsInv
<1>5. QED
  BY <1>3, <1>4

LEMMA RunsKeep ==
    ASSUME RunsInv, [NextRuns]_payVars
    PROVE  RunsInv'
<1>1. CASE UNCHANGED payVars
  BY <1>1 DEF payVars, RunsInv, Ordered, Heard, Watches
<1>2. ASSUME NEW r \in Run, NEW order \in Order, Pay(r, order) PROVE RunsInv'
  <2>1. PICK new : new = [runs[r] EXCEPT !.status = "quoting", !.order = order]
    OBVIOUS
  <2>2. new \in IsRun /\ new.status = "quoting" /\ new.receipt = runs[r].receipt
    BY <2>1 DEF RunsInv, IsRun, Status
  <2>3. runs' = [runs EXCEPT ![r] = new] /\ runs[r].status = "idle"
        /\ UNCHANGED <<heard, sent, landed>>
    BY <1>2, <2>1 DEF Pay
  <2>4. QED
    BY <2>2, <2>3, RunTurns DEF Paying
<1>3. ASSUME NEW r \in Run,
             Quoted(r) \/ ApproveReturns(r) \/ Broadcast(r) \/ Included(r) \/ Succeeds(r)
                 \/ TimesOut(r)
      PROVE  RunsInv'
  <2>1. PICK status \in Status :
           /\ Moves(r, status) /\ UNCHANGED <<heard, sent, landed>>
           /\ runs[r].status \in Paying => status \in Paying
           /\ status \in {"confirm", "pending", "included"} =>
                  runs[r].status \notin Paying \/ Watches(r)
    BY <1>3 DEF Quoted, ApproveReturns, Broadcast, Included, Succeeds, TimesOut, Watches,
       Status, Paying
  <2>2. QED
    BY <2>1, RunMoves
<1>4. ASSUME NEW r \in Run, Send(r) PROVE RunsInv'
  <2>1. /\ sent' = sent \cup {r} /\ runs[r].status \in Paying
        /\ UNCHANGED <<runs, heard, landed>>
    BY <1>4 DEF Send, Paying
  <2>2. \A k \in Run : Ordered(k)' /\ Heard(k)'
    BY <2>1 DEF RunsInv, Ordered, Heard, Watches
  <2>3. QED
    BY <2>1, <2>2 DEF RunsInv
<1>5. ASSUME NEW r \in Run, Reverts(r) PROVE RunsInv'
  BY <1>5 DEF Reverts, RunsInv, Ordered, Heard, Watches
<1>6. QED
  BY <1>1, <1>2, <1>3, <1>4, <1>5, LandsKeeps, OnLogsKeeps DEF NextRuns

LEMMA RunsHold == RunsSpec => []RunsInv
<1>1. InitRuns => RunsInv
  <2> SUFFICES ASSUME InitRuns PROVE RunsInv
    OBVIOUS
  <2>1. PICK first \in Order : first = CHOOSE o \in Order : TRUE
    BY RunAssumption
  <2>2. runs = [r \in Run |-> [status |-> "idle", order |-> first, receipt |-> NoRun]]
    BY <2>1 DEF InitRuns
  <2>3. QED
    BY <2>1, <2>2 DEF InitRuns, RunsInv, IsRun, Status, Ordered, Heard, Watches
<1>2. QED
  BY <1>1, RunsKeep, PTL DEF RunsSpec

\* A page never shows a receipt for money that did not move, or that moved for another
\* order, however many runs of one buyer overlap at one merchant.
THEOREM ReceiptsMatchOrders == RunsSpec => []ReceiptOfItsOrder
<1>1. RunsInv => ReceiptOfItsOrder
  BY DEF RunsInv, Ordered, ReceiptOfItsOrder
<1>2. QED
  BY <1>1, RunsHold, PTL

\* The event of a payment the chain took is never missed by the run that made it, as
\* long as it watches.
THEOREM EventsReachTheirRun == RunsSpec => []EventNotMissed
<1>1. RunsInv => EventNotMissed
  BY DEF RunsInv, Heard, Watches, EventNotMissed
<1>2. QED
  BY <1>1, RunsHold, PTL

=============================================================================
