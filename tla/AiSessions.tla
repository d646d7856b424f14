------------------------------ MODULE AiSessions ------------------------------
(***************************************************************************)
(* Metered AI calls: aiGateway.ts over sessionMeter.ts, apiKeys.ts and the   *)
(* seller spine of x402.ts, in one server instance.  A call reserves its     *)
(* price in the session's mirror in memory, awaits the facilitator and the   *)
(* handler, and hands the price back unless the answer carries the           *)
(* settlement proof.  Sessions live in memory only; connect.ts opens one     *)
(* before its key, so a key resolves whenever its session is there.          *)
(***************************************************************************)
EXTENDS Integers, FiniteSets, Functions

CONSTANTS
    AiCall, AiSession,
    CallPrice,           \* prices of the metered endpoints, in units of USDC
    BudgetCap,       \* caps a session is opened with
    MaxOpenings      \* bound: sessions opened in a behaviour

ASSUME AiAssumption ==
    /\ IsFiniteSet(AiCall)
    /\ CallPrice \subseteq Nat \ {0}
    /\ BudgetCap \subseteq Nat \ {0}
    /\ MaxOpenings \in Nat

VARIABLES
    mirror,          \* session -> its record in the mirror; opening 0 if there is none
    asks,            \* call -> where its handler is, its session and price; for the
                     \* properties, the opening it reserved in, whether a settle was
                     \* reported to it, and the opening its refund went to
    opened           \* how many sessions were opened

aiVars == <<mirror, asks, opened>>

Closed == [opening |-> 0, cap |-> 0, spent |-> 0, dead |-> FALSE]

InitAi ==
    /\ mirror = [s \in AiSession |-> Closed]
    /\ asks = [c \in AiCall |-> [pc |-> "idle", of |-> CHOOSE s \in AiSession : TRUE,
                                 price |-> 0, opening |-> 0, told |-> FALSE, into |-> 0]]
    /\ opened = 0

-----------------------------------------------------------------------------
(* The owner's side: connectAiApi, revokeSession, and the expiry passing. *)

\* Opening a session again replaces its record, and with it what was spent.
Connect(s, cap) ==
    /\ opened < MaxOpenings
    /\ opened' = opened + 1
    /\ mirror' = [mirror EXCEPT ![s] =
          [opening |-> opened + 1, cap |-> cap, spent |-> 0, dead |-> FALSE]]
    /\ UNCHANGED asks

\* The kill switch, or the expiry: both leave the record and refuse what comes.
RevokeOrExpire(s) ==
    /\ mirror[s].opening > 0
    /\ ~mirror[s].dead
    /\ mirror' = [mirror EXCEPT ![s].dead = TRUE]
    /\ UNCHANGED <<asks, opened>>

\* The process goes, with its sessions and the calls it was answering.
RestartAi ==
    /\ mirror' = [s \in AiSession |-> Closed]
    /\ asks' = [c \in AiCall |->
          IF asks[c].pc \in {"reserved", "settled"} THEN [asks[c] EXCEPT !.pc = "gone"] ELSE asks[c]]
    /\ UNCHANGED opened

-----------------------------------------------------------------------------
(* One call. *)

\* What reserveOrThrow takes to be left.
Left(s) == mirror[s].cap - mirror[s].spent

\* The key resolves and the price is reserved, or nothing happens: no session,
\* a dead one, or one with too little left.
AskAi(c, s, price) ==
    /\ asks[c].pc = "idle"
    /\ mirror[s].opening > 0
    /\ ~mirror[s].dead
    /\ price <= Left(s)
    /\ mirror' = [mirror EXCEPT ![s].spent = @ + price]
    /\ asks' = [asks EXCEPT ![c] =
          [@ EXCEPT !.pc = "reserved", !.of = s, !.price = price,
                    !.opening = mirror[s].opening]]
    /\ UNCHANGED opened

\* Mutant: only a 402 is taken to mean that nothing was paid.
RefundOn402(status, proof) == status = 402

\* Whether the answer of withGateway makes withAiGateway hand the price back.
RefundDue(status, proof) == ~proof

\* withAiGateway once withGateway answered.  The refund goes to the session of that
\* id as it stands now, never below zero, and to none that is not there.
Answered(c, status, proof) ==
    LET s == asks[c].of
        due == RefundDue(status, proof)
        left == mirror[s].spent - asks[c].price
    IN  /\ mirror' = IF due /\ mirror[s].opening > 0
                       THEN [mirror EXCEPT ![s].spent = IF left > 0 THEN left ELSE 0]
                       ELSE mirror
        /\ asks' = [asks EXCEPT ![c] =
              [@ EXCEPT !.pc = IF proof THEN "served" ELSE "failed",
                        !.into = IF due THEN mirror[s].opening ELSE 0]]
        /\ UNCHANGED opened

\* Settle did not succeed: a challenge, a failed verification or settlement (402), or
\* a malformed payment or an error of the facilitator (500), or no seller (503).
Unpaid(c) ==
    /\ asks[c].pc = "reserved"
    /\ \E status \in {402, 500, 503} : Answered(c, status, FALSE)

\* Settle succeeded, and the handler is entered.
SettleAi(c) ==
    /\ asks[c].pc = "reserved"
    /\ asks' = [asks EXCEPT ![c] = [@ EXCEPT !.pc = "settled", !.told = TRUE]]
    /\ UNCHANGED <<mirror, opened>>

\* The handler answered, well or badly: the proof is set on what it answered.
Serve(c) ==
    /\ asks[c].pc = "settled"
    /\ Answered(c, 200, TRUE)

\* The handler threw: the catch around verify, settle and handler answers for it.
HandlerThrows(c) ==
    /\ asks[c].pc = "settled"
    /\ Answered(c, 500, FALSE)

-----------------------------------------------------------------------------
NextAi ==
    \/ \E s \in AiSession : RevokeOrExpire(s) \/ \E cap \in BudgetCap : Connect(s, cap)
    \/ \E c \in AiCall : \/ Unpaid(c) \/ SettleAi(c) \/ Serve(c) \/ HandlerThrows(c)
                         \/ \E s \in AiSession, price \in CallPrice : AskAi(c, s, price)
    \/ RestartAi

AiSpec == InitAi /\ [][NextAi]_aiVars

-----------------------------------------------------------------------------
PriceOf(C) == SumFunction([c \in C |-> asks[c].price])

\* The calls of this opening that are being answered, or were paid and served.
Holding(s) == {c \in AiCall : /\ asks[c].opening = mirror[s].opening
                              /\ asks[c].pc \in {"reserved", "settled", "served"}}

\* And those whose payment settled before the handler threw, which may hold theirs.
MayHold(s) == Holding(s) \cup {c \in AiCall : /\ asks[c].opening = mirror[s].opening
                                              /\ asks[c].told}

\* What calls of an earlier opening of the same id handed back to this one.
Astray(s) == PriceOf({c \in AiCall : /\ asks[c].into = mirror[s].opening
                                     /\ asks[c].opening # asks[c].into})

\* The mirror's spent is what the calls of this opening hold, whatever failed in
\* between: no call that was not paid burns the budget, none that was served is
\* handed back but by the refunds of calls that a later opening of the id overtook,
\* and it is never over the cap.
BudgetTracksCalls == \A s \in AiSession : mirror[s].opening > 0 =>
    /\ mirror[s].spent <= PriceOf(MayHold(s))
    /\ PriceOf(Holding(s)) - Astray(s) <= mirror[s].spent
    /\ mirror[s].spent <= mirror[s].cap

-----------------------------------------------------------------------------
(* What the repository says of the gateway and the code does not do. *)

\* aiGateway.ts: "A settled-but-handler-failed call is NOT refunded".
SettledNotRefunded == \A c \in AiCall : asks[c].told => asks[c].into = 0

=============================================================================
