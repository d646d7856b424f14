------------------------------- MODULE PriceRelay -------------------------------
(***************************************************************************)
(* A price on its way to a quote: a feed on a source chain, PriceRelaySender, *)
(* CCIP messages that are delayed, reordered and tried again,                 *)
(* PriceRelayReceiver, and the guards of OracleLib that Access0x1Router.quote  *)
(* reads it under.  Every chain has its own clock.                            *)
(***************************************************************************)
EXTENDS Integers, FiniteSets

CONSTANTS
    SourceLane,      \* source chains, each with its feed and its sender
    None,            \* no observation
    Lead,            \* lane -> by how much its clock is ahead of this chain's
    Answer, Band,    \* what a feed may answer; what the receiver accepts of it
    Scale, Decimals, \* what a feed may scale its answers by; what the receiver is pinned to
    MaxSourceAge,    \* age of an answer that is sent, by the source's clock
    MaxArrivalAge,   \* age of an answer that is accepted, by this chain's
    Window,          \* stalenessOf the token, or TIMEOUT
    Grace,           \* SEQUENCER_GRACE_PERIOD
    Start,           \* the first moment looked at
    MaxTime,         \* bound: the last one
    MaxMessages      \* bound: messages sent in a behaviour

ASSUME RelayAssumption ==
    /\ Lead \in [SourceLane -> Int]
    /\ Band \subseteq Answer /\ Answer \subseteq Int
    /\ Decimals \in Scale
    /\ {MaxSourceAge, MaxArrivalAge, Window, Grace} \subseteq Nat
    /\ Start \in Nat /\ \A lane \in SourceLane : Start + Lead[lane] > 0

VARIABLES
    now,             \* this chain's clock
    feeds,           \* lane -> the latest round there: answer, scale, whether it is
                     \* complete, its time there (0: none) and here (for the properties)
    receiverFor,     \* lane -> whether its sender has this chain for a destination
    allowed,         \* lane -> whether the receiver takes what its sender sends
    messages,        \* what was sent; a message may arrive whenever and be tried again
    latest,          \* the observation accepted last, and when it arrived
    uptime,          \* the sequencer uptime feed: whether it is up, and since when
    lastDown         \* when it was down last; for the properties

relayVars ==
    <<now, feeds, receiverFor, allowed, messages, latest, uptime, lastDown>>

Observation == [lane : SourceLane, answer : Answer, scale : Scale, at : Int, posted : Int]

RelayInit ==
    /\ now = Start
    /\ feeds = [lane \in SourceLane |-> None]
    /\ receiverFor = [lane \in SourceLane |-> FALSE]
    /\ allowed = [lane \in SourceLane |-> FALSE]
    /\ messages = {}
    /\ latest = None
    /\ uptime = [up |-> FALSE, since |-> Start]
    /\ lastDown = Start

-----------------------------------------------------------------------------
(* The source chain. *)

\* The feed's next round.  One not completed, or carried over, has no answer to send.
PostRound(lane, answer, scale) ==
    /\ feeds' = [feeds EXCEPT ![lane] =
          [lane |-> lane, answer |-> answer, scale |-> scale,
           at |-> now + Lead[lane], posted |-> now]]
    /\ UNCHANGED <<now, receiverFor, allowed, messages, latest, uptime, lastDown>>

SpoilRound(lane) ==
    /\ feeds' = [feeds EXCEPT ![lane] = None]
    /\ UNCHANGED <<now, receiverFor, allowed, messages, latest, uptime, lastDown>>

SetDestination(lane, to) ==
    /\ receiverFor[lane] # to
    /\ receiverFor' = [receiverFor EXCEPT ![lane] = to]
    /\ UNCHANGED <<now, feeds, allowed, messages, latest, uptime, lastDown>>

\* relay: readSource's staleness and sign guards by the source's clock, then ccipSend.
Relay(lane) ==
    /\ feeds[lane] # None
    /\ (now + Lead[lane]) - feeds[lane].at <= MaxSourceAge
    /\ feeds[lane].answer > 0
    /\ receiverFor[lane]
    /\ Cardinality(messages) < MaxMessages
    /\ messages' = messages \cup {feeds[lane]}
    /\ UNCHANGED <<now, feeds, receiverFor, allowed, latest, uptime, lastDown>>

-----------------------------------------------------------------------------
(* This chain. *)

SetSourceLane(lane, to) ==
    /\ allowed[lane] # to
    /\ allowed' = [allowed EXCEPT ![lane] = to]
    /\ UNCHANGED <<now, feeds, receiverFor, messages, latest, uptime, lastDown>>

\* Mutant: any report that is not the one there is counts as newer.
Different(m) == latest # None => m.at # latest.at

\* Guard 3.
Newer(m) == latest # None => m.at > latest.at

\* Guard 4a; a source clock that is ahead makes the age 0.
AgeOnArrival(m) == IF m.at >= now THEN 0 ELSE now - m.at

\* ccipReceive: what a guard refuses changes nothing and may be tried again.  The guard
\* on message ids refuses nothing that guard 3 lets through, and is left out.
CcipReceive(m) ==
    /\ allowed[m.lane]
    /\ m.scale = Decimals
    /\ Newer(m)
    /\ AgeOnArrival(m) <= MaxArrivalAge
    /\ m.answer > 0 /\ m.answer \in Band
    /\ latest' = [lane |-> m.lane, answer |-> m.answer, at |-> m.at, posted |-> m.posted,
                  arrivedAt |-> now]
    /\ UNCHANGED <<now, feeds, receiverFor, allowed, messages, uptime, lastDown>>

SequencerStops ==
    /\ uptime.up
    /\ uptime' = [up |-> FALSE, since |-> now]
    /\ lastDown' = now
    /\ UNCHANGED <<now, feeds, receiverFor, allowed, messages, latest>>

SequencerResumes ==
    /\ ~uptime.up
    /\ uptime' = [up |-> TRUE, since |-> now]
    /\ lastDown' = now
    /\ UNCHANGED <<now, feeds, receiverFor, allowed, messages, latest>>

Tick ==
    /\ now < MaxTime
    /\ now' = now + 1
    /\ lastDown' = IF uptime.up THEN lastDown ELSE now + 1
    /\ UNCHANGED <<feeds, receiverFor, allowed, messages, latest, uptime>>

RelayNext ==
    \/ \E lane \in SourceLane :
          \/ \E answer \in Answer, scale \in Scale : PostRound(lane, answer, scale)
          \/ \E to \in BOOLEAN : SetDestination(lane, to) \/ SetSourceLane(lane, to)
          \/ SpoilRound(lane)
          \/ Relay(lane)
    \/ \E m \in messages : CcipReceive(m)
    \/ SequencerStops \/ SequencerResumes
    \/ Tick

RelaySpec == RelayInit /\ [][RelayNext]_relayVars

-----------------------------------------------------------------------------
\* Mutant: an observation is as fresh as its arrival.
ReportedOnArrival(round) == round.arrivedAt

\* _reportedTimestamp: the source's, clamped to the arrival.
Reported(round) == IF round.at > round.arrivedAt THEN round.arrivedAt ELSE round.at

\* What quote gets past: checkSequencerUp, staleCheckLatestRoundData and the sign.
Quotable ==
    /\ uptime.up /\ now - uptime.since > Grace
    /\ latest # None
    /\ now - Reported(latest) <= Window
    /\ latest.answer > 0

RelayTypeOK ==
    /\ now \in Nat
    /\ feeds \in [SourceLane -> Observation \cup {None}]
    /\ receiverFor \in [SourceLane -> BOOLEAN] /\ allowed \in [SourceLane -> BOOLEAN]
    /\ messages \subseteq Observation
    /\ latest \in [lane : SourceLane, answer : Answer, at : Int, posted : Int, arrivedAt : Int]
                  \cup {None}
    /\ uptime \in [up : BOOLEAN, since : Nat] /\ lastDown \in Nat

\* A quote is never made from a price that looks fresher than it is: however long it was
\* on its way, whatever was lost, retried or overtaken, the price quoted was posted within
\* the window of the quote (give or take the clock of its chain), is in the band, and no
\* moment of the grace period before the quote saw the sequencer down.  Nor does a clock
\* that is ahead make the age negative, which would refuse every quote.
QuoteIsFresh ==
    /\ latest # None => Reported(latest) <= now
    /\ Quotable =>
          /\ now - latest.posted <= Window + Lead[latest.lane]
          /\ latest.answer \in Band
          /\ now - lastDown > Grace

\* A report that comes late never walks the price back: an observation is only followed
\* by one that was posted after it, but for what two chains' clocks are apart.
PriceAdvances == [][
    latest # None /\ latest' # latest =>
        latest.posted - latest'.posted < Lead[latest'.lane] - Lead[latest.lane]]_relayVars

=============================================================================
