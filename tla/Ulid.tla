--------------------------------- MODULE Ulid ---------------------------------
(***************************************************************************)
(* The ids of payment intents, lib/intents/ulid.ts: the time in base 32, then  *)
(* a random tail that counts up within one millisecond.  Ids are sequences of  *)
(* digits, which sort as their characters do.  Widths are parameters: bytes of *)
(* 8 bits, digits of 5, a buffer of 32, 10 bytes and 10 digits of time.        *)
(***************************************************************************)
EXTENDS Naturals, SequencesExt

CONSTANTS
    ByteBits, DigitBits, BufferBits,
    Bytes,           \* of the tail
    TimeDigits,
    Time,            \* what Date.now() may answer
    Rolls,           \* tails getRandomValues may give, any of them in the code
    MaxIds           \* bound on the ids one process makes

Byte == 0..(2^ByteBits - 1)

UlidAssumption ==
    /\ Rolls \subseteq [1..Bytes -> Byte]
    /\ (Bytes * ByteBits) % DigitBits = 0
    /\ DigitBits + ByteBits <= BufferBits
    /\ \A t \in Time : t < 2^(DigitBits * TimeDigits)

VARIABLES
    clock,           \* what Date.now() answers; it may be set back
    last,            \* lastTime (0 before the first id: times here are positive), lastRandom
    issued           \* the ids in the order they were made, with the tail and the roll of each

ulidVars == <<clock, last, issued>>

InitUlid ==
    /\ clock \in Time
    /\ last = [time |-> 0, tail |-> [i \in 1..Bytes |-> 0], roll |-> 0]
    /\ issued = <<>>

-----------------------------------------------------------------------------
EncodeTime(t) ==
    [k \in 1..TimeDigits |-> (t \div 2^(DigitBits * (TimeDigits - k))) % 2^DigitBits]

\* One byte into the buffer, and every whole digit out of it.
Regroup(s, byte) ==
    LET buffer == (s.buffer * 2^ByteBits + byte) % 2^BufferBits
        bits == s.bits + ByteBits
        digits == [k \in 1..(bits \div DigitBits) |->
                      (buffer \div 2^(bits - k * DigitBits)) % 2^DigitBits]
    IN  [buffer |-> buffer, bits |-> bits % DigitBits, out |-> s.out \o digits]

EncodeRandom(bytes) == FoldLeft(Regroup, [buffer |-> 0, bits |-> 0, out |-> <<>>], bytes).out

\* Mutant: the last byte counts by itself.
IncrementLast(bytes) == [bytes EXCEPT ![Bytes] = (@ + 1) % 2^ByteBits]

\* The bytes after the last one that is not full start again; all do if every one is full.
Increment(bytes) ==
    LET full == 2^ByteBits - 1
        at == Max({0} \cup {i \in 1..Bytes : bytes[i] # full})
    IN  [i \in 1..Bytes |-> IF i > at THEN 0 ELSE IF i = at THEN bytes[i] + 1 ELSE bytes[i]]

-----------------------------------------------------------------------------
NewId(tail, roll) ==
    /\ Len(issued) < MaxIds
    /\ last' = [time |-> clock, tail |-> tail, roll |-> roll]
    /\ issued' = Append(issued, [time |-> clock, tail |-> tail, roll |-> roll,
                                 id |-> EncodeTime(clock) \o EncodeRandom(tail)])
    /\ UNCHANGED clock

SameMs == clock = last.time /\ NewId(Increment(last.tail), last.roll)

OtherMs == clock # last.time /\ \E tail \in Rolls : NewId(tail, last.roll + 1)

\* Time passes, or the host corrects its clock.
ClockMoves(t) == t # clock /\ clock' = t /\ UNCHANGED <<last, issued>>

NextUlid == SameMs \/ OtherMs \/ \E t \in Time : ClockMoves(t)

UlidSpec == InitUlid /\ [][NextUlid]_ulidVars

-----------------------------------------------------------------------------
Sorts(a, b) == \E k \in 1..Len(a) : a[k] < b[k] /\ \A j \in 1..(k - 1) : a[j] = b[j]

\* The tail ran over after the i-th id and up to the j-th.
RanOver(i, j) == \E k \in (i + 1)..j :
    issued[k].roll = issued[k - 1].roll /\ \A b \in 1..Bytes : issued[k].tail[b] = 0

\* Ids sort by the time they carry, and those of one millisecond in the order they were
\* made, as long as the clock does not leave it and the tail does not run over: neither
\* the carry nor the regrouping of bytes into digits loses the order.
SortsByCreation == \A i, j \in 1..Len(issued) : i < j =>
    /\ issued[i].time < issued[j].time => Sorts(issued[i].id, issued[j].id)
    /\ issued[i].roll = issued[j].roll => Sorts(issued[i].id, issued[j].id) \/ RanOver(i, j)

\* What ulid.ts says, and a clock set back does not keep (README.md, section 7): two ids
\* made in one millisecond sort in the order they were made.
SortsInOneMs == \A i, j \in 1..Len(issued) :
    i < j /\ issued[i].time = issued[j].time /\ ~RanOver(i, j)
        => Sorts(issued[i].id, issued[j].id)

=============================================================================
