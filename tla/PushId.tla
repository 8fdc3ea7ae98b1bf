------------------------------- MODULE PushId -------------------------------
(***************************************************************************)
(* generatePushID of database.go: the keys that Push gives to children.  A *)
(* key is the time in milliseconds followed by a suffix, which is drawn at *)
(* random when the time differs from that of the key before and counted up *)
(* otherwise; time and suffix are guarded by pushMu and shared by all      *)
(* applications.  The clock may be set back, the process may be restarted  *)
(* and the suffix may run over.  Keys are sequences of digits: pushChars   *)
(* lists the 64 characters in the order of their codes.                    *)
(***************************************************************************)
EXTENDS Integers, Sequences

CONSTANTS
    Base,                   \* Len(pushChars), 64
    TimeDigits, RandDigits, \* 8 and 12
    MaxMillis,                \* bound on the clock, which the digits can express
    MaxMade                 \* bound on the keys made

\* How many numbers n digits can express.
Values[n \in Nat] == IF n = 0 THEN 1 ELSE Base * Values[n - 1]

ASSUME PushConstants ==
    /\ Base \in Nat \ {0, 1} /\ TimeDigits \in Nat \ {0} /\ RandDigits \in Nat \ {0}
    /\ MaxMillis \in 1 .. Values[TimeDigits] - 1 /\ MaxMade \in Nat

VARIABLES
    last,       \* lastPushTime, 0 in a process that has made no key
    rand,       \* lastRand
    made        \* history: the keys made so far, whether their suffix was drawn, and
                \* whether they may sort before earlier ones

pushVars == <<last, rand, made>>

-----------------------------------------------------------------------------
Digit == 0 .. Base - 1
Suffix == [1 .. RandDigits -> Digit]

\* Mutant: the digits are written in the order in which they are found.
EncodeReversed(t) == [i \in 1 .. TimeDigits |-> (t \div Values[i - 1]) % Base]

\* The digits of the time: the last is found first, then those of a Base-th of it.
Encode(t) == [i \in 1 .. TimeDigits |-> (t \div Values[TimeDigits - i]) % Base]

AtEnd(r) == \A i \in DOMAIN r : r[i] = Base - 1

\* Mutant: the greatest digit is counted up too.
IncrementOver(r) == [r EXCEPT ![RandDigits] = @ + 1]

\* Mutant: the carry is lost.
IncrementOnce(r) ==
    LET n == RandDigits
    IN  [i \in DOMAIN r |-> IF i < n THEN r[i] ELSE (r[i] + 1) % Base]

\* The suffix counted up: the last digit that is not the greatest goes up, those behind
\* it start again, and a suffix of greatest digits starts over.
Increment(r) ==
    IF AtEnd(r) THEN [i \in DOMAIN r |-> 0]
    ELSE LET k == CHOOSE i \in DOMAIN r :
                    r[i] # Base - 1 /\ \A j \in DOMAIN r : j > i => r[j] = Base - 1
         IN  [i \in DOMAIN r |-> IF i < k THEN r[i] ELSE IF i = k THEN r[i] + 1 ELSE 0]

PushInit ==
    /\ last = 0
    /\ rand = [i \in 1 .. RandDigits |-> 0]
    /\ made = <<>>

\* One call, under pushMu, which finds the clock at now, later or earlier than the call
\* before: the suffix is counted up within a millisecond, else drawn.
generatePushID(now) ==
    /\ Len(made) < MaxMade
    /\ last' = now
    /\ rand' \in IF now = last THEN {Increment(rand)} ELSE Suffix
    /\ made' = Append(made,
            [key |-> Encode(now) \o rand', at |-> now, drawn |-> now # last,
             unordered |-> last = 0 \/ now < last \/ (now = last /\ AtEnd(rand))])

\* A new process starts with no time and no suffix.
Restart ==
    /\ last' = 0
    /\ rand' = [i \in 1 .. RandDigits |-> 0]
    /\ UNCHANGED made

PushNext == Restart \/ \E now \in 1 .. MaxMillis : generatePushID(now)

PushSpec == PushInit /\ [][PushNext]_pushVars

-----------------------------------------------------------------------------
\* All keys have the same length, so that their order as strings is that of their digits.
PushTypeOK ==
    /\ last \in 0 .. MaxMillis
    /\ rand \in Suffix
    /\ \A i \in DOMAIN made : made[i].key \in [1 .. TimeDigits + RandDigits -> Digit]

\* The order of strings.
Before(p, q) ==
    \E i \in DOMAIN p : p[i] < q[i] /\ \A j \in 1 .. i - 1 : p[j] = q[j]

\* Keys sort in the order in which they were made, also within one millisecond and over
\* every carry, as long as the process runs, the clock is not seen to step back and the
\* suffix does not run over.
KeysInOrder ==
    \A j \in DOMAIN made : \A i \in 1 .. j - 1 :
        (\A k \in i + 1 .. j : ~ made[k].unordered) => Before(made[i].key, made[j].key)

\* Two keys are the same only if the same random draw was made twice for one and the same
\* millisecond, or a suffix has gone through all its values within one: restarts, clocks
\* set back and suffixes that run over alone make no key twice.
KeysDistinct ==
    \A j \in DOMAIN made : \A i \in 1 .. j - 1 :
        made[i].key = made[j].key =>
            /\ made[i].at = made[j].at
            /\ (\E k \in i + 1 .. j : made[k].drawn) \/ j - i >= Values[RandDigits]

=============================================================================
