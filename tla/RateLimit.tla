----------------------------- MODULE RateLimit -----------------------------
(***************************************************************************)
(* ratelimit.go: the limiter in front of register and login.  Each client  *)
(* address has a window that its first request opens and that admits Limit *)
(* requests until it expires; a sweep removes expired windows.  Both run   *)
(* under one mutex and read the (monotonic) clock while they hold it, so   *)
(* each is one step here.                                                  *)
(***************************************************************************)
EXTENDS Integers, Sequences

CONSTANTS
    Client,     \* the keys: client addresses
    Limit,      \* l.limit
    Dur,        \* l.dur, in ticks of the clock
    MaxTime     \* bound: the clock stops here

ASSUME LimiterConstants == Limit \in Nat \ {0} /\ Dur \in Nat /\ MaxTime \in Nat

VARIABLES
    windows,    \* l.windows: a function on the clients that have a window
    now,        \* the clock
    grants      \* history: when each client was admitted, oldest first

vars == <<windows, now, grants>>

Expired(w) == now > w.reset

\* Mutants: one request too many is admitted; an expired window refuses for ever.
ExhaustedLate(k) ==
    k \in DOMAIN windows /\ ~ Expired(windows[k]) /\ windows[k].count > Limit
ExhaustedForGood(k) ==
    k \in DOMAIN windows /\ windows[k].count >= Limit

\* The request of a client in this state is refused: no window changes.
Exhausted(k) ==
    /\ k \in DOMAIN windows
    /\ ~ Expired(windows[k])
    /\ windows[k].count >= Limit

\* The window a client's request leaves behind when it is admitted.
Admitted(k) ==
    IF k \notin DOMAIN windows \/ Expired(windows[k])
    THEN [count |-> 1, reset |-> now + Dur]
    ELSE [windows[k] EXCEPT !.count = @ + 1]

Init ==
    /\ windows = [k \in {} |-> 0]
    /\ now = 0
    /\ grants = [k \in Client |-> <<>>]

Allow(k) ==
    /\ ~ Exhausted(k)
    /\ windows' = [c \in DOMAIN windows \cup {k} |-> IF c = k THEN Admitted(k) ELSE windows[c]]
    /\ grants' = [grants EXCEPT ![k] = Append(@, now)]
    /\ UNCHANGED now

\* Mutants: the sweep drops every window; it drops the windows that are not expired.
CleanupAll == windows' = [k \in {} |-> 0] /\ UNCHANGED <<now, grants>>
CleanupOpen ==
    /\ windows' = [k \in {c \in DOMAIN windows : Expired(windows[c])} |-> windows[k]]
    /\ UNCHANGED <<now, grants>>

\* The sweep, once a minute.
Cleanup ==
    /\ windows' = [k \in {c \in DOMAIN windows : ~ Expired(windows[c])} |-> windows[k]]
    /\ UNCHANGED <<now, grants>>

Tick == now < MaxTime /\ now' = now + 1 /\ UNCHANGED <<windows, grants>>

Next == (\E k \in Client : Allow(k)) \/ Cleanup \/ Tick

\* The sweeping goroutine's ticker never stops.
Spec == Init /\ [][Next]_vars /\ WF_vars(Cleanup)

-----------------------------------------------------------------------------
Window == [count : 1 .. Limit, reset : Nat]

TypeOK ==
    /\ now \in Nat
    /\ grants \in [Client -> Seq(Nat)]
    /\ DOMAIN windows \subseteq Client
    /\ windows \in [DOMAIN windows -> Window]

\* What fixed windows guarantee: however a client times its requests, and whenever
\* the sweep runs, no 2 * Limit admissions fall within one Dur.
BurstBound ==
    \A k \in Client : \A i \in DOMAIN grants[k] :
        i + 2 * Limit - 1 \in DOMAIN grants[k] =>
            grants[k][i + 2 * Limit - 1] > grants[k][i] + Dur

\* A refused client has used its budget: its last Limit admissions are all within
\* the Dur before the refusal.
NoEarlyRefusal ==
    \A k \in Client : Exhausted(k) =>
        LET n == Len(grants[k])
        IN  n >= Limit /\ grants[k][n + 1 - Limit] + Dur >= now

\* The sweep bounds memory: an expired window is reopened or removed.
ExpiredWindowsGo ==
    \A k \in Client :
        (k \in DOMAIN windows /\ Expired(windows[k])) ~>
            ~ (k \in DOMAIN windows /\ Expired(windows[k]))

=============================================================================
