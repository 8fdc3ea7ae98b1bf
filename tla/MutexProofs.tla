---------------------------- MODULE MutexProofs ----------------------------
(***************************************************************************)
(* Proofs about the components whose whole state is behind one mutex, held *)
(* from the start of each operation to its end: RateLimit, RemoteConfig    *)
(* and PushId.                                                             *)
(*                                                                         *)
(* For every limit, duration and set of clients, the invariant of          *)
(* RateLimit locates the current window in the history: it began with the  *)
(* first of its count admissions, and the Limit admissions before that one *)
(* reach back more than Dur.                                               *)
(*                                                                         *)
(* For all keys and values, that of RemoteConfig says what memory and file *)
(* hold while a change is in progress.                                     *)
(*                                                                         *)
(* For every alphabet and all lengths, that of PushId counts the keys made *)
(* between two draws by the numbers that their suffixes express.           *)
(***************************************************************************)
EXTENDS RateLimit, RemoteConfig, PushId, WellFoundedInduction, TLAPS

\* Admissions are recorded in the order of time.
Chronicle(g) ==
    /\ \A i \in 1 .. Len(g) : g[i] <= now
    /\ \A i, j \in 1 .. Len(g) : i <= j => g[i] <= g[j]

\* The position of the admission that opened the window w.
First(g, w) == Len(g) + 1 - w.count

WindowInv(g, w) ==
    /\ First(g, w) >= 1
    /\ w.reset = g[First(g, w)] + Dur
    /\ First(g, w) - Limit >= 1 => g[First(g, w) - Limit] + Dur < g[First(g, w)]

\* A client without a window has not been admitted Limit times within Dur.
NoWindowInv(g) == Len(g) >= Limit => g[Len(g) + 1 - Limit] + Dur < now

Bounded(g) ==
    \A i \in 1 .. Len(g) :
        i + 2 * Limit - 1 \in 1 .. Len(g) => g[i + 2 * Limit - 1] > g[i] + Dur

ClientInv(k) ==
    /\ Chronicle(grants[k])
    /\ k \in DOMAIN windows => WindowInv(grants[k], windows[k])
    /\ k \notin DOMAIN windows => NoWindowInv(grants[k])
    /\ Bounded(grants[k])

IInv == TypeOK /\ \A k \in Client : ClientInv(k)

-----------------------------------------------------------------------------
\* Nobody has been admitted and no window is open.
LEMMA InitInv == Init => IInv
<1> SUFFICES ASSUME Init PROVE IInv
  OBVIOUS
<1>1. TypeOK
  BY DEF Init, TypeOK
<1>2. ASSUME NEW k \in Client PROVE ClientInv(k)
  <2>1. grants[k] = <<>> /\ k \notin DOMAIN windows
    BY DEF Init
  <2> QED BY <2>1, LimiterConstants
          DEF ClientInv, Chronicle, NoWindowInv, Bounded
<1> QED BY <1>1, <1>2 DEF IInv

\* A request that opens a window is more than Dur after the admission Limit before
\* it, whether the last window expired in place or was swept away.
LEMMA OpensLate ==
    ASSUME IInv, NEW k \in Client, k \in DOMAIN windows => Expired(windows[k])
    PROVE  NoWindowInv(grants[k])
<1> DEFINE g == grants[k]
           n == Len(g)
           w == windows[k]
           f == First(g, w)
<1>1. g \in Seq(Nat) /\ n \in Nat /\ now \in Nat /\ Limit \in Nat \ {0} /\ Dur \in Nat
  BY LimiterConstants DEF IInv, TypeOK
<1>2. CASE k \notin DOMAIN windows
  BY <1>2 DEF IInv, ClientInv
<1>3. CASE k \in DOMAIN windows
  <2>1. w \in Window /\ WindowInv(g, w) /\ Chronicle(g)
    BY <1>3 DEF IInv, ClientInv, TypeOK
  <2>2. f \in 1 .. n /\ w.reset = g[f] + Dur /\ now > g[f] + Dur
    BY <1>1, <1>3, <2>1 DEF WindowInv, First, Window, Expired
  <2>3. ASSUME n >= Limit PROVE g[n + 1 - Limit] + Dur < now
    <3>1. n + 1 - Limit \in 1 .. n /\ n + 1 - Limit <= f
      <4>1. f = n + 1 - w.count
        BY DEF First
      <4>2. w.count \in Nat /\ w.count <= Limit
        BY <1>1, <2>1 DEF Window
      <4> HIDE DEF n, f, w
      <4> QED BY <1>1, <2>3, <4>1, <4>2
    <3>2. g[n + 1 - Limit] <= g[f]
      BY <2>1, <2>2, <3>1 DEF Chronicle
    <3>3. \A i \in 1 .. n : g[i] \in Nat
      BY <1>1
    <3> HIDE DEF g, n, f
    <3> QED BY <1>1, <2>2, <3>1, <3>2, <3>3
  <2> QED BY <2>3 DEF NoWindowInv
<1> QED BY <1>2, <1>3

\* One more admission keeps the bound if some admission at or after the 2 * Limit - 1
\* before it is more than Dur ago.
LEMMA BoundedStep ==
    ASSUME now \in Nat, NEW g \in Seq(Nat), Chronicle(g), Bounded(g),
           Len(g) + 2 - 2 * Limit >= 1 =>
             \E m \in 1 .. Len(g) : Len(g) + 2 - 2 * Limit <= m /\ g[m] + Dur < now
    PROVE  Bounded(Append(g, now))
<1> DEFINE n == Len(g)
           h == Append(g, now)
<1>1. n \in Nat /\ Limit \in Nat \ {0} /\ Dur \in Nat /\ \A i \in 1 .. n : g[i] \in Nat
  BY LimiterConstants
<1>2. Len(h) = n + 1 /\ h[n + 1] = now /\ \A i \in 1 .. n : h[i] = g[i]
  OBVIOUS
<1>3. ASSUME NEW i \in 1 .. n + 1, i + 2 * Limit - 1 \in 1 .. n + 1
      PROVE  h[i + 2 * Limit - 1] > h[i] + Dur
  <2>1. i \in 1 .. n
    BY <1>1, <1>3
  <2>2. CASE i + 2 * Limit - 1 \in 1 .. n
    BY <1>2, <2>1, <2>2 DEF Bounded
  <2>3. CASE i + 2 * Limit - 1 = n + 1
    <3>1. i = n + 2 - 2 * Limit
      BY <1>1, <2>1, <2>3
    <3>2. PICK m \in 1 .. n : i <= m /\ g[m] + Dur < now
      BY <3>1, <2>1
    <3>3. g[i] <= g[m]
      BY <2>1, <3>2 DEF Chronicle
    <3>4. g[i] + Dur < now
      <4>1. g[i] \in Nat /\ g[m] \in Nat /\ Dur \in Nat
        BY <1>1, <2>1, <3>2
      <4> QED BY <4>1, <3>2, <3>3
    <3>5. h[i] = g[i] /\ h[i + 2 * Limit - 1] = now /\ g[i] \in Nat
      BY <1>1, <1>2, <2>1, <2>3
    <3> HIDE DEF h
    <3> QED BY <1>1, <3>4, <3>5
  <2>4. i + 2 * Limit - 1 \in 1 .. n \/ i + 2 * Limit - 1 = n + 1
    <3> HIDE DEF n, h
    <3> QED BY <1>1, <1>3
  <2> QED BY <2>2, <2>3, <2>4
<1> QED BY <1>2, <1>3 DEF Bounded

\* An admission is recorded last.
LEMMA ChronicleStep ==
    ASSUME now \in Nat, NEW g \in Seq(Nat), Chronicle(g)
    PROVE  Chronicle(Append(g, now))
<1>1. Len(g) \in Nat /\ Len(Append(g, now)) = Len(g) + 1
  OBVIOUS
<1>2. \A i \in 1 .. Len(g) : Append(g, now)[i] = g[i]
  OBVIOUS
<1>3. Append(g, now)[Len(g) + 1] = now
  OBVIOUS
<1> DEFINE h == Append(g, now)
           n == Len(g)
<1>4. \A i \in 1 .. n + 1 : h[i] <= now
  BY <1>1, <1>2, <1>3 DEF Chronicle
<1>5. ASSUME NEW i \in 1 .. n + 1, NEW j \in 1 .. n + 1, i <= j PROVE h[i] <= h[j]
  <2>1. CASE j = n + 1
    BY <1>3, <1>4, <2>1
  <2>2. CASE j # n + 1
    <3>1. i \in 1 .. n /\ j \in 1 .. n
      BY <1>1, <1>5, <2>2
    <3> QED BY <1>2, <1>5, <3>1 DEF Chronicle
  <2> QED BY <2>1, <2>2
<1> QED BY <1>1, <1>4, <1>5 DEF Chronicle

\* An admitted request keeps the invariant, whether it opens a window or is counted
\* in the one that is open.
LEMMA AllowInv ==
    ASSUME IInv, NEW c \in Client, Allow(c)
    PROVE  IInv'
<1> DEFINE g == grants[c]
           n == Len(g)
           w == windows[c]
<1>1. /\ g \in Seq(Nat) /\ n \in Nat /\ now \in Nat /\ now' = now
      /\ Limit \in Nat \ {0} /\ Dur \in Nat
      /\ \A i \in 1 .. n : g[i] \in Nat
      /\ Chronicle(g) /\ Bounded(g)
  BY LimiterConstants DEF IInv, TypeOK, ClientInv, Allow
<1>2. /\ grants' = [grants EXCEPT ![c] = Append(g, now)]
      /\ DOMAIN windows' = DOMAIN windows \cup {c}
      /\ windows'[c] = Admitted(c)
      /\ \A k \in DOMAIN windows : k # c => windows'[k] = windows[k]
  BY DEF Allow
<1>3. grants'[c] = Append(g, now) /\ Append(g, now) \in Seq(Nat) /\ Len(Append(g, now)) = n + 1
  BY <1>1, <1>2 DEF IInv, TypeOK
<1>4. \A i \in 1 .. n : Append(g, now)[i] = g[i]
  BY <1>1
<1>5. Append(g, now)[n + 1] = now
  BY <1>1
<1>6. /\ windows'[c] \in Window
      /\ WindowInv(grants[c], windows[c])'
      /\ Bounded(Append(g, now))
  <2>1. CASE c \in DOMAIN windows => Expired(w)
    <3>1. windows'[c] = [count |-> 1, reset |-> now + Dur]
      BY <1>2, <2>1 DEF Admitted
    <3>2. n >= Limit => g[n + 1 - Limit] + Dur < now
      BY <2>1, OpensLate DEF NoWindowInv
    <3>3. First(grants'[c], windows'[c]) = n + 1
      BY <1>1, <1>3, <3>1 DEF First
    <3>4. n + 1 - Limit >= 1 => Append(g, now)[n + 1 - Limit] = g[n + 1 - Limit]
      BY <1>1, <1>4
    <3>5. n + 1 - Limit >= 1 => Append(g, now)[n + 1 - Limit] + Dur < now
      BY <1>1, <3>2, <3>4
    <3>6. WindowInv(grants[c], windows[c])'
      BY <1>1, <1>3, <1>5, <3>1, <3>3, <3>5 DEF WindowInv, First
    <3>7. n + 2 - 2 * Limit >= 1 =>
            \E m \in 1 .. n : n + 2 - 2 * Limit <= m /\ g[m] + Dur < now
      <4>1. n + 2 - 2 * Limit >= 1 =>
              /\ n + 1 - Limit \in 1 .. n
              /\ n >= Limit
              /\ n + 2 - 2 * Limit <= n + 1 - Limit
        <5> HIDE DEF n
        <5> QED BY <1>1
      <4> QED BY <3>2, <4>1
    <3>8. Bounded(Append(g, now))
      BY <1>1, <3>7, BoundedStep
    <3>9. windows'[c] \in Window
      BY <1>1, <3>1 DEF Window
    <3> QED BY <3>6, <3>8, <3>9
  <2>2. CASE c \in DOMAIN windows /\ ~ Expired(w)
    <3>1. w \in Window /\ w.count < Limit
      BY <2>2, <1>1 DEF IInv, TypeOK, Window, Allow, Exhausted
    <3>2. windows'[c] = [w EXCEPT !.count = @ + 1]
      BY <1>2, <2>2 DEF Admitted
    <3>3. windows'[c] \in Window /\ windows'[c].count = w.count + 1 /\ windows'[c].reset = w.reset
      <4>1. w.count \in Nat /\ w.count + 1 \in 1 .. Limit /\ w.reset \in Nat
        <5>1. w.count \in 1 .. Limit /\ w.reset \in Nat /\ w = [count |-> w.count, reset |-> w.reset]
          BY <3>1 DEF Window
        <5> HIDE DEF w
        <5> QED BY <1>1, <3>1, <5>1
      <4>2. windows'[c] = [count |-> w.count + 1, reset |-> w.reset]
        BY <3>1, <3>2 DEF Window
      <4> HIDE DEF w
      <4> QED BY <4>1, <4>2 DEF Window
    <3>4. WindowInv(g, w)
      BY <2>2 DEF IInv, ClientInv
    <3>5. First(grants'[c], windows'[c]) = First(g, w)
      <4>1. w.count \in Nat
        BY <1>1, <3>1 DEF Window
      <4>2. First(grants'[c], windows'[c]) = (n + 1) + 1 - (w.count + 1)
        BY <1>3, <3>3 DEF First
      <4>3. (n + 1) + 1 - (w.count + 1) = n + 1 - w.count
        <5>1. \A p, q \in Int : (p + 1) + 1 - (q + 1) = p + 1 - q
          OBVIOUS
        <5>2. n \in Int /\ w.count \in Int
          BY <1>1, <4>1
        <5> HIDE DEF n, w
        <5> QED BY <5>1, <5>2
      <4> QED BY <4>2, <4>3 DEF First
    <3>6. First(g, w) \in 1 .. n
      BY <1>1, <3>1, <3>4 DEF First, Window, WindowInv
    <3>7. First(g, w) - Limit >= 1 =>
            First(g, w) - Limit \in 1 .. n /\ g[First(g, w) - Limit] + Dur < g[First(g, w)]
      BY <1>1, <3>4, <3>6 DEF WindowInv
    <3>8. WindowInv(grants[c], windows[c])'
      BY <1>3, <1>4, <3>3, <3>4, <3>5, <3>6, <3>7 DEF WindowInv
    <3>9. n + 2 - 2 * Limit >= 1 =>
            \E m \in 1 .. n : n + 2 - 2 * Limit <= m /\ g[m] + Dur < now
      <4> SUFFICES ASSUME n + 2 - 2 * Limit >= 1
                   PROVE  \E m \in 1 .. n : n + 2 - 2 * Limit <= m /\ g[m] + Dur < now
        OBVIOUS
      <4> DEFINE f == First(g, w)
      <4>1. n + 2 - 2 * Limit <= f - Limit /\ f - Limit >= 1 /\ f - Limit \in 1 .. n
        <5>1. f = n + 1 - w.count
          BY DEF First
        <5>2. w.count \in Nat /\ w.count >= 1
          BY <1>1, <3>1 DEF Window
        <5> HIDE DEF f, n, w
        <5> QED BY <1>1, <3>1, <5>1, <5>2
      <4>2. g[f - Limit] + Dur < g[f] /\ g[f] <= now
        BY <1>1, <3>6, <3>7, <4>1 DEF Chronicle
      <4>3. g[f - Limit] \in Nat /\ g[f] \in Nat
        BY <1>1, <3>6, <4>1
      <4>4. g[f - Limit] + Dur < now
        <5> HIDE DEF f, g
        <5> QED BY <1>1, <4>2, <4>3
      <4> QED BY <4>1, <4>4
    <3>10. Bounded(Append(g, now))
      BY <1>1, <3>9, BoundedStep
    <3> QED BY <3>3, <3>8, <3>10
  <2> QED BY <2>1, <2>2
<1>7. TypeOK'
  <2>1. grants' \in [Client -> Seq(Nat)] /\ now' \in Nat
    BY <1>1, <1>2, <1>3 DEF IInv, TypeOK
  <2>2. DOMAIN windows' \subseteq Client
    BY <1>2 DEF IInv, TypeOK
  <2>3. \A k \in DOMAIN windows' : windows'[k] \in Window
    BY <1>2, <1>6 DEF IInv, TypeOK
  <2>4. windows' \in [DOMAIN windows' -> Window]
    BY <2>3 DEF Allow
  <2> QED BY <2>1, <2>2, <2>4 DEF TypeOK
<1>8. ASSUME NEW k \in Client PROVE ClientInv(k)'
  <2>1. CASE k = c
    <3>1. Chronicle(Append(g, now))
      BY <1>1, ChronicleStep
    <3>2. Chronicle(grants[k])' /\ Bounded(grants[k])'
      BY <1>1, <1>3, <1>6, <2>1, <3>1 DEF Chronicle, Bounded
    <3> QED BY <1>2, <1>6, <2>1, <3>2 DEF ClientInv
  <2>2. CASE k # c
    <3>1. grants'[k] = grants[k] /\ (k \in DOMAIN windows' <=> k \in DOMAIN windows)
      BY <1>2, <2>2 DEF IInv, TypeOK
    <3>2. k \in DOMAIN windows => windows'[k] = windows[k]
      BY <1>2, <2>2
    <3> QED BY <1>1, <3>1, <3>2
            DEF IInv, ClientInv, Chronicle, WindowInv, First, NoWindowInv, Bounded
  <2> QED BY <2>1, <2>2
<1> QED BY <1>7, <1>8 DEF IInv

\* The sweep drops only windows a request would reopen.
LEMMA CleanupInv ==
    ASSUME IInv, Cleanup
    PROVE  IInv'
<1>1. TypeOK'
  BY DEF IInv, TypeOK, Cleanup
<1>2. ASSUME NEW k \in Client PROVE ClientInv(k)'
  <2>1. grants' = grants /\ now' = now
    BY DEF Cleanup
  <2>2. CASE k \in DOMAIN windows'
    <3>1. k \in DOMAIN windows /\ windows'[k] = windows[k]
      BY <2>2 DEF Cleanup
    <3> QED BY <2>1, <2>2, <3>1
            DEF IInv, ClientInv, Chronicle, WindowInv, First, Bounded
  <2>3. CASE k \notin DOMAIN windows'
    <3>1. k \in DOMAIN windows => Expired(windows[k])
      BY <2>3 DEF Cleanup
    <3>2. NoWindowInv(grants[k])
      BY <3>1, OpensLate
    <3> QED BY <2>1, <2>3, <3>2
            DEF IInv, ClientInv, Chronicle, NoWindowInv, Bounded
  <2> QED BY <2>2, <2>3
<1> QED BY <1>1, <1>2 DEF IInv

\* Time only puts more between a client and its admissions.
LEMMA TickInv ==
    ASSUME IInv, Tick
    PROVE  IInv'
<1>1. windows' = windows /\ grants' = grants /\ now' = now + 1 /\ now \in Nat /\ Dur \in Nat
  BY LimiterConstants DEF Tick, IInv, TypeOK
<1>2. TypeOK'
  BY <1>1 DEF IInv, TypeOK
<1>3. ASSUME NEW k \in Client PROVE ClientInv(k)'
  <2> DEFINE g == grants[k]
  <2>1. g \in Seq(Nat) /\ Len(g) \in Nat /\ Limit \in Nat \ {0} /\ \A i \in 1 .. Len(g) : g[i] \in Nat
    BY LimiterConstants DEF IInv, TypeOK
  <2>2. Chronicle(g)'
    <3>1. \A i \in 1 .. Len(g) : g[i] <= now + 1
      BY <1>1, <2>1 DEF IInv, ClientInv, Chronicle
    <3> QED BY <1>1, <3>1 DEF IInv, ClientInv, Chronicle
  <2>3. (k \notin DOMAIN windows => NoWindowInv(g))'
    <3>1. Len(g) >= Limit => Len(g) + 1 - Limit \in 1 .. Len(g)
      BY <2>1
    <3>2. k \notin DOMAIN windows /\ Len(g) >= Limit => g[Len(g) + 1 - Limit] + Dur < now + 1
      BY <1>1, <2>1, <3>1 DEF IInv, ClientInv, NoWindowInv
    <3> QED BY <1>1, <3>2 DEF NoWindowInv
  <2>4. (k \in DOMAIN windows => WindowInv(g, windows[k]))' /\ Bounded(g)'
    BY <1>1 DEF IInv, ClientInv, WindowInv, First, Bounded
  <2> QED BY <2>2, <2>3, <2>4 DEF ClientInv
<1> QED BY <1>2, <1>3 DEF IInv

\* The invariant holds in every reachable state.
LEMMA Invariance == Spec => []IInv
<1>1. IInv /\ [Next]_vars => IInv'
  <2> SUFFICES ASSUME IInv, [Next]_vars PROVE IInv'
    OBVIOUS
  <2>1. ASSUME NEW k \in Client, Allow(k) PROVE IInv'
    BY <2>1, AllowInv
  <2>2. CASE Cleanup
    BY <2>2, CleanupInv
  <2>3. CASE Tick
    BY <2>3, TickInv
  <2>4. CASE UNCHANGED vars
    BY <2>4 DEF vars, IInv, TypeOK, ClientInv, Chronicle, WindowInv, First,
                NoWindowInv, Bounded
  <2> QED BY <2>1, <2>2, <2>3, <2>4 DEF Next
<1> QED BY InitInv, <1>1, PTL DEF Spec

-----------------------------------------------------------------------------
\* The limiter's state is well formed: a window never counts more than Limit.
THEOREM TypeCorrect == Spec => []TypeOK
<1>1. IInv => TypeOK
  BY DEF IInv
<1> QED BY <1>1, Invariance, PTL

\* No client is admitted 2 * Limit times within one Dur, for any Limit and Dur,
\* any timing of its requests and any time the sweep of ratelimit.go runs.
THEOREM BurstsAreBounded == Spec => []BurstBound
<1>1. IInv => BurstBound
  <2> SUFFICES ASSUME IInv, NEW k \in Client, NEW i \in DOMAIN grants[k],
                      i + 2 * Limit - 1 \in DOMAIN grants[k]
               PROVE  grants[k][i + 2 * Limit - 1] > grants[k][i] + Dur
    BY DEF BurstBound
  <2>1. DOMAIN grants[k] = 1 .. Len(grants[k])
    BY DEF IInv, TypeOK
  <2> QED BY <2>1 DEF IInv, ClientInv, Bounded
<1> QED BY <1>1, Invariance, PTL

\* Allow refuses only a client whose last Limit admissions lie within the Dur
\* before the refusal.
THEOREM RefusalsAreDeserved == Spec => []NoEarlyRefusal
<1>1. IInv => NoEarlyRefusal
  <2> SUFFICES ASSUME IInv, NEW k \in Client, Exhausted(k)
               PROVE  /\ Len(grants[k]) >= Limit
                      /\ grants[k][Len(grants[k]) + 1 - Limit] + Dur >= now
    BY DEF NoEarlyRefusal
  <2> DEFINE g == grants[k]
             n == Len(g)
             w == windows[k]
  <2>1. /\ w \in Window /\ w.count = Limit /\ ~ (now > w.reset) /\ now \in Nat
        /\ n \in Nat /\ Limit \in Nat \ {0} /\ WindowInv(g, w)
    BY LimiterConstants DEF IInv, TypeOK, ClientInv, Exhausted, Expired, Window
  <2>2. n + 1 - Limit >= 1 /\ w.reset = g[n + 1 - Limit] + Dur /\ w.reset \in Nat
    BY <2>1 DEF WindowInv, First, Window
  <2>3. n >= Limit
    <3> HIDE DEF n
    <3> QED BY <2>1, <2>2
  <2>4. w.reset >= now
    <3> HIDE DEF w
    <3> QED BY <2>1, <2>2
  <2> QED BY <2>2, <2>3, <2>4
<1> QED BY <1>1, Invariance, PTL

-----------------------------------------------------------------------------
(* The parameters of remote configuration: module RemoteConfig.            *)

\* Memory has what was acknowledged, but for the keys that the change in progress has
\* changed already.
MemoryAgrees ==
    \A k \in Key : acked[k] # None /\ up /\ (call = None \/ call.set \/ k \notin call.keys) =>
        Val(params, k) = acked[k]

\* So does the file, which holds nothing as long as there is none.
FileAgrees ==
    \A k \in Key : acked[k] # None =>
        IF file = NoFile THEN acked[k] = Absent
        ELSE file # Torn /\ k \notin doubtful => Val(file, k) = acked[k]

\* What a change in progress will write: a Set what it was given, for all keys, the
\* others what is in memory.
ChangeInv ==
    /\ ~ up => call = None /\ doubtful = {}
    /\ call # None =>
        /\ IF call.set THEN call.keys = Key ELSE params = call.doc
        /\ call.step = "opened" => file = Torn
        /\ call.step = "panicking" => call.keys = {} /\ ~ call.set

ConfigInv == ConfigTypeOK /\ ChangeInv /\ MemoryAgrees /\ FileAgrees

\* A map is a set of parameters if its keys are keys and its values values.
LEMMA ParamsAre ==
    ASSUME NEW K \in SUBSET Key, NEW p \in [K -> Value]
    PROVE  p \in Params
BY DEF Params

\* Parameters are a function on some of the keys.
LEMMA ParamsHave ==
    ASSUME NEW p \in Params
    PROVE  DOMAIN p \in SUBSET Key /\ p \in [DOMAIN p -> Value]
<1>1. PICK K \in SUBSET Key : p \in [K -> Value]
    BY DEF Params
<1> QED
    BY <1>1

\* The parameters without a key have no value.
LEMMA EmptyHasNothing ==
    Empty \in Params /\ \A k : Val(Empty, k) = Absent
<1>1. Empty \in [{} -> Value]
    BY DEF Empty
<1>2. Empty \in Params
    BY <1>1, ParamsAre
<1> QED
    BY <1>2 DEF Empty, Val

\* Merge sets the keys it is given ...
LEMMA MergedSets ==
    ASSUME NEW p \in Params, NEW upd \in Params
    PROVE  /\ Merged(p, upd) \in Params
           /\ \A k \in Key \ DOMAIN upd : Val(Merged(p, upd), k) = Val(p, k)
<1> DEFINE m == Merged(p, upd)
           K == DOMAIN p \cup DOMAIN upd
<1>1. /\ DOMAIN p \in SUBSET Key /\ p \in [DOMAIN p -> Value]
      /\ DOMAIN upd \in SUBSET Key /\ upd \in [DOMAIN upd -> Value]
    BY ParamsHave
<1>2. m \in [K -> Value]
    BY <1>1 DEF Merged
<1>3. m \in Params
    BY <1>1, <1>2, ParamsAre
<1>4. \A k \in Key \ DOMAIN upd : k \in K <=> k \in DOMAIN p
    OBVIOUS
<1>5. \A k \in K \ DOMAIN upd : m[k] = p[k]
    BY DEF Merged
<1>6. m # Nil /\ p # Nil
    BY <1>3, ConfigConstants
<1>7. DOMAIN m = K
    BY DEF Merged
<1> QED
    BY <1>3, <1>4, <1>5, <1>6, <1>7 DEF Val

\* ... and DeleteKey leaves the others.
LEMMA WithoutLeaves ==
    ASSUME NEW p \in Params \cup {Nil}, NEW k \in Key
    PROVE  /\ Without(p, k) \in Params \cup {Nil}
           /\ p # Nil => Without(p, k) # Nil
           /\ \A j \in Key \ {k} : Val(Without(p, k), j) = Val(p, j)
<1>1. CASE p = Nil
    BY <1>1 DEF Without
<1>2. CASE p # Nil
    <2> DEFINE m == Without(p, k)
               K == DOMAIN p \ {k}
    <2>1. DOMAIN p \in SUBSET Key /\ p \in [DOMAIN p -> Value] /\ p \in Params
        BY <1>2, ParamsHave
    <2>2. m = [j \in K |-> p[j]]
        BY <1>2 DEF Without, Restrict
    <2> HIDE DEF m
    <2>3. m \in [K -> Value]
        BY <2>1, <2>2
    <2>4. m \in Params
        BY <2>1, <2>3, ParamsAre
    <2>5. m # Nil
        BY <2>4, ConfigConstants
    <2>6. \A j \in Key \ {k} : Val(m, j) = Val(p, j)
        BY <1>2, <2>2, <2>5 DEF Val
    <2> QED
        BY <2>4, <2>5, <2>6 DEF m
<1> QED
    BY <1>1, <1>2

\* The invariant holds before the first start, with no file and nothing acknowledged.
LEMMA ConfigFirst == ConfigInit => ConfigInv
<1> SUFFICES ASSUME ConfigInit PROVE ConfigInv
    OBVIOUS
<1>1. ConfigTypeOK
    BY EmptyHasNothing, ConfigConstants DEF ConfigInit, ConfigTypeOK
<1> QED
    BY <1>1 DEF ConfigInit, ConfigInv, ChangeInv, MemoryAgrees, FileAgrees

\* A start finds in the file what was acknowledged, or nothing, where nothing was.
LEMMA ConfigStart == ASSUME ConfigInv, Start PROVE ConfigInv'
<1>0. /\ ~ up /\ file # Torn /\ up' = TRUE
      /\ params' = IF file = NoFile THEN Empty ELSE file
      /\ UNCHANGED <<file, call, acked, doubtful>>
      /\ call = None /\ doubtful = {}
    BY DEF Start, ConfigInv, ChangeInv
<1>1. ConfigTypeOK'
    <2>1. params' \in Params \cup {Nil}
        BY <1>0, EmptyHasNothing DEF ConfigInv, ConfigTypeOK
    <2>2. params' = Nil => file' # NoFile
        BY <1>0, EmptyHasNothing, ConfigConstants
    <2> QED
        BY <1>0, <2>1, <2>2 DEF ConfigInv, ConfigTypeOK
<1>2. MemoryAgrees'
    <2>1. ASSUME NEW k \in Key, acked[k] # None
          PROVE  Val(params', k) = acked[k]
        BY <1>0, <2>1, EmptyHasNothing DEF ConfigInv, FileAgrees
    <2> QED
        BY <1>0, <2>1 DEF MemoryAgrees
<1> QED
    BY <1>0, <1>1, <1>2 DEF ConfigInv, ChangeInv, FileAgrees

\* A crash leaves a change half done: what is in memory is lost, the file may be torn.
LEMMA ConfigCrash == ASSUME ConfigInv, Crash PROVE ConfigInv'
<1>0. /\ up' = FALSE /\ params' = Empty /\ call' = None /\ doubtful' = {} /\ file' = file
      /\ acked' = [k \in Key |-> IF k \in doubtful THEN None ELSE acked[k]]
    BY DEF Crash
<1>1. ConfigTypeOK'
    <2>1. params' \in Params /\ params' # Nil
        BY <1>0, EmptyHasNothing, ConfigConstants
    <2> QED
        BY <1>0, <2>1 DEF ConfigInv, ConfigTypeOK
<1>2. FileAgrees'
    <2>1. ASSUME NEW k \in Key, acked'[k] # None
          PROVE  k \notin doubtful /\ acked'[k] = acked[k] /\ acked[k] # None
        BY <1>0, <2>1
    <2> QED
        BY <1>0, <2>1 DEF ConfigInv, FileAgrees
<1> QED
    BY <1>0, <1>1, <1>2 DEF ConfigInv, ChangeInv, MemoryAgrees

\* Set is about all keys and leaves memory alone until it has written.
LEMMA ConfigSet ==
    ASSUME ConfigInv, NEW p \in Params \cup {Nil}, Set(p)
    PROVE  ConfigInv'
<1>0. /\ up /\ call = None
      /\ call' = [step |-> "edited", doc |-> p, keys |-> Key, set |-> TRUE]
      /\ UNCHANGED <<up, params, file, acked, doubtful>>
    BY DEF Set, Locked
<1>1. call' \in Change
    BY <1>0 DEF Change
<1>2. ConfigTypeOK'
    BY <1>0, <1>1 DEF ConfigInv, ConfigTypeOK
<1>3. ChangeInv'
    BY <1>0 DEF ChangeInv
<1>4. MemoryAgrees'
    BY <1>0 DEF ConfigInv, MemoryAgrees
<1> QED
    BY <1>0, <1>2, <1>3, <1>4 DEF ConfigInv, FileAgrees

\* Merge and DeleteKey change some keys in memory and leave the others.
LEMMA ConfigEdit ==
    ASSUME ConfigInv, NEW K \in SUBSET Key, NEW p \in Params \cup {Nil},
           up, call = None, params' = p, p = Nil => params = Nil,
           NEW step \in {"edited", "panicking"}, step = "panicking" => K = {},
           call' = [step |-> step, doc |-> p, keys |-> K, set |-> FALSE],
           UNCHANGED <<up, file, acked, doubtful>>,
           \A k \in Key \ K : Val(p, k) = Val(params, k)
    PROVE  ConfigInv'
<1>1. call' \in Change
    BY DEF Change
<1>2. ConfigTypeOK'
    BY <1>1 DEF ConfigInv, ConfigTypeOK
<1>3. ChangeInv'
    BY DEF ChangeInv
<1>4. MemoryAgrees'
    <2>1. ASSUME NEW k \in Key \ K, acked[k] # None
          PROVE  Val(p, k) = acked[k]
        BY <2>1 DEF ConfigInv, MemoryAgrees
    <2>2. call' # None /\ call'.keys = K /\ call'.set = FALSE
        BY <1>1, ConfigConstants
    <2> QED
        BY <2>1, <2>2 DEF MemoryAgrees
<1> QED
    BY <1>2, <1>3, <1>4 DEF ConfigInv, FileAgrees

\* Merge changes the keys it is given and will write what is then in memory.
LEMMA ConfigMerge ==
    ASSUME ConfigInv, NEW upd \in Params, Merge(upd)
    PROVE  ConfigInv'
<1>0. /\ up /\ call = None /\ params # Nil /\ params' = Merged(params, upd)
      /\ call' = [step |-> "edited", doc |-> params', keys |-> DOMAIN upd, set |-> FALSE]
      /\ UNCHANGED <<up, file, acked, doubtful>>
    BY DEF Merge, Locked
<1>1. params \in Params /\ DOMAIN upd \in SUBSET Key
    BY <1>0, ParamsHave DEF ConfigInv, ConfigTypeOK
<1> DEFINE p == Merged(params, upd)
<1>2. /\ p \in Params /\ p # Nil
      /\ \A k \in Key \ DOMAIN upd : Val(p, k) = Val(params, k)
    BY <1>1, MergedSets, ConfigConstants
<1> HIDE DEF p
<1>3. params' = p /\ call' = [step |-> "edited", doc |-> p, keys |-> DOMAIN upd, set |-> FALSE]
    BY <1>0 DEF p
<1> QED
    BY <1>0, <1>1, <1>2, <1>3, ConfigEdit

\* Merge into the nil map panics if there is a key to assign.
LEMMA ConfigMergeNil ==
    ASSUME ConfigInv, NEW upd, MergeNil(upd)
    PROVE  ConfigInv'
<1>0. /\ up /\ call = None /\ params = Nil
      /\ call' = [step |-> IF upd = Empty THEN "edited" ELSE "panicking",
                  doc |-> Nil, keys |-> {}, set |-> FALSE]
      /\ UNCHANGED <<up, params, file, acked, doubtful>>
    BY DEF MergeNil, Locked
<1>1. PICK step \in {"edited", "panicking"} :
         call' = [step |-> step, doc |-> Nil, keys |-> {}, set |-> FALSE]
    BY <1>0
<1> QED
    BY <1>0, <1>1, ConfigEdit

\* DeleteKey changes its key and will write what is then in memory.
LEMMA ConfigDeleteKey ==
    ASSUME ConfigInv, NEW k \in Key, DeleteKey(k)
    PROVE  ConfigInv'
<1>0. /\ up /\ call = None /\ params' = Without(params, k)
      /\ call' = [step |-> "edited", doc |-> params', keys |-> {k}, set |-> FALSE]
      /\ UNCHANGED <<up, file, acked, doubtful>>
    BY DEF DeleteKey, Locked
<1> DEFINE p == Without(params, k)
<1>1. /\ p \in Params \cup {Nil} /\ (p = Nil => params = Nil)
      /\ \A j \in Key \ {k} : Val(p, j) = Val(params, j)
    BY WithoutLeaves DEF ConfigInv, ConfigTypeOK
<1> DEFINE K == {k}
<1> HIDE DEF p, K
<1>2. /\ params' = p /\ call' = [step |-> "edited", doc |-> p, keys |-> K, set |-> FALSE]
      /\ K \in SUBSET Key /\ \A j \in Key \ K : Val(p, j) = Val(params, j)
    BY <1>0, <1>1 DEF p, K
<1> QED
    BY <1>0, <1>1, <1>2, ConfigEdit

\* A call that panicked has changed nothing.
LEMMA ConfigPanic == ASSUME ConfigInv, Panic PROVE ConfigInv'
<1>0. /\ up /\ call # None /\ call.step = "panicking" /\ call' = None
      /\ UNCHANGED <<up, params, file, acked, doubtful>>
    BY DEF Panic
<1> QED
    BY <1>0 DEF ConfigInv, ConfigTypeOK, ChangeInv, MemoryAgrees, FileAgrees

\* The write of a change: the file is emptied ...
LEMMA ConfigOpenFile == ASSUME ConfigInv, OpenFile PROVE ConfigInv'
<1>0. /\ up /\ call \in Change /\ call.step = "edited" /\ file' = Torn
      /\ call' = [call EXCEPT !.step = "opened"]
      /\ UNCHANGED <<up, params, acked, doubtful>>
    BY DEF OpenFile, ConfigInv, ConfigTypeOK
<1>1. call' = [step |-> "opened", doc |-> call.doc, keys |-> call.keys, set |-> call.set]
    BY <1>0 DEF Change
<1>2. call' \in Change /\ call # None /\ call' # None
    BY <1>0, <1>1, ConfigConstants DEF Change
<1>3. ConfigTypeOK'
    BY <1>0, <1>2, ConfigConstants DEF ConfigInv, ConfigTypeOK
<1>4. ChangeInv'
    BY <1>0, <1>1, <1>2 DEF ConfigInv, ChangeInv
<1>5. MemoryAgrees'
    BY <1>0, <1>1, <1>2 DEF ConfigInv, MemoryAgrees
<1>6. FileAgrees'
    BY <1>0, ConfigConstants DEF FileAgrees
<1> QED
    BY <1>3, <1>4, <1>5, <1>6 DEF ConfigInv

\* ... and gets what the change is to write, which memory has, too, in the end ...
LEMMA ConfigWriteFile == ASSUME ConfigInv, WriteFile PROVE ConfigInv'
<1>0. /\ up /\ call # None /\ call \in Change /\ call.step = "opened" /\ file' = call.doc
      /\ params' = IF call.set THEN call.doc ELSE params
      /\ acked' = [k \in Key |-> IF k \in call.keys THEN Val(call.doc, k) ELSE acked[k]]
      /\ doubtful' = {} /\ call' = None /\ up' = up
    BY DEF WriteFile, ConfigInv, ConfigTypeOK
<1>1. /\ call.doc \in Params \cup {Nil} /\ call.keys \subseteq Key
      /\ call.doc \notin {NoFile, Torn}
    BY <1>0, ConfigConstants DEF Change
<1>2. params' = call.doc /\ (call.set => call.keys = Key)
    BY <1>0 DEF ConfigInv, ChangeInv
<1>3. ASSUME NEW k \in Key, acked'[k] # None
      PROVE  Val(call.doc, k) = acked'[k]
    <2>1. CASE k \in call.keys
        BY <1>0, <2>1
    <2>2. CASE k \notin call.keys
        <3>1. acked'[k] = acked[k] /\ ~ call.set
            BY <1>0, <1>2, <2>2
        <3> QED
            BY <1>0, <1>2, <1>3, <2>2, <3>1 DEF ConfigInv, MemoryAgrees
    <2> QED
        BY <2>1, <2>2
<1>4. ConfigTypeOK'
    <2>1. ASSUME NEW k \in Key
          PROVE  Val(call.doc, k) \in Value \cup {Absent}
        <3>1. CASE call.doc = Nil
            BY <3>1 DEF Val
        <3>2. CASE call.doc # Nil
            BY <1>1, <3>2, ParamsHave DEF Val
        <3> QED
            BY <3>1, <3>2
    <2>2. acked' \in [Key -> Value \cup {Absent, None}]
        BY <1>0, <2>1 DEF ConfigInv, ConfigTypeOK
    <2> QED
        BY <1>0, <1>1, <1>2, <2>2 DEF ConfigInv, ConfigTypeOK
<1>5. MemoryAgrees' /\ FileAgrees'
    BY <1>0, <1>1, <1>2, <1>3 DEF MemoryAgrees, FileAgrees
<1> QED
    BY <1>0, <1>4, <1>5 DEF ConfigInv, ChangeInv

\* ... or the write fails, and then it depends on the change what is known.
LEMMA ConfigWriteFails ==
    ASSUME ConfigInv, WriteFails
    PROVE  ConfigInv'
<1>0. /\ up /\ call # None /\ call \in Change
      /\ file' \in IF call.step = "edited" THEN {file} ELSE {Torn, call.doc}
      /\ IF call.set
         THEN doubtful' = call.keys /\ acked' = acked
         ELSE acked' = [k \in Key |-> IF k \in call.keys THEN None ELSE acked[k]] /\ doubtful' = doubtful
      /\ call' = None /\ UNCHANGED <<up, params>>
    BY DEF WriteFails, ConfigInv, ConfigTypeOK
<1>1. /\ call.doc \in Params \cup {Nil} /\ call.keys \subseteq Key
      /\ call.doc \notin {NoFile, Torn}
    BY <1>0, ConfigConstants DEF Change
<1>2. IF call.set THEN call.keys = Key ELSE params = call.doc
    BY <1>0 DEF ConfigInv, ChangeInv
<1>3. ASSUME NEW k \in Key, acked'[k] # None
      PROVE  acked'[k] = acked[k] /\ (call.set \/ k \notin call.keys)
    BY <1>0, <1>3
<1>4. ConfigTypeOK'
    <2>1. file' \in Params \cup {Nil, NoFile, Torn} /\ (file = NoFile \/ file' # NoFile)
        BY <1>0, <1>1, ConfigConstants DEF ConfigInv, ConfigTypeOK
    <2>2. acked' \in [Key -> Value \cup {Absent, None}] /\ doubtful' \subseteq Key
        BY <1>0, <1>1 DEF ConfigInv, ConfigTypeOK
    <2> QED
        BY <1>0, <2>1, <2>2 DEF ConfigInv, ConfigTypeOK
<1>5. MemoryAgrees'
    BY <1>0, <1>3 DEF ConfigInv, MemoryAgrees
<1>6. FileAgrees'
    <2>1. ASSUME NEW k \in Key, acked'[k] # None
          PROVE  IF file' = NoFile THEN acked'[k] = Absent
                 ELSE file' # Torn /\ k \notin doubtful' => Val(file', k) = acked'[k]
        <3>1. CASE call.set
            BY <1>0, <1>1, <1>2, <1>3, <2>1, <3>1, ConfigConstants DEF ConfigInv, FileAgrees
        <3>2. CASE ~ call.set /\ file' = file
            BY <1>0, <1>3, <2>1, <3>2 DEF ConfigInv, FileAgrees
        <3>3. CASE ~ call.set /\ file' = Torn
            BY <3>3, ConfigConstants
        <3>4. CASE ~ call.set /\ file' = call.doc
            <4>1. Val(params, k) = acked[k]
                BY <1>0, <1>3, <2>1 , <3>4 DEF ConfigInv, MemoryAgrees
            <4> QED
                BY <1>1, <1>2, <1>3, <2>1, <3>4, <4>1
        <3> QED
            BY <1>0, <3>1, <3>2, <3>3, <3>4
    <2> QED
        BY <2>1 DEF FileAgrees
<1> QED
    BY <1>0, <1>4, <1>5, <1>6 DEF ConfigInv, ChangeInv

\* Every step keeps the invariant.
LEMMA ConfigSteps == ConfigInv /\ [ConfigNext]_configVars => ConfigInv'
<1> SUFFICES ASSUME ConfigInv, [ConfigNext]_configVars PROVE ConfigInv'
    OBVIOUS
<1>1. CASE UNCHANGED configVars
    BY <1>1 DEF configVars, ConfigInv, ConfigTypeOK, ChangeInv, MemoryAgrees, FileAgrees
<1>2. CASE ConfigNext
    BY <1>2, ConfigStart, ConfigCrash, ConfigSet, ConfigMerge, ConfigMergeNil, ConfigPanic,
       ConfigDeleteKey, ConfigOpenFile, ConfigWriteFile, ConfigWriteFails DEF ConfigNext
<1> QED
    BY <1>1, <1>2

\* The invariant holds of every behaviour of the parameters in memory and in the file.
THEOREM ConfigInvariance == ConfigSpec => []ConfigInv
<1>1. ConfigInit => ConfigInv
    BY ConfigFirst
<1>2. ConfigInv /\ [ConfigNext]_configVars => ConfigInv'
    BY ConfigSteps
<1> QED
    BY <1>1, <1>2, PTL DEF ConfigSpec

\* Memory and file hold parameters or null, and memory null only once it was written.
THEOREM ConfigTypeCorrect == ConfigSpec => []ConfigTypeOK
<1>1. ConfigInv => ConfigTypeOK
    BY DEF ConfigInv
<1> QED
    BY <1>1, ConfigInvariance, PTL

\* Each parameter is in memory what the last call that succeeded left of it, and in the
\* file, too, unless a Merge or DeleteKey that failed has changed it since, or, for the
\* file, a Set: what Set, Merge and DeleteKey (remoteconfig.go:45-84) promise.
THEOREM ParametersStand == ConfigSpec => []SavedParamsStand
<1>1. ConfigInv => SavedParamsStand
    BY DEF ConfigInv, MemoryAgrees, FileAgrees, SavedParamsStand
<1> QED
    BY <1>1, ConfigInvariance, PTL

-----------------------------------------------------------------------------
(* The keys that Push gives to children: module PushId.                    *)

\* A set of numbers has a least one ...
LEMMA LeastNumber ==
    ASSUME NEW T, T \subseteq Nat, T # {}
    PROVE  \E x \in T : \A y \in T : x <= y
<1> DEFINE R == OpToRel(<, Nat)
<1>1. IsWellFoundedOn(R, Nat)
    BY NatLessThanWellFounded
<1>2. \A x, y \in Nat : y < x => <<y, x>> \in R
    BY DEF OpToRel
<1> HIDE DEF R
<1>3. PICK x \in T : \A y \in T : ~ (<<y, x>> \in R)
    BY <1>1, WFMin
<1>4. \A y \in T : y \in Nat /\ x \in Nat
    OBVIOUS
<1>5. \A y \in T : ~ (y < x)
    BY <1>2, <1>3, <1>4
<1>6. \A y \in T : x <= y
    BY <1>4, <1>5
<1> QED
    BY <1>6

\* ... and has them all if it has 0 and the successor of each it has.
LEMMA AllNumbers ==
    ASSUME NEW P, 0 \in P, \A n \in Nat : n \in P => n + 1 \in P
    PROVE  \A n \in Nat : n \in P
<1> SUFFICES ASSUME Nat \ P # {} PROVE FALSE
    OBVIOUS
<1>1. PICK x \in Nat \ P : \A y \in Nat \ P : x <= y
    BY LeastNumber
<1>2. x # 0 /\ x \in Nat
    OBVIOUS
<1>3. x - 1 \in Nat /\ x - 1 \in P /\ (x - 1) + 1 = x
    BY <1>1, <1>2
<1> QED
    BY <1>3

\* f starts with a and goes on with h.
Steps(S) == [Nat \X S -> S]
Iterates(f, S, a, h) ==
    f \in [Nat -> S] /\ f[0] = a /\ \A n \in Nat : f[n + 1] = h[<<n, f[n]>>]

\* Iteration defines a function on the numbers.
LEMMA Iterated ==
    ASSUME NEW S, NEW a, a \in S, NEW h, h \in Steps(S)
    PROVE  \E f : Iterates(f, S, a, h)
<1> DEFINE Up(n) == {f \in [0 .. n -> S] : f[0] = a /\ \A m \in 0 .. n - 1 : f[m + 1] = h[<<m, f[m]>>]}
<1>0. \A n \in Nat, x \in S : h[<<n, x>>] \in S
    BY DEF Steps
<1>1. \A n \in Nat : n \in {i \in Nat : Up(i) # {}}
    <2> DEFINE P == {i \in Nat : Up(i) # {}}
    <2>1. 0 \in P
        <3>1. [i \in 0 .. 0 |-> a] \in Up(0)
            OBVIOUS
        <3> QED
            BY <3>1
    <2>2. ASSUME NEW n \in Nat, n \in P
          PROVE  n + 1 \in P
        <3>1. PICK f : f \in Up(n)
            BY <2>2
        <3> DEFINE g == [m \in 0 .. n + 1 |-> IF m = n + 1 THEN h[<<n, f[n]>>] ELSE f[m]]
        <3>2. g \in [0 .. n + 1 -> S]
            BY <1>0, <3>1
        <3>3. g[0] = a
            BY <3>1
        <3>4. \A m \in 0 .. n : g[m + 1] = h[<<m, g[m]>>]
            <4>1. ASSUME NEW m \in 0 .. n
                  PROVE  g[m + 1] = h[<<m, g[m]>>]
                <5>1. CASE m = n
                    <6>1. g[n + 1] = h[<<n, f[n]>>] /\ g[n] = f[n]
                        OBVIOUS
                    <6> QED
                        BY <5>1, <6>1
                <5>2. CASE m # n
                    <6>1. m \in 0 .. n - 1 /\ m + 1 \in 0 .. n /\ m + 1 # n + 1
                        BY <5>2
                    <6>2. f[m + 1] = h[<<m, f[m]>>]
                        BY <3>1, <6>1
                    <6>3. g[m + 1] = f[m + 1] /\ g[m] = f[m]
                        BY <6>1
                    <6> QED
                        BY <6>2, <6>3
                <5> QED
                    BY <5>1, <5>2
            <4> QED
                BY <4>1
        <3> HIDE DEF g
        <3>5. (n + 1) - 1 = n /\ n + 1 \in Nat
            OBVIOUS
        <3>6. g \in Up(n + 1)
            BY <3>2, <3>3, <3>4, <3>5
        <3> QED
            BY <3>5, <3>6
    <2> HIDE DEF P
    <2>3. \A n \in Nat : n \in P
        BY <2>1, <2>2, AllNumbers
    <2> QED
        BY <2>3 DEF P
<1>2. ASSUME NEW n \in Nat, NEW f \in Up(n + 1), NEW g \in Up(n)
      PROVE  f[n] = g[n]
    <2> DEFINE P == {i \in Nat : i <= n => f[i] = g[i]}
    <2>1. 0 \in P
        BY <1>2
    <2>2. ASSUME NEW i \in Nat, i \in P
          PROVE  i + 1 \in P
        <3>1. CASE i + 1 <= n
            <4>1. i \in 0 .. n - 1 /\ i \in 0 .. (n + 1) - 1 /\ f[i] = g[i]
                BY <2>2, <3>1
            <4>2. f[i + 1] = h[<<i, f[i]>>] /\ g[i + 1] = h[<<i, g[i]>>]
                BY <1>2, <4>1
            <4> QED
                BY <4>1, <4>2
        <3>2. CASE ~ (i + 1 <= n)
            BY <3>2
        <3> QED
            BY <3>1, <3>2
    <2> HIDE DEF P
    <2>3. n \in P
        BY <2>1, <2>2, AllNumbers
    <2> QED
        BY <2>3 DEF P
<1> DEFINE c(n) == CHOOSE f : f \in Up(n)
<1>3. \A n \in Nat : c(n) \in Up(n)
    BY <1>1
<1> DEFINE F == [n \in Nat |-> c(n)[n]]
<1> HIDE DEF c
<1>4. F \in [Nat -> S]
    BY <1>3
<1>5. F[0] = a
    BY <1>3
<1>6. ASSUME NEW n \in Nat
      PROVE  F[n + 1] = h[<<n, F[n]>>]
    <2>1. n + 1 \in Nat /\ c(n + 1) \in Up(n + 1) /\ c(n) \in Up(n)
        BY <1>3
    <2>2. c(n + 1)[n] = c(n)[n]
        BY <1>2, <2>1
    <2>3. n \in 0 .. (n + 1) - 1
        OBVIOUS
    <2>4. c(n + 1)[n + 1] = h[<<n, c(n + 1)[n]>>]
        BY <2>1, <2>3
    <2> QED
        BY <2>1, <2>2, <2>4
<1> HIDE DEF F
<1>7. Iterates(F, S, a, h)
    BY <1>4, <1>5, <1>6 DEF Iterates
<1> QED
    BY <1>7

\* The numbers that n digits express: Base times as many as n - 1 digits do.
LEMMA ValuesAre ==
    /\ Values[0] = 1
    /\ \A n \in Nat : Values[n] \in Nat \ {0} /\ Values[n + 1] = Base * Values[n]
<1>0. Base \in Nat \ {0, 1}
    BY PushConstants
<1> DEFINE h == [p \in Nat \X Nat |-> Base * p[2]]
<1>1. PICK F : Iterates(F, Nat, 1, h)
    <2>1. h \in Steps(Nat) /\ 1 \in Nat
        BY <1>0 DEF Steps
    <2> HIDE DEF h
    <2> QED
        BY <2>1, Iterated
<1>2. F[0] = 1 /\ \A n \in Nat : F[n + 1] = Base * F[n]
    BY <1>1 DEF Iterates
<1>3. \A n \in Nat : F[n] = IF n = 0 THEN 1 ELSE Base * F[n - 1]
    <2>1. ASSUME NEW n \in Nat, n # 0
          PROVE  F[n] = Base * F[n - 1]
        <3>1. n - 1 \in Nat /\ (n - 1) + 1 = n
            BY <2>1
        <3> QED
            BY <1>2, <3>1
    <2> QED
        BY <1>2, <2>1
<1>4. F = [n \in Nat |-> IF n = 0 THEN 1 ELSE Base * F[n - 1]]
    BY <1>1, <1>3 DEF Iterates
<1>5. Values = [n \in Nat |-> IF n = 0 THEN 1 ELSE Base * Values[n - 1]]
    BY <1>4, Zenon DEF Values
<1>6. Values[0] = 1 /\ \A n \in Nat : Values[n + 1] = Base * Values[n]
    BY <1>5
<1> DEFINE P == {n \in Nat : Values[n] \in Nat \ {0}}
<1>7. 0 \in P
    BY <1>6
<1>8. ASSUME NEW n \in Nat, n \in P
      PROVE  n + 1 \in P
    <2>1. PICK v \in Nat \ {0} : v = Values[n]
        BY <1>8
    <2>2. Base * v \in Nat \ {0}
        BY <1>0
    <2> QED
        BY <1>6, <2>1, <2>2
<1> HIDE DEF P
<1>9. \A n \in Nat : n \in P
    BY <1>7, <1>8, AllNumbers
<1> QED
    BY <1>6, <1>9 DEF P

-----------------------------------------------------------------------------
(* Digits of numbers. *)

\* What division is.
LEMMA Quotient ==
    ASSUME NEW t \in Nat, NEW v \in Nat \ {0}
    PROVE  /\ t \div v \in Nat /\ t % v \in 0 .. v - 1
           /\ t = v * (t \div v) + (t % v)
<1>1. v \in Nat /\ 0 < v /\ t \in Int
    OBVIOUS
<1>2. t \div v \in Nat
    BY <1>1
<1>3. t % v \in 0 .. v - 1
    BY <1>1
<1>4. t = v * (t \div v) + (t % v)
    BY <1>1
<1> QED
    BY <1>2, <1>3, <1>4

\* A quotient and a remainder that fit are the ones.
LEMMA QuotientUnique ==
    ASSUME NEW v \in Nat \ {0}, NEW q \in Nat, NEW p \in Nat, NEW r \in 0 .. v - 1, NEW s \in 0 .. v - 1,
           v * q + r = v * p + s
    PROVE  q = p
<1>1. ASSUME NEW a \in Nat, NEW b \in Nat, NEW x \in 0 .. v - 1, NEW y \in 0 .. v - 1,
             v * a + x = v * b + y, a < b
      PROVE  FALSE
    <2>1. PICK d \in Nat \ {0} : b = a + d
        <3>1. b - a \in Nat \ {0} /\ b = a + (b - a)
            BY <1>1
        <3> QED
            BY <3>1
    <2>2. v * b = v * a + v * d
        BY <2>1
    <2>3. v * d >= v
        OBVIOUS
    <2>4. v * a \in Nat /\ v * b \in Nat /\ v * d \in Nat
        BY <2>1
    <2> QED
        BY <1>1, <2>2, <2>3, <2>4
<1>2. ~ (q < p) /\ ~ (p < q)
    BY <1>1
<1> QED
    BY <1>2

\* Dividing twice is dividing by the product.
LEMMA QuotientTwice ==
    ASSUME NEW t \in Nat, NEW v \in Nat \ {0}, NEW b \in Nat \ {0}
    PROVE  t \div (b * v) = (t \div v) \div b
<1> DEFINE q == t \div v
           r == t % v
           s == q \div b
           w == q % b
<1>1. q \in Nat /\ r \in 0 .. v - 1 /\ t = v * q + r
    BY Quotient
<1>2. s \in Nat /\ w \in 0 .. b - 1 /\ q = b * s + w
    BY <1>1, Quotient
<1> HIDE DEF q, r, s, w
<1>3. v * w + r \in 0 .. (b * v) - 1
    <2>1. v * w <= v * (b - 1)
        <3>1. PICK d \in Nat : b - 1 = w + d
            <4>1. (b - 1) - w \in Nat /\ b - 1 = w + ((b - 1) - w)
                BY <1>2
            <4> QED
                BY <4>1
        <3>2. v * (b - 1) = v * w + v * d /\ v * d \in Nat /\ v * w \in Nat
            BY <1>2, <3>1
        <3> QED
            BY <3>2
    <2>2. v * (b - 1) = b * v - v /\ v * w \in Nat /\ b * v \in Nat
        BY <1>2
    <2> QED
        BY <1>1, <2>1, <2>2
<1>4. t = (b * v) * s + (v * w + r)
    BY <1>1, <1>2
<1>5. b * v \in Nat \ {0}
    OBVIOUS
<1> DEFINE m == b * v
           z == v * w + r
<1>6. m \in Nat \ {0} /\ z \in 0 .. m - 1 /\ t = m * s + z
    BY <1>3, <1>4, <1>5
<1> HIDE DEF m, z
<1>7. t \div m \in Nat /\ t % m \in 0 .. m - 1 /\ t = m * (t \div m) + (t % m)
    BY <1>6, Quotient
<1>8. t \div m = s
    BY <1>2, <1>6, <1>7, QuotientUnique
<1> QED
    BY <1>8 DEF m, s, q

\* A greater number has no smaller quotient.
LEMMA QuotientMonotonic ==
    ASSUME NEW v \in Nat \ {0}, NEW t \in Nat, NEW u \in Nat, t <= u
    PROVE  t \div v <= u \div v
<1> DEFINE p == t \div v
           q == u \div v
           r == t % v
           s == u % v
<1>1. /\ p \in Nat /\ q \in Nat /\ r \in 0 .. v - 1 /\ s \in 0 .. v - 1
      /\ t = v * p + r /\ u = v * q + s
    BY Quotient
<1> HIDE DEF p, q, r, s
<1>2. ASSUME q < p
      PROVE  FALSE
    <2>1. PICK d \in Nat \ {0} : p = q + d
        <3>1. p - q \in Nat \ {0} /\ p = q + (p - q)
            BY <1>1, <1>2
        <3> QED
            BY <3>1
    <2>2. v * p = v * q + v * d /\ v * d >= v /\ v * q \in Nat
        BY <1>1, <2>1
    <2> QED
        BY <1>1, <2>2
<1>3. p <= q
    BY <1>1, <1>2
<1> QED
    BY <1>3 DEF p, q

-----------------------------------------------------------------------------
(* Encode. *)

\* t without its last k digits.
Leading(t, k) == t \div Values[k]

\* One digit more is left off by a division.
LEMMA LeadingStep ==
    ASSUME NEW t \in Nat, NEW k \in Nat
    PROVE  /\ Leading(t, k) \in Nat /\ Leading(t, 0) = t
           /\ Leading(t, k + 1) = Leading(t, k) \div Base
<1>1. PICK v \in Nat \ {0} : v = Values[k]
    BY ValuesAre
<1>2. Base \in Nat \ {0} /\ Values[k + 1] = Base * v /\ Values[0] = 1
    BY <1>1, ValuesAre, PushConstants
<1>3. t \div (Base * v) = (t \div v) \div Base
    BY <1>2, QuotientTwice
<1>4. t \div v \in Nat
    BY Quotient
<1>5. t \div 1 = t
    OBVIOUS
<1> QED
    BY <1>1, <1>2, <1>3, <1>4, <1>5 DEF Leading

\* Numbers that agree in front of the last k digits agree in front of more.
LEMMA LeadingAgree ==
    ASSUME NEW t \in Nat, NEW u \in Nat, NEW k \in Nat, Leading(t, k) = Leading(u, k)
    PROVE  \A d \in Nat : Leading(t, k + d) = Leading(u, k + d)
<1> DEFINE P == {d \in Nat : Leading(t, k + d) = Leading(u, k + d)}
<1>1. 0 \in P
    <2>1. k + 0 = k
        OBVIOUS
    <2> QED
        BY <2>1
<1>2. ASSUME NEW d \in Nat, d \in P
      PROVE  d + 1 \in P
    <2>1. k + d \in Nat /\ k + (d + 1) = (k + d) + 1
        OBVIOUS
    <2>2. Leading(t, (k + d) + 1) = Leading(t, k + d) \div Base /\ Leading(u, (k + d) + 1) = Leading(u, k + d) \div Base
        BY <2>1, LeadingStep
    <2> QED
        BY <1>2, <2>1, <2>2
<1> HIDE DEF P
<1>3. \A d \in Nat : d \in P
    BY <1>1, <1>2, AllNumbers
<1> QED
    BY <1>3 DEF P

\* A number that the digits can express has nothing in front of them.
LEMMA LeadingEmpty ==
    ASSUME NEW k \in Nat, NEW t \in Nat, t < Values[k]
    PROVE  Leading(t, k) = 0
<1>1. PICK v \in Nat \ {0} : v = Values[k]
    BY ValuesAre
<1>2. t \div v = 0
    BY <1>1
<1> QED
    BY <1>1, <1>2 DEF Leading

\* Encode gives as many digits as there should be, each the last of what leads up to it.
LEMMA EncodeDigits ==
    ASSUME NEW t \in Nat
    PROVE  /\ Encode(t) \in [1 .. TimeDigits -> Digit]
           /\ \A i \in 1 .. TimeDigits : Encode(t)[i] = Leading(t, TimeDigits - i) % Base
<1>0. Base \in Nat \ {0} /\ TimeDigits \in Nat
    BY PushConstants
<1>1. ASSUME NEW i \in 1 .. TimeDigits
      PROVE  (t \div Values[TimeDigits - i]) % Base \in Digit
    <2>1. TimeDigits - i \in Nat
        BY <1>0
    <2>2. Leading(t, TimeDigits - i) \in Nat
        BY <2>1, LeadingStep
    <2>3. Leading(t, TimeDigits - i) % Base \in 0 .. Base - 1
        BY <1>0, <2>2, Quotient
    <2> QED
        BY <2>3 DEF Leading, Digit
<1> QED
    BY <1>1 DEF Encode, Leading

\* The digits of a smaller number sort first.
LEMMA EncodeOrder ==
    ASSUME NEW t \in Nat, NEW u \in Nat, t < u, u < Values[TimeDigits]
    PROVE  Before(Encode(t), Encode(u))
<1>0. Base \in Nat \ {0} /\ TimeDigits \in Nat \ {0}
    BY PushConstants
<1> DEFINE T == {k \in Nat : Leading(t, k) = Leading(u, k)}
<1>1. TimeDigits \in T
    <2>1. t < Values[TimeDigits]
        BY <1>0, ValuesAre
    <2>2. Leading(t, TimeDigits) = 0 /\ Leading(u, TimeDigits) = 0
        BY <1>0, <2>1, LeadingEmpty
    <2> QED
        BY <1>0, <2>2
<1>2. PICK k \in T : \A j \in T : k <= j
    <2> HIDE DEF T
    <2>1. T \subseteq Nat
        BY DEF T
    <2> QED
        BY <1>1, <2>1, LeastNumber
<1>3. k \in Nat /\ k # 0 /\ k <= TimeDigits
    BY <1>1, <1>2, LeadingStep
<1> DEFINE x == Leading(t, k - 1)
           y == Leading(u, k - 1)
           i == (TimeDigits - k) + 1
<1>4. k - 1 \in Nat /\ (k - 1) + 1 = k /\ k - 1 \notin T
    BY <1>2, <1>3
<1>5. x \in Nat /\ y \in Nat /\ x # y /\ x \div Base = y \div Base
    <2>1. Leading(t, k) = x \div Base /\ Leading(u, k) = y \div Base /\ x \in Nat /\ y \in Nat
        BY <1>4, LeadingStep
    <2> QED
        BY <1>2, <1>4, <2>1
<1>6. x <= y
    <2>1. PICK v \in Nat \ {0} : v = Values[k - 1]
        BY <1>4, ValuesAre
    <2>2. t <= u
        OBVIOUS
    <2>3. t \div v <= u \div v
        BY <2>2, QuotientMonotonic
    <2> QED
        BY <2>1, <2>3 DEF Leading
<1> HIDE DEF x, y
<1>7. x % Base < y % Base
    <2> DEFINE q == x \div Base
               r == x % Base
               s == y % Base
    <2>1. /\ q \in Nat /\ r \in 0 .. Base - 1 /\ s \in 0 .. Base - 1
          /\ x = Base * q + r /\ y = Base * q + s
        BY <1>0, <1>5, Quotient
    <2> HIDE DEF q, r, s
    <2>2. Base * q \in Nat
        BY <1>0, <2>1
    <2>3. r < s
        BY <1>0, <1>5, <1>6, <2>1, <2>2
    <2> QED
        BY <2>3 DEF r, s
<1>8. i \in 1 .. TimeDigits /\ TimeDigits - i = k - 1
    BY <1>0, <1>3
<1>9. Encode(t)[i] < Encode(u)[i]
    <2>1. Encode(t)[i] = x % Base /\ Encode(u)[i] = y % Base
        BY <1>8, EncodeDigits DEF x, y
    <2> QED
        BY <1>7, <2>1
<1>10. ASSUME NEW j \in 1 .. i - 1
       PROVE  Encode(t)[j] = Encode(u)[j]
    <2>1. PICK d \in Nat : TimeDigits - j = k + d
        <3>1. (TimeDigits - j) - k \in Nat /\ TimeDigits - j = k + ((TimeDigits - j) - k)
            BY <1>0, <1>3
        <3> QED
            BY <3>1
    <2>2. Leading(t, k) = Leading(u, k) /\ k \in Nat
        BY <1>2
    <2>3. Leading(t, k + d) = Leading(u, k + d)
        BY <2>2, LeadingAgree
    <2>4. j \in 1 .. TimeDigits
        BY <1>0, <1>3
    <2>5. Encode(t)[j] = Leading(t, k + d) % Base /\ Encode(u)[j] = Leading(u, k + d) % Base
        BY <2>1, <2>4, EncodeDigits
    <2> QED
        BY <2>3, <2>5
<1> HIDE DEF i
<1>11. DOMAIN Encode(t) = 1 .. TimeDigits
    BY DEF Encode
<1> QED
    BY <1>8, <1>9, <1>10, <1>11 DEF Before

\* Two numbers have not the same digits.
LEMMA EncodeOneToOne ==
    ASSUME NEW t \in Nat, NEW u \in Nat,
           t < Values[TimeDigits], u < Values[TimeDigits], Encode(t) = Encode(u)
    PROVE  t = u
<1>1. ASSUME NEW p, NEW n \in Nat, p \in [1 .. n -> Digit]
      PROVE  ~ Before(p, p)
    <2>1. \A i \in 1 .. n : p[i] \in 0 .. Base - 1
        BY <1>1 DEF Digit
    <2>2. Base \in Nat
        BY PushConstants
    <2>3. \A i \in 1 .. n : ~ (p[i] < p[i])
        BY <2>1, <2>2
    <2> QED
        BY <1>1, <2>3 DEF Before
<1>2. ~ Before(Encode(t), Encode(u)) /\ ~ Before(Encode(u), Encode(t))
    <2>1. TimeDigits \in Nat /\ Encode(t) \in [1 .. TimeDigits -> Digit]
        BY EncodeDigits, PushConstants
    <2> QED
        BY <1>1, <2>1
<1>3. ~ (t < u) /\ ~ (u < t)
    BY <1>2, EncodeOrder
<1> QED
    BY <1>3

-----------------------------------------------------------------------------
(* The suffix. *)

\* A suffix that is not at its end has a last digit that can go up; Increment counts it.
LEMMA IncrementDigits ==
    ASSUME NEW r \in Suffix, ~ AtEnd(r)
    PROVE  \E k \in 1 .. RandDigits :
             /\ r[k] \in 0 .. Base - 2 /\ \A j \in k + 1 .. RandDigits : r[j] = Base - 1
             /\ Increment(r) =
                  [i \in 1 .. RandDigits |-> IF i < k THEN r[i] ELSE IF i = k THEN r[i] + 1 ELSE 0]
<1>0. Base \in Nat \ {0, 1} /\ RandDigits \in Nat \ {0}
    BY PushConstants
<1>1. DOMAIN r = 1 .. RandDigits /\ \A i \in 1 .. RandDigits : r[i] \in 0 .. Base - 1
    BY DEF Suffix, Digit
<1> DEFINE T == {n \in Nat : \E i \in 1 .. RandDigits : n = RandDigits - i /\ r[i] # Base - 1}
           Good(i) == r[i] # Base - 1 /\ \A j \in DOMAIN r : j > i => r[j] = Base - 1
<1>2. T # {}
    <2>1. PICK i \in 1 .. RandDigits : r[i] # Base - 1
        BY <1>1 DEF AtEnd
    <2>2. RandDigits - i \in Nat
        BY <1>0
    <2> QED
        BY <2>1, <2>2
<1>3. PICK n \in T : \A m \in T : n <= m
    <2>1. T \subseteq Nat
        OBVIOUS
    <2> HIDE DEF T
    <2> QED
        BY <1>2, <2>1, LeastNumber
<1>4. \E i \in DOMAIN r : Good(i)
    <2>1. PICK i \in 1 .. RandDigits : n = RandDigits - i /\ r[i] # Base - 1
        OBVIOUS
    <2>2. ASSUME NEW j \in 1 .. RandDigits, j > i
          PROVE  r[j] = Base - 1
        <3>1. RandDigits - j \in Nat /\ RandDigits - j < n
            BY <1>0, <2>1, <2>2
        <3>2. RandDigits - j \notin T
            BY <1>3, <3>1
        <3> QED
            BY <3>1, <3>2
    <2> QED
        BY <1>1, <2>1, <2>2
<1> DEFINE k == CHOOSE i \in DOMAIN r : Good(i)
<1>5. k \in DOMAIN r /\ Good(k)
    BY <1>4
<1>6. Increment(r) = [i \in DOMAIN r |-> IF i < k THEN r[i] ELSE IF i = k THEN r[i] + 1 ELSE 0]
    BY DEF Increment
<1> HIDE DEF k
<1>7. k \in 1 .. RandDigits /\ r[k] \in 0 .. Base - 2
    BY <1>0, <1>1, <1>5
<1>8. ASSUME NEW j \in k + 1 .. RandDigits
      PROVE  r[j] = Base - 1
    <2>1. j \in 1 .. RandDigits /\ j > k
        BY <1>0, <1>7
    <2> QED
        BY <1>1, <1>5, <2>1
<1>9. Increment(r) = [i \in 1 .. RandDigits |-> IF i < k THEN r[i] ELSE IF i = k THEN r[i] + 1 ELSE 0]
    BY <1>1, <1>6
<1> HIDE DEF Good, T
<1> QED
    BY <1>7, <1>8, <1>9

\* Counting up keeps a suffix a suffix ...
LEMMA IncrementType ==
    ASSUME NEW r \in Suffix
    PROVE  Increment(r) \in Suffix
<1>0. Base \in Nat \ {0, 1} /\ RandDigits \in Nat \ {0}
    BY PushConstants
<1>1. DOMAIN r = 1 .. RandDigits /\ \A i \in 1 .. RandDigits : r[i] \in 0 .. Base - 1
    BY DEF Suffix, Digit
<1>2. CASE AtEnd(r)
    BY <1>0, <1>1, <1>2 DEF Increment, Suffix, Digit
<1>3. CASE ~ AtEnd(r)
    <2>1. PICK k \in 1 .. RandDigits :
             /\ r[k] \in 0 .. Base - 2
             /\ Increment(r) =
                  [i \in 1 .. RandDigits |-> IF i < k THEN r[i] ELSE IF i = k THEN r[i] + 1 ELSE 0]
        BY <1>3, IncrementDigits
    <2>2. \A i \in 1 .. RandDigits :
             (IF i < k THEN r[i] ELSE IF i = k THEN r[i] + 1 ELSE 0) \in 0 .. Base - 1
        BY <1>0, <1>1, <2>1
    <2> QED
        BY <2>1, <2>2 DEF Suffix, Digit
<1> QED
    BY <1>2, <1>3

\* ... and sorts later, unless it is at its end.
LEMMA IncrementOrder ==
    ASSUME NEW r \in Suffix, ~ AtEnd(r)
    PROVE  Before(r, Increment(r))
<1>0. Base \in Nat \ {0, 1} /\ RandDigits \in Nat \ {0}
    BY PushConstants
<1>1. PICK k \in 1 .. RandDigits :
         /\ r[k] \in 0 .. Base - 2
         /\ Increment(r) =
              [i \in 1 .. RandDigits |-> IF i < k THEN r[i] ELSE IF i = k THEN r[i] + 1 ELSE 0]
    BY IncrementDigits
<1>2. Increment(r)[k] = r[k] + 1 /\ r[k] < r[k] + 1
    BY <1>0, <1>1
<1>3. \A j \in 1 .. k - 1 : j \in 1 .. RandDigits /\ j < k
    BY <1>0
<1>4. \A j \in 1 .. k - 1 : r[j] = Increment(r)[j]
    BY <1>1, <1>3
<1>5. k \in DOMAIN r
    BY DEF Suffix
<1> QED
    BY <1>2, <1>4, <1>5 DEF Before

\* f[n] is the number that the first n digits of r express.
Counts(f, r) ==
    f \in [Nat -> Nat] /\ f[0] = 0 /\ \A n \in 0 .. RandDigits - 1 : f[n + 1] = Base * f[n] + r[n + 1]

\* The number that r expresses.
Number(r) == (CHOOSE f : Counts(f, r))[RandDigits]

\* Every suffix expresses a number ...
LEMMA SuffixCounts ==
    ASSUME NEW r \in Suffix
    PROVE  \E f : Counts(f, r)
<1>0. Base \in Nat \ {0, 1} /\ RandDigits \in Nat \ {0}
    BY PushConstants
<1>1. \A i \in 1 .. RandDigits : r[i] \in 0 .. Base - 1
    BY DEF Suffix, Digit
<1> DEFINE d(n) == IF n + 1 \in 1 .. RandDigits THEN r[n + 1] ELSE 0
           h == [p \in Nat \X Nat |-> Base * p[2] + d(p[1])]
<1>2. \A n \in Nat : d(n) \in Nat
    BY <1>0, <1>1
<1>3. \A n \in 0 .. RandDigits - 1 : n \in Nat /\ d(n) = r[n + 1]
    BY <1>0
<1> HIDE DEF d
<1>4. h \in Steps(Nat)
    <2>1. \A n, m \in Nat : Base * m + d(n) \in Nat
        BY <1>0, <1>2
    <2> QED
        BY <2>1 DEF Steps
<1>5. \A n, m \in Nat : h[<<n, m>>] = Base * m + d(n)
    OBVIOUS
<1> HIDE DEF h
<1>6. PICK f : Iterates(f, Nat, 0, h)
    BY <1>4, Iterated
<1>7. f \in [Nat -> Nat] /\ f[0] = 0 /\ \A n \in Nat : f[n + 1] = h[<<n, f[n]>>]
    BY <1>6 DEF Iterates
<1>8. ASSUME NEW n \in 0 .. RandDigits - 1
      PROVE  f[n + 1] = Base * f[n] + r[n + 1]
    <2>1. n \in Nat /\ d(n) = r[n + 1] /\ f[n] \in Nat
        BY <1>3, <1>7
    <2> QED
        BY <1>5, <1>7, <2>1
<1> QED
    BY <1>7, <1>8 DEF Counts

\* ... which is the one Number chooses.
LEMMA NumberCounts ==
    ASSUME NEW r \in Suffix
    PROVE  \E f : Counts(f, r) /\ Number(r) = f[RandDigits]
<1> DEFINE c == CHOOSE f : Counts(f, r)
<1>1. Counts(c, r)
    BY SuffixCounts
<1>2. Number(r) = c[RandDigits]
    BY DEF Number
<1> QED
    BY <1>1, <1>2

\* Counting up a suffix counts up its number ...
LEMMA NumberGoesUp ==
    ASSUME NEW r \in Suffix, ~ AtEnd(r)
    PROVE  Number(Increment(r)) = Number(r) + 1
<1>0. Base \in Nat \ {0, 1} /\ RandDigits \in Nat \ {0}
    BY PushConstants
<1> DEFINE s == Increment(r)
<1>1. PICK k \in 1 .. RandDigits :
         /\ r[k] \in 0 .. Base - 2 /\ \A j \in k + 1 .. RandDigits : r[j] = Base - 1
         /\ s = [i \in 1 .. RandDigits |-> IF i < k THEN r[i] ELSE IF i = k THEN r[i] + 1 ELSE 0]
    BY IncrementDigits
<1>2. s \in Suffix
    BY IncrementType
<1> HIDE DEF s
<1>3. PICK f : Counts(f, r) /\ Number(r) = f[RandDigits]
    BY NumberCounts
<1>4. PICK g : Counts(g, s) /\ Number(s) = g[RandDigits]
    BY <1>2, NumberCounts
<1>5. /\ f[0] = 0 /\ \A n \in 0 .. RandDigits - 1 : f[n + 1] = Base * f[n] + r[n + 1]
      /\ g[0] = 0 /\ \A n \in 0 .. RandDigits - 1 : g[n + 1] = Base * g[n] + s[n + 1]
      /\ \A n \in Nat : f[n] \in Nat /\ g[n] \in Nat
    BY <1>3, <1>4 DEF Counts
<1> DEFINE P == {n \in Nat : n <= RandDigits => g[n] = IF n < k THEN f[n] ELSE f[n] + 1}
<1>6. 0 \in P
    BY <1>5
<1>7. ASSUME NEW n \in Nat, n \in P
      PROVE  n + 1 \in P
    <2> SUFFICES ASSUME n + 1 <= RandDigits
                 PROVE  g[n + 1] = IF n + 1 < k THEN f[n + 1] ELSE f[n + 1] + 1
        OBVIOUS
    <2>1. n \in 0 .. RandDigits - 1 /\ n + 1 \in 1 .. RandDigits
        BY <1>0
    <2>2. f[n + 1] = Base * f[n] + r[n + 1] /\ g[n + 1] = Base * g[n] + s[n + 1]
        BY <1>5, <2>1
    <2>3. f[n] \in Nat /\ g[n] \in Nat /\ g[n] = IF n < k THEN f[n] ELSE f[n] + 1
        BY <1>0, <1>5, <1>7, <2>1
    <2>4. s[n + 1] = IF n + 1 < k THEN r[n + 1] ELSE IF n + 1 = k THEN r[n + 1] + 1 ELSE 0
        BY <1>1, <2>1
    <2>5. r[n + 1] \in 0 .. Base - 1
        BY <2>1 DEF Suffix, Digit
    <2>6. CASE n + 1 < k
        <3>1. n < k
            BY <2>6
        <3> QED
            BY <2>2, <2>3, <2>4, <2>6, <3>1
    <2>7. CASE n + 1 = k
        <3>1. n < k /\ ~ (n + 1 < k)
            BY <2>7
        <3>2. g[n] = f[n] /\ s[n + 1] = r[n + 1] + 1
            BY <2>3, <2>4, <2>7, <3>1
        <3>3. Base * f[n] \in Nat
            BY <1>0, <2>3
        <3> QED
            BY <2>2, <2>5, <3>1, <3>2, <3>3
    <2>8. CASE n + 1 > k
        <3>1. ~ (n < k) /\ ~ (n + 1 < k) /\ n + 1 \in k + 1 .. RandDigits
            BY <2>1, <2>8
        <3>2. g[n] = f[n] + 1 /\ s[n + 1] = 0 /\ r[n + 1] = Base - 1
            BY <1>1, <2>3, <2>4, <2>8, <3>1
        <3>3. Base * f[n] \in Nat /\ Base * (f[n] + 1) = Base * f[n] + Base
            BY <1>0, <2>3
        <3> QED
            BY <1>0, <2>2, <3>1, <3>2, <3>3
    <2> QED
        BY <2>1, <2>6, <2>7, <2>8
<1> HIDE DEF P
<1>8. RandDigits \in P
    BY <1>0, <1>6, <1>7, AllNumbers
<1>9. ~ (RandDigits < k) /\ RandDigits \in Nat
    BY <1>0
<1>10. g[RandDigits] = f[RandDigits] + 1
    BY <1>8, <1>9 DEF P
<1> QED
    BY <1>3, <1>4, <1>10 DEF s

\* ... until it has reached the greatest there is and starts over.
LEMMA NumberStartsOver ==
    ASSUME NEW r \in Suffix, AtEnd(r)
    PROVE  Number(r) = Values[RandDigits] - 1 /\ Number(Increment(r)) = 0
<1>0. Base \in Nat \ {0, 1} /\ RandDigits \in Nat \ {0}
    BY PushConstants
<1> DEFINE s == Increment(r)
<1>1. \A i \in 1 .. RandDigits : r[i] = Base - 1 /\ s[i] = 0
    BY DEF AtEnd, Increment, Suffix
<1>2. s \in Suffix
    BY IncrementType
<1> HIDE DEF s
<1>3. PICK f : Counts(f, r) /\ Number(r) = f[RandDigits]
    BY NumberCounts
<1>4. PICK g : Counts(g, s) /\ Number(s) = g[RandDigits]
    BY <1>2, NumberCounts
<1>5. /\ f[0] = 0 /\ \A n \in 0 .. RandDigits - 1 : f[n + 1] = Base * f[n] + r[n + 1]
      /\ g[0] = 0 /\ \A n \in 0 .. RandDigits - 1 : g[n + 1] = Base * g[n] + s[n + 1]
      /\ \A n \in Nat : f[n] \in Nat /\ g[n] \in Nat
    BY <1>3, <1>4 DEF Counts
<1> DEFINE P == {n \in Nat : n <= RandDigits => f[n] = Values[n] - 1 /\ g[n] = 0}
<1>6. 0 \in P
    BY <1>5, ValuesAre
<1>7. ASSUME NEW n \in Nat, n \in P
      PROVE  n + 1 \in P
    <2> SUFFICES ASSUME n + 1 <= RandDigits
                 PROVE  f[n + 1] = Values[n + 1] - 1 /\ g[n + 1] = 0
        OBVIOUS
    <2>1. n \in 0 .. RandDigits - 1 /\ n + 1 \in 1 .. RandDigits /\ n <= RandDigits
        BY <1>0
    <2>2. f[n + 1] = Base * f[n] + (Base - 1) /\ g[n + 1] = Base * g[n] + 0
        BY <1>1, <1>5, <2>1
    <2>3. f[n] = Values[n] - 1 /\ g[n] = 0
        BY <1>7, <2>1
    <2>4. PICK v \in Nat \ {0} : v = Values[n]
        BY ValuesAre
    <2>5. Values[n + 1] = Base * v
        BY <2>4, ValuesAre
    <2>6. Base * (v - 1) = Base * v - Base /\ Base * 0 = 0 /\ Base * v \in Nat
        BY <1>0
    <2> QED
        BY <1>0, <2>2, <2>3, <2>4, <2>5, <2>6
<1> HIDE DEF P
<1>8. RandDigits \in P
    BY <1>0, <1>6, <1>7, AllNumbers
<1>9. f[RandDigits] = Values[RandDigits] - 1 /\ g[RandDigits] = 0
    BY <1>0, <1>8 DEF P
<1> QED
    BY <1>3, <1>4, <1>9 DEF s

\* It is a natural number.
LEMMA NumberType ==
    ASSUME NEW r \in Suffix
    PROVE  Number(r) \in Nat
<1>1. PICK f : Counts(f, r) /\ Number(r) = f[RandDigits]
    BY NumberCounts
<1> QED
    BY <1>1, PushConstants DEF Counts

-----------------------------------------------------------------------------
(* Keys. *)

KeyDigits == [1 .. TimeDigits + RandDigits -> Digit]

\* The suffix of a key.
End(key) == [i \in 1 .. RandDigits |-> key[TimeDigits + i]]

\* A key has the digits of its time, then those of its suffix.
LEMMA KeyParts ==
    ASSUME NEW t \in Nat, NEW r \in Suffix
    PROVE  /\ Encode(t) \o r \in KeyDigits /\ End(Encode(t) \o r) = r
           /\ \A i \in 1 .. TimeDigits : (Encode(t) \o r)[i] = Encode(t)[i]
<1>0. TimeDigits \in Nat \ {0} /\ RandDigits \in Nat \ {0}
    BY PushConstants
<1> DEFINE p == Encode(t)
           S == Digit
<1>1. p \in [1 .. TimeDigits -> S] /\ r \in [1 .. RandDigits -> S]
    BY EncodeDigits DEF Suffix
<1> HIDE DEF p, S
<1>2. p \in Seq(S) /\ Len(p) = TimeDigits /\ r \in Seq(S) /\ Len(r) = RandDigits
    BY <1>0, <1>1
<1>3. /\ p \o r \in Seq(S) /\ Len(p \o r) = TimeDigits + RandDigits
      /\ \A i \in 1 .. TimeDigits : (p \o r)[i] = p[i]
      /\ \A i \in 1 .. RandDigits : (p \o r)[TimeDigits + i] = r[i]
    BY <1>0, <1>2
<1>4. p \o r \in [1 .. TimeDigits + RandDigits -> S]
    <2> DEFINE z == p \o r
    <2>1. z \in Seq(S) /\ Len(z) = TimeDigits + RandDigits
        BY <1>3
    <2> HIDE DEF z
    <2>2. z \in [1 .. TimeDigits + RandDigits -> S]
        BY <2>1
    <2> QED
        BY <2>2 DEF z
<1>5. [i \in 1 .. RandDigits |-> (p \o r)[TimeDigits + i]] = r
    BY <1>1, <1>3
<1> QED
    BY <1>3, <1>4, <1>5 DEF p, S, KeyDigits, End

\* Keys of different times sort by the time, whatever their suffixes ...
LEMMA KeysByTime ==
    ASSUME NEW t \in Nat, NEW u \in Nat, t < u, u < Values[TimeDigits],
           NEW r \in Suffix, NEW s \in Suffix
    PROVE  Before(Encode(t) \o r, Encode(u) \o s)
<1>0. TimeDigits \in Nat \ {0} /\ RandDigits \in Nat \ {0}
    BY PushConstants
<1>1. DOMAIN Encode(t) = 1 .. TimeDigits
    BY DEF Encode
<1>2. PICK i \in 1 .. TimeDigits :
         /\ Encode(t)[i] < Encode(u)[i]
         /\ \A j \in 1 .. i - 1 : Encode(t)[j] = Encode(u)[j]
    BY <1>1, EncodeOrder DEF Before
<1> DEFINE p == Encode(t) \o r
           q == Encode(u) \o s
<1>3. /\ p \in KeyDigits /\ q \in KeyDigits
      /\ \A j \in 1 .. TimeDigits : p[j] = Encode(t)[j] /\ q[j] = Encode(u)[j]
    BY KeyParts
<1> HIDE DEF p, q
<1>4. i \in DOMAIN p /\ \A j \in 1 .. i - 1 : j \in 1 .. TimeDigits
    BY <1>0, <1>3 DEF KeyDigits
<1>5. p[i] < q[i] /\ \A j \in 1 .. i - 1 : p[j] = q[j]
    BY <1>2, <1>3, <1>4
<1>6. Before(p, q)
    BY <1>4, <1>5 DEF Before
<1> QED
    BY <1>6 DEF p, q

\* ... and keys of one time by the suffix.
LEMMA KeysBySuffix ==
    ASSUME NEW t \in Nat, NEW r \in Suffix, NEW s \in Suffix, Before(r, s)
    PROVE  Before(Encode(t) \o r, Encode(t) \o s)
<1>0. TimeDigits \in Nat \ {0} /\ RandDigits \in Nat \ {0}
    BY PushConstants
<1>1. PICK k \in 1 .. RandDigits : r[k] < s[k] /\ \A j \in 1 .. k - 1 : r[j] = s[j]
    BY DEF Before, Suffix
<1> DEFINE p == Encode(t) \o r
           q == Encode(t) \o s
           i == TimeDigits + k
<1>2. /\ p \in KeyDigits /\ q \in KeyDigits /\ End(p) = r /\ End(q) = s
      /\ \A j \in 1 .. TimeDigits : p[j] = q[j]
    <2>1. /\ p \in KeyDigits /\ End(p) = r
          /\ \A j \in 1 .. TimeDigits : p[j] = Encode(t)[j]
        BY KeyParts
    <2>2. /\ q \in KeyDigits /\ End(q) = s
          /\ \A j \in 1 .. TimeDigits : q[j] = Encode(t)[j]
        BY KeyParts
    <2> HIDE DEF p, q
    <2> QED
        BY <2>1, <2>2
<1> HIDE DEF p, q
<1>3. \A j \in 1 .. RandDigits : p[TimeDigits + j] = r[j] /\ q[TimeDigits + j] = s[j]
    BY <1>2 DEF End
<1>4. i \in DOMAIN p /\ p[i] < q[i]
    BY <1>0, <1>1, <1>2, <1>3 DEF KeyDigits
<1>5. ASSUME NEW j \in 1 .. i - 1
      PROVE  p[j] = q[j]
    <2>1. CASE j <= TimeDigits
        <3>1. j \in 1 .. TimeDigits
            BY <1>0, <2>1
        <3> QED
            BY <1>2, <3>1
    <2>2. CASE j > TimeDigits
        <3>1. j - TimeDigits \in 1 .. k - 1 /\ j - TimeDigits \in 1 .. RandDigits
              /\ j = TimeDigits + (j - TimeDigits)
            BY <1>0, <2>2
        <3>2. r[j - TimeDigits] = s[j - TimeDigits]
            BY <1>1, <3>1
        <3> QED
            BY <1>3, <3>1, <3>2
    <2> QED
        BY <1>0, <2>1, <2>2
<1> HIDE DEF i
<1>6. Before(p, q)
    BY <1>4, <1>5 DEF Before
<1> QED
    BY <1>6 DEF p, q

\* The order of keys is transitive.
LEMMA KeysTransitive ==
    ASSUME NEW p \in KeyDigits, NEW q \in KeyDigits, NEW s \in KeyDigits,
           Before(p, q), Before(q, s)
    PROVE  Before(p, s)
<1> DEFINE n == TimeDigits + RandDigits
<1>0. n \in Nat /\ Base \in Nat
    BY PushConstants
<1>1. /\ DOMAIN p = 1 .. n /\ DOMAIN q = 1 .. n
      /\ \A i \in 1 .. n : p[i] \in 0 .. Base - 1 /\ q[i] \in 0 .. Base - 1 /\ s[i] \in 0 .. Base - 1
    BY DEF KeyDigits, Digit
<1> HIDE DEF n
<1>2. PICK i \in 1 .. n : p[i] < q[i] /\ \A j \in 1 .. i - 1 : p[j] = q[j]
    BY <1>1 DEF Before
<1>3. PICK k \in 1 .. n : q[k] < s[k] /\ \A j \in 1 .. k - 1 : q[j] = s[j]
    BY <1>1 DEF Before
<1>4. PICK m \in 1 .. n : m <= i /\ m <= k /\ (m = i \/ m = k)
    <2>1. i <= k \/ k <= i
        BY <1>0
    <2> QED
        BY <1>0, <2>1
<1>5. \A j \in 1 .. m - 1 : p[j] = s[j]
    <2>1. \A j \in 1 .. m - 1 : j \in 1 .. i - 1 /\ j \in 1 .. k - 1
        BY <1>0, <1>4
    <2> QED
        BY <1>2, <1>3, <2>1
<1>6. p[m] < s[m]
    <2>1. CASE i = k
        <3>1. m = i /\ m = k
            BY <1>4, <2>1
        <3> QED
            BY <1>0, <1>1, <1>2, <1>3, <3>1
    <2>2. CASE i < k
        <3>1. m = i /\ m \in 1 .. k - 1
            BY <1>0, <1>4, <2>2
        <3> QED
            BY <1>2, <1>3, <3>1
    <2>3. CASE k < i
        <3>1. m = k /\ m \in 1 .. i - 1
            BY <1>0, <1>4, <2>3
        <3> QED
            BY <1>2, <1>3, <3>1
    <2> QED
        BY <1>0, <2>1, <2>2, <2>3
<1> QED
    BY <1>1, <1>5, <1>6 DEF Before

\* The same key has the same time.
LEMMA KeysTellTime ==
    ASSUME NEW t \in Nat, NEW u \in Nat,
           t < Values[TimeDigits], u < Values[TimeDigits],
           NEW r \in Suffix, NEW s \in Suffix, Encode(t) \o r = Encode(u) \o s
    PROVE  t = u
<1>1. \A i \in 1 .. TimeDigits : Encode(t)[i] = Encode(u)[i]
    <2> DEFINE p == Encode(t) \o r
               q == Encode(u) \o s
    <2>1. \A i \in 1 .. TimeDigits : p[i] = Encode(t)[i] /\ q[i] = Encode(u)[i]
        BY KeyParts
    <2>2. p = q
        OBVIOUS
    <2> HIDE DEF p, q
    <2> QED
        BY <2>1, <2>2
<1>2. Encode(t) \in [1 .. TimeDigits -> Digit] /\ Encode(u) \in [1 .. TimeDigits -> Digit]
    BY EncodeDigits
<1>3. Encode(t) = Encode(u)
    <2> DEFINE p == Encode(t)
               q == Encode(u)
    <2>1. p \in [1 .. TimeDigits -> Digit] /\ q \in [1 .. TimeDigits -> Digit]
        BY <1>2
    <2>2. \A i \in 1 .. TimeDigits : p[i] = q[i]
        BY <1>1
    <2> HIDE DEF p, q
    <2>3. p = [i \in 1 .. TimeDigits |-> p[i]] /\ q = [i \in 1 .. TimeDigits |-> q[i]]
        BY <2>1
    <2>4. [i \in 1 .. TimeDigits |-> p[i]] = [i \in 1 .. TimeDigits |-> q[i]]
        BY <2>2
    <2>5. p = q
        BY <2>3, <2>4
    <2> QED
        BY <2>5 DEF p, q
<1> QED
    BY <1>3, EncodeOneToOne

-----------------------------------------------------------------------------
(* The keys that are made. *)

Entry == [key : KeyDigits, at : 1 .. MaxMillis, drawn : BOOLEAN, unordered : BOOLEAN]

\* Each key is its time and a suffix; the last one, of a process that has made one, has
\* the time and the suffix that the process remembers.
EntriesInv ==
    /\ made \in Seq(Entry)
    /\ \A i \in 1 .. Len(made) : made[i].key = Encode(made[i].at) \o End(made[i].key)

LastInv ==
    last # 0 =>
        /\ Len(made) # 0
        /\ made[Len(made)].at = last /\ End(made[Len(made)].key) = rand

\* As long as no suffix is drawn the time stays and the number of the suffix goes up by
\* one with each key, but for the times it starts over.
CountInv ==
    \A j \in 1 .. Len(made) : \A i \in 1 .. j - 1 : (\A k \in i + 1 .. j : ~ made[k].drawn) =>
        /\ made[i].at = made[j].at
        /\ \E c \in Nat : Number(End(made[j].key)) + c * Values[RandDigits]
                              = Number(End(made[i].key)) + (j - i)

PushInv == PushTypeOK /\ EntriesInv /\ LastInv /\ CountInv /\ KeysInOrder

\* What an entry says.
LEMMA EntryParts ==
    ASSUME EntriesInv, NEW i \in 1 .. Len(made)
    PROVE  /\ made[i] \in Entry /\ made[i].key \in KeyDigits /\ End(made[i].key) \in Suffix
           /\ made[i].at \in Nat /\ made[i].at < Values[TimeDigits]
           /\ made[i].key = Encode(made[i].at) \o End(made[i].key)
<1>0. TimeDigits \in Nat /\ RandDigits \in Nat
    BY PushConstants
<1>1. made[i] \in Entry
    BY DEF EntriesInv
<1>2. made[i].key \in KeyDigits /\ made[i].at \in 1 .. MaxMillis
    BY <1>1 DEF Entry
<1>3. End(made[i].key) \in Suffix
    <2>1. \A j \in 1 .. RandDigits : TimeDigits + j \in 1 .. TimeDigits + RandDigits
        BY <1>0
    <2> QED
        BY <1>2, <2>1 DEF KeyDigits, End, Suffix
<1>4. made[i].at \in Nat /\ made[i].at < Values[TimeDigits]
    <2>1. PICK v \in Nat \ {0} : v = Values[TimeDigits]
        BY <1>0, ValuesAre
    <2>2. MaxMillis \in 1 .. v - 1
        BY <2>1, PushConstants
    <2> QED
        BY <1>2, <2>1, <2>2
<1> QED
    BY <1>1, <1>2, <1>3, <1>4 DEF EntriesInv

\* The invariant holds when no key has been made.
LEMMA PushFirst == PushInit => PushInv
<1> SUFFICES ASSUME PushInit PROVE PushInv
    OBVIOUS
<1>0. last = 0 /\ rand = [i \in 1 .. RandDigits |-> 0] /\ made = <<>> /\ Len(made) = 0
    BY DEF PushInit
<1>1. rand \in Suffix
    BY <1>0, PushConstants DEF Suffix, Digit
<1>2. last \in 0 .. MaxMillis
    <2>1. PICK v \in Nat \ {0} : v = Values[TimeDigits]
        BY ValuesAre, PushConstants
    <2>2. MaxMillis \in 1 .. v - 1
        BY <2>1, PushConstants
    <2> QED
        BY <1>0, <2>2
<1>3. PushTypeOK
    BY <1>0, <1>1, <1>2 DEF PushTypeOK
<1> QED
    BY <1>0, <1>3 DEF PushInv, EntriesInv, LastInv, CountInv, KeysInOrder

\* A new process has made no key.
LEMMA PushRestart == ASSUME PushInv, Restart PROVE PushInv'
<1>0. last' = 0 /\ rand' = [i \in 1 .. RandDigits |-> 0] /\ made' = made
    BY DEF Restart
<1>1. rand' \in Suffix
    BY <1>0, PushConstants DEF Suffix, Digit
<1>2. 0 \in 0 .. MaxMillis
    <2>1. PICK v \in Nat \ {0} : v = Values[TimeDigits]
        BY ValuesAre, PushConstants
    <2>2. MaxMillis \in 1 .. v - 1
        BY <2>1, PushConstants
    <2> QED
        BY <2>2
<1>3. PushTypeOK'
    BY <1>0, <1>1, <1>2 DEF PushInv, PushTypeOK
<1> QED
    BY <1>0, <1>3 DEF PushInv, EntriesInv, LastInv, CountInv, KeysInOrder

\* A key is made: it follows the last one of the process, if there is one.
LEMMA PushKeeps ==
    ASSUME PushInv, NEW time \in 1 .. MaxMillis, generatePushID(time)
    PROVE  PushInv'
<1> DEFINE e == [key |-> Encode(time) \o rand', at |-> time, drawn |-> time # last,
                 unordered |-> last = 0 \/ time < last \/ (time = last /\ AtEnd(rand))]
           m == Len(made)
<1>1. /\ last' = time /\ made' = Append(made, e)
      /\ rand' \in IF time = last THEN {Increment(rand)} ELSE Suffix
    BY DEF generatePushID
<1>2. rand \in Suffix /\ rand' \in Suffix /\ last \in Nat
    <2>1. rand \in Suffix /\ last \in 0 .. MaxMillis
        BY DEF PushInv, PushTypeOK
    <2>2. Increment(rand) \in Suffix
        BY <2>1, IncrementType
    <2>3. last \in Nat
        BY <2>1
    <2> QED
        BY <1>1, <2>1, <2>2, <2>3
<1>3. time \in Nat /\ time # 0 /\ time < Values[TimeDigits]
    <2>1. PICK v \in Nat \ {0} : v = Values[TimeDigits]
        BY ValuesAre, PushConstants
    <2>2. MaxMillis \in 1 .. v - 1
        BY <2>1, PushConstants
    <2> QED
        BY <2>1, <2>2
<1>4. Encode(time) \o rand' \in KeyDigits /\ End(Encode(time) \o rand') = rand'
    BY <1>2, <1>3, KeyParts
<1>5. /\ e \in Entry /\ e.key = Encode(time) \o rand' /\ e.at = time
      /\ e.drawn <=> time # last
      /\ e.unordered <=> last = 0 \/ time < last \/ (time = last /\ AtEnd(rand))
      /\ End(e.key) = rand' /\ e.key \in KeyDigits
    BY <1>4 DEF Entry
<1> HIDE DEF e
<1>6. /\ m \in Nat /\ made' \in Seq(Entry) /\ Len(made') = m + 1 /\ made'[m + 1] = e
      /\ \A i \in 1 .. m : made'[i] = made[i]
    <2>1. made \in Seq(Entry)
        BY DEF PushInv, EntriesInv
    <2> QED
        BY <1>1, <1>5, <2>1
<1> HIDE DEF m
<1>7. ASSUME last # 0
      PROVE  /\ m \in 1 .. m /\ made[m].at = last /\ End(made[m].key) = rand
             /\ made[m].key = Encode(last) \o rand
    <2>1. m # 0 /\ made[m].at = last /\ End(made[m].key) = rand
        BY <1>7 DEF PushInv, LastInv, m
    <2>2. m \in 1 .. m
        BY <1>6, <2>1
    <2>3. made[m].key = Encode(made[m].at) \o End(made[m].key)
        BY <2>2, EntryParts DEF PushInv, m
    <2> QED
        BY <2>1, <2>2, <2>3
<1>8. EntriesInv'
    <2>1. ASSUME NEW i \in 1 .. m + 1
          PROVE  made'[i].key = Encode(made'[i].at) \o End(made'[i].key)
        <3>1. CASE i = m + 1
            BY <1>5, <1>6, <3>1
        <3>2. CASE i # m + 1
            <4>1. i \in 1 .. m
                BY <1>6, <3>2
            <4>2. made[i].key = Encode(made[i].at) \o End(made[i].key)
                BY <4>1, EntryParts DEF PushInv, m
            <4> QED
                BY <1>6, <4>1, <4>2
        <3> QED
            BY <3>1, <3>2
    <2> QED
        BY <1>6, <2>1 DEF EntriesInv
<1>9. LastInv'
    <2>1. Len(made') # 0 /\ made'[Len(made')] = e
        BY <1>6
    <2> QED
        BY <1>1, <1>5, <2>1 DEF LastInv
<1>10. PushTypeOK'
    <2>1. last' \in 0 .. MaxMillis
        BY <1>1, <1>3
    <2>2. ASSUME NEW i \in DOMAIN made'
          PROVE  made'[i].key \in KeyDigits
        <3>1. i \in 1 .. Len(made')
            BY <1>6
        <3>2. made'[i] \in Entry
            BY <1>6, <3>1
        <3> QED
            BY <3>2 DEF Entry
    <2> QED
        BY <1>2, <2>1, <2>2 DEF PushTypeOK, KeyDigits
<1>11. KeysInOrder'
    <2>0. DOMAIN made' = 1 .. m + 1 /\ DOMAIN made = 1 .. m
        <3>1. made \in Seq(Entry)
            BY DEF PushInv, EntriesInv
        <3> QED
            BY <1>6, <3>1 DEF m
    <2>1. ASSUME NEW j \in 1 .. m + 1, NEW i \in 1 .. j - 1, \A k \in i + 1 .. j : ~ made'[k].unordered
          PROVE  Before(made'[i].key, made'[j].key)
        <3>0. j \in Nat /\ i \in Nat
            OBVIOUS
        <3>1. CASE j # m + 1
            <4>1. j \in 1 .. m /\ i \in 1 .. m /\ \A k \in i + 1 .. j : k \in 1 .. m
                BY <1>6, <3>0, <3>1
            <4>2. \A k \in i + 1 .. j : ~ made[k].unordered
                BY <1>6, <2>1, <4>1
            <4>3. Before(made[i].key, made[j].key)
                BY <2>0, <4>1, <4>2 DEF PushInv, KeysInOrder
            <4> QED
                BY <1>6, <4>1, <4>3
        <3>2. CASE j = m + 1
            <4>1. j \in i + 1 .. j /\ ~ e.unordered
                BY <1>6, <2>1, <3>0, <3>2
            <4>2. last # 0 /\ ~ (time < last) /\ ~ (time = last /\ AtEnd(rand))
                BY <1>5, <4>1
            <4>3. m \in 1 .. m /\ made[m].key = Encode(last) \o rand
                BY <1>7, <4>2
            <4>4. Before(made[m].key, e.key)
                <5>1. CASE time = last
                    <6>1. rand' = Increment(rand) /\ ~ AtEnd(rand)
                        BY <1>1, <4>2, <5>1
                    <6>2. Before(rand, rand')
                        BY <1>2, <6>1, IncrementOrder
                    <6>3. Before(Encode(last) \o rand, Encode(last) \o rand')
                        BY <1>2, <6>2, KeysBySuffix
                    <6> QED
                        BY <1>5, <4>3, <5>1, <6>3
                <5>2. CASE time # last
                    <6>1. last < time
                        BY <1>2, <1>3, <4>2, <5>2
                    <6>2. Before(Encode(last) \o rand, Encode(time) \o rand')
                        BY <1>2, <1>3, <6>1, KeysByTime
                    <6> QED
                        BY <1>5, <4>3, <6>2
                <5> QED
                    BY <5>1, <5>2
            <4>5. CASE i = m
                BY <1>6, <3>2, <4>3, <4>4, <4>5
            <4>6. CASE i # m
                <5>1. i \in 1 .. m - 1 /\ i \in 1 .. m /\ \A k \in i + 1 .. m : k \in 1 .. m /\ k \in i + 1 .. j
                    BY <1>6, <3>0, <3>2, <4>6
                <5>2. \A k \in i + 1 .. m : ~ made[k].unordered
                    BY <1>6, <2>1, <5>1
                <5>3. Before(made[i].key, made[m].key)
                    BY <2>0, <4>3, <5>1, <5>2 DEF PushInv, KeysInOrder
                <5>4. made[i].key \in KeyDigits /\ made[m].key \in KeyDigits
                    BY <4>3, <5>1, EntryParts DEF PushInv, m
                <5>5. Before(made[i].key, e.key)
                    BY <1>5, <4>4, <5>3, <5>4, KeysTransitive
                <5> QED
                    BY <1>6, <3>2, <5>1, <5>5
            <4> QED
                BY <4>5, <4>6
        <3> QED
            BY <3>1, <3>2
    <2> QED
        BY <2>0, <2>1 DEF KeysInOrder
<1>12. CountInv'
    <2>0. PICK v \in Nat \ {0} : v = Values[RandDigits]
        BY ValuesAre, PushConstants
    <2>1. ASSUME NEW j \in 1 .. m + 1, NEW i \in 1 .. j - 1, \A k \in i + 1 .. j : ~ made'[k].drawn
          PROVE  /\ made'[i].at = made'[j].at
                 /\ \E c \in Nat : Number(End(made'[j].key)) + c * v = Number(End(made'[i].key)) + (j - i)
        <3>0. j \in Nat /\ i \in Nat
            OBVIOUS
        <3>1. CASE j # m + 1
            <4>1. j \in 1 .. m /\ i \in 1 .. m /\ \A k \in i + 1 .. j : k \in 1 .. m
                BY <1>6, <3>0, <3>1
            <4>2. \A k \in i + 1 .. j : ~ made[k].drawn
                BY <1>6, <2>1, <4>1
            <4>3. /\ made[i].at = made[j].at
                  /\ \E c \in Nat : Number(End(made[j].key)) + c * v = Number(End(made[i].key)) + (j - i)
                BY <2>0, <4>1, <4>2 DEF PushInv, CountInv, m
            <4> QED
                BY <1>6, <4>1, <4>3
        <3>2. CASE j = m + 1
            <4>1. j \in i + 1 .. j /\ ~ e.drawn
                BY <1>6, <2>1, <3>0, <3>2
            <4>2. time = last /\ last # 0 /\ rand' = Increment(rand)
                BY <1>1, <1>3, <1>5, <4>1
            <4>3. m \in 1 .. m /\ made[m].at = time /\ End(made[m].key) = rand
                BY <1>7, <4>2
            <4> DEFINE a == Number(rand)
                       b == Number(rand')
            <4>4. a \in Nat /\ b \in Nat
                BY <1>2, NumberType
            <4>5. b = a + 1 \/ (a = v - 1 /\ b = 0)
                BY <1>2, <2>0, <4>2, NumberGoesUp, NumberStartsOver
            <4> HIDE DEF a, b
            <4>6. PICK d \in {0, 1} : b + d * v = a + 1
                BY <2>0, <4>4, <4>5
            <4>7. made'[j] = e /\ Number(End(e.key)) = b /\ e.at = time
                BY <1>5, <1>6, <3>2 DEF b
            <4>8. CASE i = m
                <5>1. made'[i] = made[m] /\ Number(End(made[m].key)) = a
                    BY <1>6, <4>3, <4>8 DEF a
                <5>2. b + d * v = a + (j - i) /\ d \in Nat
                    BY <1>6, <3>2, <4>4, <4>6, <4>8
                <5> QED
                    BY <4>3, <4>7, <5>1, <5>2
            <4>9. CASE i # m
                <5>1. i \in 1 .. m - 1 /\ i \in 1 .. m /\ \A k \in i + 1 .. m : k \in 1 .. m /\ k \in i + 1 .. j
                    BY <1>6, <3>0, <3>2, <4>9
                <5>2. \A k \in i + 1 .. m : ~ made[k].drawn
                    BY <1>6, <2>1, <5>1
                <5> DEFINE z == Number(End(made[i].key))
                <5>3. /\ made[i].at = made[m].at
                      /\ \E c \in Nat : a + c * v = z + (m - i)
                    BY <2>0, <4>3, <5>1, <5>2 DEF PushInv, CountInv, m, a
                <5>4. z \in Nat
                    BY <5>1, EntryParts, NumberType DEF PushInv, m
                <5> HIDE DEF z
                <5>5. PICK c \in Nat : a + c * v = z + (m - i)
                    BY <5>3
                <5>6. c + d \in Nat /\ (c + d) * v = c * v + d * v /\ c * v \in Nat /\ d * v \in Nat
                    <6>1. CASE d = 0
                        BY <2>0, <6>1
                    <6>2. CASE d = 1
                        BY <2>0, <6>2
                    <6> QED
                        BY <6>1, <6>2
                <5>7. b + (c + d) * v = z + (j - i)
                    <6> DEFINE x == c * v
                               y == d * v
                    <6>1. x \in Nat /\ y \in Nat /\ b + y = a + 1 /\ a + x = z + (m - i)
                        BY <4>6, <5>5, <5>6
                    <6>2. (c + d) * v = x + y
                        BY <5>6
                    <6> HIDE DEF x, y
                    <6>3. b + (x + y) = z + (j - i)
                        BY <1>6, <3>0, <3>2, <4>4, <5>4, <6>1
                    <6> QED
                        BY <6>2, <6>3
                <5>8. made'[i] = made[i]
                    BY <1>6, <5>1
                <5> QED
                    BY <4>3, <4>7, <5>3, <5>6, <5>7, <5>8 DEF z
            <4> QED
                BY <4>8, <4>9
        <3> QED
            BY <3>1, <3>2
    <2> QED
        BY <1>6, <2>0, <2>1 DEF CountInv
<1> QED
    BY <1>8, <1>9, <1>10, <1>11, <1>12 DEF PushInv

\* The invariant holds of all keys that are ever made.
THEOREM PushInvariance == PushSpec => []PushInv
<1>1. PushInit => PushInv
    BY PushFirst
<1>2. ASSUME PushInv, [PushNext]_pushVars
      PROVE  PushInv'
    <2>1. CASE UNCHANGED pushVars
        BY <1>2, <2>1 DEF pushVars, PushInv, PushTypeOK, EntriesInv, LastInv, CountInv, KeysInOrder
    <2>2. CASE PushNext
        BY <1>2, <2>2, PushRestart, PushKeeps DEF PushNext
    <2> QED
        BY <1>2, <2>1, <2>2
<1> QED
    BY <1>1, <1>2, PTL DEF PushSpec

\* All keys have the digits they should, and the suffix the process remembers too.
THEOREM PushTypeCorrect == PushSpec => []PushTypeOK
<1>1. PushInv => PushTypeOK
    BY DEF PushInv
<1> QED
    BY <1>1, PushInvariance, PTL

\* Keys sort in the order in which generatePushID (database.go:237-274) made them, within
\* a millisecond and over every carry, as long as no key begins the process, steps back
\* in time or starts the suffix over.
THEOREM PushKeysSort == PushSpec => []KeysInOrder
<1>1. PushInv => KeysInOrder
    BY DEF PushInv
<1> QED
    BY <1>1, PushInvariance, PTL

\* generatePushID makes a key twice only by drawing again, within the same millisecond,
\* or by counting the suffix through all its values.
THEOREM PushKeysDiffer == PushSpec => []KeysDistinct
<1>1. ASSUME PushInv
      PROVE  KeysDistinct
    <2>0. made \in Seq(Entry) /\ DOMAIN made = 1 .. Len(made) /\ Len(made) \in Nat
        BY <1>1 DEF PushInv, EntriesInv
    <2>1. PICK v \in Nat \ {0} : v = Values[RandDigits]
        BY ValuesAre, PushConstants
    <2>2. ASSUME NEW j \in 1 .. Len(made), NEW i \in 1 .. j - 1, made[i].key = made[j].key
          PROVE  made[i].at = made[j].at /\ ((\E k \in i + 1 .. j : made[k].drawn) \/ j - i >= v)
        <3>0. i \in 1 .. Len(made) /\ j - i \in Nat \ {0}
            BY <2>0
        <3> DEFINE t == made[i].at
                   u == made[j].at
                   r == End(made[i].key)
                   s == End(made[j].key)
        <3>1. /\ t \in Nat /\ t < Values[TimeDigits] /\ r \in Suffix
              /\ u \in Nat /\ u < Values[TimeDigits] /\ s \in Suffix
              /\ made[i].key = Encode(t) \o r /\ made[j].key = Encode(u) \o s
            BY <1>1, <3>0, EntryParts DEF PushInv
        <3>2. r = s
            BY <2>2
        <3>3. Encode(t) \o r = Encode(u) \o s
            BY <2>2, <3>1
        <3> HIDE DEF t, u, r, s
        <3>4. t = u
            BY <3>1, <3>3, KeysTellTime
        <3>5. ASSUME \A k \in i + 1 .. j : ~ made[k].drawn
              PROVE  j - i >= v
            <4>1. PICK c \in Nat : Number(s) + c * v = Number(r) + (j - i)
                BY <1>1, <2>1, <3>5 DEF PushInv, CountInv, r, s
            <4>2. Number(r) \in Nat /\ Number(s) = Number(r)
                BY <3>1, <3>2, NumberType
            <4>3. c * v = j - i
                BY <3>0, <4>1, <4>2
            <4>4. c # 0
                BY <2>1, <3>0, <4>3
            <4>5. c * v >= v
                BY <2>1, <4>4
            <4> QED
                BY <4>3, <4>5
        <3> QED
            BY <3>4, <3>5 DEF t, u
    <2> QED
        BY <2>0, <2>1, <2>2 DEF KeysDistinct
<1> QED
    BY <1>1, PushInvariance, PTL

=============================================================================
