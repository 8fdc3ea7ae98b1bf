---------------------------- MODULE ProcessProofs ----------------------------
(***************************************************************************)
(* The data and the tokens over shutdowns, deaths and restarts, for any    *)
(* number of processes, writes and keys and all timeouts: proofs about     *)
(* module Process.                                                         *)
(***************************************************************************)
EXTENDS Process, FiniteSetTheorems, TLAPS

-----------------------------------------------------------------------------
\* The processes that have a key, and those that have read or written it.
Keyed == {p \in Proc : phase[p] = "keyed"} \cup Loaded
Keying == {p \in Proc : phase[p] = "keying"}

Progress == {Idle, Over} \cup [step : {"running"}, proc : Proc]

\* Only what listens or shuts down has requests running.
RequestInv ==
    /\ request \in [Write -> Progress]
    /\ \A w \in Write : request[w].step = "running" =>
           phase[request[w].proc] \in {"serving", "draining"}

\* One process listens at most; under systemd one is alive at most, the last started.
OneInv ==
    /\ \A p, q \in Proc : phase[p] = "serving" /\ phase[q] = "serving" => p = q
    /\ systemd => slept = None /\ \A p \in Proc : Alive(p) => p = pidfile

\* Under systemd no process saves while another has loaded the data; until one does,
\* what was answered with success is on disk and in all that have loaded it, those that
\* are shutting down included.
WriteInv ==
    /\ systemd => ~ overlapped
    /\ ~ overlapped => acked \subseteq disk /\ \A p \in Loaded : acked \subseteq mem[p]

\* Unless a key was drawn over another, one process at a time writes one, into a file
\* that holds none, and everything signed or signing is with the key in the file.
KeyInv ==
    /\ \A p \in Keying \cup Keyed : secret[p] \in KeyContent
    /\ ~ rekeyed =>
           /\ \A p, q \in Keying : p = q
           /\ Keying # {} => keyFile = Empty
           /\ \A p \in Keyed : secret[p] = keyFile
           /\ tokens \subseteq {keyFile}

IInv == TypeOK /\ RequestInv /\ OneInv /\ WriteInv /\ KeyInv

-----------------------------------------------------------------------------
LEMMA Moved ==
    ASSUME TypeOK, NEW p \in Proc, NEW step, phase' = [phase EXCEPT ![p] = step]
    PROVE  phase'[p] = step /\ \A q \in Proc \ {p} : phase'[q] = phase[q]
BY DEF TypeOK

\* A set whose members are equal has one at most.
LEMMA OneAtMost ==
    ASSUME NEW S, \A x, y \in S : x = y
    PROVE  Cardinality(S) <= 1
<1>1. CASE S = {}
    BY <1>1, FS_EmptySet
<1>2. CASE S # {}
    <2>1. PICK x \in S : S = {x}
        BY <1>2
    <2> QED
        BY <2>1, FS_Singleton
<1> QED
    BY <1>1, <1>2

LEMMA OneServes ==
    ASSUME OneInv
    PROVE  Cardinality({p \in Proc : phase[p] = "serving"}) <= 1
BY OneAtMost DEF OneInv

\* Before a key has been written over, a process that writes one writes the first.
LEMMA FirstKey ==
    ASSUME IInv, ~ rekeyed, keyFile \notin KeyContent
    PROVE  Keyed = {} /\ tokens = {}
BY DEF IInv, TypeOK, KeyInv, Keyed

LEMMA WritesFirstKey ==
    ASSUME IInv, ~ rekeyed, NEW p \in Keying
    PROVE  Keying = {p} /\ Keyed = {} /\ tokens = {}
<1>1. Keying = {p} /\ keyFile = Empty
    BY DEF IInv, KeyInv
<1>2. keyFile \notin KeyContent
    BY <1>1, ProcessConstants DEF KeyContent
<1> QED
    BY <1>1, <1>2, FirstKey

\* What the end of a process leaves: the others, with their memory and their requests.
LEMMA Ended ==
    ASSUME IInv, NEW p \in Proc, End(p)
    PROVE  /\ request' \in [Write -> Progress]
           /\ \A w \in Write : request'[w].step = "running" =>
                  request'[w] = request[w] /\ request[w].proc # p
           /\ mem' \in [Proc -> SUBSET Write] /\ age' \in [Proc -> 0 .. Drain]
           /\ secret' \in [Proc -> KeyContent \cup {None}]
           /\ \A q \in Proc \ {p} : mem'[q] = mem[q] /\ secret'[q] = secret[q]
<1>1. \A w \in Write : request[w].step = "running" /\ request[w].proc = p =>
          request[w] = [step |-> "running", proc |-> p]
    BY DEF IInv, RequestInv, Progress, Idle, Over
<1>2. \A w \in Write : request'[w] = IF w \in Running(p) THEN Over ELSE request[w]
    BY DEF End
<1>3. \A w \in Write : request'[w].step = "running" =>
          request'[w] = request[w] /\ request[w].proc # p
    BY <1>1, <1>2 DEF Running, Over
<1>4. request' \in [Write -> Progress]
    <2>1. \A w \in Write : request'[w] \in Progress
        BY <1>2 DEF IInv, RequestInv, Progress
    <2> QED
        BY <2>1 DEF End
<1>5. mem' \in [Proc -> SUBSET Write] /\ \A q \in Proc \ {p} : mem'[q] = mem[q]
    BY DEF IInv, TypeOK, End
<1>6. secret' \in [Proc -> KeyContent \cup {None}] /\ \A q \in Proc \ {p} : secret'[q] = secret[q]
    BY DEF IInv, TypeOK, End
<1>7. age' \in [Proc -> 0 .. Drain]
    BY ProcessConstants DEF IInv, TypeOK, End
<1> QED
    BY <1>3, <1>4, <1>5, <1>6, <1>7

\* A request's step is what TypeOK says it is.
LEMMA RequestSteps ==
    ASSUME request \in [Write -> Progress]
    PROVE  \A w \in Write : request[w].step \in {"new", "running", "over"}
BY DEF Progress, Idle, Over

-----------------------------------------------------------------------------
LEMMA InitHolds == Init => IInv
<1> SUFFICES ASSUME Init PROVE IInv
    OBVIOUS
<1>1. Loaded = {} /\ Keyed = {} /\ Keying = {}
    BY DEF Init, Loaded, Keyed, Keying
<1>2. RequestInv
    BY DEF Init, RequestInv, Progress, Idle
<1>3. OneInv
    BY DEF Init, OneInv, Alive
<1>4. TypeOK
    <2>1. Cardinality({p \in Proc : phase[p] = "serving"}) <= 1
        BY <1>3, OneServes
    <2>2. \A w \in Write : request[w].step \in {"new", "running", "over"}
        BY <1>2, RequestSteps DEF RequestInv
    <2>3. age \in [Proc -> 0 .. Drain]
        BY ProcessConstants DEF Init
    <2> QED
        BY <1>1, <2>1, <2>2, <2>3 DEF Init, TypeOK
<1> QED
    BY <1>1, <1>2, <1>3, <1>4 DEF Init, IInv, WriteInv, KeyInv

\* A process ends; the file may change if it was writing its key.
LEMMA EndKeeps ==
    ASSUME IInv, NEW p \in Proc, Alive(p), End(p),
           phase' = [phase EXCEPT ![p] = "gone"],
           slept' \in {None} \cup 0 .. Sleep, systemd => slept' = None,
           keyFile' \in KeyContent \cup {NoFile, Empty},
           keyFile' = keyFile \/ phase[p] = "keying",
           UNCHANGED <<systemd, pidfile, drawn, rekeyed, disk, acked, overlapped, tokens>>
    PROVE  IInv'
<1>1. phase'[p] = "gone" /\ \A q \in Proc \ {p} : phase'[q] = phase[q]
    BY Moved DEF IInv
<1>2. /\ Loaded' = Loaded \ {p} /\ Keyed' = Keyed \ {p} /\ Keying' = Keying \ {p}
    BY <1>1 DEF Loaded, Keyed, Keying
<1>3. RequestInv'
    BY <1>1, Ended DEF IInv, RequestInv
<1>4. OneInv'
    BY <1>1 DEF IInv, OneInv, Alive
<1>5. WriteInv'
    BY <1>2, Ended DEF IInv, WriteInv, Loaded
<1>6. KeyInv'
    <2>1. \A q \in Keying' \cup Keyed' : q \in Keying \cup Keyed /\ secret'[q] = secret[q]
        BY <1>2, Ended DEF Keying, Keyed, Loaded
    <2>2. CASE phase[p] = "keying" /\ ~ rekeyed
        <3>1. Keying = {p} /\ Keyed = {} /\ tokens = {}
            BY <2>2, WritesFirstKey DEF Keying
        <3> QED
            BY <1>2, <2>1, <3>1 DEF KeyInv
    <2>3. CASE phase[p] # "keying"
        BY <1>2, <2>1, <2>3 DEF IInv, KeyInv
    <2>4. CASE rekeyed
        BY <2>1, <2>4 DEF IInv, KeyInv
    <2> QED
        BY <2>2, <2>3, <2>4
<1>7. TypeOK'
    <2>1. \A q \in Loaded' : secret'[q] \in KeyContent
        BY <1>6 DEF KeyInv, Keyed
    <2>2. Cardinality({q \in Proc : phase'[q] = "serving"}) <= 1
        BY <1>4, OneAtMost DEF OneInv
    <2>3. \A w \in Write : request'[w].step \in {"new", "running", "over"}
        BY Ended DEF Progress, Idle, Over
    <2> QED
        BY <2>1, <2>2, <2>3, Ended DEF IInv, TypeOK
<1> QED
    BY <1>3, <1>4, <1>5, <1>6, <1>7 DEF IInv

LEMMA ExitKeeps == ASSUME NEW p \in Proc PROVE IInv /\ Exit(p) => IInv'
BY EndKeeps DEF IInv, TypeOK, OneInv, Exit, Alive, keys

LEMMA CrashKeeps == ASSUME NEW p \in Proc PROVE IInv /\ Crash(p) => IInv'
BY EndKeeps DEF IInv, TypeOK, OneInv, Crash, keys

LEMMA KeyFailsKeeps == ASSUME NEW p \in Proc PROVE IInv /\ KeyFails(p) => IInv'
<1> SUFFICES ASSUME IInv, KeyFails(p) PROVE IInv'
    OBVIOUS
<1>1. secret[p] \in KeyContent
    BY DEF IInv, KeyInv, KeyFails, Keying
<1>2. keyFile' \in KeyContent \cup {NoFile, Empty}
    BY <1>1 DEF IInv, TypeOK, KeyFails, KeyContent
<1> QED
    BY <1>2, EndKeeps DEF IInv, TypeOK, OneInv, KeyFails, Alive

-----------------------------------------------------------------------------
\* The parts of the invariant that requests, data and history do not change.
LEMMA ContentAside ==
    ASSUME IInv, UNCHANGED <<systemd, life, keys, tokens>>
    PROVE  OneInv' /\ KeyInv' /\ Loaded' = Loaded
BY DEF IInv, OneInv, KeyInv, Keyed, Keying, Loaded, Alive, life, keys

\* A request that is running has a process that has loaded the data.
LEMMA RunningLoaded ==
    ASSUME IInv, NEW w \in Write, request[w].step = "running"
    PROVE  request[w].proc \in Loaded
BY DEF IInv, RequestInv, Progress, Idle, Over, Loaded

\* What a process knows and where it is, in the words of TypeOK.
LEMMA TypesAside ==
    ASSUME IInv, UNCHANGED <<systemd, life, keys>>,
           RequestInv', mem' \in [Proc -> SUBSET Write], disk' \subseteq Write,
           acked' \subseteq Write, overlapped' \in BOOLEAN, tokens' \subseteq KeyContent
    PROVE  TypeOK'
<1>1. \A w \in Write : request'[w].step \in {"new", "running", "over"}
    BY DEF RequestInv, Progress, Idle, Over
<1>2. Loaded' = Loaded
    BY DEF Loaded, life
<1>3. Cardinality({p \in Proc : phase'[p] = "serving"}) <= 1
    BY DEF IInv, TypeOK, life
<1> QED
    BY <1>1, <1>2, <1>3 DEF IInv, TypeOK, life, keys

LEMMA IssueTokenKeeps == ASSUME NEW p \in Proc PROVE IInv /\ IssueToken(p) => IInv'
<1> SUFFICES ASSUME IInv, IssueToken(p) PROVE IInv'
    OBVIOUS
<1>1. p \in Keyed /\ secret[p] \in KeyContent
    BY DEF IInv, KeyInv, IssueToken, Keyed, Loaded
<1>2. Loaded' = Loaded /\ Keyed' = Keyed /\ Keying' = Keying
    BY DEF Loaded, Keyed, Keying, IssueToken, life
<1>3. KeyInv'
    BY <1>1, <1>2 DEF IInv, KeyInv, IssueToken, life, keys
<1>4. RequestInv' /\ OneInv' /\ WriteInv'
    BY <1>2 DEF IInv, RequestInv, OneInv, WriteInv, Alive, IssueToken, life, content
<1>5. TypeOK'
    BY <1>1, <1>4, TypesAside DEF IInv, TypeOK, IssueToken, content
<1> QED
    BY <1>3, <1>4, <1>5 DEF IInv

LEMMA ArriveKeeps ==
    ASSUME NEW p \in Proc, NEW w \in Write PROVE IInv /\ Arrive(w, p) => IInv'
<1> SUFFICES ASSUME IInv, Arrive(w, p) PROVE IInv'
    OBVIOUS
<1>1. request'[w] = [step |-> "running", proc |-> p] /\ \A v \in Write \ {w} : request'[v] = request[v]
    BY DEF IInv, RequestInv, Arrive
<1>2. RequestInv'
    <2>1. request' \in [Write -> Progress]
        BY DEF IInv, RequestInv, Arrive, Progress
    <2> QED
        BY <1>1, <2>1 DEF IInv, RequestInv, Arrive, life
<1>3. OneInv' /\ KeyInv' /\ Loaded' = Loaded
    BY ContentAside DEF Arrive
<1>4. TypeOK'
    BY <1>2, TypesAside DEF IInv, TypeOK, Arrive
<1> QED
    BY <1>2, <1>3, <1>4 DEF IInv, WriteInv, Arrive

\* A request that changes its process's memory and is over.
LEMMA RequestEnds ==
    ASSUME IInv, NEW w \in Write, request[w].step = "running",
           mem' = [mem EXCEPT ![request[w].proc] = @ \cup {w}],
           request' = [request EXCEPT ![w] = Over], phase' = phase
    PROVE  /\ RequestInv'
           /\ mem' \in [Proc -> SUBSET Write]
           /\ mem'[request[w].proc] = mem[request[w].proc] \cup {w}
           /\ \A p \in Proc : mem[p] \subseteq mem'[p]
<1>1. request[w].proc \in Proc
    BY RunningLoaded DEF Loaded
<1>2. RequestInv'
    <2>1. request'[w] = Over /\ \A v \in Write \ {w} : request'[v] = request[v]
        BY DEF IInv, RequestInv
    <2>2. request' \in [Write -> Progress]
        BY DEF IInv, RequestInv, Progress
    <2> QED
        BY <2>1, <2>2 DEF IInv, RequestInv, Over
<1> QED
    BY <1>1, <1>2 DEF IInv, TypeOK

LEMMA SaveFailsKeeps == ASSUME NEW w \in Write PROVE IInv /\ SaveFails(w) => IInv'
<1> SUFFICES ASSUME IInv, SaveFails(w) PROVE IInv'
    OBVIOUS
<1>1. RequestInv' /\ mem' \in [Proc -> SUBSET Write] /\ \A p \in Proc : mem[p] \subseteq mem'[p]
    BY RequestEnds DEF SaveFails, life
<1>2. OneInv' /\ KeyInv' /\ Loaded' = Loaded
    BY ContentAside DEF SaveFails
<1>3. TypeOK'
    BY <1>1, TypesAside DEF IInv, TypeOK, SaveFails
<1>4. WriteInv'
    BY <1>1, <1>2 DEF IInv, WriteInv, SaveFails, Loaded
<1> QED
    BY <1>1, <1>2, <1>3, <1>4 DEF IInv

\* A save by the only process that has loaded the data keeps everything in it; one by
\* another is what the history calls an overlap, which systemd's order excludes.
LEMMA SaveKeeps == ASSUME NEW w \in Write PROVE IInv /\ Save(w) => IInv'
<1> SUFFICES ASSUME IInv, Save(w) PROVE IInv'
    OBVIOUS
<1> DEFINE p == request[w].proc
<1>1. p \in Loaded /\ p \in Proc
    BY RunningLoaded DEF Save, Loaded
<1>2. /\ RequestInv' /\ mem' \in [Proc -> SUBSET Write]
      /\ mem'[p] = mem[p] \cup {w} /\ disk' = mem'[p] /\ acked' = acked \cup {w}
    BY RequestEnds DEF Save, life
<1>3. overlapped' = (overlapped \/ Loaded # {p})
    BY DEF Save
<1>4. UNCHANGED <<systemd, life, keys, tokens>>
    BY DEF Save
<1> HIDE DEF p
<1>5. OneInv' /\ KeyInv' /\ Loaded' = Loaded
    BY <1>4, ContentAside
<1>6. systemd => Loaded = {p}
    BY <1>1 DEF IInv, OneInv, Alive, Loaded
<1>7. systemd' => ~ overlapped'
    BY <1>3, <1>4, <1>6 DEF IInv, WriteInv
<1>8. ~ overlapped' => acked' \subseteq disk' /\ \A q \in Loaded' : acked' \subseteq mem'[q]
    <2>1. CASE ~ overlapped /\ Loaded = {p}
        BY <1>1, <1>2, <1>5, <2>1 DEF IInv, WriteInv
    <2>2. CASE overlapped \/ Loaded # {p}
        BY <1>3, <2>2
    <2> QED
        BY <2>1, <2>2
<1>9. TypeOK'
    <2>1. mem'[p] \subseteq Write
        BY <1>1, <1>2
    <2>2. overlapped' \in BOOLEAN
        BY <1>3 DEF IInv, TypeOK
    <2> QED
        BY <1>2, <1>4, <2>1, <2>2, TypesAside DEF IInv, TypeOK
<1> QED
    BY <1>2, <1>5, <1>7, <1>8, <1>9 DEF IInv, WriteInv

-----------------------------------------------------------------------------
\* A process that moves on to another phase, in the words of TypeOK.
LEMMA TypesMoved ==
    ASSUME IInv, RequestInv', OneInv', KeyInv', NEW p \in Proc,
           NEW step \in {"started", "keying", "keyed", "loaded", "serving", "draining"},
           phase' = [phase EXCEPT ![p] = step],
           secret' \in [Proc -> KeyContent \cup {None}],
           mem' \in [Proc -> SUBSET Write],
           slept' \in {None} \cup 0 .. Sleep, pidfile' \in Proc \cup {None},
           keyFile' \in KeyContent \cup {NoFile, Empty},
           drawn' \subseteq Key, rekeyed' \in BOOLEAN,
           UNCHANGED <<systemd, age, disk, acked, overlapped, tokens>>
    PROVE  TypeOK'
<1>1. \A w \in Write : request'[w].step \in {"new", "running", "over"}
    BY DEF RequestInv, Progress, Idle, Over
<1>2. \A q \in Loaded' : secret'[q] \in KeyContent
    BY DEF KeyInv, Keyed
<1>3. Cardinality({q \in Proc : phase'[q] = "serving"}) <= 1
    BY OneAtMost DEF OneInv
<1>4. phase' \in [Proc -> {"new", "started", "keying", "keyed", "loaded", "serving",
                           "draining", "gone"}]
    BY DEF IInv, TypeOK
<1> QED
    BY <1>1, <1>2, <1>3, <1>4 DEF IInv, TypeOK

LEMMA LaunchKeeps ==
    ASSUME IInv, NEW p \in Proc, Launch(p), systemd => Dead /\ slept' = None,
           slept' \in {None} \cup 0 .. Sleep
    PROVE  IInv'
<1>1. phase'[p] = "started" /\ \A q \in Proc \ {p} : phase'[q] = phase[q]
    BY Moved DEF IInv, Launch
<1>2. Loaded' = Loaded /\ Keyed' = Keyed /\ Keying' = Keying
    BY <1>1 DEF Loaded, Keyed, Keying, Launch
<1>3. RequestInv'
    BY <1>1 DEF IInv, RequestInv, Launch, content, Progress, Idle, Over
<1>4. OneInv'
    <2>1. systemd => \A q \in Proc : ~ Alive(q)
        BY DEF IInv, OneInv, Dead
    <2> QED
        BY <1>1, <2>1 DEF IInv, OneInv, Alive, Launch
<1>5. WriteInv' /\ KeyInv'
    BY <1>2 DEF IInv, WriteInv, KeyInv, Launch, content, keys
<1>6. TypeOK'
    BY <1>3, <1>4, <1>5, TypesMoved DEF IInv, TypeOK, Launch, content, keys
<1> QED
    BY <1>3, <1>4, <1>5, <1>6 DEF IInv

LEMMA ReviveKeeps == ASSUME NEW p \in Proc PROVE IInv /\ Revive(p) => IInv'
BY LaunchKeeps DEF IInv, TypeOK, OneInv, Revive

LEMMA WakeKeeps == ASSUME NEW p \in Proc PROVE IInv /\ Wake(p) => IInv'
BY LaunchKeeps, ProcessConstants DEF IInv, OneInv, Wake

LEMMA RestartKeeps == IInv /\ Restart => IInv'
<1> SUFFICES ASSUME IInv, Restart PROVE IInv'
    OBVIOUS
<1>1. pidfile \in Proc /\ Alive(pidfile)
    BY DEF Restart, Dead
<1>2. slept' \in {None} \cup 0 .. Sleep /\ (systemd => slept' = None)
    BY ProcessConstants DEF Restart
<1>3. UNCHANGED <<keyFile, drawn, rekeyed>>
    BY DEF Restart, keys
<1>4. CASE phase[pidfile] \notin {"serving", "draining"}
    BY <1>1, <1>2, <1>3, <1>4, EndKeeps DEF Restart, IInv, TypeOK
<1>5. CASE phase[pidfile] \in {"serving", "draining"}
    <2>1. /\ phase' = [phase EXCEPT ![pidfile] = "draining"]
          /\ UNCHANGED <<mem, request, secret, age, systemd, pidfile, disk, acked, overlapped, tokens>>
        BY <1>5 DEF Restart
    <2>2. phase'[pidfile] = "draining" /\ \A q \in Proc \ {pidfile} : phase'[q] = phase[q]
        BY <1>1, <2>1, Moved DEF IInv
    <2>3. Loaded' = Loaded /\ Keyed' = Keyed /\ Keying' = Keying
        BY <1>5, <2>2 DEF Loaded, Keyed, Keying
    <2>4. RequestInv'
        BY <2>1, <2>2 DEF IInv, RequestInv
    <2>5. OneInv'
        BY <1>2, <1>5, <2>1, <2>2 DEF IInv, OneInv, Alive
    <2>6. WriteInv' /\ KeyInv'
        BY <1>3, <2>1, <2>3 DEF IInv, WriteInv, KeyInv
    <2>7. TypeOK'
        BY <1>1, <1>2, <1>3, <2>1, <2>4, <2>5, <2>6, TypesMoved DEF IInv, TypeOK
    <2> QED
        BY <2>4, <2>5, <2>6, <2>7 DEF IInv
<1> QED
    BY <1>4, <1>5

LEMMA TickKeeps == IInv /\ Tick => IInv'
<1> SUFFICES ASSUME IInv, Tick PROVE IInv'
    OBVIOUS
<1>1. Loaded' = Loaded /\ Keyed' = Keyed /\ Keying' = Keying
    BY DEF Loaded, Keyed, Keying, Tick
<1>2. RequestInv' /\ OneInv' /\ WriteInv' /\ KeyInv'
    BY <1>1 DEF IInv, RequestInv, OneInv, WriteInv, KeyInv, Alive, Tick, content, keys
<1>3. TypeOK'
    <2>1. age' \in [Proc -> 0 .. Drain]
        BY ProcessConstants DEF IInv, TypeOK, Tick
    <2>2. slept' \in {None} \cup 0 .. Sleep
        BY ProcessConstants DEF IInv, TypeOK, Tick
    <2> QED
        BY <1>1, <2>1, <2>2 DEF IInv, TypeOK, Tick, content, keys
<1> QED
    BY <1>2, <1>3 DEF IInv

-----------------------------------------------------------------------------
\* A process on its way to listening: the others stay where they are and it runs no
\* request.
LEMMA StartingAside ==
    ASSUME IInv, NEW p \in Proc, Alive(p), phase[p] \notin {"serving", "draining"},
           NEW step \in {"keying", "keyed", "loaded", "serving"},
           phase' = [phase EXCEPT ![p] = step],
           step = "serving" => \A q \in Proc : phase[q] # "serving",
           UNCHANGED <<systemd, pidfile, slept, request>>
    PROVE  /\ phase'[p] = step /\ \A q \in Proc \ {p} : phase'[q] = phase[q]
           /\ RequestInv' /\ OneInv'
<1>1. phase'[p] = step /\ \A q \in Proc \ {p} : phase'[q] = phase[q]
    BY Moved DEF IInv
<1>2. RequestInv'
    BY <1>1 DEF IInv, RequestInv
<1>3. OneInv'
    BY <1>1 DEF IInv, OneInv, Alive
<1> QED
    BY <1>1, <1>2, <1>3

LEMMA ReadKeyKeeps == ASSUME NEW p \in Proc PROVE IInv /\ ReadKey(p) => IInv'
<1> SUFFICES ASSUME IInv, ReadKey(p) PROVE IInv'
    OBVIOUS
<1>1. /\ phase'[p] = "keyed" /\ \A q \in Proc \ {p} : phase'[q] = phase[q]
      /\ RequestInv' /\ OneInv'
    BY StartingAside DEF ReadKey, Alive, content
<1>2. /\ secret' \in [Proc -> KeyContent \cup {None}] /\ secret'[p] = keyFile
      /\ \A q \in Proc \ {p} : secret'[q] = secret[q]
    BY DEF IInv, TypeOK, ReadKey
<1>3. Loaded' = Loaded /\ Keyed' = Keyed \cup {p} /\ Keying' = Keying
    BY <1>1 DEF Loaded, Keyed, Keying, ReadKey
<1>4. WriteInv'
    BY <1>3 DEF IInv, WriteInv, ReadKey, content
<1>5. KeyInv'
    BY <1>2, <1>3 DEF IInv, KeyInv, ReadKey, keys
<1>6. TypeOK'
    BY <1>1, <1>2, <1>5, TypesMoved DEF IInv, TypeOK, ReadKey, content, keys
<1> QED
    BY <1>1, <1>4, <1>5, <1>6 DEF IInv

\* A key is drawn where there was none and nobody else draws one, or the history says so.
LEMMA DrawKeyKeeps == ASSUME NEW p \in Proc PROVE IInv /\ DrawKey(p) => IInv'
<1> SUFFICES ASSUME IInv, DrawKey(p) PROVE IInv'
    OBVIOUS
<1>1. /\ phase'[p] = "keying" /\ \A q \in Proc \ {p} : phase'[q] = phase[q]
      /\ RequestInv' /\ OneInv'
    BY StartingAside DEF DrawKey, Alive, content
<1>2. PICK k \in Key \ drawn : /\ secret' = [secret EXCEPT ![p] = [key |-> k, whole |-> TRUE]]
                               /\ drawn' = drawn \cup {k}
    BY DEF DrawKey
<1>3. /\ secret' \in [Proc -> KeyContent \cup {None}] /\ secret'[p] \in KeyContent
      /\ \A q \in Proc \ {p} : secret'[q] = secret[q]
    BY <1>2 DEF IInv, TypeOK, KeyContent
<1>4. Loaded' = Loaded /\ Keyed' = Keyed /\ Keying' = Keying \cup {p}
    BY <1>1 DEF Loaded, Keyed, Keying, DrawKey
<1>5. WriteInv'
    BY <1>4 DEF IInv, WriteInv, DrawKey, content
<1>6. KeyInv'
    <2>1. \A q \in Keying' \cup Keyed' : secret'[q] \in KeyContent
        BY <1>3, <1>4 DEF IInv, KeyInv, Keying, Keyed, Loaded
    <2>2. ~ rekeyed' => ~ rekeyed /\ keyFile \notin KeyContent /\ Keying = {}
        BY DEF DrawKey, Keying
    <2>3. ~ rekeyed' => Keyed = {} /\ tokens = {}
        BY <2>2, FirstKey
    <2> QED
        BY <1>4, <2>1, <2>2, <2>3 DEF KeyInv, DrawKey
<1>7. TypeOK'
    <2>1. rekeyed' \in BOOLEAN
        BY DEF DrawKey
    <2> QED
        BY <1>1, <1>2, <1>3, <1>6, <2>1, TypesMoved DEF IInv, TypeOK, DrawKey, content
<1> QED
    BY <1>1, <1>5, <1>6, <1>7 DEF IInv

LEMMA WriteKeyKeeps == ASSUME NEW p \in Proc PROVE IInv /\ WriteKey(p) => IInv'
<1> SUFFICES ASSUME IInv, WriteKey(p) PROVE IInv'
    OBVIOUS
<1>1. /\ phase'[p] = "keyed" /\ \A q \in Proc \ {p} : phase'[q] = phase[q]
      /\ RequestInv' /\ OneInv'
    BY StartingAside DEF WriteKey, Alive, content
<1>2. Loaded' = Loaded /\ Keyed' = Keyed \cup {p} /\ Keying' = Keying \ {p}
    BY <1>1 DEF Loaded, Keyed, Keying, WriteKey
<1>3. WriteInv'
    BY <1>2 DEF IInv, WriteInv, WriteKey, content
<1>4. p \in Keying /\ secret[p] \in KeyContent
    BY DEF IInv, KeyInv, Keying, WriteKey
<1>5. KeyInv'
    <2>1. ~ rekeyed => Keying = {p} /\ Keyed = {} /\ tokens = {}
        BY <1>4, WritesFirstKey
    <2> QED
        BY <1>2, <1>4, <2>1 DEF IInv, KeyInv, WriteKey
<1>6. TypeOK'
    BY <1>1, <1>4, <1>5, TypesMoved DEF IInv, TypeOK, WriteKey, content
<1> QED
    BY <1>1, <1>3, <1>5, <1>6 DEF IInv

LEMMA LoadKeeps == ASSUME NEW p \in Proc PROVE IInv /\ Load(p) => IInv'
<1> SUFFICES ASSUME IInv, Load(p) PROVE IInv'
    OBVIOUS
<1>1. /\ phase'[p] = "loaded" /\ \A q \in Proc \ {p} : phase'[q] = phase[q]
      /\ RequestInv' /\ OneInv'
    BY StartingAside DEF Load, Alive
<1>2. Loaded' = Loaded \cup {p} /\ Keyed' = Keyed /\ Keying' = Keying
    BY <1>1 DEF Loaded, Keyed, Keying, Load
<1>3. /\ mem' \in [Proc -> SUBSET Write] /\ mem'[p] = disk
      /\ \A q \in Proc \ {p} : mem'[q] = mem[q]
    BY DEF IInv, TypeOK, Load
<1>4. WriteInv'
    BY <1>2, <1>3 DEF IInv, WriteInv, Load, Loaded
<1>5. KeyInv'
    BY <1>2 DEF IInv, KeyInv, Load, keys
<1>6. TypeOK'
    BY <1>1, <1>3, <1>5, TypesMoved DEF IInv, TypeOK, Load, keys
<1> QED
    BY <1>1, <1>4, <1>5, <1>6 DEF IInv

LEMMA ListenKeeps == ASSUME NEW p \in Proc PROVE IInv /\ Listen(p) => IInv'
<1> SUFFICES ASSUME IInv, Listen(p) PROVE IInv'
    OBVIOUS
<1>1. CASE \E q \in Proc : phase[q] = "serving"
    BY <1>1, EndKeeps DEF IInv, TypeOK, OneInv, Listen, Alive, keys
<1>2. CASE \A q \in Proc : phase[q] # "serving"
    <2>1. phase' = [phase EXCEPT ![p] = "serving"] /\ UNCHANGED <<mem, request, secret, age>>
        BY <1>2 DEF Listen
    <2>2. /\ phase'[p] = "serving" /\ \A q \in Proc \ {p} : phase'[q] = phase[q]
          /\ RequestInv' /\ OneInv'
        BY <1>2, <2>1, StartingAside DEF Listen, Alive
    <2>3. Loaded' = Loaded /\ Keyed' = Keyed /\ Keying' = Keying
        BY <2>2 DEF Loaded, Keyed, Keying, Listen
    <2>4. WriteInv' /\ KeyInv'
        BY <2>1, <2>3 DEF IInv, WriteInv, KeyInv, Listen, keys
    <2>5. TypeOK'
        BY <2>1, <2>2, <2>4, TypesMoved DEF IInv, TypeOK, Listen, keys
    <2> QED
        BY <2>2, <2>4, <2>5 DEF IInv
<1> QED
    BY <1>1, <1>2

LEMMA StutterKeeps == IInv /\ UNCHANGED vars => IInv'
<1> SUFFICES ASSUME IInv, UNCHANGED vars PROVE IInv'
    OBVIOUS
<1>1. OneInv' /\ KeyInv' /\ Loaded' = Loaded
    BY ContentAside DEF vars
<1> QED
    BY <1>1 DEF vars, life, keys, content, IInv, TypeOK, RequestInv, WriteInv

-----------------------------------------------------------------------------
\* The invariant holds of every behaviour of the processes and their scripts.
THEOREM Invariance == Spec => []IInv
<1>1. IInv /\ [Next]_vars => IInv'
    BY ReviveKeeps, WakeKeeps, ExitKeeps, CrashKeeps, ReadKeyKeeps, DrawKeyKeeps, WriteKeyKeeps,
       KeyFailsKeeps, LoadKeeps, ListenKeeps, IssueTokenKeeps, ArriveKeeps, RestartKeeps,
       TickKeeps, SaveKeeps, SaveFailsKeeps, StutterKeeps DEF Next
<1> QED
    BY InitHolds, <1>1, PTL DEF Spec

\* A process that has got past its start has a key, and one at most listens.
THEOREM TypeCorrect == Spec => []TypeOK
<1>1. IInv => TypeOK
    BY DEF IInv
<1> QED
    BY Invariance, <1>1, PTL

\* A write that was answered with success survives shutdowns, deaths and restarts: always
\* where systemd runs the service, and under restart.sh and keepalive.sh until a process
\* saves while another has loaded the same data.
THEOREM AckedDurable == Spec => []AckedWritesKept
<1>1. IInv => AckedWritesKept
    BY DEF IInv, WriteInv, AckedWritesKept, Loaded
<1> QED
    BY Invariance, <1>1, PTL

\* Tokens stay valid over restarts and over deaths while loadOrGenKey (main.go) writes the
\* key, unless a key was drawn over one that could not be read, or by two at once.
THEOREM TokensDurable == Spec => []TokensOutliveRestarts
<1>1. IInv => TokensOutliveRestarts
    BY DEF IInv, KeyInv, TokensOutliveRestarts, Keyed, Loaded
<1> QED
    BY Invariance, <1>1, PTL

=============================================================================
