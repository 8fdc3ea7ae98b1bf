------------------------------ MODULE Process ------------------------------
(***************************************************************************)
(* main.go and the scripts that run it: a process loads or draws the key   *)
(* that signs tokens, loads the data, listens, and on a signal waits for   *)
(* its requests, but not longer than a timeout.  systemd starts the next   *)
(* process when the last has gone; restart.sh, without systemd, sleeps     *)
(* after the signal and starts it then, whether the last has gone or not,  *)
(* and the cron job keepalive.sh starts one when it finds none.  All work  *)
(* on one data directory.  The data is the set of the writes in it, and a  *)
(* write with its save is one step, as TreeStore has it.  admin.key is     *)
(* kept as secret.key is.                                                  *)
(***************************************************************************)
EXTENDS Integers, FiniteSets

CONSTANTS
    Proc,           \* the processes, in the order in which they are started
    Write,          \* the requests that write (the bound on requests)
    Key,            \* the keys rand.Read yields, each once
    Drain, Sleep,   \* seconds: Shutdown's timeout, the sleep of restart.sh
    NoFile, Empty, None

ASSUME ProcessConstants ==
    /\ Proc \subseteq Nat /\ Drain \in Nat /\ Sleep \in Nat
    /\ None \notin Nat /\ NoFile # Empty
    /\ Empty \notin [key : Key, whole : BOOLEAN]

VARIABLES
    systemd,    \* whether systemd runs the service, restart.sh and cron otherwise
    phase,      \* where each process is
    secret,     \* its masterSecret
    mem,        \* the writes in its memory
    age,        \* the seconds since it was told to stop
    pidfile,    \* the process last started
    slept,      \* the seconds restart.sh has slept, None if it does not
    keyFile,    \* secret.key: a key, whole or cut off, or none
    disk,       \* the writes in the data directory
    request,    \* each request's progress and its process
    drawn,      \* history: the keys drawn
    tokens,     \* history: the secrets under which tokens were issued
    acked,      \* history: the writes answered with success
    rekeyed,    \* history: a key was drawn although there was one, or twice at once
    overlapped  \* history: a process has saved while another had loaded the data

life == <<phase, secret, age, pidfile, slept>>
keys == <<keyFile, drawn, rekeyed>>
content == <<mem, disk, request, acked, overlapped>>
vars == <<systemd, life, keys, content, tokens>>

-----------------------------------------------------------------------------
KeyContent == [key : Key, whole : BOOLEAN]
Idle == [step |-> "new", proc |-> None]
Over == [step |-> "over", proc |-> None]

Alive(p) == phase[p] \notin {"new", "gone"}
Dead == pidfile \notin {p \in Proc : Alive(p)}
Loaded == {p \in Proc : phase[p] \in {"loaded", "serving", "draining"}}
Running(p) == {w \in Write : request[w] = [step |-> "running", proc |-> p]}

Init ==
    /\ systemd \in BOOLEAN
    /\ phase = [p \in Proc |-> "new"] /\ secret = [p \in Proc |-> None]
    /\ mem = [p \in Proc |-> {}] /\ age = [p \in Proc |-> 0]
    /\ pidfile = None /\ slept = None
    /\ keyFile = NoFile /\ disk = {}
    /\ request = [w \in Write |-> Idle]
    /\ drawn = {} /\ tokens = {} /\ acked = {}
    /\ rekeyed = FALSE /\ overlapped = FALSE

\* The end of a process: its connections are cut.
End(p) ==
    /\ request' = [w \in Write |-> IF w \in Running(p) THEN Over ELSE request[w]]
    /\ mem' = [mem EXCEPT ![p] = {}]
    /\ secret' = [secret EXCEPT ![p] = None]
    /\ age' = [age EXCEPT ![p] = 0]

-----------------------------------------------------------------------------
\* The next process starts.
Launch(p) ==
    /\ phase[p] = "new" /\ \A q \in Proc : q < p => phase[q] # "new"
    /\ phase' = [phase EXCEPT ![p] = "started"]
    /\ pidfile' = p
    /\ UNCHANGED <<systemd, secret, age, keys, content, tokens>>

\* systemd's Restart, keepalive.sh, or a restart.sh that finds no process to stop.
Revive(p) == Dead /\ Launch(p) /\ UNCHANGED slept

\* restart.sh has slept: it does not look whether the process has gone.
Wake(p) ==
    /\ slept = Sleep /\ slept' = None
    /\ Launch(p)

\* A new version is deployed: the process is sent a signal, which ends it before it
\* listens and makes it shut down after; restart.sh goes to sleep.
Restart ==
    /\ ~ Dead /\ slept = None
    /\ LET p == pidfile
       IN  IF phase[p] \in {"serving", "draining"}
           THEN phase' = [phase EXCEPT ![p] = "draining"] /\ UNCHANGED <<mem, request, secret, age>>
           ELSE phase' = [phase EXCEPT ![p] = "gone"] /\ End(p)
    /\ slept' = IF systemd THEN None ELSE 0
    /\ UNCHANGED <<systemd, pidfile, keys, disk, acked, overlapped, tokens>>

\* A second passes, for what waits for time; a timeout that is over is not kept waiting.
Tick ==
    /\ \A p \in Proc : phase[p] = "draining" => age[p] < Drain
    /\ slept \notin {None, Sleep} \/ \E p \in Proc : phase[p] = "draining"
    /\ age' = [p \in Proc |-> IF phase[p] = "draining" THEN age[p] + 1 ELSE age[p]]
    /\ slept' = IF slept \in {None, Sleep} THEN slept ELSE slept + 1
    /\ UNCHANGED <<systemd, phase, secret, pidfile, keys, content, tokens>>

\* Mutant: Shutdown without a timeout.
ExitWhenIdle(p) ==
    /\ phase[p] = "draining" /\ Running(p) = {}
    /\ phase' = [phase EXCEPT ![p] = "gone"]
    /\ End(p)
    /\ UNCHANGED <<systemd, pidfile, slept, keys, disk, acked, overlapped, tokens>>

\* Shutdown returns when no request is running, or at its timeout, and main with it.
Exit(p) ==
    /\ phase[p] = "draining" /\ (Running(p) = {} \/ age[p] = Drain)
    /\ phase' = [phase EXCEPT ![p] = "gone"]
    /\ End(p)
    /\ UNCHANGED <<systemd, pidfile, slept, keys, disk, acked, overlapped, tokens>>

\* The process dies, or the host kills it.
Crash(p) ==
    /\ Alive(p)
    /\ phase' = [phase EXCEPT ![p] = "gone"]
    /\ End(p)
    /\ UNCHANGED <<systemd, pidfile, slept, keys, disk, acked, overlapped, tokens>>

-----------------------------------------------------------------------------
\* Mutant: a file that exists holds a key.
ReadAnyKey(p) ==
    /\ phase[p] = "started" /\ keyFile # NoFile
    /\ secret' = [secret EXCEPT ![p] = keyFile]
    /\ phase' = [phase EXCEPT ![p] = "keyed"]
    /\ UNCHANGED <<systemd, age, pidfile, slept, keys, content, tokens>>

\* loadOrGenKey takes what the file holds, if it holds anything ...
ReadKey(p) ==
    /\ phase[p] = "started" /\ keyFile \in KeyContent
    /\ secret' = [secret EXCEPT ![p] = keyFile]
    /\ phase' = [phase EXCEPT ![p] = "keyed"]
    /\ UNCHANGED <<systemd, age, pidfile, slept, keys, content, tokens>>

\* ... or, also when the file cannot be read, draws a key and empties the file ...
DrawKey(p) ==
    /\ phase[p] = "started"
    /\ \E k \in Key \ drawn :
        /\ secret' = [secret EXCEPT ![p] = [key |-> k, whole |-> TRUE]]
        /\ drawn' = drawn \cup {k}
    /\ phase' = [phase EXCEPT ![p] = "keying"]
    /\ keyFile' = Empty
    /\ rekeyed' = (rekeyed \/ keyFile \in KeyContent \/ \E q \in Proc : phase[q] = "keying")
    /\ UNCHANGED <<systemd, age, pidfile, slept, content, tokens>>

\* Mutant: the key that was drawn is not kept.
WriteNoKey(p) ==
    /\ phase[p] = "keying"
    /\ phase' = [phase EXCEPT ![p] = "keyed"]
    /\ UNCHANGED <<systemd, secret, age, pidfile, slept, keys, content, tokens>>

\* ... and writes it ...
WriteKey(p) ==
    /\ phase[p] = "keying"
    /\ keyFile' = secret[p]
    /\ phase' = [phase EXCEPT ![p] = "keyed"]
    /\ UNCHANGED <<systemd, secret, age, pidfile, slept, drawn, rekeyed, content, tokens>>

\* ... or fails to, which ends the process; what was written stays.
KeyFails(p) ==
    /\ phase[p] = "keying"
    /\ keyFile' \in {keyFile, [secret[p] EXCEPT !.whole = FALSE], secret[p]}
    /\ phase' = [phase EXCEPT ![p] = "gone"]
    /\ End(p)
    /\ UNCHANGED <<systemd, pidfile, slept, drawn, rekeyed, disk, acked, overlapped, tokens>>

\* apps.New loads the data.
Load(p) ==
    /\ phase[p] = "keyed"
    /\ phase' = [phase EXCEPT ![p] = "loaded"]
    /\ mem' = [mem EXCEPT ![p] = disk]
    /\ UNCHANGED <<systemd, secret, age, pidfile, slept, keys, disk, request, acked,
                   overlapped, tokens>>

\* One process can have the port: another ends.
Listen(p) ==
    /\ phase[p] = "loaded"
    /\ IF \E q \in Proc : phase[q] = "serving"
       THEN phase' = [phase EXCEPT ![p] = "gone"] /\ End(p)
       ELSE phase' = [phase EXCEPT ![p] = "serving"] /\ UNCHANGED <<mem, request, secret, age>>
    /\ UNCHANGED <<systemd, pidfile, slept, keys, disk, acked, overlapped, tokens>>

-----------------------------------------------------------------------------
\* A user registers or logs in.
IssueToken(p) ==
    /\ phase[p] = "serving"
    /\ tokens' = tokens \cup {secret[p]}
    /\ UNCHANGED <<systemd, life, keys, content>>

\* A request that will write, once its body has come.
Arrive(w, p) ==
    /\ phase[p] = "serving" /\ request[w] = Idle
    /\ request' = [request EXCEPT ![w] = [step |-> "running", proc |-> p]]
    /\ UNCHANGED <<systemd, life, keys, mem, disk, acked, overlapped, tokens>>

\* It changes the process's tree and saves the whole of it.
Save(w) ==
    /\ request[w].step = "running"
    /\ LET p == request[w].proc
       IN  /\ mem' = [mem EXCEPT ![p] = @ \cup {w}]
           /\ disk' = mem'[p]
           /\ overlapped' = (overlapped \/ Loaded # {p})
    /\ request' = [request EXCEPT ![w] = Over]
    /\ acked' = acked \cup {w}
    /\ UNCHANGED <<systemd, life, keys, tokens>>

\* Mutant: the handler does not look at the error of a save.
SaveFailsAcked(w) ==
    /\ request[w].step = "running"
    /\ mem' = [mem EXCEPT ![request[w].proc] = @ \cup {w}]
    /\ request' = [request EXCEPT ![w] = Over]
    /\ acked' = acked \cup {w}
    /\ UNCHANGED <<systemd, life, keys, disk, overlapped, tokens>>

\* Or the save fails: the change stays in memory, the answer is an error.
SaveFails(w) ==
    /\ request[w].step = "running"
    /\ mem' = [mem EXCEPT ![request[w].proc] = @ \cup {w}]
    /\ request' = [request EXCEPT ![w] = Over]
    /\ UNCHANGED <<systemd, life, keys, disk, acked, overlapped, tokens>>

Next ==
    \/ \E p \in Proc :
        \/ Revive(p) \/ Wake(p) \/ Exit(p) \/ Crash(p)
        \/ ReadKey(p) \/ DrawKey(p) \/ WriteKey(p) \/ KeyFails(p)
        \/ Load(p) \/ Listen(p) \/ IssueToken(p)
        \/ \E w \in Write : Arrive(w, p)
    \/ Restart \/ Tick
    \/ \E w \in Write : Save(w) \/ SaveFails(w)

\* Time passes and main goes on; nothing is asked of requests, whose clients may never
\* end them, as those of streams never do.
Spec == Init /\ [][Next]_vars /\ WF_vars(Tick) /\ \A p \in Proc : WF_vars(Exit(p))

-----------------------------------------------------------------------------
\* A process that has got past its start signs with some key, and one at most listens.
TypeOK ==
    /\ systemd \in BOOLEAN
    /\ phase \in [Proc -> {"new", "started", "keying", "keyed", "loaded", "serving",
                           "draining", "gone"}]
    /\ secret \in [Proc -> KeyContent \cup {None}]
    /\ \A p \in Loaded : secret[p] \in KeyContent
    /\ Cardinality({p \in Proc : phase[p] = "serving"}) <= 1
    /\ mem \in [Proc -> SUBSET Write] /\ disk \subseteq Write /\ acked \subseteq Write
    /\ age \in [Proc -> 0 .. Drain] /\ slept \in {None} \cup 0 .. Sleep
    /\ pidfile \in Proc \cup {None}
    /\ keyFile \in KeyContent \cup {NoFile, Empty}
    /\ \A w \in Write : request[w].step \in {"new", "running", "over"}
    /\ drawn \subseteq Key /\ tokens \subseteq KeyContent
    /\ rekeyed \in BOOLEAN /\ overlapped \in BOOLEAN

\* A write that was answered with success is on disk and in every process that serves,
\* over shutdowns that cut requests off, crashes and restarts; always under systemd, and
\* under the scripts until a process saves while another has loaded the same data.
AckedWritesKept ==
    systemd \/ ~ overlapped =>
        /\ acked \subseteq disk
        /\ \A p \in Proc : phase[p] \in {"loaded", "serving"} => acked \subseteq mem[p]

\* Tokens stay valid over restarts and over deaths while the key is being written, unless
\* a start could not read the key there was, or two processes drew one at the same time.
TokensOutliveRestarts ==
    ~ rekeyed => \A p \in Proc : phase[p] = "serving" => tokens \subseteq {secret[p]}

\* A process that is told to stop stops, although streams and slow clients never end
\* their requests.
ShutdownEnds == \A p \in Proc : phase[p] = "draining" ~> phase[p] = "gone"

\* web/index.html:645 says that data is stored on disk: a write that was answered with
\* success stays there.
AckedOnDisk == acked \subseteq disk

=============================================================================
