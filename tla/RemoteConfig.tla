---------------------------- MODULE RemoteConfig ----------------------------
(***************************************************************************)
(* remoteconfig.go: the parameters of an application, in memory and in a   *)
(* file that every change overwrites in place.  A change holds the lock    *)
(* from its first look at the parameters to the end of the write.  Set     *)
(* replaces them once they are written, Merge and DeleteKey change them    *)
(* first and do not undo that when the write fails.  The process may die   *)
(* between any two steps and start again.                                  *)
(***************************************************************************)
EXTENDS Functions

CONSTANTS
    Key, Value,
    Absent,         \* a key without a value, also the outcome of deleting it
    Nil,            \* the nil map, which JSON null is read as
    NoFile, Torn,   \* the file missing, or not a document
    None

Params == UNION {[K -> Value] : K \in SUBSET Key}

\* A change in progress: how far it is, what it will write, the keys it is about, and
\* whether it is a Set.
Change == [step : {"edited", "opened", "panicking"}, doc : Params \cup {Nil},
           keys : SUBSET Key, set : BOOLEAN]

ASSUME ConfigConstants ==
    /\ Absent \notin Value /\ None \notin Value \cup {Absent} /\ None \notin Change
    /\ {Nil, NoFile, Torn} \cap Params = {} /\ Nil \notin {NoFile, Torn} /\ NoFile # Torn

VARIABLES
    up,         \* the process is running
    params,     \* rc.params
    file,       \* the same, on disk
    call,       \* the change that holds rc.mu, or None
    acked,      \* history: what the last call that succeeded left of each key, None
                \* if one has since failed after changing it in memory
    doubtful    \* history: keys the file may hold otherwise, left by a Set that failed

configVars == <<up, params, file, call, acked, doubtful>>

-----------------------------------------------------------------------------
Empty == [k \in {} |-> Absent]
Val(p, k) == IF p = Nil \/ k \notin DOMAIN p THEN Absent ELSE p[k]
Merged(p, upd) == [k \in DOMAIN p \cup DOMAIN upd |-> IF k \in DOMAIN upd THEN upd[k] ELSE p[k]]
Without(p, k) == IF p = Nil THEN Nil ELSE Restrict(p, DOMAIN p \ {k})

ConfigInit ==
    /\ up = FALSE /\ params = Empty
    /\ file = NoFile /\ call = None
    /\ acked = [k \in Key |-> Absent] /\ doubtful = {}

\* Mutant: without a file there is no map either.
StartNil ==
    /\ ~ up /\ file # Torn
    /\ up' = TRUE
    /\ params' = IF file = NoFile THEN Nil ELSE file
    /\ UNCHANGED <<file, call, acked, doubtful>>

\* newRemoteConfig refuses a file that is not a document; null makes the map nil.
Start ==
    /\ ~ up /\ file # Torn
    /\ up' = TRUE
    /\ params' = IF file = NoFile THEN Empty ELSE file
    /\ UNCHANGED <<file, call, acked, doubtful>>

Locked == up /\ call = None

\* Mutant: Set installs the parameters before it writes them.
SetFirst(p) ==
    /\ Locked
    /\ params' = p
    /\ call' = [step |-> "edited", doc |-> p, keys |-> Key, set |-> TRUE]
    /\ UNCHANGED <<up, file, acked, doubtful>>

\* Set takes the lock; p is what it is to write.
Set(p) ==
    /\ Locked
    /\ call' = [step |-> "edited", doc |-> p, keys |-> Key, set |-> TRUE]
    /\ UNCHANGED <<up, params, file, acked, doubtful>>

\* Merge changes the parameters under the lock ...
Merge(upd) ==
    /\ Locked /\ params # Nil
    /\ params' = Merged(params, upd)
    /\ call' = [step |-> "edited", doc |-> params', keys |-> DOMAIN upd, set |-> FALSE]
    /\ UNCHANGED <<up, file, acked, doubtful>>

\* ... writing to a nil map panics, with the lock held ...
MergeNil(upd) ==
    /\ Locked /\ params = Nil
    /\ call' = [step |-> IF upd = Empty THEN "edited" ELSE "panicking",
                doc |-> Nil, keys |-> {}, set |-> FALSE]
    /\ UNCHANGED <<up, params, file, acked, doubtful>>

\* Mutant: the lock is released at the end of Merge, which a panic does not reach.
PanicLocked ==
    /\ up /\ call # None /\ call.step = "panicking"
    /\ call' = [call EXCEPT !.step = "lost"]
    /\ UNCHANGED <<up, params, file, acked, doubtful>>

\* ... which the deferred Unlock releases; the server ends the request.
Panic ==
    /\ up /\ call # None /\ call.step = "panicking"
    /\ call' = None
    /\ UNCHANGED <<up, params, file, acked, doubtful>>

DeleteKey(k) ==
    /\ Locked
    /\ params' = Without(params, k)
    /\ call' = [step |-> "edited", doc |-> params', keys |-> {k}, set |-> FALSE]
    /\ UNCHANGED <<up, file, acked, doubtful>>

\* All end with WriteFile, which empties the file ...
OpenFile ==
    /\ up /\ call # None /\ call.step = "edited"
    /\ file' = Torn
    /\ call' = [call EXCEPT !.step = "opened"]
    /\ UNCHANGED <<up, params, acked, doubtful>>

\* Mutant: Merge writes the keys it was given and not all there are.
WriteUpdates ==
    /\ up /\ call # None /\ call.step = "opened"
    /\ file' = IF call.doc = Nil THEN Nil ELSE Restrict(call.doc, DOMAIN call.doc \cap call.keys)
    /\ params' = IF call.set THEN call.doc ELSE params
    /\ acked' = [k \in Key |-> IF k \in call.keys THEN Val(call.doc, k) ELSE acked[k]]
    /\ doubtful' = {}
    /\ call' = None
    /\ UNCHANGED up

\* ... and writes it; then Set replaces the parameters.
WriteFile ==
    /\ up /\ call # None /\ call.step = "opened"
    /\ file' = call.doc
    /\ params' = IF call.set THEN call.doc ELSE params
    /\ acked' = [k \in Key |-> IF k \in call.keys THEN Val(call.doc, k) ELSE acked[k]]
    /\ doubtful' = {}
    /\ call' = None
    /\ UNCHANGED up

\* Or WriteFile fails, before the file is open, in the middle, or when it is closed.
WriteFails ==
    /\ up /\ call # None /\ call.step \in {"edited", "opened"}
    /\ file' \in IF call.step = "edited" THEN {file} ELSE {Torn, call.doc}
    /\ IF call.set
       THEN doubtful' = call.keys /\ UNCHANGED acked
       ELSE acked' = [k \in Key |-> IF k \in call.keys THEN None ELSE acked[k]] /\ UNCHANGED doubtful
    /\ call' = None
    /\ UNCHANGED <<up, params>>

\* The process dies: the file stays as it is.
Crash ==
    /\ up /\ up' = FALSE
    /\ params' = Empty /\ call' = None
    /\ acked' = [k \in Key |-> IF k \in doubtful THEN None ELSE acked[k]]
    /\ doubtful' = {}
    /\ UNCHANGED file

ConfigNext ==
    \/ Start \/ Crash
    \/ \E p \in Params \cup {Nil} : Set(p)
    \/ \E upd \in Params : Merge(upd) \/ MergeNil(upd)
    \/ Panic
    \/ \E k \in Key : DeleteKey(k)
    \/ OpenFile \/ WriteFile \/ WriteFails

\* A call that has the lock goes on.
ConfigSpec == ConfigInit /\ [][ConfigNext]_configVars /\ WF_configVars(Panic \/ OpenFile \/ WriteFile \/ WriteFails)

-----------------------------------------------------------------------------
\* The map is nil only if null has been written to the file.
ConfigTypeOK ==
    /\ up \in BOOLEAN
    /\ params \in Params \cup {Nil}
    /\ file \in Params \cup {Nil, NoFile, Torn}
    /\ call \in Change \cup {None}
    /\ acked \in [Key -> Value \cup {Absent, None}] /\ doubtful \subseteq Key
    /\ params = Nil => file # NoFile

\* Each key has in memory what the last call that succeeded left of it, unless a failed
\* Merge or DeleteKey has changed it since; a failed Set changes nothing there.  The
\* file has it too, so a restart brings it back, if it is a document and no Set failed
\* since.
SavedParamsStand ==
    \A k \in Key : acked[k] # None =>
        /\ up /\ call = None => Val(params, k) = acked[k]
        /\ file \notin {NoFile, Torn} /\ k \notin doubtful => Val(file, k) = acked[k]

\* Every call returns, and with it the lock, also when Merge panics on the nil map that
\* a Set of null has left.
CallsReturn == call # None ~> call = None

=============================================================================
