------------------------------ MODULE Database ------------------------------
(***************************************************************************)
(* database.go: one app's JSON document, the file it is kept in, and the   *)
(* HTTP handlers that mutate it concurrently.  A mutation takes the write  *)
(* lock, edits the tree in memory, rewrites the whole file through a       *)
(* temporary file and a rename, releases the lock and only then publishes. *)
(* Every file operation may fail, and the process may die between any two  *)
(* steps and be started again.                                             *)
(***************************************************************************)
EXTENDS JsonTree, FiniteSets

CONSTANTS
    Writer,      \* the handler goroutines that may be inside a mutation at once
    Requests,    \* the mutations they may ask for: records [op, path, val]
    PushKey,     \* the keys generatePushID may still produce (the bound on pushes)
    Torn,        \* a file whose content is not all written
    NoReq,       \* a writer that has asked for nothing
    Free         \* nobody holds the write lock

\* What the handlers pass on: decodeJSON gives Update a map, Push becomes a put.
ASSUME RequestsAreCalls ==
    \A r \in Requests :
        /\ r = [op |-> r.op, path |-> r.path, val |-> r.val]
        /\ r.op # "push" => IsMutation(r)
        /\ r.op = "push" => r.path \in Path /\ IsTree(r.val)

ASSUME PushKeysAreKeys == PushKey \subseteq Key

ASSUME FreeIsNoWriter == Free \notin Writer

VARIABLES
    root,      \* db.root
    holder,    \* the writer that holds db.mu, or Free
    file,      \* the content of db.path
    tmp,       \* the content of db.path + ".tmp"
    pc,        \* where each writer is in its call
    req,       \* the call it is in
    issued,    \* the push keys generated so far
    up,        \* the process is running
    prior,     \* history: db.root when the lock was taken, while it is held
    standing,  \* history: saved calls no later mutation has touched
    strayed    \* history: since the last save or start, a save failed

vars == <<root, holder, file, tmp, pc, req, issued, up, prior, standing, strayed>>

-----------------------------------------------------------------------------
\* No such file, or one of no bytes: there is not even a root.
NoDoc == [q \in {} |-> Obj]

\* The document load() builds from the file.
Loaded(f) == IF f = NoDoc THEN EmptyDoc ELSE f

\* The call's own nodes are in t as the call left them.
Holds(t, s) == \A p \in Written(s) : At(t, p) = At(Apply(EmptyDoc, s), p)

\* Push calls Set on a child of the path it is given.
Pushed(r, k) == [op |-> "put", path |-> Append(r.path, k), val |-> r.val]

\* The mutations that reach the lock.
Calls ==
    {r \in Requests : r.op # "push"} \cup
    {Pushed(c[1], c[2]) : c \in {r \in Requests : r.op = "push"} \X PushKey}

-----------------------------------------------------------------------------
Init ==
    /\ root = EmptyDoc /\ file = NoDoc /\ tmp = NoDoc
    /\ holder = Free /\ up = TRUE
    /\ pc = [w \in Writer |-> "idle"]
    /\ req = [w \in Writer |-> NoReq]
    /\ issued = {} /\ standing = {} /\ prior = EmptyDoc /\ strayed = FALSE

\* A handler has decoded its request and calls Set, Update, Delete or Push.
Call(w, r) ==
    /\ up /\ pc[w] = "idle" /\ r.op # "push"
    /\ pc' = [pc EXCEPT ![w] = "call"]
    /\ req' = [req EXCEPT ![w] = r]
    /\ UNCHANGED <<root, holder, file, tmp, issued, up, prior, standing, strayed>>

\* Push generates a key first.
CallPush(w, r, k) ==
    /\ up /\ pc[w] = "idle" /\ r.op = "push"
    /\ k \in PushKey \ issued
    /\ issued' = issued \cup {k}
    /\ pc' = [pc EXCEPT ![w] = "call"]
    /\ req' = [req EXCEPT ![w] = Pushed(r, k)]
    /\ UNCHANGED <<root, holder, file, tmp, up, prior, standing, strayed>>

\* Mutant: the tree is edited without waiting for the lock.
MutateUnlocked(w) ==
    /\ up /\ pc[w] = "call"
    /\ holder' = w
    /\ prior' = root
    /\ root' = Apply(root, req[w])
    /\ standing' = {s \in standing : ~ Disturbs(req[w], s)}
    /\ pc' = [pc EXCEPT ![w] = "mutated"]
    /\ UNCHANGED <<file, tmp, req, issued, up, strayed>>

\* db.mu.Lock(), and the edit of the tree in memory.
Mutate(w) ==
    /\ up /\ pc[w] = "call" /\ holder = Free
    /\ holder' = w
    /\ prior' = root
    /\ root' = Apply(root, req[w])
    /\ standing' = {s \in standing : ~ Disturbs(req[w], s)}
    /\ pc' = [pc EXCEPT ![w] = "mutated"]
    /\ UNCHANGED <<file, tmp, req, issued, up, strayed>>

\* Mutant: the document's file itself is truncated first.
OpenInPlace(w) ==
    /\ up /\ pc[w] = "mutated"
    /\ file' = Torn /\ tmp' = Torn
    /\ pc' = [pc EXCEPT ![w] = "writing"]
    /\ UNCHANGED <<root, holder, req, issued, up, prior, standing, strayed>>

\* save: os.WriteFile truncates the temporary file ...
OpenTmp(w) ==
    /\ up /\ pc[w] = "mutated"
    /\ tmp' = Torn
    /\ pc' = [pc EXCEPT ![w] = "writing"]
    /\ UNCHANGED <<root, holder, file, req, issued, up, prior, standing, strayed>>

\* ... writes the document marshalled under the lock, and closes it.
WriteTmp(w) ==
    /\ up /\ pc[w] = "writing"
    /\ tmp' = root
    /\ pc' = [pc EXCEPT ![w] = "written"]
    /\ UNCHANGED <<root, holder, file, req, issued, up, prior, standing, strayed>>

\* os.Rename replaces the file by the temporary one; Unlock follows.
Commit(w) ==
    /\ up /\ pc[w] = "written"
    /\ file' = tmp /\ tmp' = NoDoc
    /\ holder' = Free /\ prior' = EmptyDoc
    /\ standing' = standing \cup {req[w]}
    /\ strayed' = FALSE
    /\ pc' = [pc EXCEPT ![w] = "publish"]
    /\ UNCHANGED <<root, req, issued, up>>

\* Mutant: the early return after a failed save leaves the lock held.
SaveFailsLocked(w) ==
    /\ up /\ pc[w] \in {"mutated", "writing", "written"}
    /\ strayed' = TRUE
    /\ pc' = [pc EXCEPT ![w] = "idle"]
    /\ req' = [req EXCEPT ![w] = NoReq]
    /\ UNCHANGED <<root, holder, file, tmp, issued, up, prior, standing>>

\* Any operation of save fails: the lock is released, the error returned, and
\* the tree in memory keeps the edit.
SaveFails(w) ==
    /\ up /\ pc[w] \in {"mutated", "writing", "written"}
    /\ holder' = Free /\ prior' = EmptyDoc
    /\ strayed' = TRUE
    /\ pc' = [pc EXCEPT ![w] = "idle"]
    /\ req' = [req EXCEPT ![w] = NoReq]
    /\ UNCHANGED <<root, file, tmp, issued, up, standing>>

\* The event goes to the hub and the call returns without an error.
Publish(w) ==
    /\ up /\ pc[w] = "publish"
    /\ pc' = [pc EXCEPT ![w] = "idle"]
    /\ req' = [req EXCEPT ![w] = NoReq]
    /\ UNCHANGED <<root, holder, file, tmp, issued, up, prior, standing, strayed>>

\* The process dies: what is in memory is lost, both files stay as they are.
Crash ==
    /\ up
    /\ up' = FALSE
    /\ root' = EmptyDoc /\ prior' = EmptyDoc /\ holder' = Free /\ strayed' = FALSE
    /\ pc' = [w \in Writer |-> "idle"]
    /\ req' = [w \in Writer |-> NoReq]
    /\ UNCHANGED <<file, tmp, issued, standing>>

\* Mutant: the start does not read the file.
LoadNothing ==
    /\ ~ up
    /\ up' = TRUE
    /\ root' = EmptyDoc
    /\ UNCHANGED <<holder, file, tmp, pc, req, issued, prior, standing, strayed>>

\* New and load at the next start; a file that does not parse ends the start.
Load ==
    /\ ~ up /\ file # Torn
    /\ up' = TRUE
    /\ root' = Loaded(file)
    /\ UNCHANGED <<holder, file, tmp, pc, req, issued, prior, standing, strayed>>

Proceed(w) == OpenTmp(w) \/ WriteTmp(w) \/ Commit(w) \/ Publish(w)

Next ==
    \/ \E w \in Writer :
        \/ \E r \in Requests : Call(w, r) \/ (\E k \in PushKey : CallPush(w, r, k))
        \/ Mutate(w) \/ Proceed(w) \/ SaveFails(w)
    \/ Crash
    \/ Load

\* A goroutine that can run is run, and sync.RWMutex serves writers in turn.
Fairness == \A w \in Writer : WF_vars(Proceed(w)) /\ SF_vars(Mutate(w))

Spec == Init /\ [][Next]_vars /\ Fairness

-----------------------------------------------------------------------------
FileDoc == Loaded(file)

\* The promise of TreeStore.  While a writer holds the lock its edit is visible
\* to no one: the abstract memory is still the one it found.
Store == INSTANCE TreeStore WITH
    mem <- IF ~ up THEN FileDoc ELSE IF holder = Free THEN root ELSE prior,
    disk <- FileDoc,
    pc <- [w \in Writer |-> IF pc[w] \in {"mutated", "writing", "written"}
                            THEN "call" ELSE pc[w]]

\* Every behaviour of the locked, file-writing, crashing database is one of the
\* abstract store's: mutations are atomic to readers, a failed one is never
\* half visible, and a restart finds exactly what the last saved one left.
ImplementsStore == Store!SafetySpec

Saving == {"mutated", "writing", "written"}

TypeOK ==
    /\ IsDoc(root) /\ IsDoc(prior)
    /\ file = NoDoc \/ IsDoc(file)
    /\ tmp \in {NoDoc, Torn} \/ IsDoc(tmp)
    /\ holder \in Writer \cup {Free}
    /\ pc \in [Writer -> {"idle", "call", "publish"} \cup Saving]
    /\ req \in [Writer -> Calls \cup {NoReq}]
    /\ \A w \in Writer : pc[w] # "idle" => req[w] \in Calls
    /\ issued \subseteq PushKey /\ standing \subseteq Calls
    /\ up \in BOOLEAN /\ strayed \in BOOLEAN

\* A saved mutation that no later one has touched, saved or not, survives: it is
\* in the file, through every later rewrite, failure, crash and restart, and it
\* is what a reader of the running process finds.
SavedCallsStand ==
    \A s \in standing :
        /\ Holds(FileDoc, s)
        /\ up => Holds(root, s)

\* Memory and file part only while a save is running or after one has failed;
\* the next save that succeeds brings all of memory to the file.
MemoryMatchesFile == up /\ holder = Free /\ ~ strayed => root = FileDoc

\* The lock does what save relies on: the temporary file is written and renamed
\* by its holder alone, so what is renamed is whole and is the holder's edit.
OneSaver ==
    \A w \in Writer : pc[w] \in Saving =>
        /\ holder = w
        /\ root = Apply(prior, req[w])
        /\ pc[w] = "written" => tmp = root

\* Every call returns, whatever fails, unless the process dies first.
CallsReturn == \A w \in Writer : pc[w] # "idle" ~> pc[w] = "idle"

=============================================================================
