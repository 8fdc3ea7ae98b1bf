------------------------------ MODULE RuleStore ------------------------------
(***************************************************************************)
(* rules.go, the rules an application has: the document in force and the   *)
(* file it is kept in.  Update writes the file with os.WriteFile, which    *)
(* truncates it and then writes it, and puts the document into force       *)
(* afterwards; only that last step takes the lock, so two updates mix      *)
(* their steps.  A write may fail, and the process may die between any two *)
(* steps; New reads the file when it starts again.  What the rules say is  *)
(* module Rules.                                                           *)
(***************************************************************************)

CONSTANTS
    Doc,        \* the documents a file may hold when the process first starts
    Posted,     \* those that Update is called with
    Default,    \* the rules of an application that has no file
    Updater,    \* the calls of Update that may be in progress at once
    NoFile, Empty, Torn,    \* the other states of the file; Torn: not a document
    None

ASSUME RuleStoreConstants ==
    /\ Posted \subseteq Doc /\ Default \in Doc
    /\ {NoFile, Empty, Torn, None} \cap Doc = {}
    /\ NoFile \notin {Empty, Torn}

VARIABLES
    up,         \* the process is running
    root,       \* rs.root, the document in force, None when the process is down
    file,       \* rules.json
    updater,    \* each call's progress: the document and the step it has done
    alone,      \* history: the call beside which no other has run, if there is one
    astray      \* history: since the last start or the last update that ran alone to
                \* its end, one failed or ran beside another

vars == <<up, root, file, updater, alone, astray>>

-----------------------------------------------------------------------------
Call == [step : {"opened", "written"}, doc : Posted]
Idle == [step |-> "idle", doc |-> None]
Busy == {u \in Updater : updater[u].step # "idle"}

Init ==
    /\ up = FALSE /\ root = None
    /\ file \in Doc \cup {NoFile}
    /\ updater = [u \in Updater |-> Idle]
    /\ alone = {} /\ astray = FALSE

\* Mutant: a file that cannot be parsed stands for no document.
StartAnyway ==
    /\ ~ up /\ up' = TRUE
    /\ root' = IF file = NoFile THEN Default ELSE file
    /\ astray' = FALSE
    /\ UNCHANGED <<file, updater, alone>>

\* New reads the file; without one the default is in force and no file is written,
\* and a file that is not a document ends the start.
Start ==
    /\ ~ up /\ file \in Doc \cup {NoFile}
    /\ up' = TRUE
    /\ root' = IF file = NoFile THEN Default ELSE file
    /\ astray' = FALSE
    /\ UNCHANGED <<file, updater, alone>>

\* Update has parsed the document it was given, and WriteFile opens the file.
Truncate(u) ==
    /\ up /\ u \notin Busy
    /\ \E doc \in Posted :
        updater' = [updater EXCEPT ![u] = [step |-> "opened", doc |-> doc]]
    /\ file' = Empty
    /\ alone' = IF Busy = {} THEN {u} ELSE {}
    /\ astray' = (astray \/ Busy # {})
    /\ UNCHANGED <<up, root>>

\* Mutant: the document comes into force without having been written.
WriteNothing(u) ==
    /\ up /\ updater[u].step = "opened"
    /\ updater' = [updater EXCEPT ![u].step = "written"]
    /\ UNCHANGED <<up, root, file, alone, astray>>

\* Then it writes from the start of the file; what another call has written since
\* shows behind a document that is shorter.
WriteFile(u) ==
    /\ up /\ updater[u].step = "opened"
    /\ LET doc == updater[u].doc
       IN  file' \in IF file \in {Empty, doc} THEN {doc} ELSE {doc, Torn}
    /\ updater' = [updater EXCEPT ![u].step = "written"]
    /\ UNCHANGED <<up, root, alone, astray>>

\* Or the write fails, after none of the document, some or, if it is the close that
\* fails, all of it: Update returns the error.
WriteFails(u) ==
    /\ up /\ updater[u].step = "opened"
    /\ file' \in {file, Torn, updater[u].doc}
    /\ updater' = [updater EXCEPT ![u] = Idle]
    /\ alone' = alone \ {u} /\ astray' = TRUE
    /\ UNCHANGED <<up, root>>

\* Mutant: the document in force is not replaced.
InstallNothing(u) ==
    /\ up /\ updater[u].step = "written"
    /\ updater' = [updater EXCEPT ![u] = Idle]
    /\ alone' = alone \ {u} /\ astray' = (astray /\ u \notin alone)
    /\ UNCHANGED <<up, root, file>>

\* Last it puts the document into force, under the lock.
Install(u) ==
    /\ up /\ updater[u].step = "written"
    /\ root' = updater[u].doc
    /\ updater' = [updater EXCEPT ![u] = Idle]
    /\ alone' = alone \ {u} /\ astray' = (astray /\ u \notin alone)
    /\ UNCHANGED <<up, file>>

\* The process dies: the file stays as it is.
Crash ==
    /\ up /\ up' = FALSE
    /\ root' = None
    /\ updater' = [u \in Updater |-> Idle]
    /\ alone' = {} /\ astray' = FALSE
    /\ UNCHANGED file

Next ==
    \/ Start \/ Crash
    \/ \E u \in Updater : Truncate(u) \/ WriteFile(u) \/ WriteFails(u) \/ Install(u)

Spec == Init /\ [][Next]_vars

-----------------------------------------------------------------------------
\* A running process always has a document in force.
TypeOK ==
    /\ up \in BOOLEAN /\ astray \in BOOLEAN
    /\ root \in IF up THEN Doc ELSE {None}
    /\ file \in Doc \cup {NoFile, Empty, Torn}
    /\ updater \in [Updater -> {Idle} \cup Call]
    /\ alone \subseteq Busy

\* With no update in progress, a restart would bring back the document in force: what
\* Update promises of an update that ran alone and did not fail.
LoneUpdatePersists ==
    up /\ Busy = {} /\ ~ astray =>
        IF file = NoFile THEN root = Default ELSE root = file

=============================================================================
