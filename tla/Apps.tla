-------------------------------- MODULE Apps --------------------------------
(***************************************************************************)
(* manager.go: the registry of applications in memory and in apps.json,    *)
(* and the directory each keeps its data in.  Create and Delete hold the   *)
(* manager's lock from their first look to their last write; a request     *)
(* holds it only to look its application up and then works on what it      *)
(* found, however long that takes.  Any file operation may fail and the    *)
(* process may die and start again.  An application is known by its API    *)
(* key: two with the same identifier, one created after the other was      *)
(* deleted, differ in it.  Its data is the set of the applications whose   *)
(* users wrote something there.                                            *)
(***************************************************************************)
EXTENDS FiniteSets, Functions

CONSTANTS
    Id,         \* identifiers that Create accepts, "default" among them
    Default,    \* "default"
    APIKey,     \* the random keys there are (the bound on creations)
    Handler,    \* the requests that may be in progress at once
    None

ASSUME AppConstants ==
    /\ Default \in Id /\ None \notin Id \cup APIKey
    /\ None \notin [op : {"create", "delete", "removed"}, id : Id]

VARIABLES
    up,          \* the process is running
    apps,        \* m.apps: the API key of each application that is served
    registry,    \* the same, in apps.json
    dir,         \* the data in each identifier's directory
    data,        \* the data each application's services hold in memory
    admin,       \* the Create or Delete that holds m.mu, or None
    handler,     \* the application each request has resolved, or None
    used,        \* the API keys drawn so far
    acked,       \* history: applications that told a user its data is saved
    strayed,     \* history: since the last save or start, a Delete failed to save
    intruded,    \* history: directories a deleted application has written to
    unremoved    \* history: directories whose removal failed

vars == <<up, apps, registry, dir, data, admin, handler, used,
          acked, strayed, intruded, unremoved>>
history == <<acked, strayed, intruded, unremoved>>

-----------------------------------------------------------------------------
NoApps == [id \in {} |-> None]

With(f, id, key) == [i \in DOMAIN f \cup {id} |-> IF i = id THEN key ELSE f[i]]
Without(f, id) == Restrict(f, DOMAIN f \ {id})

\* initServices: the services of an application start from what its directory holds.
Started(f) == [k \in APIKey |-> UNION {dir[id] : id \in {i \in DOMAIN f : f[i] = k}}]

\* os.RemoveAll, whose error nobody looks at.
RemoveAll(id) ==
    \/ /\ dir' = [dir EXCEPT ![id] = {}]
       /\ intruded' = intruded \ {id} /\ unremoved' = unremoved \ {id}
    \/ /\ dir[id] # {}
       /\ unremoved' = unremoved \cup {id}
       /\ UNCHANGED <<dir, intruded>>

Init ==
    /\ up = FALSE
    /\ apps = NoApps /\ registry = NoApps
    /\ dir = [id \in Id |-> {}] /\ data = [k \in APIKey |-> {}]
    /\ admin = None /\ handler = [h \in Handler |-> None]
    /\ used = {} /\ acked = {} /\ strayed = FALSE
    /\ intruded = {} /\ unremoved = {}

-----------------------------------------------------------------------------
\* New: every registered application is started, and "default" is created if it is
\* not among them.  A start that fails ends the process and leaves nothing behind.
Start ==
    /\ ~ up /\ up' = TRUE
    /\ IF Default \in DOMAIN registry
       THEN apps' = registry /\ UNCHANGED used
       ELSE \E k \in APIKey \ used : apps' = With(registry, Default, k) /\ used' = used \cup {k}
    /\ registry' = apps'
    /\ data' = Started(apps')
    /\ UNCHANGED <<dir, admin, handler, history>>

\* Mutant: Create does not look whether the identifier is taken.
CreateUnchecked(id) ==
    /\ up /\ admin = None
    /\ \E k \in APIKey \ used :
        /\ used' = used \cup {k}
        /\ apps' = With(apps, id, k)
        /\ data' = [data EXCEPT ![k] = dir[id]]
    /\ admin' = [op |-> "create", id |-> id]
    /\ UNCHANGED <<up, registry, dir, handler, history>>

\* Create takes the lock, finds the identifier free and starts the services.
Create(id) ==
    /\ up /\ admin = None /\ id \notin DOMAIN apps
    /\ \E k \in APIKey \ used :
        /\ used' = used \cup {k}
        /\ apps' = With(apps, id, k)
        /\ data' = [data EXCEPT ![k] = dir[id]]
    /\ admin' = [op |-> "create", id |-> id]
    /\ UNCHANGED <<up, registry, dir, handler, history>>

\* Mutant: the default application is not protected.
DeleteAny(id) ==
    /\ up /\ admin = None /\ id \in DOMAIN apps
    /\ apps' = Without(apps, id)
    /\ admin' = [op |-> "delete", id |-> id]
    /\ acked' = acked \ {apps[id]}
    /\ UNCHANGED <<up, registry, dir, data, handler, used, strayed, intruded, unremoved>>

\* Delete takes the lock and drops the application; "default" is protected.
Delete(id) ==
    /\ up /\ admin = None /\ id \in DOMAIN apps /\ id # Default
    /\ apps' = Without(apps, id)
    /\ admin' = [op |-> "delete", id |-> id]
    /\ acked' = acked \ {apps[id]}
    /\ UNCHANGED <<up, registry, dir, data, handler, used, strayed, intruded, unremoved>>

\* Mutant: Delete forgets the directory.
KeepData ==
    /\ up /\ admin # None /\ admin.op = "delete"
    /\ admin' = [admin EXCEPT !.op = "removed"]
    /\ UNCHANGED <<up, apps, registry, dir, data, handler, used, history>>

\* Then it removes the directory.
RemoveData ==
    /\ up /\ admin # None /\ admin.op = "delete"
    /\ RemoveAll(admin.id)
    /\ admin' = [admin EXCEPT !.op = "removed"]
    /\ UNCHANGED <<up, apps, registry, data, handler, used, acked, strayed>>

\* Both end by saving the registry.
SaveRegistry ==
    /\ up /\ admin # None /\ admin.op \in {"create", "removed"}
    /\ registry' = apps
    /\ strayed' = FALSE
    /\ admin' = None
    /\ UNCHANGED <<up, apps, dir, data, handler, used, acked, intruded, unremoved>>

\* Mutant: a failed Create leaves the application in the map.
CreateFailsKept ==
    /\ up /\ admin # None /\ admin.op = "create"
    /\ RemoveAll(admin.id)
    /\ admin' = None
    /\ UNCHANGED <<up, apps, registry, data, handler, used, acked, strayed>>

\* If that fails, Create undoes what it did ...
CreateFails ==
    /\ up /\ admin # None /\ admin.op = "create"
    /\ apps' = Without(apps, admin.id)
    /\ RemoveAll(admin.id)
    /\ admin' = None
    /\ UNCHANGED <<up, registry, data, handler, used, acked, strayed>>

\* ... and Delete reports the error of a deletion half done.
DeleteFails ==
    /\ up /\ admin # None /\ admin.op = "removed"
    /\ strayed' = TRUE
    /\ admin' = None
    /\ UNCHANGED <<up, apps, registry, dir, data, handler, used, acked, intruded, unremoved>>

-----------------------------------------------------------------------------
\* resolveApp, for a request of a user of the application.
Resolve(h, id) ==
    /\ up /\ handler[h] = None /\ admin = None /\ id \in DOMAIN apps
    /\ handler' = [handler EXCEPT ![h] = [id |-> id, key |-> apps[id]]]
    /\ UNCHANGED <<up, apps, registry, dir, data, admin, used, history>>

\* The request changes the application's data, which is saved as a whole: save
\* makes the directory if it is not there.
Write(h) ==
    /\ up /\ handler[h] # None
    /\ LET id == handler[h].id
           k  == handler[h].key
           served == id \in DOMAIN apps /\ apps[id] = k
       IN  /\ data' = [data EXCEPT ![k] = @ \cup {k}]
           /\ dir' = [dir EXCEPT ![id] = data'[k]]
           /\ acked' = IF served THEN acked \cup {k} ELSE acked
           /\ intruded' = IF served THEN intruded ELSE intruded \cup {id}
    /\ handler' = [handler EXCEPT ![h] = None]
    /\ UNCHANGED <<up, apps, registry, admin, used, strayed, unremoved>>

\* Or it fails, and only memory changes.
WriteFails(h) ==
    /\ up /\ handler[h] # None
    /\ data' = [data EXCEPT ![handler[h].key] = @ \cup {handler[h].key}]
    /\ handler' = [handler EXCEPT ![h] = None]
    /\ UNCHANGED <<up, apps, registry, dir, admin, used, history>>

\* The process dies: directories and apps.json stay.
Crash ==
    /\ up /\ up' = FALSE
    /\ apps' = NoApps /\ data' = [k \in APIKey |-> {}]
    /\ admin' = None /\ handler' = [h \in Handler |-> None]
    /\ strayed' = FALSE
    /\ UNCHANGED <<registry, dir, used, acked, intruded, unremoved>>

Next ==
    \/ Start \/ Crash
    \/ \E id \in Id : Create(id) \/ Delete(id)
    \/ RemoveData \/ SaveRegistry \/ CreateFails \/ DeleteFails
    \/ \E h \in Handler : (\E id \in Id : Resolve(h, id)) \/ Write(h) \/ WriteFails(h)

Spec == Init /\ [][Next]_vars

-----------------------------------------------------------------------------
\* A running process serves the default application.
TypeOK ==
    /\ up \in BOOLEAN /\ strayed \in BOOLEAN
    /\ DOMAIN apps \subseteq Id /\ apps \in [DOMAIN apps -> used]
    /\ DOMAIN registry \subseteq Id /\ registry \in [DOMAIN registry -> used]
    /\ used \subseteq APIKey /\ acked \subseteq used
    /\ dir \in [Id -> SUBSET used] /\ data \in [APIKey -> SUBSET used]
    /\ admin \in {None} \cup [op : {"create", "delete", "removed"}, id : Id]
    /\ handler \in [Handler -> {None} \cup [id : Id, key : used]]
    /\ intruded \subseteq Id /\ unremoved \subseteq Id
    /\ up => Default \in DOMAIN apps

\* Between admin calls every application served is registered under its API key, so
\* that a restart finds it again; one that is registered but not served is left from
\* a Delete that reported an error.
ServedAreRegistered ==
    up /\ admin = None =>
        /\ \A id \in DOMAIN apps : id \in DOMAIN registry /\ registry[id] = apps[id]
        /\ ~ strayed => registry = apps

\* What an application told its users was saved is in its directory until a Delete
\* takes the application away, unless a deleted one of the same identifier wrote
\* over it.
AckedDataKept ==
    \A id \in DOMAIN registry :
        registry[id] \in acked /\ id \notin intruded => registry[id] \in dir[id]

\* An application never serves or stores another's data, unless a removal failed or
\* a request outlived the deletion of the application it had resolved.
DataIsolated ==
    \A id \in DOMAIN apps \ (intruded \cup unremoved) :
        data[apps[id]] \cup dir[id] \subseteq {apps[id]}

\* manager.go:234 says Delete removes an app and all its data: where the removal did
\* not fail, no application starts with what another one's users wrote.
DeleteRemovesData ==
    \A id \in DOMAIN apps \ unremoved : data[apps[id]] \subseteq {apps[id]}

=============================================================================
