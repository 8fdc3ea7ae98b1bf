----------------------------- MODULE AppsProofs -----------------------------
(***************************************************************************)
(* The registry and the directories, for any number of applications, keys  *)
(* and requests: proofs about module Apps.                                 *)
(***************************************************************************)
EXTENDS Apps, TLAPS

-----------------------------------------------------------------------------
Creating(id) == admin # None /\ admin.op = "create" /\ admin.id = id
Removing(id) == admin # None /\ admin.op = "delete" /\ admin.id = id
Removed(id)  == admin # None /\ admin.op = "removed" /\ admin.id = id

Registered(id, key) == id \in DOMAIN registry /\ registry[id] = key
Served(id, key) == id \in DOMAIN apps /\ apps[id] = key

\* Directories of which something is known: no removal failed, no stranger wrote there.
Sound == Id \ (intruded \cup unremoved)

\* A process that is down serves nothing and does nothing.
DownInv ==
    ~ up => admin = None /\ DOMAIN apps = {} /\ \A h \in Handler : handler[h] = None

\* A key stands for one application, in memory and in the file.
KeysInv ==
    /\ \A i, j \in DOMAIN apps : apps[i] = apps[j] => i = j
    /\ \A i, j \in DOMAIN registry : registry[i] = registry[j] => i = j

\* What is served is registered, but for what is being created; what is registered and
\* not served is being deleted, or left from a deletion that failed.
RegistryInv ==
    up =>
        /\ \A id \in DOMAIN apps : Creating(id) \/ Registered(id, apps[id])
        /\ \A id \in DOMAIN registry :
               strayed \/ Removing(id) \/ Removed(id) \/ Served(id, registry[id])

\* The Create or Delete under way: the new key is nobody else's yet, the application
\* that goes is not served any more.
AdminInv ==
    \A id \in Id :
        /\ Creating(id) =>
              /\ id # Default /\ id \in DOMAIN apps /\ apps[id] \notin acked
              /\ \A h \in Handler : handler[h] # None => handler[h].key # apps[id]
              /\ \A i \in DOMAIN registry : registry[i] # apps[id]
        /\ Removing(id) \/ Removed(id) => id \notin DOMAIN apps
        /\ Removing(id) => id \in DOMAIN registry

\* A request that works for an application still served works for a registered one.
HandlerInv ==
    \A h \in Handler :
        handler[h] # None /\ Served(handler[h].id, handler[h].key) =>
            Registered(handler[h].id, handler[h].key)

\* An application whose users count on their data is served while the process is up.
AckedInv ==
    up => \A id \in DOMAIN registry : registry[id] \in acked => Served(id, registry[id])

\* A sound directory holds data of the registered application only, and none before the
\* application is created and after it is removed.
FilesInv ==
    \A id \in Sound :
        /\ \A k \in dir[id] : Registered(id, k)
        /\ up /\ (Creating(id) \/ (id \notin DOMAIN apps /\ ~ Removing(id))) => dir[id] = {}

\* What is served from a sound directory has only its own data in memory.
DataInv == \A id \in DOMAIN apps \cap Sound : data[apps[id]] \subseteq {apps[id]}

IInv ==
    /\ TypeOK /\ DownInv /\ KeysInv /\ RegistryInv /\ AdminInv /\ HandlerInv
    /\ AckedInv /\ FilesInv /\ DataInv /\ AckedDataKept

-----------------------------------------------------------------------------
\* With no call under way no identifier is in the middle of one.
LEMMA AdminIsNone ==
    ASSUME admin = None
    PROVE  \A i : ~ Creating(i) /\ ~ Removing(i) /\ ~ Removed(i)
BY DEF Creating, Removing, Removed

LEMMA AdminTyped ==
    ASSUME TypeOK, admin # None
    PROVE  admin.id \in Id /\ admin = [op |-> admin.op, id |-> admin.id]
BY DEF TypeOK

\* A removal, whether it succeeds or not, leaves nothing that is both there and sound.
LEMMA AllRemoved ==
    ASSUME TypeOK, NEW id \in Id, RemoveAll(id)
    PROVE  /\ dir' \in [Id -> SUBSET used] /\ intruded' \subseteq Id /\ unremoved' \subseteq Id
           /\ id \in Sound' => dir'[id] = {}
           /\ \A i \in Id \ {id} :
                  /\ dir'[i] = dir[i] /\ (i \in Sound' <=> i \in Sound)
                  /\ i \in intruded' <=> i \in intruded
BY DEF TypeOK, RemoveAll, Sound

-----------------------------------------------------------------------------
LEMMA InitHolds == Init => IInv
<1> SUFFICES ASSUME Init PROVE IInv
    OBVIOUS
<1>1. DOMAIN apps = {} /\ DOMAIN registry = {}
    BY DEF Init, NoApps
<1>2. apps \in [DOMAIN apps -> used] /\ registry \in [DOMAIN registry -> used]
    BY DEF Init, NoApps
<1>3. TypeOK
    BY <1>1, <1>2 DEF Init, TypeOK
<1>4. AdminInv
    BY DEF Init, AdminInv, Creating, Removing, Removed
<1> QED
    BY <1>1, <1>3, <1>4
    DEF Init, IInv, DownInv, KeysInv, RegistryInv, HandlerInv, AckedInv, FilesInv, DataInv,
        AckedDataKept, Served, Sound

\* The applications a start serves: those registered, and a new one if "default" is not.
LEMMA StartServes ==
    ASSUME IInv, Start
    PROVE  /\ registry' = apps' /\ Default \in DOMAIN apps' /\ DOMAIN apps' \subseteq Id
           /\ apps' \in [DOMAIN apps' -> used'] /\ used \subseteq used' /\ used' \subseteq APIKey
           /\ DOMAIN registry \subseteq DOMAIN apps'
           /\ \A i \in DOMAIN registry : apps'[i] = registry[i]
           /\ \A i \in DOMAIN apps' \ DOMAIN registry : apps'[i] \notin used
           /\ \A i, j \in DOMAIN apps' : apps'[i] = apps'[j] => i = j
<1>1. CASE Default \in DOMAIN registry
    BY <1>1 DEF IInv, TypeOK, KeysInv, Start
<1>2. CASE Default \notin DOMAIN registry
    <2>1. PICK k \in APIKey \ used : apps' = With(registry, Default, k) /\ used' = used \cup {k}
        BY <1>2 DEF Start
    <2>2. /\ DOMAIN apps' = DOMAIN registry \cup {Default} /\ apps'[Default] = k
          /\ \A i \in DOMAIN registry : apps'[i] = registry[i]
          /\ apps' = [i \in DOMAIN apps' |-> apps'[i]]
        BY <1>2, <2>1 DEF With
    <2>3. \A i \in DOMAIN registry : registry[i] \in used
        BY DEF IInv, TypeOK
    <2>4. apps' \in [DOMAIN apps' -> used']
        BY <2>1, <2>2, <2>3
    <2>5. \A i, j \in DOMAIN apps' : apps'[i] = apps'[j] => i = j
        BY <2>1, <2>2, <2>3 DEF IInv, KeysInv
    <2> QED
        BY <1>2, <2>1, <2>2, <2>4, <2>5, AppConstants DEF IInv, TypeOK, Start
<1> QED
    BY <1>1, <1>2

LEMMA StartKeeps == IInv /\ Start => IInv'
<1> SUFFICES ASSUME IInv, Start PROVE IInv'
    OBVIOUS
<1>1. /\ admin = None /\ admin' = None
      /\ \A h \in Handler : handler[h] = None /\ handler'[h] = None
      /\ UNCHANGED <<dir, acked, strayed, intruded, unremoved, handler>>
    BY DEF IInv, DownInv, Start, history
<1>2. \A i : ~ Creating(i)' /\ ~ Removing(i)' /\ ~ Removed(i)'
    BY <1>1 DEF Creating, Removing, Removed
<1>3. \A id \in Id : \A k \in dir[id] : k \in used
    BY DEF IInv, TypeOK
<1>4. /\ data' \in [APIKey -> SUBSET used']
      /\ \A id \in DOMAIN apps' : data'[apps'[id]] = dir[id]
    <2>1. \A k \in APIKey :
              data'[k] = UNION {dir[id] : id \in {i \in DOMAIN apps' : apps'[i] = k}}
        BY DEF Start, Started
    <2>2. \A id \in DOMAIN apps' : {i \in DOMAIN apps' : apps'[i] = apps'[id]} = {id}
        BY StartServes
    <2>3. \A id \in DOMAIN apps' : apps'[id] \in APIKey
        BY StartServes
    <2>4. \A id \in DOMAIN apps' : data'[apps'[id]] = UNION {dir[i] : i \in {id}}
        BY <2>1, <2>2, <2>3
    <2>5. \A k \in APIKey : data'[k] \subseteq used'
        BY <2>1, <1>3, StartServes
    <2>6. data' \in [APIKey -> SUBSET used']
        BY <2>5 DEF Start, Started
    <2>7. \A id \in DOMAIN apps' : data'[apps'[id]] = dir[id]
        <3> TAKE id \in DOMAIN apps'
        <3>1. {dir[i] : i \in {id}} = {dir[id]}
            OBVIOUS
        <3>2. UNION {dir[id]} = dir[id]
            OBVIOUS
        <3> QED
            BY <2>4, <3>1, <3>2
    <2> QED
        BY <2>6, <2>7
<1>5. TypeOK'
    <2>1. dir' \in [Id -> SUBSET used'] /\ handler' \in [Handler -> {None} \cup [id : Id, key : used']]
        BY <1>1, StartServes DEF IInv, TypeOK
    <2>2. acked' \subseteq used' /\ up' \in BOOLEAN /\ used' \subseteq APIKey
        BY <1>1, StartServes DEF IInv, TypeOK, Start
    <2> QED
        BY <1>1, <1>4, <2>1, <2>2, StartServes DEF IInv, TypeOK
<1>6. KeysInv' /\ RegistryInv' /\ AdminInv' /\ HandlerInv' /\ DownInv'
    BY <1>1, <1>2, StartServes
    DEF KeysInv, RegistryInv, AdminInv, HandlerInv, DownInv, Registered, Served, Start
<1>7. AckedInv' /\ AckedDataKept'
    BY <1>1, StartServes DEF IInv, TypeOK, AckedInv, AckedDataKept, Served
<1>8. FilesInv'
    <2>1. \A id \in Sound' : id \in Sound /\ dir'[id] = dir[id]
        BY <1>1 DEF Sound
    <2> QED
        BY <1>2, <2>1, StartServes DEF IInv, FilesInv, Registered
<1>9. DataInv'
    <2>1. \A id \in Sound' : id \in Sound /\ dir'[id] = dir[id]
        BY <1>1 DEF Sound
    <2> QED
        BY <1>4, <2>1, StartServes DEF IInv, FilesInv, DataInv, Registered
<1> QED
    BY <1>5, <1>6, <1>7, <1>8, <1>9 DEF IInv

LEMMA CrashKeeps == IInv /\ Crash => IInv'
<1> SUFFICES ASSUME IInv, Crash PROVE IInv'
    OBVIOUS
<1>1. DOMAIN apps' = {} /\ apps' \in [DOMAIN apps' -> used']
    BY DEF Crash, NoApps
<1>2. TypeOK'
    BY <1>1 DEF IInv, TypeOK, Crash
<1>3. AdminInv' /\ HandlerInv' /\ DownInv'
    BY <1>1 DEF AdminInv, HandlerInv, DownInv, Crash, Creating, Removing, Removed
<1> QED
    BY <1>1, <1>2, <1>3
    DEF IInv, KeysInv, RegistryInv, AckedInv, FilesInv, DataInv, AckedDataKept, Sound,
        Registered, Crash

-----------------------------------------------------------------------------
LEMMA CreateKeeps == ASSUME NEW id \in Id PROVE IInv /\ Create(id) => IInv'
<1> SUFFICES ASSUME IInv, Create(id) PROVE IInv'
    OBVIOUS
<1>1. PICK k \in APIKey \ used : /\ used' = used \cup {k}
                                 /\ apps' = With(apps, id, k)
                                 /\ data' = [data EXCEPT ![k] = dir[id]]
    BY DEF Create
<1>2. /\ up /\ up' /\ admin = None /\ id \notin DOMAIN apps
      /\ UNCHANGED <<up, registry, dir, handler, acked, strayed, intruded, unremoved>>
    BY DEF Create, history
<1>3. /\ DOMAIN apps' = DOMAIN apps \cup {id} /\ apps'[id] = k
      /\ \A i \in DOMAIN apps : apps'[i] = apps[i] /\ apps[i] \in used
    BY <1>1, <1>2 DEF IInv, TypeOK, With
<1>4. /\ \A i : Creating(i)' <=> i = id
      /\ \A i : ~ Removing(i)' /\ ~ Removed(i)'
      /\ \A i : ~ Creating(i) /\ ~ Removing(i) /\ ~ Removed(i)
    BY AppConstants DEF Create, Creating, Removing, Removed
<1>5. \A i \in Id : \A j \in dir[i] : j \in used
    BY DEF IInv, TypeOK
<1>6. /\ \A i \in DOMAIN registry : registry[i] \in used
      /\ \A h \in Handler : handler[h] # None => handler[h].key \in used
    BY DEF IInv, TypeOK
<1>7. TypeOK'
    <2>1. apps' \in [DOMAIN apps' -> used']
        BY <1>1, <1>3 DEF With
    <2>2. data' \in [APIKey -> SUBSET used']
        BY <1>1, <1>5 DEF IInv, TypeOK
    <2>3. admin' \in [op : {"create", "delete", "removed"}, id : Id]
        BY DEF Create
    <2> QED
        BY <1>1, <1>2, <1>3, <2>1, <2>2, <2>3 DEF IInv, TypeOK
<1>8. KeysInv' /\ DownInv' /\ AckedDataKept'
    BY <1>1, <1>2, <1>3 DEF IInv, KeysInv, DownInv, AckedDataKept
<1>9. RegistryInv' /\ AckedInv'
    BY <1>2, <1>3, <1>4 DEF IInv, RegistryInv, AckedInv, Registered, Served
<1>10. AdminInv' /\ HandlerInv'
    BY <1>1, <1>2, <1>3, <1>4, <1>6 DEF IInv, TypeOK, AdminInv, HandlerInv, Registered, Served
<1>11. Sound' = Sound
    BY <1>2 DEF Sound
<1>12. FilesInv'
    BY <1>2, <1>3, <1>4, <1>11 DEF IInv, FilesInv, Registered
<1>13. DataInv'
    <2>1. id \in Sound => dir[id] = {}
        BY <1>2, <1>4 DEF IInv, FilesInv
    <2>2. data'[k] = dir[id] /\ \A j \in used : data'[j] = data[j]
        BY <1>1 DEF IInv, TypeOK
    <2> QED
        BY <1>3, <1>11, <2>1, <2>2 DEF IInv, DataInv
<1> QED
    BY <1>7, <1>8, <1>9, <1>10, <1>12, <1>13 DEF IInv

LEMMA DeleteKeeps == ASSUME NEW id \in Id PROVE IInv /\ Delete(id) => IInv'
<1> SUFFICES ASSUME IInv, Delete(id) PROVE IInv'
    OBVIOUS
<1>1. /\ up /\ admin = None /\ id \in DOMAIN apps /\ id # Default
      /\ apps' = Without(apps, id) /\ acked' = acked \ {apps[id]}
      /\ UNCHANGED <<up, registry, dir, data, handler, used, strayed, intruded, unremoved>>
    BY DEF Delete
<1>2. /\ DOMAIN apps' = DOMAIN apps \ {id}
      /\ \A i \in DOMAIN apps' : apps'[i] = apps[i]
      /\ apps' \in [DOMAIN apps' -> used]
    BY <1>1 DEF IInv, TypeOK, Without, Restrict
<1>3. /\ \A i : Removing(i)' <=> i = id
      /\ \A i : ~ Creating(i)' /\ ~ Removed(i)'
      /\ \A i : ~ Creating(i) /\ ~ Removing(i) /\ ~ Removed(i)
    BY AppConstants DEF Delete, Creating, Removing, Removed
<1>4. Registered(id, apps[id])
    BY <1>1, <1>3 DEF IInv, RegistryInv
<1>5. TypeOK'
    BY <1>1, <1>2 DEF IInv, TypeOK, Delete
<1>6. KeysInv' /\ DownInv' /\ AckedDataKept'
    BY <1>1, <1>2 DEF IInv, KeysInv, DownInv, AckedDataKept
<1>7. RegistryInv' /\ AdminInv' /\ HandlerInv'
    BY <1>1, <1>2, <1>3, <1>4
    DEF IInv, RegistryInv, AdminInv, HandlerInv, Registered, Served
<1>8. AckedInv'
    BY <1>1, <1>2, <1>4 DEF IInv, AckedInv, Registered, Served
<1>9. Sound' = Sound
    BY <1>1 DEF Sound
<1>10. FilesInv' /\ DataInv'
    BY <1>1, <1>2, <1>3, <1>9 DEF IInv, FilesInv, DataInv, Registered
<1> QED
    BY <1>5, <1>6, <1>7, <1>8, <1>10 DEF IInv

LEMMA RemoveDataKeeps == IInv /\ RemoveData => IInv'
<1> SUFFICES ASSUME IInv, RemoveData PROVE IInv'
    OBVIOUS
<1> DEFINE id == admin.id
<1>1. /\ up /\ admin # None /\ admin.op = "delete" /\ RemoveAll(id)
      /\ UNCHANGED <<up, apps, registry, data, handler, used, acked, strayed>>
    BY DEF RemoveData
<1>2. id \in Id /\ admin' = [op |-> "removed", id |-> id]
    BY <1>1, AdminTyped DEF IInv, RemoveData
<1>3. /\ \A i : Removing(i) <=> i = id
      /\ \A i : ~ Creating(i) /\ ~ Removed(i)
    BY <1>1 DEF Creating, Removing, Removed
<1>4. /\ \A i : Removed(i)' <=> i = id
      /\ \A i : ~ Creating(i)' /\ ~ Removing(i)'
    BY <1>2, AppConstants DEF Creating, Removing, Removed
<1> HIDE DEF id
<1>5. /\ dir' \in [Id -> SUBSET used] /\ intruded' \subseteq Id /\ unremoved' \subseteq Id
      /\ id \in Sound' => dir'[id] = {}
      /\ \A i \in Id \ {id} : /\ dir'[i] = dir[i] /\ (i \in Sound' <=> i \in Sound)
                              /\ i \in intruded' <=> i \in intruded
    BY <1>1, <1>2, AllRemoved DEF IInv
<1>6. id \notin DOMAIN apps
    BY <1>2, <1>3 DEF IInv, AdminInv
<1>7. TypeOK'
    BY <1>1, <1>2, <1>5 DEF IInv, TypeOK
<1>8. KeysInv' /\ DownInv' /\ HandlerInv' /\ AckedInv'
    BY <1>1 DEF IInv, KeysInv, DownInv, HandlerInv, AckedInv, Registered, Served
<1>9. RegistryInv' /\ AdminInv'
    BY <1>1, <1>3, <1>4, <1>6 DEF IInv, RegistryInv, AdminInv, Registered, Served
<1>10. FilesInv' /\ DataInv'
    <2>1. Sound' \subseteq Id
        BY DEF Sound
    <2> QED
        BY <1>1, <1>3, <1>4, <1>5, <1>6, <2>1 DEF IInv, TypeOK, FilesInv, DataInv, Registered
<1>11. AckedDataKept'
    <2>1. id \in DOMAIN registry => registry[id] \notin acked
        BY <1>1, <1>6 DEF IInv, AckedInv, Served
    <2> QED
        BY <1>1, <1>5, <2>1 DEF IInv, TypeOK, AckedDataKept
<1> QED
    BY <1>7, <1>8, <1>9, <1>10, <1>11 DEF IInv

\* The file takes over what is served; what it loses has nothing in its directory.
LEMMA SaveRegistryKeeps == IInv /\ SaveRegistry => IInv'
<1> SUFFICES ASSUME IInv, SaveRegistry PROVE IInv'
    OBVIOUS
<1>1. /\ up /\ admin # None /\ admin.op \in {"create", "removed"}
      /\ registry' = apps /\ strayed' = FALSE /\ admin' = None
      /\ UNCHANGED <<up, apps, dir, data, handler, used, acked, intruded, unremoved>>
    BY DEF SaveRegistry
<1>2. \A i : ~ Removing(i) /\ ~ Creating(i)' /\ ~ Removing(i)' /\ ~ Removed(i)'
    BY <1>1 DEF Creating, Removing, Removed
<1>3. TypeOK'
    BY <1>1 DEF IInv, TypeOK
<1>4. KeysInv' /\ RegistryInv' /\ AdminInv' /\ HandlerInv' /\ DownInv' /\ AckedInv'
    BY <1>1, <1>2
    DEF IInv, KeysInv, RegistryInv, AdminInv, HandlerInv, DownInv, AckedInv, Registered, Served
<1>5. Sound' = Sound /\ Sound \subseteq Id
    BY <1>1 DEF Sound
<1>6. FilesInv'
    <2>1. \A id \in Sound : \A k \in dir[id] : ~ Creating(id) /\ id \in DOMAIN apps
        BY <1>1, <1>2 DEF IInv, FilesInv
    <2>2. \A id \in Sound : \A k \in dir[id] : apps[id] = k
        BY <1>1, <2>1 DEF IInv, FilesInv, RegistryInv, Registered
    <2> QED
        BY <1>1, <1>2, <1>5, <2>1, <2>2 DEF IInv, FilesInv, Registered
<1>7. DataInv'
    BY <1>1, <1>5 DEF IInv, DataInv
<1>8. AckedDataKept'
    <2>1. \A id \in DOMAIN apps : apps[id] \in acked => Registered(id, apps[id])
        BY <1>1 DEF IInv, TypeOK, RegistryInv, AdminInv
    <2> QED
        BY <1>1, <2>1 DEF IInv, AckedDataKept, Registered
<1> QED
    BY <1>3, <1>4, <1>6, <1>7, <1>8 DEF IInv

LEMMA CreateFailsKeeps == IInv /\ CreateFails => IInv'
<1> SUFFICES ASSUME IInv, CreateFails PROVE IInv'
    OBVIOUS
<1> DEFINE id == admin.id
<1>1. /\ up /\ admin # None /\ admin.op = "create" /\ RemoveAll(id)
      /\ apps' = Without(apps, id) /\ admin' = None
      /\ UNCHANGED <<up, registry, data, handler, used, acked, strayed>>
    BY DEF CreateFails
<1>2. id \in Id
    BY <1>1, AdminTyped DEF IInv
<1>3. /\ \A i : Creating(i) <=> i = id
      /\ \A i : ~ Removing(i) /\ ~ Removed(i)
      /\ \A i : ~ Creating(i)' /\ ~ Removing(i)' /\ ~ Removed(i)'
    BY <1>1 DEF Creating, Removing, Removed
<1> HIDE DEF id
<1>4. /\ dir' \in [Id -> SUBSET used] /\ intruded' \subseteq Id /\ unremoved' \subseteq Id
      /\ id \in Sound' => dir'[id] = {}
      /\ \A i \in Id \ {id} : /\ dir'[i] = dir[i] /\ (i \in Sound' <=> i \in Sound)
                              /\ i \in intruded' <=> i \in intruded
    BY <1>1, <1>2, AllRemoved DEF IInv
<1>5. /\ DOMAIN apps' = DOMAIN apps \ {id}
      /\ \A i \in DOMAIN apps' : apps'[i] = apps[i]
      /\ apps' \in [DOMAIN apps' -> used]
    BY <1>1 DEF IInv, TypeOK, Without, Restrict
<1>6. /\ id # Default /\ id \in DOMAIN apps /\ apps[id] \notin acked
      /\ \A i \in DOMAIN registry : registry[i] # apps[id]
    BY <1>2, <1>3 DEF IInv, AdminInv
<1>7. TypeOK'
    BY <1>1, <1>2, <1>4, <1>5, <1>6 DEF IInv, TypeOK
<1>8. KeysInv' /\ DownInv' /\ HandlerInv'
    BY <1>1, <1>5 DEF IInv, KeysInv, DownInv, HandlerInv, Registered, Served
<1>9. RegistryInv' /\ AdminInv'
    BY <1>1, <1>3, <1>5, <1>6 DEF IInv, RegistryInv, AdminInv, Registered, Served
<1>10. AckedInv'
    BY <1>1, <1>5, <1>6 DEF IInv, AckedInv, Served
<1>11. FilesInv' /\ DataInv'
    <2>1. Sound' \subseteq Id
        BY DEF Sound
    <2> QED
        BY <1>1, <1>3, <1>4, <1>5, <2>1 DEF IInv, TypeOK, FilesInv, DataInv, Registered
<1>12. AckedDataKept'
    <2>1. id \in DOMAIN registry => registry[id] \notin acked
        BY <1>1, <1>6 DEF IInv, AckedInv, Served
    <2> QED
        BY <1>1, <1>4, <2>1 DEF IInv, TypeOK, AckedDataKept
<1> QED
    BY <1>7, <1>8, <1>9, <1>10, <1>11, <1>12 DEF IInv

\* The application stays in the file, where nobody counts on its data any more.
LEMMA DeleteFailsKeeps == IInv /\ DeleteFails => IInv'
<1> SUFFICES ASSUME IInv, DeleteFails PROVE IInv'
    OBVIOUS
<1>1. /\ up /\ admin # None /\ admin.op = "removed" /\ strayed' = TRUE /\ admin' = None
      /\ UNCHANGED <<up, apps, registry, dir, data, handler, used, acked, intruded, unremoved>>
    BY DEF DeleteFails
<1>2. \A i : /\ ~ Creating(i) /\ ~ Removing(i)
             /\ ~ Creating(i)' /\ ~ Removing(i)' /\ ~ Removed(i)'
    BY <1>1 DEF Creating, Removing, Removed
<1>3. TypeOK'
    BY <1>1 DEF IInv, TypeOK
<1>4. Sound' = Sound
    BY <1>1 DEF Sound
<1> QED
    BY <1>1, <1>2, <1>3, <1>4
    DEF IInv, KeysInv, RegistryInv, AdminInv, HandlerInv, DownInv, AckedInv, FilesInv,
        DataInv, AckedDataKept, Registered, Served

-----------------------------------------------------------------------------
LEMMA ResolveKeeps ==
    ASSUME NEW h \in Handler, NEW id \in Id PROVE IInv /\ Resolve(h, id) => IInv'
<1> SUFFICES ASSUME IInv, Resolve(h, id) PROVE IInv'
    OBVIOUS
<1>1. /\ up /\ admin = None /\ id \in DOMAIN apps
      /\ UNCHANGED <<up, apps, registry, dir, data, admin, used, acked, strayed, intruded, unremoved>>
    BY DEF Resolve, history
<1>2. /\ handler'[h] = [id |-> id, key |-> apps[id]]
      /\ \A g \in Handler \ {h} : handler'[g] = handler[g]
    BY DEF IInv, TypeOK, Resolve
<1>3. \A i : /\ ~ Creating(i) /\ ~ Removing(i) /\ ~ Removed(i)
             /\ ~ Creating(i)' /\ ~ Removing(i)' /\ ~ Removed(i)'
    BY <1>1 DEF Creating, Removing, Removed
<1>4. Registered(id, apps[id])
    BY <1>1, <1>3 DEF IInv, RegistryInv
<1>5. TypeOK'
    <2>1. apps[id] \in used
        BY <1>1 DEF IInv, TypeOK
    <2> QED
        BY <1>1, <2>1 DEF IInv, TypeOK, Resolve
<1>6. HandlerInv' /\ DownInv' /\ AdminInv'
    BY <1>1, <1>2, <1>3, <1>4 DEF IInv, HandlerInv, DownInv, AdminInv, Registered, Served
<1>7. Sound' = Sound
    BY <1>1 DEF Sound
<1> QED
    BY <1>1, <1>3, <1>5, <1>6, <1>7
    DEF IInv, KeysInv, RegistryInv, AckedInv, FilesInv, DataInv, AckedDataKept,
        Registered, Served

\* What a request leaves of the parts of the invariant it does not touch.
LEMMA RequestAside ==
    ASSUME IInv, up, NEW h \in Handler, handler' = [handler EXCEPT ![h] = None],
           UNCHANGED <<up, apps, registry, admin, used, strayed>>
    PROVE  /\ KeysInv' /\ RegistryInv' /\ HandlerInv' /\ DownInv'
           /\ \A g \in Handler : handler'[g] # None => handler'[g] = handler[g]
           /\ \A i : /\ Creating(i)' <=> Creating(i)
                     /\ Removing(i)' <=> Removing(i)
                     /\ Removed(i)' <=> Removed(i)
<1>1. \A g \in Handler : handler'[g] # None => handler'[g] = handler[g]
    BY DEF IInv, TypeOK
<1>2. \A i : /\ Creating(i)' <=> Creating(i)
             /\ Removing(i)' <=> Removing(i)
             /\ Removed(i)' <=> Removed(i)
    BY DEF Creating, Removing, Removed
<1> QED
    BY <1>1, <1>2 DEF IInv, KeysInv, RegistryInv, HandlerInv, DownInv, Registered, Served

LEMMA WriteFailsKeeps == ASSUME NEW h \in Handler PROVE IInv /\ WriteFails(h) => IInv'
<1> SUFFICES ASSUME IInv, WriteFails(h) PROVE IInv'
    OBVIOUS
<1> DEFINE k == handler[h].key
<1>1. /\ up /\ data' = [data EXCEPT ![k] = @ \cup {k}]
      /\ handler' = [handler EXCEPT ![h] = None]
      /\ UNCHANGED <<up, apps, registry, dir, admin, used, acked, strayed, intruded, unremoved>>
    BY DEF WriteFails, history
<1>2. k \in used /\ k \in APIKey
    BY DEF IInv, TypeOK, WriteFails
<1> HIDE DEF k
<1>3. /\ KeysInv' /\ RegistryInv' /\ HandlerInv' /\ DownInv'
      /\ \A g \in Handler : handler'[g] # None => handler'[g] = handler[g]
      /\ \A i : /\ Creating(i)' <=> Creating(i)
                /\ Removing(i)' <=> Removing(i)
                /\ Removed(i)' <=> Removed(i)
    BY <1>1, RequestAside
<1>4. /\ data' \in [APIKey -> SUBSET used] /\ data'[k] = data[k] \cup {k}
      /\ \A j \in APIKey \ {k} : data'[j] = data[j]
    BY <1>1, <1>2 DEF IInv, TypeOK
<1>5. TypeOK'
    BY <1>1, <1>4 DEF IInv, TypeOK
<1>6. Sound' = Sound
    BY <1>1 DEF Sound
<1>7. DataInv'
    <2>1. \A id \in DOMAIN apps : apps[id] \in APIKey
        BY DEF IInv, TypeOK
    <2> QED
        BY <1>1, <1>4, <1>6, <2>1 DEF IInv, DataInv
<1>8. AdminInv' /\ AckedInv' /\ FilesInv' /\ AckedDataKept'
    BY <1>1, <1>3, <1>6
    DEF IInv, AdminInv, AckedInv, FilesInv, AckedDataKept, Registered, Served
<1> QED
    BY <1>3, <1>5, <1>7, <1>8 DEF IInv

\* A request stores what its application has in memory; one that has outlived its
\* application leaves the directory to nobody's account.
LEMMA WriteKeeps == ASSUME NEW h \in Handler PROVE IInv /\ Write(h) => IInv'
<1> SUFFICES ASSUME IInv, Write(h) PROVE IInv'
    OBVIOUS
<1> DEFINE id == handler[h].id
           k == handler[h].key
<1>1. /\ up /\ handler[h] # None
      /\ data' = [data EXCEPT ![k] = @ \cup {k}] /\ dir' = [dir EXCEPT ![id] = data'[k]]
      /\ acked' = IF Served(id, k) THEN acked \cup {k} ELSE acked
      /\ intruded' = IF Served(id, k) THEN intruded ELSE intruded \cup {id}
      /\ handler' = [handler EXCEPT ![h] = None]
      /\ UNCHANGED <<up, apps, registry, admin, used, strayed, unremoved>>
    BY DEF Write, Served
<1>2. id \in Id /\ k \in used /\ k \in APIKey
    BY <1>1 DEF IInv, TypeOK
<1>3. Served(id, k) => Registered(id, k)
    BY <1>1 DEF IInv, HandlerInv
<1>4. \A i \in Id : Creating(i) => apps[i] # k
    BY <1>1 DEF IInv, AdminInv
<1> HIDE DEF id, k
<1>5. /\ KeysInv' /\ RegistryInv' /\ HandlerInv' /\ DownInv'
      /\ \A g \in Handler : handler'[g] # None => handler'[g] = handler[g]
      /\ \A i : /\ Creating(i)' <=> Creating(i)
                /\ Removing(i)' <=> Removing(i)
                /\ Removed(i)' <=> Removed(i)
    BY <1>1, RequestAside
<1>6. /\ data' \in [APIKey -> SUBSET used] /\ data'[k] = data[k] \cup {k}
      /\ \A j \in APIKey \ {k} : data'[j] = data[j]
    BY <1>1, <1>2 DEF IInv, TypeOK
<1>7. /\ dir' \in [Id -> SUBSET used] /\ dir'[id] = data'[k]
      /\ \A i \in Id \ {id} : dir'[i] = dir[i]
    BY <1>1, <1>2, <1>6 DEF IInv, TypeOK
<1>8. TypeOK'
    <2>1. acked' \subseteq used /\ intruded' \subseteq Id
        BY <1>1, <1>2 DEF IInv, TypeOK
    <2> QED
        BY <1>1, <1>6, <1>7, <2>1 DEF IInv, TypeOK
<1>9. Sound' \subseteq Sound /\ (id \in Sound' => Served(id, k))
    BY <1>1 DEF Sound
<1>10. DataInv'
    <2>1. \A i \in DOMAIN apps : apps[i] \in APIKey
        BY DEF IInv, TypeOK
    <2> QED
        BY <1>1, <1>6, <1>9, <2>1 DEF IInv, DataInv
<1>11. AdminInv' /\ AckedInv'
    BY <1>1, <1>3, <1>4, <1>5 DEF IInv, KeysInv, AdminInv, AckedInv, Registered, Served
<1>12. FilesInv'
    <2>1. ASSUME id \in Sound'
          PROVE  /\ dir'[id] \subseteq {k} /\ id \in DOMAIN registry' /\ registry'[id] = k
                 /\ id \in DOMAIN apps' /\ ~ Creating(id)
        <3>1. data[k] \subseteq {k}
            BY <1>9, <2>1 DEF IInv, DataInv, Served
        <3> QED
            BY <1>1, <1>2, <1>3, <1>4, <1>6, <1>7, <1>9, <2>1, <3>1 DEF Registered, Served
    <2>2. \A i \in Sound' : i \in Id
        BY DEF Sound
    <2> QED
        BY <1>1, <1>5, <1>7, <1>9, <2>1, <2>2 DEF IInv, FilesInv, Registered, Served
<1>13. AckedDataKept'
    BY <1>1, <1>3, <1>6, <1>7 DEF IInv, TypeOK, KeysInv, AckedDataKept, Registered
<1> QED
    BY <1>5, <1>8, <1>10, <1>11, <1>12, <1>13 DEF IInv

LEMMA StutterKeeps == IInv /\ UNCHANGED vars => IInv'
BY DEF vars, IInv, TypeOK, KeysInv, RegistryInv, AdminInv, HandlerInv, DownInv, AckedInv,
       FilesInv, DataInv, AckedDataKept, Sound, Registered, Served, Creating, Removing, Removed

-----------------------------------------------------------------------------
\* The invariant holds of every behaviour of the registry, the directories and requests.
THEOREM Invariance == Spec => []IInv
<1>1. IInv /\ [Next]_vars => IInv'
    BY StartKeeps, CrashKeeps, CreateKeeps, DeleteKeeps, RemoveDataKeeps, SaveRegistryKeeps,
       CreateFailsKeeps, DeleteFailsKeeps, ResolveKeeps, WriteKeeps, WriteFailsKeeps,
       StutterKeeps DEF Next
<1> QED
    BY InitHolds, <1>1, PTL DEF Spec

\* A running process serves the default application, whatever calls fail.
THEOREM TypeCorrect == Spec => []TypeOK
<1>1. IInv => TypeOK
    BY DEF IInv
<1> QED
    BY Invariance, <1>1, PTL

\* Between admin calls every application served is in apps.json under its key, and only
\* a Delete (manager.go) that reported an error leaves more there.
THEOREM RegistryCurrent == Spec => []ServedAreRegistered
<1>1. IInv => ServedAreRegistered
    <2> SUFFICES ASSUME IInv, up, admin = None
                 PROVE  /\ \A id \in DOMAIN apps : id \in DOMAIN registry /\ registry[id] = apps[id]
                        /\ ~ strayed => registry = apps
        BY DEF ServedAreRegistered
    <2>1. \A id \in DOMAIN apps : id \in DOMAIN registry /\ registry[id] = apps[id]
        BY AdminIsNone DEF IInv, RegistryInv, Registered
    <2>2. ~ strayed => DOMAIN registry = DOMAIN apps
        BY <2>1, AdminIsNone DEF IInv, RegistryInv, Served
    <2> QED
        BY <2>1, <2>2 DEF IInv, TypeOK
<1> QED
    BY Invariance, <1>1, PTL

\* What an application told its users was saved is in its directory until a Delete takes
\* the application away, unless a request of a deleted one wrote over it.
THEOREM AckedDurable == Spec => []AckedDataKept
<1>1. IInv => AckedDataKept
    BY DEF IInv
<1> QED
    BY Invariance, <1>1, PTL

\* No application serves or stores another's data, unless a removal failed or a request
\* outlived the deletion of the application it had resolved.
THEOREM Isolation == Spec => []DataIsolated
<1>1. IInv => DataIsolated
    <2> SUFFICES ASSUME IInv, NEW id \in DOMAIN apps \ (intruded \cup unremoved)
                 PROVE  data[apps[id]] \cup dir[id] \subseteq {apps[id]}
        BY DEF DataIsolated
    <2>1. id \in Sound /\ up
        BY DEF IInv, TypeOK, DownInv, Sound
    <2>2. dir[id] \subseteq {apps[id]}
        BY <2>1 DEF IInv, FilesInv, RegistryInv, Registered
    <2> QED
        BY <2>1, <2>2 DEF IInv, DataInv
<1> QED
    BY Invariance, <1>1, PTL

=============================================================================
