------------------------------ MODULE Storage ------------------------------
(***************************************************************************)
(* storage.go: object files in a tree of directories, and the metadata of  *)
(* all objects in memory and in metadata.json.  Put writes the file with   *)
(* no lock held and takes the lock to list the object; Open looks the      *)
(* object up under the lock and reads its file without; Delete holds the   *)
(* lock throughout.  A file is what its creator's upload made of it: it is *)
(* named by that upload and outlives its entry in the directory while      *)
(* somebody has it open.  Uploads break off, file operations fail, and the *)
(* process may die and start again.                                        *)
(***************************************************************************)
EXTENDS Integers, Sequences, FiniteSets

CONSTANTS
    Name,       \* sanitized object names, sequences of segments
    Upload,     \* the calls of Put there are (the bound on uploads)
    Size,       \* the chunks io.Copy writes for each
    Reader,     \* the downloads that may be in progress at once
    NoFile, Torn,   \* metadata.json missing, or not a document
    Zero,       \* a chunk nobody has written, in a file that has later ones
    None

ASSUME StorageConstants ==
    /\ Size \in [Upload -> Nat]
    /\ None \notin Upload /\ Zero \notin Upload /\ NoFile # Torn
    /\ {NoFile, Torn} \cap [Name -> Upload \cup {None}] = {}
    /\ \A n \in Name : n \in Seq({n[i] : i \in DOMAIN n}) /\ n # <<>>

VARIABLES
    up,         \* the process is running
    meta,       \* s.meta: the upload each name is said to hold, or None
    metaFile,   \* the same, in metadata.json
    lock,       \* s.mu: free, or how far the save of its holder is
    dirs,       \* the directories there are below objects/
    entry,      \* the file each name leads to, or None
    data,       \* the chunks in each file: who wrote them
    upload,     \* the progress of each call of Put
    download,   \* the progress of each request for an object
    alone,      \* history: the uploads beside which nothing was done to their name
    marred,     \* history: names last left by a call that failed or had company
    unsaved,    \* history: names changed in memory since the last save
    spoiled     \* history: downloads whose object was being written

names == <<dirs, entry>>
disk == <<names, data>>
history == <<alone, marred, unsaved, spoiled>>
vars == <<up, meta, metaFile, lock, disk, upload, download, history>>

-----------------------------------------------------------------------------
New == [step |-> "new"]
Done == [step |-> "done"]
Idle == [step |-> "idle"]

NoObjects == [n \in Name |-> None]
Parents(n) == {SubSeq(n, 1, k) : k \in 1 .. Len(n) - 1}
IsFile(n) == n \in Name /\ entry[n] # None
Whole(u) == [i \in 1 .. Size[u] |-> u]

\* The uploads now writing to the name's file.
Writing(n) == {u \in Upload : upload[u].step = "writing" /\ upload[u].name = n}

\* The downloads that would see a change of the name, or of the file it leads to.
Exposed(n) ==
    {r \in Reader :
        \/ download[r].step = "looked" /\ download[r].name = n
        \/ download[r].step = "reading" /\ download[r].file = entry[n]}

\* A file to which no name leads and which nobody has open is gone.
InUse ==
    {f \in Upload :
        \/ \E n \in Name : entry[n] = f
        \/ \E u \in Upload : upload[u].step = "writing" /\ upload[u].file = f
        \/ \E r \in Reader : download[r].step = "reading" /\ download[r].file = f}

FreeUnused == data' = [f \in Upload |-> IF f \in InUse' THEN data[f] ELSE <<>>]

Init ==
    /\ up = FALSE /\ lock = "free"
    /\ meta = NoObjects /\ metaFile = NoFile
    /\ dirs = {} /\ entry = NoObjects /\ data = [u \in Upload |-> <<>>]
    /\ upload = [u \in Upload |-> New] /\ download = [r \in Reader |-> Idle]
    /\ alone = {} /\ marred = {} /\ unsaved = {} /\ spoiled = {}

\* New with loadMeta, which refuses a file that is not a document.
Start ==
    /\ ~ up /\ metaFile # Torn
    /\ up' = TRUE
    /\ meta' = IF metaFile = NoFile THEN NoObjects ELSE metaFile
    /\ UNCHANGED <<metaFile, lock, disk, upload, download, history>>

-----------------------------------------------------------------------------
\* MkdirAll makes the directories of a name unless a file is in the way.
CanMakeDirs(n) == \A p \in Parents(n) : ~ IsFile(p)

\* Put makes the directories and creates the file, or truncates the one there is.
Create(u, n) ==
    /\ up /\ upload[u] = New
    /\ CanMakeDirs(n) /\ n \notin dirs
    /\ LET f == IF IsFile(n) THEN entry[n] ELSE u
       IN  /\ entry' = [entry EXCEPT ![n] = f]
           /\ data' = [data EXCEPT ![f] = <<>>]
           /\ upload' = [upload EXCEPT ![u] = [step |-> "writing", name |-> n, file |-> f, at |-> 0]]
    /\ dirs' = dirs \cup Parents(n)
    /\ alone' = IF Writing(n) = {} THEN alone \cup {u} ELSE alone \ Writing(n)
    /\ spoiled' = spoiled \cup Exposed(n)
    /\ UNCHANGED <<up, meta, metaFile, lock, download, marred, unsaved>>

\* The file cannot be created, for one because the name is a directory: those made
\* on the way stay.
Refused(u, n) ==
    /\ up /\ upload[u] = New /\ CanMakeDirs(n)
    /\ dirs' = dirs \cup Parents(n)
    /\ upload' = [upload EXCEPT ![u] = Done]
    /\ UNCHANGED <<up, meta, metaFile, lock, entry, data, download, history>>

\* io.Copy writes the next chunk at the place this upload has reached.
WriteChunk(u) ==
    /\ up /\ upload[u].step = "writing" /\ upload[u].at < Size[u]
    /\ LET f == upload[u].file
           k == upload[u].at + 1
           old == data[f]
           len == IF k > Len(old) THEN k ELSE Len(old)
       IN  data' = [data EXCEPT ![f] =
                        [i \in 1 .. len |-> IF i = k THEN u ELSE IF i <= Len(old) THEN old[i] ELSE Zero]]
    /\ upload' = [upload EXCEPT ![u].at = @ + 1]
    /\ UNCHANGED <<up, meta, metaFile, lock, dirs, entry, download, history>>

\* The client is gone, the upload too large or a write fails: the truncated file stays.
BreakOff(u) ==
    /\ up /\ upload[u].step = "writing"
    /\ upload' = [upload EXCEPT ![u] = Done]
    /\ alone' = alone \ {u} /\ marred' = marred \cup {upload[u].name}
    /\ UNCHANGED <<up, meta, metaFile, lock, names, download, unsaved, spoiled>>
    /\ FreeUnused

Received(u) == upload[u].step = "writing" /\ upload[u].at = Size[u]

\* Mutant: an error of io.Copy is ignored, and what has come is listed.
EnterShort(u) ==
    /\ up /\ lock = "free" /\ upload[u].step = "writing"
    /\ LET n == upload[u].name
       IN  /\ meta' = [meta EXCEPT ![n] = u]
           /\ marred' = IF u \in alone THEN marred \ {n} ELSE marred \cup {n}
           /\ unsaved' = unsaved \cup {n}
    /\ lock' = "edited"
    /\ upload' = [upload EXCEPT ![u].step = "entered"]
    /\ alone' = alone \ {u}
    /\ UNCHANGED <<up, metaFile, names, download, spoiled>>
    /\ FreeUnused

\* Mutant: the object is listed without the lock.
EnterUnlocked(u) ==
    /\ up /\ Received(u)
    /\ meta' = [meta EXCEPT ![upload[u].name] = u]
    /\ lock' = "edited"
    /\ upload' = [upload EXCEPT ![u].step = "entered"]
    /\ UNCHANGED <<up, metaFile, disk, download, history>>

\* All is written: Put takes the lock and lists the object.
Enter(u) ==
    /\ up /\ lock = "free" /\ Received(u)
    /\ LET n == upload[u].name
       IN  /\ meta' = [meta EXCEPT ![n] = u]
           /\ marred' = IF u \in alone THEN marred \ {n} ELSE marred \cup {n}
           /\ unsaved' = unsaved \cup {n}
    /\ lock' = "edited"
    /\ upload' = [upload EXCEPT ![u].step = "entered"]
    /\ alone' = alone \ {u}
    /\ UNCHANGED <<up, metaFile, names, download, spoiled>>
    /\ FreeUnused

-----------------------------------------------------------------------------
\* Delete looks the object up under the lock and takes it from the list.
Unlisted(n) ==
    /\ up /\ lock = "free" /\ meta[n] # None
    /\ meta' = [meta EXCEPT ![n] = None]
    /\ unsaved' = unsaved \cup {n}
    /\ alone' = alone \ Writing(n)

\* os.Remove takes a file or an empty directory, and a missing one is no error.
Removable(n) ==
    /\ CanMakeDirs(n)
    /\ \A p \in dirs \cup {m \in Name : IsFile(m)} : n \notin Parents(p)

\* Mutant: the file is emptied where it should be unlinked.
DeleteInPlace(n) ==
    /\ Unlisted(n) /\ Removable(n)
    /\ entry' = [entry EXCEPT ![n] = None] /\ dirs' = dirs \ {n}
    /\ data' = IF IsFile(n) THEN [data EXCEPT ![entry[n]] = <<>>] ELSE data
    /\ lock' = "edited"
    /\ marred' = IF Writing(n) = {} THEN marred \ {n} ELSE marred \cup {n}
    /\ UNCHANGED <<up, metaFile, upload, download, spoiled>>

\* Then it removes the file; downloads that have it open keep it.
Delete(n) ==
    /\ Unlisted(n) /\ Removable(n)
    /\ entry' = [entry EXCEPT ![n] = None] /\ dirs' = dirs \ {n}
    /\ lock' = "edited"
    /\ marred' = IF Writing(n) = {} THEN marred \ {n} ELSE marred \cup {n}
    /\ UNCHANGED <<up, metaFile, upload, download, spoiled>>
    /\ FreeUnused

\* If that fails Delete returns without saving, the object gone from memory only.
RemoveFails(n) ==
    /\ Unlisted(n)
    /\ marred' = marred \cup {n}
    /\ UNCHANGED <<up, metaFile, lock, disk, upload, download, spoiled>>

-----------------------------------------------------------------------------
\* The call that holds the lock returns.
Return ==
    /\ lock' = "free"
    /\ upload' = [u \in Upload |-> IF upload[u].step = "entered" THEN Done ELSE upload[u]]

\* saveMeta: WriteFile empties metadata.json ...
OpenMeta ==
    /\ up /\ lock = "edited" /\ lock' = "opened"
    /\ metaFile' = Torn
    /\ UNCHANGED <<up, meta, disk, upload, download, history>>

\* ... and writes it ...
WriteMeta ==
    /\ up /\ lock = "opened" /\ Return
    /\ metaFile' = meta
    /\ unsaved' = {}
    /\ UNCHANGED <<up, meta, disk, download, alone, marred, spoiled>>

\* Mutant: a save that fails returns with the lock held.
SaveFailsLocked ==
    /\ up /\ lock \in {"edited", "opened"} /\ lock' = "kept"
    /\ metaFile' \in IF lock = "edited" THEN {metaFile} ELSE {Torn, meta}
    /\ UNCHANGED <<up, meta, disk, upload, download, history>>

\* ... or fails, before the file is opened, in the middle, or when it is closed.
SaveFails ==
    /\ up /\ lock \in {"edited", "opened"} /\ Return
    /\ metaFile' \in IF lock = "edited" THEN {metaFile} ELSE {Torn, meta}
    /\ UNCHANGED <<up, meta, disk, download, history>>

-----------------------------------------------------------------------------
\* Open finds the object in the list, under the read lock ...
Lookup(r, n) ==
    /\ up /\ lock = "free" /\ download[r] = Idle /\ meta[n] # None
    /\ download' = [download EXCEPT ![r] = [step |-> "looked", name |-> n, told |-> meta[n]]]
    /\ spoiled' = IF n \in marred \/ Writing(n) # {} THEN spoiled \cup {r} ELSE spoiled \ {r}
    /\ UNCHANGED <<up, meta, metaFile, lock, disk, upload, alone, marred, unsaved>>

\* ... and opens its file, whatever it is by then ...
OpenFile(r) ==
    /\ up /\ download[r].step = "looked" /\ IsFile(download[r].name)
    /\ download' = [download EXCEPT ![r] =
            [step |-> "reading", told |-> @.told, file |-> entry[@.name], got |-> <<>>]]
    /\ UNCHANGED <<up, meta, metaFile, lock, disk, upload, history>>

\* ... or finds none, or a directory, and nothing is sent.
OpenFails(r) ==
    /\ up /\ download[r].step = "looked"
    /\ download' = [download EXCEPT ![r] = Idle]
    /\ spoiled' = spoiled \ {r}
    /\ UNCHANGED <<up, meta, metaFile, lock, disk, upload, alone, marred, unsaved>>

\* io.Copy sends what it reads, until it finds the end.
ReadChunk(r) ==
    /\ up /\ download[r].step = "reading"
    /\ LET k == Len(download[r].got) + 1
           chunks == data[download[r].file]
       IN  IF k <= Len(chunks)
           THEN download' = [download EXCEPT ![r].got = Append(@, chunks[k])]
           ELSE download' = [download EXCEPT ![r].step = "read"]
    /\ UNCHANGED <<up, meta, metaFile, lock, disk, upload, history>>

\* The response is complete, or the client has gone.
Close(r) ==
    /\ up /\ download[r].step \in {"reading", "read"}
    /\ download' = [download EXCEPT ![r] = Idle]
    /\ spoiled' = spoiled \ {r}
    /\ UNCHANGED <<up, meta, metaFile, lock, names, upload, alone, marred, unsaved>>
    /\ FreeUnused

\* The process dies: the files stay as they are.
Crash ==
    /\ up /\ up' = FALSE
    /\ meta' = NoObjects /\ lock' = "free"
    /\ upload' = [u \in Upload |-> IF upload[u] = New THEN New ELSE Done]
    /\ download' = [r \in Reader |-> Idle]
    /\ marred' = marred \cup unsaved \cup {n \in Name : Writing(n) # {}}
    /\ alone' = {} /\ unsaved' = {} /\ spoiled' = {}
    /\ UNCHANGED <<metaFile, names>>
    /\ FreeUnused

Next ==
    \/ Start \/ Crash
    \/ \E u \in Upload :
        \/ \E n \in Name : Create(u, n) \/ Refused(u, n)
        \/ WriteChunk(u) \/ BreakOff(u) \/ Enter(u)
    \/ \E n \in Name : Delete(n) \/ RemoveFails(n)
    \/ OpenMeta \/ WriteMeta \/ SaveFails
    \/ \E r \in Reader :
        \/ \E n \in Name : Lookup(r, n)
        \/ OpenFile(r) \/ OpenFails(r) \/ ReadChunk(r) \/ Close(r)

\* Who holds the lock goes on; nothing is asked of those who send and receive objects.
Fairness == WF_vars(OpenMeta \/ WriteMeta \/ SaveFails)

Spec == Init /\ [][Next]_vars /\ Fairness

-----------------------------------------------------------------------------
\* Nothing is a file and a directory, and what contains something is a directory.
TypeOK ==
    /\ up \in BOOLEAN /\ lock \in {"free", "edited", "opened"}
    /\ meta \in [Name -> Upload \cup {None}]
    /\ metaFile \in {NoFile, Torn} \/ metaFile \in [Name -> Upload \cup {None}]
    /\ entry \in [Name -> Upload \cup {None}]
    /\ data \in [Upload -> Seq(Upload \cup {Zero})]
    /\ \A n \in Name : IsFile(n) => n \notin dirs /\ Parents(n) \subseteq dirs
    /\ \A p \in dirs : Parents(p) \subseteq dirs
    /\ \A u \in Upload : upload[u].step \in {"new", "writing", "entered", "done"}
    /\ Cardinality({u \in Upload : upload[u].step = "entered"}) <= (IF lock = "free" THEN 0 ELSE 1)
    /\ \A r \in Reader : download[r].step \in {"idle", "looked", "reading", "read"}
    /\ alone \subseteq UNION {Writing(n) : n \in Name}
    /\ marred \cup unsaved \subseteq Name /\ spoiled \subseteq Reader

\* Metadata describes the object's content: an object that is listed is, byte for byte,
\* the upload it is listed with, and one that is not has no file, whatever uploads,
\* deletions and restarts went before, if the last that touched the name was an upload
\* or a deletion that succeeded, was saved before any crash and had no upload beside it.
ObjectsMatch ==
    up => \A n \in Name \ marred : Writing(n) = {} =>
        IF meta[n] = None THEN ~ IsFile(n)
        ELSE IsFile(n) /\ data[entry[n]] = Whole(meta[n])

\* A download that reaches its end has the very bytes its headers describe, also when
\* the object is deleted or replaced after a deletion meanwhile, unless it was being
\* uploaded, or was marred, when it was looked up or before its file was read.
DownloadsWhole ==
    \A r \in Reader \ spoiled :
        download[r].step = "read" => download[r].got = Whole(download[r].told)

\* Whoever comes to an object is served: no save or removal that fails keeps the lock,
\* and nobody waits for another's client with the lock in hand.
LockComesFree == lock # "free" ~> lock = "free"

=============================================================================
