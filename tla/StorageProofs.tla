---------------------------- MODULE StorageProofs ----------------------------
(***************************************************************************)
(* The objects and their metadata, for all trees of names and any number   *)
(* of uploads and downloads of all sizes: proofs about module Storage.     *)
(***************************************************************************)
EXTENDS Storage, FiniteSetTheorems, SequenceTheorems, TLAPS

-----------------------------------------------------------------------------
\* A name leads to what it is said to hold.
Ready(n, u) == IF u = None THEN ~ IsFile(n) ELSE IsFile(n) /\ data[entry[n]] = Whole(u)

\* What metadata.json says the names hold.
Recorded == IF metaFile = NoFile THEN NoObjects ELSE metaFile

InProgress == [step : {"writing", "entered"}, name : Name, file : Upload, at : Nat]
Chunks == Seq(Upload \cup {Zero})

\* The types of what is not a call.
ValueInv ==
    /\ up \in BOOLEAN /\ lock \in {"free", "edited", "opened"}
    /\ meta \in [Name -> Upload \cup {None}]
    /\ metaFile \in {NoFile, Torn} \cup [Name -> Upload \cup {None}]
    /\ entry \in [Name -> Upload \cup {None}] /\ data \in [Upload -> Chunks]
    /\ marred \subseteq Name /\ unsaved \subseteq Name /\ spoiled \subseteq Reader

\* The directories and files form a tree.
TreeInv ==
    /\ \A n \in Name : IsFile(n) => n \notin dirs /\ Parents(n) \subseteq dirs
    /\ \A p \in dirs : Parents(p) \subseteq dirs

\* The records of the calls; one of them at most is saving.
UploadInv ==
    /\ DOMAIN upload = Upload
    /\ \A u \in Upload :
        /\ upload[u] \in {New, Done} \cup InProgress
        /\ upload[u].step = "writing" => upload[u].at <= Size[u]
        /\ upload[u].step = "entered" => lock # "free"
    /\ \A u, v \in Upload : upload[u].step = "entered" /\ upload[v].step = "entered" => u = v

DownloadInv ==
    /\ DOMAIN download = Reader
    /\ \A r \in Reader :
        \/ download[r] = Idle
        \/ download[r] \in [step : {"looked"}, name : Name, told : Upload]
        \/ download[r] \in [step : {"reading", "read"}, told : Upload, file : Upload, got : Chunks]

\* A process that is down has nothing in progress.
DownInv ==
    ~ up => /\ lock = "free"
            /\ \A u \in Upload : upload[u] \in {New, Done}
            /\ \A r \in Reader : download[r] = Idle

\* No two names lead to one file, nobody has a file before its creator comes, and an
\* upload writes to no name but its own, whatever became of its file.
FilesInv ==
    /\ \A n, m \in Name : entry[n] = entry[m] /\ entry[n] # None => n = m
    /\ \A n \in Name : entry[n] # None => upload[entry[n]] # New
    /\ \A u \in Upload : upload[u].step = "writing" =>
        /\ upload[upload[u].file] # New
        /\ \A n \in Name : entry[n] = upload[u].file => n = upload[u].name
    /\ \A r \in Reader : download[r].step = "reading" => upload[download[r].file] # New

\* An upload that is alone with its name has written the file to which the name leads.
AloneInv ==
    \A u \in alone :
        /\ u \in Upload /\ upload[u].step = "writing"
        /\ Writing(upload[u].name) = {u} /\ entry[upload[u].name] = upload[u].file
        /\ data[upload[u].file] = [i \in 1 .. upload[u].at |-> u]

\* metadata.json says what memory says of the names that are not unsaved.
SavedInv ==
    up /\ metaFile # Torn => \A n \in Name \ unsaved : Recorded[n] = meta[n]

\* What a start would find.
RestInv ==
    ~ up /\ metaFile # Torn => \A n \in Name \ marred : Ready(n, Recorded[n])

\* What a download is about to read is what it was told, and nobody is writing it.
Faithful(d) ==
    /\ d.step = "looked" =>
        /\ Writing(d.name) = {}
        /\ IsFile(d.name) => data[entry[d.name]] = Whole(d.told)
    /\ d.step = "reading" =>
        /\ \A u \in Upload : upload[u].step = "writing" => upload[u].file # d.file
        /\ data[d.file] = Whole(d.told)
        /\ Len(d.got) <= Size[d.told] /\ d.got = [i \in 1 .. Len(d.got) |-> d.told]
    /\ d.step = "read" => d.got = Whole(d.told)

ReaderInv == \A r \in Reader \ spoiled : Faithful(download[r])

IInv ==
    /\ ValueInv /\ TreeInv /\ UploadInv /\ DownloadInv /\ DownInv /\ FilesInv /\ AloneInv
    /\ SavedInv /\ RestInv /\ ObjectsMatch /\ ReaderInv

-----------------------------------------------------------------------------
\* A proper prefix of a name is not the name, and its proper prefixes are the name's.
LEMMA ParentsNest ==
    ASSUME NEW n \in Name
    PROVE  /\ n \notin Parents(n)
           /\ \A p \in Parents(n) : Parents(p) \subseteq Parents(n)
<1> DEFINE S == {n[i] : i \in DOMAIN n}
<1>1. n \in Seq(S)
    BY StorageConstants
<1> HIDE DEF S
<1>2. Len(n) \in Nat /\ \A i \in 1 .. Len(n) : n[i] \in S
    BY <1>1
<1>3. \A k \in 1 .. Len(n) - 1 : SubSeq(n, 1, k) \in Seq(S) /\ Len(SubSeq(n, 1, k)) = k
    <2> TAKE k \in 1 .. Len(n) - 1
    <2>1. \A i \in 1 .. k : n[i] \in S
        BY <1>2
    <2>2. k \in Int /\ 1 \in Int /\ k - 1 + 1 = k /\ 1 <= k
        BY <1>2
    <2> QED
        BY <2>1, <2>2, SubSeqProperties
<1>4. \A k \in 1 .. Len(n) - 1 : \A j \in 1 .. k - 1 :
          SubSeq(SubSeq(n, 1, k), 1, j) = SubSeq(n, 1, j)
    <2> TAKE k \in 1 .. Len(n) - 1
    <2> TAKE j \in 1 .. k - 1
    <2>1. \A i \in 1 .. Len(n) : n[i] \in S
        BY <1>2
    <2>2. /\ 1 \in 1 .. Len(n) /\ k \in 1 .. Len(n) /\ 1 \in 1 .. k - 1 + 1 /\ j \in 1 .. k - 1 + 1
          /\ 1 + 1 - 1 = 1 /\ 1 + j - 1 = j
        BY <1>2
    <2> QED
        BY <1>1, <2>2, SubSeqOfSubSeq
<1> QED
    BY <1>2, <1>3, <1>4 DEF Parents

\* A set whose members are equal has one at most.
LEMMA OneAtMost ==
    ASSUME NEW S, \A x, y \in S : x = y
    PROVE  Cardinality(S) <= 1
<1>1. CASE S = {}
    BY <1>1, FS_EmptySet
<1>2. CASE S # {}
    <2>1. PICK x \in S : S = {x}
        BY <1>2
    <2> QED
        BY <2>1, FS_Singleton
<1> QED
    BY <1>1, <1>2

\* What the step of a call says of its record.
LEMMA UploadSteps ==
    ASSUME UploadInv, NEW u \in Upload
    PROVE  /\ upload[u].step \in {"new", "writing", "entered", "done"}
           /\ upload[u] = New <=> upload[u].step = "new"
           /\ upload[u] = Done <=> upload[u].step = "done"
           /\ upload[u].step \in {"writing", "entered"} =>
                  /\ upload[u] \in InProgress
                  /\ upload[u].name \in Name /\ upload[u].file \in Upload /\ upload[u].at \in Nat
BY DEF UploadInv, InProgress, New, Done

LEMMA DownloadSteps ==
    ASSUME DownloadInv, NEW r \in Reader
    PROVE  /\ download[r].step \in {"idle", "looked", "reading", "read"}
           /\ download[r] = Idle <=> download[r].step = "idle"
           /\ download[r].step = "looked" => download[r].name \in Name /\ download[r].told \in Upload
           /\ download[r].step \in {"reading", "read"} =>
                  /\ download[r].told \in Upload /\ download[r].file \in Upload
                  /\ download[r].got \in Chunks
BY DEF DownloadInv, Idle

\* Files that are still in use keep their chunks.
Kept ==
    /\ data' \in [Upload -> Chunks]
    /\ \A n \in Name : entry'[n] \in Upload => data'[entry'[n]] = data[entry'[n]]
    /\ \A u \in Upload : upload'[u].step = "writing" /\ upload'[u].file \in Upload =>
           data'[upload'[u].file] = data[upload'[u].file]
    /\ \A r \in Reader : download'[r].step = "reading" /\ download'[r].file \in Upload =>
           data'[download'[r].file] = data[download'[r].file]

LEMMA UsedKept == ValueInv /\ FreeUnused => Kept
<1> SUFFICES ASSUME ValueInv, FreeUnused PROVE Kept
    OBVIOUS
<1>1. \A f \in Upload : data'[f] = IF f \in InUse' THEN data[f] ELSE <<>>
    BY DEF FreeUnused
<1>2. data' \in [Upload -> Chunks]
    <2>1. <<>> \in Chunks
        BY DEF Chunks
    <2>2. \A f \in Upload : data'[f] \in Chunks
        BY <1>1, <2>1 DEF ValueInv
    <2> QED
        BY <2>2 DEF FreeUnused
<1> QED
    BY <1>1, <1>2 DEF InUse, Kept

LEMMA AllKept == ValueInv /\ UNCHANGED data => Kept
BY DEF ValueInv, Kept

LEMMA TypesSuffice == IInv => TypeOK
<1> SUFFICES ASSUME IInv PROVE TypeOK
    OBVIOUS
<1>1. Cardinality({u \in Upload : upload[u].step = "entered"}) <= (IF lock = "free" THEN 0 ELSE 1)
    <2>1. CASE lock = "free"
        <3>1. {u \in Upload : upload[u].step = "entered"} = {}
            BY <2>1 DEF IInv, UploadInv
        <3> QED
            BY <2>1, <3>1, FS_EmptySet
    <2>2. CASE lock # "free"
        BY <2>2, OneAtMost DEF IInv, UploadInv
    <2> QED
        BY <2>1, <2>2
<1>2. alone \subseteq UNION {Writing(n) : n \in Name}
    <2>1. \A u \in alone : upload[u].name \in Name /\ u \in Writing(upload[u].name)
        BY UploadSteps DEF IInv, AloneInv
    <2> QED
        BY <2>1
<1>3. \A u \in Upload : upload[u].step \in {"new", "writing", "entered", "done"}
    BY UploadSteps DEF IInv
<1>4. \A r \in Reader : download[r].step \in {"idle", "looked", "reading", "read"}
    BY DownloadSteps DEF IInv
<1> QED
    BY <1>1, <1>2, <1>3, <1>4 DEF IInv, ValueInv, TreeInv, Chunks, TypeOK

LEMMA InitHolds == Init => IInv
<1> SUFFICES ASSUME Init PROVE IInv
    OBVIOUS
<1>1. \A n \in Name : entry[n] = None /\ ~ IsFile(n)
    BY DEF Init, NoObjects, IsFile
<1>2. ValueInv
    <2>1. <<>> \in Chunks
        BY DEF Chunks
    <2> QED
        BY <2>1 DEF Init, ValueInv, NoObjects
<1>3. TreeInv
    BY <1>1 DEF Init, TreeInv
<1>4. UploadInv /\ DownloadInv /\ DownInv
    BY DEF Init, UploadInv, DownloadInv, DownInv, New, Idle
<1>5. FilesInv
    BY <1>1 DEF Init, FilesInv, New, Idle
<1>6. RestInv
    BY <1>1 DEF Init, RestInv, Recorded, Ready, NoObjects
<1> QED
    BY <1>2, <1>3, <1>4, <1>5, <1>6
    DEF Init, IInv, AloneInv, SavedInv, ObjectsMatch, ReaderInv, Faithful, Idle

-----------------------------------------------------------------------------
\* A step aside: nobody starts to write or writes, and names only vanish, none of them
\* one with which an upload stays alone.
Aside ==
    /\ Kept
    /\ \A n \in Name : entry'[n] \in {entry[n], None}
    /\ \A u \in Upload :
        /\ upload'[u].step = "writing" => upload'[u] = upload[u]
        /\ upload'[u] = New => upload[u] = New
    /\ alone' \subseteq alone
    /\ \A u \in alone' : /\ upload'[u].step = "writing"
                         /\ entry'[upload[u].name] = entry[upload[u].name]

LEMMA FilesAside ==
    ASSUME IInv, Aside,
           \A r \in Reader : download'[r].step = "reading" => upload'[download'[r].file] # New
    PROVE  FilesInv' /\ AloneInv'
<1>1. \A n : Writing(n)' \subseteq Writing(n)
    BY DEF Writing, Aside
<1>2. FilesInv'
    <2>1. \A u \in Upload : upload'[u].step = "writing" =>
              upload[u].step = "writing" /\ upload'[u] = upload[u] /\ upload[u].file \in Upload
        BY UploadSteps DEF IInv, Aside
    <2>2. \A n, m \in Name : entry'[n] = entry'[m] /\ entry'[n] # None => n = m
        BY DEF IInv, FilesInv, Aside
    <2>3. \A n \in Name : entry'[n] # None => upload'[entry'[n]] # New
        BY StorageConstants DEF IInv, ValueInv, FilesInv, Aside
    <2>4. \A u \in Upload : upload'[u].step = "writing" =>
              /\ upload'[upload'[u].file] # New
              /\ \A n \in Name : entry'[n] = upload'[u].file => n = upload'[u].name
        BY <2>1, StorageConstants DEF IInv, FilesInv, Aside
    <2> QED
        BY <2>2, <2>3, <2>4 DEF FilesInv
<1>3. AloneInv'
    <2> SUFFICES ASSUME NEW u \in alone'
                 PROVE  /\ u \in Upload /\ upload'[u].step = "writing"
                        /\ Writing(upload[u].name)' = {u}
                        /\ entry'[upload'[u].name] = upload'[u].file
                        /\ data'[upload'[u].file] = [i \in 1 .. upload'[u].at |-> u]
        BY DEF AloneInv, Aside, IInv
    <2>1. u \in alone /\ u \in Upload /\ upload'[u].step = "writing" /\ upload'[u] = upload[u]
        BY DEF IInv, AloneInv, Aside
    <2>2. Writing(upload[u].name)' = {u}
        <3>1. PICK n : n = upload[u].name /\ n = upload'[u].name
            BY <2>1
        <3>2. Writing(n) = {u}
            BY <2>1, <3>1 DEF IInv, AloneInv
        <3>3. u \in Writing(n)' /\ Writing(n)' \subseteq Writing(n)
            BY <1>1, <2>1, <3>1 DEF Writing
        <3> QED
            BY <3>1, <3>2, <3>3
    <2>3. entry'[upload[u].name] = upload[u].file
        BY <2>1 DEF IInv, AloneInv, Aside
    <2>4. data'[upload'[u].file] = data[upload[u].file]
        BY <2>1, UploadSteps DEF IInv, Aside, Kept
    <2> QED
        BY <2>1, <2>2, <2>3, <2>4 DEF IInv, AloneInv
<1> QED
    BY <1>2, <1>3

\* A name that keeps its file and to which nobody writes still leads to what it did.
LEMMA NameAside ==
    ASSUME IInv, Kept, NEW n \in Name, entry'[n] = entry[n], NEW u
    PROVE  Ready(n, u)' <=> Ready(n, u)
<1>1. entry[n] = None \/ (entry[n] \in Upload /\ data'[entry'[n]] = data[entry[n]])
    BY DEF IInv, ValueInv, Kept
<1> QED
    BY <1>1, StorageConstants DEF Ready, IsFile, Whole

LEMMA ReaderAside ==
    ASSUME IInv, Aside, NEW r \in Reader, r \notin spoiled, download'[r] = download[r]
    PROVE  Faithful(download[r])'
<1> SUFFICES ASSUME NEW d, d = download[r], d = download'[r] PROVE Faithful(d)'
    BY DEF Faithful
<1>1. Faithful(d)
    BY DEF IInv, ReaderInv
<1>2. CASE d.step = "looked"
    <2>1. d.name \in Name /\ Writing(d.name) = {}
        BY <1>1, <1>2, DownloadSteps DEF IInv, Faithful
    <2>2. Writing(d.name)' = {}
        BY <2>1 DEF Writing, Aside
    <2>3. IsFile(d.name)' => data'[entry'[d.name]] = Whole(d.told)
        BY <1>1, <1>2, <2>1 DEF IInv, ValueInv, Faithful, IsFile, Aside, Kept
    <2> QED
        BY <1>2, <2>2, <2>3 DEF Faithful, Whole
<1>3. CASE d.step = "reading"
    <2>1. d.file \in Upload
        BY <1>3, DownloadSteps DEF IInv
    <2>2. data'[d.file] = data[d.file]
        BY <1>3, <2>1 DEF Aside, Kept
    <2>3. \A u \in Upload : upload'[u].step = "writing" => upload'[u].file # d.file
        BY <1>1, <1>3 DEF Faithful, Aside
    <2> QED
        BY <1>1, <1>3, <2>2, <2>3 DEF Faithful, Whole
<1> QED
    BY <1>1, <1>2, <1>3 DEF Faithful, Whole

\* A step of the call that saves: it goes on, or returns.
LEMMA SavingKeeps ==
    ASSUME IInv, up, UNCHANGED <<up, meta, disk, download, alone, marred, spoiled>>,
           (lock' = "opened" /\ upload' = upload) \/ Return, lock # "free",
           metaFile' \in {NoFile, Torn} \cup [Name -> Upload \cup {None}],
           unsaved' \subseteq Name, SavedInv'
    PROVE  IInv'
<1>1. \A u \in Upload :
          /\ upload'[u] = IF lock' = "free" /\ upload[u].step = "entered" THEN Done ELSE upload[u]
          /\ upload[u].step = "writing" => upload'[u] = upload[u]
          /\ upload'[u].step = "writing" => upload'[u] = upload[u]
          /\ upload'[u] = New <=> upload[u] = New
    BY DEF Return, Done, New
<1>2. UploadInv'
    <2>1. DOMAIN upload' = Upload
        BY DEF IInv, UploadInv, Return
    <2>2. \A u \in Upload : upload'[u].step = "entered" => upload'[u] = upload[u] /\ lock' # "free"
        BY <1>1 DEF Return, Done
    <2> QED
        BY <1>1, <2>1, <2>2 DEF IInv, UploadInv, Done
<1>3. Aside
    BY <1>1, AllKept DEF IInv, AloneInv, Aside, disk, names
<1>4. FilesInv' /\ AloneInv' /\ TreeInv'
    <2>1. \A r \in Reader : download'[r].step = "reading" => upload'[download'[r].file] # New
        BY <1>1, DownloadSteps DEF IInv, FilesInv
    <2> QED
        BY <1>3, <2>1, FilesAside DEF IInv, TreeInv, IsFile, disk, names
<1>5. ObjectsMatch' /\ ReaderInv'
    <2>1. \A n : Writing(n)' = Writing(n)
        BY <1>1 DEF Writing
    <2>2. ObjectsMatch'
        BY <2>1 DEF IInv, ObjectsMatch, IsFile, Whole, disk, names
    <2> QED
        BY <1>3, <2>2, ReaderAside DEF ReaderInv
<1>6. ValueInv'
    <2>1. lock' \in {"free", "edited", "opened"}
        BY DEF Return
    <2> QED
        BY <2>1 DEF IInv, ValueInv, disk, names
<1>7. DownloadInv' /\ DownInv' /\ RestInv'
    BY DEF IInv, DownloadInv, DownInv, RestInv
<1> QED
    BY <1>2, <1>4, <1>5, <1>6, <1>7 DEF IInv

LEMMA OpenMetaKeeps == IInv /\ OpenMeta => IInv'
<1> SUFFICES ASSUME IInv, OpenMeta PROVE IInv'
    OBVIOUS
<1>1. SavedInv'
    BY DEF OpenMeta, SavedInv
<1> QED
    BY <1>1, SavingKeeps DEF IInv, ValueInv, OpenMeta, history

LEMMA WriteMetaKeeps == IInv /\ WriteMeta => IInv'
<1> SUFFICES ASSUME IInv, WriteMeta PROVE IInv'
    OBVIOUS
<1>1. SavedInv'
    BY StorageConstants DEF IInv, ValueInv, WriteMeta, SavedInv, Recorded
<1> QED
    BY <1>1, SavingKeeps DEF IInv, ValueInv, WriteMeta

LEMMA SaveFailsKeeps == IInv /\ SaveFails => IInv'
<1> SUFFICES ASSUME IInv, SaveFails PROVE IInv'
    OBVIOUS
<1>1. metaFile' = metaFile \/ metaFile' = Torn \/ metaFile' = meta
    BY DEF SaveFails
<1>2. SavedInv'
    BY <1>1, StorageConstants DEF IInv, ValueInv, SaveFails, SavedInv, Recorded, history
<1> QED
    BY <1>1, <1>2, SavingKeeps DEF IInv, ValueInv, SaveFails, history

-----------------------------------------------------------------------------
LEMMA StartKeeps == IInv /\ Start => IInv'
<1> SUFFICES ASSUME IInv, Start PROVE IInv'
    OBVIOUS
<1>1. /\ ~ up /\ metaFile # Torn /\ up' /\ meta' = Recorded
      /\ UNCHANGED <<metaFile, lock, dirs, entry, data, upload, download>>
      /\ UNCHANGED <<alone, marred, unsaved, spoiled>>
    BY DEF Start, Recorded, disk, names, history
<1>2. ValueInv'
    <2>1. meta' \in [Name -> Upload \cup {None}]
        BY <1>1 DEF IInv, ValueInv, Recorded, NoObjects
    <2> QED
        BY <1>1, <2>1 DEF IInv, ValueInv
<1>3. SavedInv'
    BY <1>1 DEF SavedInv, Recorded, NoObjects
<1>4. ObjectsMatch'
    BY <1>1 DEF IInv, RestInv, Ready, IsFile, Whole, ObjectsMatch
<1>5. \A r \in Reader : download'[r] = Idle
    BY <1>1 DEF IInv, DownInv
<1>6. ReaderInv'
    BY <1>5 DEF ReaderInv, Faithful, Idle
<1>7. UploadInv' /\ DownloadInv' /\ DownInv' /\ RestInv'
    BY <1>1 DEF IInv, UploadInv, DownloadInv, DownInv, RestInv
<1>8. TreeInv' /\ FilesInv' /\ AloneInv'
    BY <1>1 DEF IInv, TreeInv, IsFile, FilesInv, AloneInv, Writing
<1> QED
    BY <1>2, <1>3, <1>4, <1>6, <1>7, <1>8 DEF IInv

\* A download takes a step: the rest of the system does not notice.
LEMMA DownloadMoves ==
    ASSUME IInv, up, NEW r \in Reader, NEW d,
           UNCHANGED <<up, meta, metaFile, lock, disk, upload, alone, marred, unsaved>>,
           download' = [download EXCEPT ![r] = d],
           \/ d = Idle
           \/ d \in [step : {"looked"}, name : Name, told : Upload]
           \/ /\ d \in [step : {"reading", "read"}, told : Upload, file : Upload, got : Chunks]
              /\ d.step = "reading" => upload[d.file] # New,
           spoiled' \subseteq spoiled \cup {r}, spoiled \subseteq spoiled' \cup {r},
           r \notin spoiled' => Faithful(d)
    PROVE  IInv'
<1>1. /\ UNCHANGED <<dirs, entry, data>>
      /\ DOMAIN download' = Reader /\ download'[r] = d
      /\ \A q \in Reader \ {r} : download'[q] = download[q]
    BY DEF IInv, DownloadInv, disk, names
<1>2. Aside
    BY <1>1, AllKept DEF IInv, AloneInv, Aside
<1>3. \A q \in Reader : download'[q].step = "reading" => upload'[download'[q].file] # New
    BY <1>1 DEF IInv, FilesInv, Idle
<1>4. FilesInv' /\ AloneInv'
    BY <1>2, <1>3, FilesAside
<1>5. ReaderInv'
    <2>1. \A q \in Reader \ {r} : q \notin spoiled' => Faithful(download[q])'
        BY <1>1, <1>2, ReaderAside
    <2>2. r \notin spoiled' => Faithful(d)'
        BY <1>1 DEF Faithful, Writing, IsFile, Whole
    <2>3. \A q \in Reader : q \notin spoiled' => Faithful(download[q])'
        BY <1>1, <2>1, <2>2 DEF Faithful
    <2> QED
        BY <2>3 DEF ReaderInv
<1>6. ValueInv' /\ TreeInv' /\ UploadInv' /\ DownInv' /\ SavedInv' /\ RestInv' /\ ObjectsMatch'
    BY <1>1 DEF IInv, ValueInv, TreeInv, UploadInv, DownInv, SavedInv, Recorded, RestInv,
                ObjectsMatch, IsFile, Writing, Whole
<1>7. DownloadInv'
    BY <1>1 DEF IInv, DownloadInv
<1> QED
    BY <1>4, <1>5, <1>6, <1>7 DEF IInv

LEMMA LookupKeeps ==
    ASSUME IInv, NEW r \in Reader, NEW n \in Name, Lookup(r, n)
    PROVE  IInv'
<1> DEFINE d == [step |-> "looked", name |-> n, told |-> meta[n]]
<1>1. d \in [step : {"looked"}, name : Name, told : Upload]
    BY DEF IInv, ValueInv, Lookup
<1>2. spoiled' = IF n \in marred \/ Writing(n) # {} THEN spoiled \cup {r} ELSE spoiled \ {r}
    BY DEF Lookup
<1>3. r \notin spoiled' => Faithful(d)
    BY <1>2 DEF IInv, ObjectsMatch, Lookup, Faithful
<1>4. download' = [download EXCEPT ![r] = d] /\ up
    BY DEF Lookup
<1>5. UNCHANGED <<up, meta, metaFile, lock, disk, upload, alone, marred, unsaved>>
    BY DEF Lookup
<1> HIDE DEF d
<1> QED
    BY <1>1, <1>2, <1>3, <1>4, <1>5, DownloadMoves

LEMMA OpenFileKeeps ==
    ASSUME IInv, NEW r \in Reader, OpenFile(r)
    PROVE  IInv'
<1> DEFINE n == download[r].name
           d == [step |-> "reading", told |-> download[r].told, file |-> entry[n], got |-> <<>>]
<1>1. n \in Name /\ entry[n] \in Upload /\ IsFile(n) /\ download[r].told \in Upload
    BY DownloadSteps DEF OpenFile, IInv, ValueInv, IsFile
<1>2. d \in [step : {"reading", "read"}, told : Upload, file : Upload, got : Chunks]
    <2>1. <<>> \in Chunks
        BY DEF Chunks
    <2> QED
        BY <1>1, <2>1
<1>3. upload[entry[n]] # New
    BY <1>1, StorageConstants DEF IInv, FilesInv
<1>4. r \notin spoiled => Faithful(d)
    <2> SUFFICES ASSUME r \notin spoiled PROVE Faithful(d)
        OBVIOUS
    <2>1. Writing(n) = {} /\ data[entry[n]] = Whole(download[r].told)
        BY <1>1 DEF OpenFile, IInv, ReaderInv, Faithful
    <2>2. \A u \in Upload : upload[u].step = "writing" => upload[u].file # entry[n]
        BY <1>1, <2>1 DEF IInv, FilesInv, Writing
    <2>3. Size[download[r].told] \in Nat
        BY <1>1, StorageConstants
    <2>4. Len(<<>>) <= Size[download[r].told] /\ <<>> = [i \in 1 .. Len(<<>>) |-> download[r].told]
        BY <2>3
    <2> QED
        BY <2>1, <2>2, <2>4 DEF Faithful
<1>5. download' = [download EXCEPT ![r] = d] /\ up /\ spoiled' = spoiled
    BY DEF OpenFile, history
<1>6. UNCHANGED <<up, meta, metaFile, lock, disk, upload, alone, marred, unsaved>>
    BY DEF OpenFile, history
<1>7. d.step = "reading" => upload[d.file] # New
    BY <1>3
<1> HIDE DEF d
<1> QED
    BY <1>2, <1>4, <1>5, <1>6, <1>7, DownloadMoves

LEMMA OpenFailsKeeps ==
    ASSUME IInv, NEW r \in Reader, OpenFails(r)
    PROVE  IInv'
<1>1. Faithful(Idle)
    BY DEF Faithful, Idle
<1> QED
    BY <1>1, DownloadMoves DEF OpenFails

LEMMA ReadChunkKeeps ==
    ASSUME IInv, NEW r \in Reader, ReadChunk(r)
    PROVE  IInv'
<1>1. /\ up /\ download[r].step = "reading" /\ spoiled' = spoiled
      /\ UNCHANGED <<up, meta, metaFile, lock, disk, upload, alone, marred, unsaved>>
    BY DEF ReadChunk, history
<1> DEFINE R == [step : {"reading", "read"}, told : Upload, file : Upload, got : Chunks]
           chunks == data[download[r].file]
           got == download[r].got
           k == Len(got) + 1
           told == download[r].told
<1>2. download[r] \in R /\ upload[download[r].file] # New
    BY <1>1, DownloadSteps DEF IInv, DownloadInv, FilesInv, Idle
<1>3. /\ got \in Chunks /\ k \in Nat \ {0} /\ chunks \in Chunks /\ Len(chunks) \in Nat
      /\ told \in Upload /\ Size[told] \in Nat
    BY <1>2, StorageConstants DEF Chunks, IInv, ValueInv
<1>4. r \notin spoiled => /\ chunks = Whole(told) /\ Len(chunks) = Size[told]
                          /\ k <= Size[told] + 1 /\ got = [i \in 1 .. k - 1 |-> told]
    <2>1. Len(Whole(told)) = Size[told]
        BY <1>3 DEF Whole
    <2> QED
        BY <1>1, <1>3, <2>1 DEF IInv, ReaderInv, Faithful
<1>5. CASE k <= Len(chunks)
    <2> DEFINE d == [download[r] EXCEPT !.got = Append(@, chunks[k])]
    <2>1. Append(got, chunks[k]) \in Chunks
        BY <1>3, <1>5 DEF Chunks
    <2>2. d \in R /\ d.step = "reading" /\ d.file = download[r].file
        BY <1>1, <1>2, <2>1
    <2>3. r \notin spoiled => Faithful(d)
        <3> SUFFICES ASSUME r \notin spoiled PROVE Faithful(d)
            OBVIOUS
        <3>1. chunks[k] = told
            BY <1>3, <1>4, <1>5 DEF Whole
        <3>2. Append(got, told) = [i \in 1 .. k |-> told]
            BY <1>3, <1>4 DEF Chunks
        <3>3. Len(Append(got, told)) = k
            BY <1>3 DEF Chunks
        <3>4. /\ d.step = "reading" /\ d.file = download[r].file /\ d.told = told
              /\ d.got = Append(got, told)
            BY <1>1, <1>2, <3>1
        <3>5. Faithful(download[r])
            BY DEF IInv, ReaderInv
        <3> HIDE DEF d
        <3> QED
            BY <1>1, <1>4, <1>5, <3>2, <3>3, <3>4, <3>5 DEF Faithful
    <2>4. download' = [download EXCEPT ![r] = d]
        BY <1>5 DEF ReadChunk
    <2> HIDE DEF d
    <2> QED
        BY <1>1, <1>2, <2>2, <2>3, <2>4, DownloadMoves
<1>6. CASE ~ (k <= Len(chunks))
    <2> DEFINE d == [download[r] EXCEPT !.step = "read"]
    <2>1. d \in R /\ d.step = "read" /\ d.got = got /\ d.told = told
        BY <1>1, <1>2
    <2>2. r \notin spoiled => Faithful(d)
        <3> SUFFICES ASSUME r \notin spoiled PROVE Faithful(d)
            OBVIOUS
        <3>1. k - 1 = Size[told]
            BY <1>3, <1>4, <1>6
        <3> HIDE DEF d
        <3> QED
            BY <1>4, <2>1, <3>1 DEF Faithful, Whole
    <2>3. download' = [download EXCEPT ![r] = d]
        BY <1>6 DEF ReadChunk
    <2> HIDE DEF d
    <2> QED
        BY <1>1, <2>1, <2>2, <2>3, DownloadMoves
<1> QED
    BY <1>5, <1>6

LEMMA CloseKeeps ==
    ASSUME IInv, NEW r \in Reader, Close(r)
    PROVE  IInv'
<1>1. /\ up /\ UNCHANGED <<up, meta, metaFile, lock, dirs, entry, upload, alone, marred, unsaved>>
      /\ download' = [download EXCEPT ![r] = Idle] /\ spoiled' = spoiled \ {r} /\ FreeUnused
    BY DEF Close, names
<1>2. Kept /\ DOMAIN download' = Reader
    BY <1>1, UsedKept DEF IInv, DownloadInv
<1>3. Aside
    BY <1>1, <1>2 DEF IInv, AloneInv, Aside
<1>4. \A q \in Reader : download'[q] = IF q = r THEN Idle ELSE download[q]
    BY <1>1 DEF IInv, DownloadInv
<1>5. FilesInv' /\ AloneInv'
    <2>1. \A q \in Reader : download'[q].step = "reading" => upload'[download'[q].file] # New
        BY <1>1, <1>4 DEF IInv, FilesInv, Idle
    <2> QED
        BY <1>3, <2>1, FilesAside
<1>6. ReaderInv'
    <2>1. \A q \in Reader \ {r} : q \notin spoiled' => Faithful(download[q])'
        BY <1>1, <1>3, <1>4, ReaderAside
    <2>2. Faithful(download[r])'
        BY <1>4 DEF Faithful, Idle
    <2> QED
        BY <2>1, <2>2 DEF ReaderInv
<1>7. ObjectsMatch'
    <2> SUFFICES ASSUME NEW n \in Name, n \notin marred, Writing(n)' = {}
                 PROVE  Ready(n, meta[n])'
        BY <1>1 DEF ObjectsMatch, Ready
    <2>1. Ready(n, meta[n])
        BY <1>1 DEF IInv, ObjectsMatch, Writing, Ready
    <2>2. Ready(n, meta[n]) <=> Ready(n, meta'[n])
        BY <1>1
    <2>3. \A x : Ready(n, x)' <=> Ready(n, x)
        BY <1>1, <1>2, NameAside
    <2> QED
        BY <1>1, <2>1, <2>3 DEF Ready, IsFile, Whole
<1>8. ValueInv' /\ TreeInv' /\ UploadInv' /\ DownInv' /\ SavedInv' /\ RestInv'
    BY <1>1, <1>2 DEF IInv, ValueInv, Kept, TreeInv, IsFile, UploadInv, DownInv, SavedInv, Recorded,
                      RestInv
<1>9. DownloadInv'
    BY <1>2, <1>4 DEF IInv, DownloadInv
<1> QED
    BY <1>5, <1>6, <1>7, <1>8, <1>9 DEF IInv

LEMMA RemoveFailsKeeps ==
    ASSUME IInv, NEW n \in Name, RemoveFails(n)
    PROVE  IInv'
<1>1. /\ up /\ UNCHANGED <<up, metaFile, lock, dirs, entry, data, upload, download, spoiled>>
      /\ meta' = [meta EXCEPT ![n] = None] /\ unsaved' = unsaved \cup {n}
      /\ alone' = alone \ Writing(n) /\ marred' = marred \cup {n}
    BY DEF RemoveFails, Unlisted, disk, names
<1>2. Aside
    BY <1>1, AllKept DEF IInv, AloneInv, Aside
<1>3. FilesInv' /\ AloneInv'
    BY <1>1, <1>2, FilesAside DEF IInv, FilesInv
<1>4. ReaderInv'
    BY <1>1, <1>2, ReaderAside DEF ReaderInv
<1>5. ObjectsMatch'
    BY <1>1 DEF IInv, ValueInv, ObjectsMatch, Writing, IsFile, Whole
<1>6. ValueInv' /\ SavedInv'
    BY <1>1 DEF IInv, ValueInv, SavedInv, Recorded
<1>7. TreeInv' /\ UploadInv' /\ DownloadInv' /\ DownInv' /\ RestInv'
    BY <1>1 DEF IInv, TreeInv, IsFile, UploadInv, DownloadInv, DownInv, RestInv
<1> QED
    BY <1>3, <1>4, <1>5, <1>6, <1>7 DEF IInv

LEMMA BreakOffKeeps ==
    ASSUME IInv, NEW u \in Upload, BreakOff(u)
    PROVE  IInv'
<1> DEFINE n == upload[u].name
<1>1. /\ up /\ UNCHANGED <<up, meta, metaFile, lock, dirs, entry, download, unsaved, spoiled>>
      /\ upload[u].step = "writing" /\ upload' = [upload EXCEPT ![u] = Done]
      /\ alone' = alone \ {u} /\ marred' = marred \cup {n} /\ FreeUnused
    BY DEF BreakOff, names
<1>2. n \in Name /\ Kept
    BY <1>1, UploadSteps, UsedKept DEF IInv
<1>3. /\ DOMAIN upload' = Upload
      /\ \A v \in Upload : upload'[v] = IF v = u THEN Done ELSE upload[v]
    BY <1>1 DEF IInv, UploadInv
<1>4. Aside
    BY <1>1, <1>2, <1>3 DEF IInv, AloneInv, Aside, Done, New
<1>5. FilesInv' /\ AloneInv'
    <2>1. \A r \in Reader : download'[r].step = "reading" => upload'[download'[r].file] # New
        BY <1>1, <1>3, DownloadSteps DEF IInv, FilesInv, Done, New
    <2> QED
        BY <1>4, <2>1, FilesAside
<1>6. ReaderInv'
    BY <1>1, <1>4, ReaderAside DEF ReaderInv
<1>7. ObjectsMatch'
    <2> SUFFICES ASSUME NEW m \in Name, m \notin marred', Writing(m)' = {}
                 PROVE  Ready(m, meta[m])'
        BY <1>1 DEF ObjectsMatch, Ready
    <2>1. Writing(m) = {}
        BY <1>1, <1>3 DEF Writing
    <2>2. Ready(m, meta[m])
        BY <1>1, <2>1 DEF IInv, ObjectsMatch, Ready
    <2>3. \A x : Ready(m, x)' <=> Ready(m, x)
        BY <1>1, <1>2, NameAside
    <2> QED
        BY <1>1, <2>2, <2>3 DEF Ready, IsFile, Whole
<1>8. ValueInv'
    BY <1>1, <1>2 DEF IInv, ValueInv, Kept
<1>9. UploadInv' /\ DownInv'
    BY <1>1, <1>3 DEF IInv, UploadInv, DownInv, Done
<1>10. TreeInv' /\ DownloadInv' /\ SavedInv' /\ RestInv'
    BY <1>1 DEF IInv, TreeInv, IsFile, DownloadInv, SavedInv, Recorded, RestInv
<1> QED
    BY <1>5, <1>6, <1>7, <1>8, <1>9, <1>10 DEF IInv

\* Only an upload that is alone makes its name one that must match, and the file to
\* which that leads is then all its own.
LEMMA EnterKeeps ==
    ASSUME IInv, NEW u \in Upload, Enter(u)
    PROVE  IInv'
<1> DEFINE n == upload[u].name
<1>1. /\ up /\ UNCHANGED <<up, metaFile, dirs, entry, download, spoiled>>
      /\ lock = "free" /\ lock' = "edited"
      /\ upload[u].step = "writing" /\ upload[u].at = Size[u]
      /\ upload' = [upload EXCEPT ![u].step = "entered"]
      /\ alone' = alone \ {u} /\ FreeUnused
      /\ meta' = [meta EXCEPT ![n] = u] /\ unsaved' = unsaved \cup {n}
      /\ marred' = IF u \in alone THEN marred \ {n} ELSE marred \cup {n}
    BY DEF Enter, Received, names
<1>2. n \in Name /\ Kept
    BY <1>1, UploadSteps, UsedKept DEF IInv
<1>3. /\ DOMAIN upload' = Upload
      /\ upload'[u] \in InProgress /\ upload'[u].step = "entered"
      /\ \A v \in Upload : v # u => upload'[v] = upload[v]
    <2>1. upload[u] \in InProgress
        BY <1>1, UploadSteps DEF IInv
    <2>2. upload'[u] = [upload[u] EXCEPT !.step = "entered"]
        BY <1>1 DEF IInv, UploadInv
    <2>3. [upload[u] EXCEPT !.step = "entered"] \in InProgress
        BY <2>1 DEF InProgress
    <2>4. [upload[u] EXCEPT !.step = "entered"].step = "entered"
        BY <2>1 DEF InProgress
    <2>5. DOMAIN upload' = Upload /\ \A v \in Upload : v # u => upload'[v] = upload[v]
        BY <1>1 DEF IInv, UploadInv
    <2> QED
        BY <2>2, <2>3, <2>4, <2>5
<1>4. Aside
    <2>1. upload'[u] # New /\ upload'[u].step # "writing"
        BY <1>3 DEF New
    <2>2. \A v \in Upload : /\ upload'[v].step = "writing" => upload'[v] = upload[v]
                           /\ upload'[v] = New => upload[v] = New
        BY <1>3, <2>1
    <2>3. \A v \in alone' : upload'[v].step = "writing"
        BY <1>1, <1>3 DEF IInv, AloneInv
    <2> QED
        BY <1>1, <1>2, <2>2, <2>3 DEF Aside
<1>5. FilesInv' /\ AloneInv'
    <2>1. \A r \in Reader : download'[r].step = "reading" => upload'[download'[r].file] # New
        BY <1>1, <1>3, DownloadSteps DEF IInv, FilesInv, New
    <2> QED
        BY <1>4, <2>1, FilesAside
<1>6. ReaderInv'
    BY <1>1, <1>4, ReaderAside DEF ReaderInv
<1>7. ObjectsMatch'
    <2> SUFFICES ASSUME NEW m \in Name, m \notin marred', Writing(m)' = {}
                 PROVE  Ready(m, meta[m])'
        BY <1>1 DEF ObjectsMatch, Ready
    <2> SUFFICES Ready(m, meta'[m])
        <3>1. \A x : Ready(m, x)' <=> Ready(m, x)
            BY <1>1, <1>2, NameAside
        <3> QED
            BY <3>1 DEF Ready, IsFile, Whole
    <2>1. CASE m # n
        <3>1. m \notin marred /\ meta'[m] = meta[m] /\ Writing(m) = {}
            BY <1>1, <1>3, <2>1 DEF IInv, ValueInv, Writing
        <3> QED
            BY <1>1, <3>1 DEF IInv, ObjectsMatch, Ready
    <2>2. CASE m = n
        <3>1. u \in alone
            BY <1>1, <2>2
        <3>2. entry[n] = upload[u].file /\ data[upload[u].file] = Whole(u)
            BY <1>1, <3>1 DEF IInv, AloneInv, Whole
        <3>3. upload[u].file \in Upload
            BY <1>1, UploadSteps DEF IInv
        <3>4. meta'[n] = u
            BY <1>1, <1>2 DEF IInv, ValueInv
        <3> QED
            BY <1>2, <2>2, <3>2, <3>3, <3>4, StorageConstants DEF Ready, IsFile
    <2> QED
        BY <2>1, <2>2
<1>8. ValueInv' /\ SavedInv'
    BY <1>1, <1>2 DEF IInv, ValueInv, Kept, SavedInv, Recorded
<1>9. UploadInv'
    BY <1>1, <1>3 DEF IInv, UploadInv
<1>10. DownInv' /\ TreeInv' /\ DownloadInv' /\ RestInv'
    BY <1>1 DEF IInv, DownInv, TreeInv, IsFile, DownloadInv, RestInv
<1> QED
    BY <1>5, <1>6, <1>7, <1>8, <1>9, <1>10 DEF IInv

LEMMA DeleteKeeps ==
    ASSUME IInv, NEW n \in Name, Delete(n)
    PROVE  IInv'
<1>1. /\ up /\ UNCHANGED <<up, metaFile, upload, download, spoiled>>
      /\ lock = "free" /\ lock' = "edited" /\ Removable(n)
      /\ meta' = [meta EXCEPT ![n] = None] /\ unsaved' = unsaved \cup {n}
      /\ alone' = alone \ Writing(n) /\ FreeUnused
      /\ entry' = [entry EXCEPT ![n] = None] /\ dirs' = dirs \ {n}
      /\ marred' = IF Writing(n) = {} THEN marred \ {n} ELSE marred \cup {n}
    BY DEF Delete, Unlisted
<1>2. Kept
    BY <1>1, UsedKept DEF IInv
<1>3. /\ entry'[n] = None /\ meta'[n] = None
      /\ \A m \in Name \ {n} : entry'[m] = entry[m] /\ meta'[m] = meta[m]
    BY <1>1 DEF IInv, ValueInv
<1>4. Aside
    <2>1. \A u \in alone' : /\ upload'[u].step = "writing"
                            /\ entry'[upload[u].name] = entry[upload[u].name]
        <3> TAKE u \in alone'
        <3>1. u \in Upload /\ upload[u].step = "writing" /\ u \notin Writing(n)
            BY <1>1 DEF IInv, AloneInv
        <3>2. upload[u].name \in Name \ {n}
            BY <3>1, UploadSteps DEF IInv, Writing
        <3> QED
            BY <1>1, <1>3, <3>1, <3>2
    <2> QED
        BY <1>1, <1>2, <1>3, <2>1 DEF Aside
<1>5. FilesInv' /\ AloneInv'
    <2>1. \A r \in Reader : download'[r].step = "reading" => upload'[download'[r].file] # New
        BY <1>1 DEF IInv, FilesInv
    <2> QED
        BY <1>4, <2>1, FilesAside
<1>6. ReaderInv'
    BY <1>1, <1>4, ReaderAside DEF ReaderInv
<1>7. ObjectsMatch'
    <2> SUFFICES ASSUME NEW m \in Name, m \notin marred', Writing(m)' = {}
                 PROVE  Ready(m, meta[m])'
        BY <1>1 DEF ObjectsMatch, Ready
    <2>1. CASE m = n
        BY <1>3, <2>1 DEF Ready, IsFile
    <2>2. CASE m # n
        <3>1. m \notin marred /\ Writing(m) = {}
            BY <1>1, <2>2 DEF Writing
        <3>2. Ready(m, meta'[m])
            BY <1>1, <1>3, <2>2, <3>1 DEF IInv, ObjectsMatch, Ready
        <3>3. \A x : Ready(m, x)' <=> Ready(m, x)
            BY <1>2, <1>3, <2>2, NameAside
        <3> QED
            BY <3>2, <3>3 DEF Ready, IsFile, Whole
    <2> QED
        BY <2>1, <2>2
<1>8. TreeInv'
    <2>1. \A m \in Name : IsFile(m)' => m # n /\ IsFile(m)
        BY <1>1, <1>3 DEF IsFile
    <2>2. \A m \in Name : IsFile(m)' => m \notin dirs' /\ Parents(m) \subseteq dirs'
        <3> SUFFICES ASSUME NEW m \in Name, IsFile(m)'
                     PROVE  m \notin dirs' /\ Parents(m) \subseteq dirs'
            OBVIOUS
        <3>1. IsFile(m) /\ n \notin Parents(m)
            BY <1>1, <2>1 DEF Removable
        <3> QED
            BY <1>1, <3>1 DEF IInv, TreeInv
    <2>3. \A p \in dirs' : Parents(p) \subseteq dirs'
        BY <1>1 DEF IInv, TreeInv, Removable
    <2> QED
        BY <2>2, <2>3 DEF TreeInv
<1>9. ValueInv' /\ SavedInv'
    BY <1>1, <1>2 DEF IInv, ValueInv, Kept, SavedInv, Recorded
<1>10. UploadInv' /\ DownInv' /\ DownloadInv' /\ RestInv'
    BY <1>1 DEF IInv, UploadInv, DownInv, DownloadInv, RestInv
<1> QED
    BY <1>5, <1>6, <1>7, <1>8, <1>9, <1>10 DEF IInv

LEMMA CrashKeeps == IInv /\ Crash => IInv'
<1> SUFFICES ASSUME IInv, Crash PROVE IInv'
    OBVIOUS
<1>1. /\ up /\ up' = FALSE /\ meta' = NoObjects /\ lock' = "free"
      /\ upload' = [u \in Upload |-> IF upload[u] = New THEN New ELSE Done]
      /\ download' = [r \in Reader |-> Idle]
      /\ marred' = marred \cup unsaved \cup {n \in Name : Writing(n) # {}}
      /\ alone' = {} /\ unsaved' = {} /\ spoiled' = {}
      /\ UNCHANGED <<metaFile, dirs, entry>> /\ FreeUnused
    BY DEF Crash, IInv, ValueInv, names
<1>2. Kept
    BY <1>1, UsedKept DEF IInv
<1>3. Aside
    BY <1>1, <1>2 DEF Aside, New, Done
<1>4. FilesInv' /\ AloneInv'
    <2>1. \A r \in Reader : download'[r].step = "reading" => upload'[download'[r].file] # New
        BY <1>1 DEF Idle
    <2> QED
        BY <1>3, <2>1, FilesAside
<1>5. ReaderInv'
    BY <1>1 DEF ReaderInv, Faithful, Idle
<1>6. RestInv'
    <2> SUFFICES ASSUME metaFile # Torn, NEW n \in Name, n \notin marred'
                 PROVE  Ready(n, Recorded[n])'
        BY <1>1 DEF RestInv
    <2>1. n \notin marred /\ n \notin unsaved /\ Writing(n) = {}
        BY <1>1
    <2>2. Ready(n, Recorded[n])
        BY <1>1, <2>1 DEF IInv, ObjectsMatch, SavedInv, Ready
    <2>3. \A x : Ready(n, x)' <=> Ready(n, x)
        BY <1>1, <1>2, NameAside
    <2>4. Recorded' = Recorded
        BY <1>1 DEF Recorded
    <2> QED
        BY <2>2, <2>3, <2>4 DEF Ready, IsFile, Whole
<1>7. ValueInv'
    BY <1>1, <1>2 DEF IInv, ValueInv, Kept, NoObjects
<1>8. UploadInv' /\ DownloadInv' /\ DownInv'
    BY <1>1 DEF IInv, UploadInv, DownloadInv, DownInv, New, Done
<1>9. TreeInv' /\ SavedInv' /\ ObjectsMatch'
    BY <1>1 DEF IInv, TreeInv, IsFile, SavedInv, ObjectsMatch
<1> QED
    BY <1>4, <1>5, <1>6, <1>7, <1>8, <1>9 DEF IInv

LEMMA RefusedKeeps ==
    ASSUME IInv, NEW u \in Upload, NEW n \in Name, Refused(u, n)
    PROVE  IInv'
<1>1. /\ up /\ UNCHANGED <<up, meta, metaFile, lock, entry, data, download>>
      /\ UNCHANGED <<alone, marred, unsaved, spoiled>>
      /\ upload[u] = New /\ CanMakeDirs(n)
      /\ dirs' = dirs \cup Parents(n) /\ upload' = [upload EXCEPT ![u] = Done]
    BY DEF Refused, history
<1>2. /\ DOMAIN upload' = Upload
      /\ \A v \in Upload : upload'[v] = IF v = u THEN Done ELSE upload[v]
      /\ upload[u].step # "writing" /\ Done.step = "done" /\ Done # New
    BY <1>1 DEF IInv, UploadInv, New, Done
<1>3. Aside
    BY <1>1, <1>2, AllKept DEF IInv, AloneInv, Aside
<1>4. FilesInv' /\ AloneInv'
    <2>1. \A r \in Reader : download'[r].step = "reading" => upload'[download'[r].file] # New
        BY <1>1, <1>2, DownloadSteps DEF IInv, FilesInv
    <2> QED
        BY <1>3, <2>1, FilesAside
<1>5. ReaderInv'
    BY <1>1, <1>3, ReaderAside DEF ReaderInv
<1>6. ObjectsMatch'
    <2>1. \A m : Writing(m)' = Writing(m)
        BY <1>2 DEF Writing
    <2> QED
        BY <1>1, <2>1 DEF IInv, ObjectsMatch, IsFile, Whole
<1>7. TreeInv'
    BY <1>1, ParentsNest DEF IInv, TreeInv, IsFile, CanMakeDirs
<1>8. UploadInv' /\ DownInv'
    BY <1>1, <1>2 DEF IInv, UploadInv, DownInv
<1>9. ValueInv' /\ DownloadInv' /\ SavedInv' /\ RestInv'
    BY <1>1 DEF IInv, ValueInv, DownloadInv, SavedInv, Recorded, RestInv
<1> QED
    BY <1>4, <1>5, <1>6, <1>7, <1>8, <1>9 DEF IInv

\* What an upload writes to is nobody's to read, unless it is spoiled, and no name's that
\* must match.
LEMMA WriteChunkKeeps ==
    ASSUME IInv, NEW u \in Upload, WriteChunk(u)
    PROVE  IInv'
<1> DEFINE f == upload[u].file
           at == upload[u].at
           old == data[f]
           len == IF at + 1 > Len(old) THEN at + 1 ELSE Len(old)
           new == [i \in 1 .. len |->
                      IF i = at + 1 THEN u ELSE IF i <= Len(old) THEN old[i] ELSE Zero]
<1>1. /\ up /\ UNCHANGED <<up, meta, metaFile, lock, dirs, entry, download>>
      /\ UNCHANGED <<alone, marred, unsaved, spoiled>>
      /\ upload[u].step = "writing" /\ at < Size[u]
      /\ data' = [data EXCEPT ![f] = new] /\ upload' = [upload EXCEPT ![u].at = @ + 1]
    BY DEF WriteChunk, history
<1>2. f \in Upload /\ at \in Nat /\ upload[u] \in InProgress /\ old \in Chunks /\ Size[u] \in Nat
    BY <1>1, UploadSteps, StorageConstants DEF IInv, ValueInv
<1>3. new \in Chunks
    <2>1. Len(old) \in Nat /\ \A i \in 1 .. Len(old) : old[i] \in Upload \cup {Zero}
        BY <1>2 DEF Chunks
    <2>2. len \in Nat
        BY <1>2, <2>1
    <2>3. \A i \in 1 .. len :
              (IF i = at + 1 THEN u ELSE IF i <= Len(old) THEN old[i] ELSE Zero) \in Upload \cup {Zero}
        BY <2>1, <2>2
    <2> HIDE DEF len
    <2> QED
        BY <2>2, <2>3 DEF Chunks
<1>4. old = [i \in 1 .. at |-> u] => new = [i \in 1 .. at + 1 |-> u]
    <2> SUFFICES ASSUME old = [i \in 1 .. at |-> u] PROVE new = [i \in 1 .. at + 1 |-> u]
        OBVIOUS
    <2>1. Len(old) = at
        BY <1>2
    <2>2. len = at + 1
        BY <1>2, <2>1
    <2>3. \A i \in 1 .. at + 1 : new[i] = u
        BY <1>2, <2>1, <2>2
    <2> QED
        BY <2>2, <2>3
<1> HIDE DEF new
<1>5. /\ DOMAIN upload' = Upload
      /\ upload'[u] \in InProgress /\ upload'[u].step = "writing" /\ upload'[u].at = at + 1
      /\ upload'[u].file = f /\ upload'[u].name = upload[u].name
      /\ \A v \in Upload : v # u => upload'[v] = upload[v]
    <2>1. DOMAIN upload' = Upload /\ \A v \in Upload : v # u => upload'[v] = upload[v]
        BY <1>1 DEF IInv, UploadInv
    <2>2. upload'[u] = [upload[u] EXCEPT !.at = at + 1]
        BY <1>1 DEF IInv, UploadInv
    <2>3. [upload[u] EXCEPT !.at = at + 1] \in InProgress
        BY <1>2 DEF InProgress
    <2> QED
        BY <1>1, <1>2, <2>1, <2>2, <2>3 DEF InProgress
<1>6. \A v \in Upload : /\ upload'[v].step = upload[v].step
                        /\ upload[v].step = "writing" =>
                               upload'[v].file = upload[v].file /\ upload'[v].name = upload[v].name
                        /\ upload'[v] = New <=> upload[v] = New
    BY <1>1, <1>5 DEF New
<1>7. \A n : Writing(n)' = Writing(n)
    BY <1>6 DEF Writing
<1>8. data'[f] = new /\ data' \in [Upload -> Chunks] /\ \A g \in Upload : g # f => data'[g] = data[g]
    BY <1>1, <1>2, <1>3 DEF IInv, ValueInv
<1>9. \A n \in Name : Writing(n) = {} \/ u \notin Writing(n) => entry[n] # f
    BY <1>1 DEF IInv, FilesInv, Writing
<1>10. AloneInv'
    <2> SUFFICES ASSUME NEW v \in alone
                 PROVE  /\ v \in Upload /\ upload'[v].step = "writing"
                        /\ Writing(upload[v].name)' = {v}
                        /\ entry'[upload'[v].name] = upload'[v].file
                        /\ data'[upload'[v].file] = [i \in 1 .. upload'[v].at |-> v]
        BY <1>1 DEF AloneInv
    <2>1. /\ v \in Upload /\ upload[v].step = "writing" /\ Writing(upload[v].name) = {v}
          /\ entry[upload[v].name] = upload[v].file
          /\ data[upload[v].file] = [i \in 1 .. upload[v].at |-> v]
        BY DEF IInv, AloneInv
    <2>2. upload[v].name \in Name /\ upload[v].file \in Upload
        BY <2>1, UploadSteps DEF IInv
    <2>3. upload'[v].name = upload[v].name /\ upload'[v].file = upload[v].file
        BY <1>6, <2>1
    <2>4. Writing(upload[v].name)' = {v}
        <3>1. PICK n : n = upload[v].name /\ n = upload'[v].name
            BY <2>3
        <3> QED
            BY <1>7, <2>1, <3>1
    <2>5. data'[upload'[v].file] = [i \in 1 .. upload'[v].at |-> v]
        <3>1. CASE v = u
            BY <1>4, <1>5, <1>8, <2>1, <3>1
        <3>2. CASE v # u
            <4>1. upload[v].file # f
                BY <1>9, <2>1, <2>2, <3>2
            <4> QED
                BY <1>5, <1>8, <2>1, <2>2, <3>2, <4>1
        <3> QED
            BY <3>1, <3>2
    <2> QED
        BY <1>1, <1>6, <2>1, <2>3, <2>4, <2>5
<1>11. FilesInv'
    <2>1. \A n \in Name : entry[n] # None => upload'[entry[n]] # New
        BY <1>6, StorageConstants DEF IInv, ValueInv, FilesInv
    <2>2. \A v \in Upload : upload'[v].step = "writing" =>
              /\ upload'[upload'[v].file] # New
              /\ \A n \in Name : entry[n] = upload'[v].file => n = upload'[v].name
        BY <1>6, UploadSteps DEF IInv, FilesInv
    <2>3. \A r \in Reader : download[r].step = "reading" => upload'[download[r].file] # New
        BY <1>6, DownloadSteps DEF IInv, FilesInv
    <2> QED
        BY <1>1, <2>1, <2>2, <2>3 DEF IInv, FilesInv
<1>12. ObjectsMatch'
    <2> SUFFICES ASSUME NEW n \in Name, n \notin marred, Writing(n) = {}
                 PROVE  Ready(n, meta[n])'
        BY <1>1, <1>7 DEF ObjectsMatch, Ready
    <2>1. Ready(n, meta[n])
        BY <1>1 DEF IInv, ObjectsMatch, Ready
    <2>2. entry[n] # f /\ (entry[n] = None \/ entry[n] \in Upload)
        BY <1>9 DEF IInv, ValueInv
    <2>3. entry[n] \in Upload => data'[entry[n]] = data[entry[n]]
        BY <1>8, <2>2
    <2> QED
        BY <1>1, <2>1, <2>2, <2>3 DEF Ready, IsFile, Whole
<1>13. ReaderInv'
    <2> SUFFICES ASSUME NEW r \in Reader, r \notin spoiled PROVE Faithful(download[r])'
        BY <1>1 DEF ReaderInv
    <2> SUFFICES ASSUME NEW d, d = download[r], d = download'[r] PROVE Faithful(d)'
        BY <1>1 DEF Faithful
    <2>1. Faithful(d)
        BY DEF IInv, ReaderInv
    <2>2. CASE d.step = "looked"
        <3>1. d.name \in Name /\ Writing(d.name) = {}
            BY <2>1, <2>2, DownloadSteps DEF IInv, Faithful
        <3>2. entry[d.name] # f /\ (entry[d.name] = None \/ entry[d.name] \in Upload)
            BY <1>9, <3>1 DEF IInv, ValueInv
        <3>3. entry[d.name] \in Upload => data'[entry[d.name]] = data[entry[d.name]]
            BY <1>8, <3>2
        <3> QED
            BY <1>1, <1>7, <2>1, <2>2, <3>1, <3>2, <3>3 DEF Faithful, IsFile, Whole
    <2>3. CASE d.step = "reading"
        <3>1. d.file \in Upload /\ d.file # f
            BY <1>1, <2>1, <2>3, DownloadSteps DEF IInv, Faithful
        <3>2. data'[d.file] = data[d.file]
            BY <1>8, <3>1
        <3>3. \A v \in Upload : upload'[v].step = "writing" => upload'[v].file # d.file
            BY <1>6, <2>1, <2>3 DEF Faithful
        <3> QED
            BY <2>1, <2>3, <3>2, <3>3 DEF Faithful, Whole
    <2> QED
        BY <2>1, <2>2, <2>3 DEF Faithful, Whole
<1>14. UploadInv'
    <2>1. at + 1 <= Size[u]
        BY <1>1, <1>2
    <2> QED
        BY <1>1, <1>5, <1>6, <2>1 DEF IInv, UploadInv
<1>15. ValueInv' /\ TreeInv' /\ DownInv' /\ DownloadInv' /\ SavedInv' /\ RestInv'
    BY <1>1, <1>8 DEF IInv, ValueInv, TreeInv, IsFile, DownInv, DownloadInv, SavedInv, Recorded,
                      RestInv
<1> QED
    BY <1>10, <1>11, <1>12, <1>13, <1>14, <1>15 DEF IInv

\* A file that is created or truncated is a new one, or the one of the name, and whoever
\* would see that is spoiled.
LEMMA CreateKeeps ==
    ASSUME IInv, NEW u \in Upload, NEW n \in Name, Create(u, n)
    PROVE  IInv'
<1>1. PICK f :
          /\ f = IF IsFile(n) THEN entry[n] ELSE u
          /\ entry' = [entry EXCEPT ![n] = f] /\ data' = [data EXCEPT ![f] = <<>>]
          /\ upload' = [upload EXCEPT ![u] = [step |-> "writing", name |-> n, file |-> f, at |-> 0]]
    BY DEF Create
<1>2. /\ up /\ UNCHANGED <<up, meta, metaFile, lock, download, marred, unsaved>>
      /\ upload[u] = New /\ CanMakeDirs(n) /\ n \notin dirs
      /\ dirs' = dirs \cup Parents(n) /\ spoiled' = spoiled \cup Exposed(n)
      /\ alone' = IF Writing(n) = {} THEN alone \cup {u} ELSE alone \ Writing(n)
    BY DEF Create
<1>3. f \in Upload /\ f # None
    BY <1>1, StorageConstants DEF IInv, ValueInv, IsFile
<1>4. /\ entry'[n] = f /\ data'[f] = <<>> /\ data' \in [Upload -> Chunks]
      /\ entry' \in [Name -> Upload \cup {None}]
      /\ \A m \in Name \ {n} : entry'[m] = entry[m]
      /\ \A g \in Upload \ {f} : data'[g] = data[g]
    <2>1. <<>> \in Chunks
        BY DEF Chunks
    <2> QED
        BY <1>1, <1>3, <2>1 DEF IInv, ValueInv
<1>5. /\ DOMAIN upload' = Upload
      /\ upload'[u] \in InProgress /\ upload'[u] # New /\ upload'[u].step = "writing"
      /\ upload'[u].name = n /\ upload'[u].file = f /\ upload'[u].at = 0
      /\ \A v \in Upload \ {u} : upload'[v] = upload[v]
      /\ upload[u].step # "writing"
    BY <1>1, <1>2, <1>3 DEF IInv, UploadInv, InProgress, New
\* No other name leads to the file, and no download that stays unspoiled reads it.
<1>6. \A m \in Name \ {n} : entry[m] # f
    BY <1>1, <1>2, StorageConstants DEF IInv, FilesInv, IsFile
<1>7. \A v \in Upload : upload[v].step = "writing" /\ upload[v].file = f => upload[v].name = n
    BY <1>1, <1>2 DEF IInv, FilesInv, IsFile
<1>8. \A m \in Name \ {n} : Writing(m)' = Writing(m)
    BY <1>5 DEF Writing
<1>9. FilesInv'
    <2>1. \A l, m \in Name : entry'[l] = entry'[m] /\ entry'[l] # None => l = m
        BY <1>4, <1>6 DEF IInv, FilesInv
    <2>2. upload'[f] # New
        BY <1>1, <1>3, <1>5 DEF IInv, FilesInv, IsFile
    <2>3. \A m \in Name : entry'[m] # None => upload'[entry'[m]] # New
        <3>1. \A m \in Name \ {n} : entry[m] # None => entry[m] \in Upload /\ upload[entry[m]] # New
            BY DEF IInv, ValueInv, FilesInv
        <3> QED
            BY <1>4, <1>5, <2>2, <3>1
    <2>4. \A v \in Upload : upload'[v].step = "writing" =>
              /\ upload'[upload'[v].file] # New
              /\ \A m \in Name : entry'[m] = upload'[v].file => m = upload'[v].name
        <3> SUFFICES ASSUME NEW v \in Upload, upload'[v].step = "writing"
                     PROVE  /\ upload'[upload'[v].file] # New
                            /\ \A m \in Name : entry'[m] = upload'[v].file => m = upload'[v].name
            OBVIOUS
        <3>1. CASE v = u
            BY <1>4, <1>5, <1>6, <2>2, <3>1
        <3>2. CASE v # u
            <4>1. upload'[v] = upload[v] /\ upload[v].step = "writing" /\ upload[v].file \in Upload
                BY <1>5, <3>2, UploadSteps DEF IInv
            <4>2. upload[upload[v].file] # New
                BY <4>1 DEF IInv, FilesInv
            <4>3. \A m \in Name : entry'[m] = upload[v].file => m = upload[v].name
                BY <1>4, <1>7, <4>1 DEF IInv, FilesInv
            <4> QED
                BY <1>5, <4>1, <4>2, <4>3
        <3> QED
            BY <3>1, <3>2
    <2>5. \A r \in Reader : download[r].step = "reading" => upload'[download[r].file] # New
        BY <1>5, DownloadSteps DEF IInv, FilesInv
    <2> QED
        BY <1>2, <2>1, <2>3, <2>4, <2>5 DEF FilesInv
<1>10. AloneInv'
    <2> SUFFICES ASSUME NEW v \in alone'
                 PROVE  /\ v \in Upload /\ upload'[v].step = "writing"
                        /\ Writing(upload[v].name)' = {v}
                        /\ entry'[upload'[v].name] = upload'[v].file
                        /\ data'[upload'[v].file] = [i \in 1 .. upload'[v].at |-> v]
        BY DEF AloneInv
    <2>1. CASE v = u
        <3>1. Writing(n) = {}
            BY <1>2, <1>5, <2>1 DEF IInv, AloneInv
        <3>2. Writing(n)' = {u}
            <4>1. \A w \in Upload : w \in Writing(n)' <=> w = u
                BY <1>5, <3>1 DEF Writing
            <4>2. Writing(n)' \subseteq Upload
                BY DEF Writing
            <4> QED
                BY <4>1, <4>2
        <3>3. Writing(upload[v].name)' = {v}
            BY <1>5, <2>1, <3>2 DEF Writing
        <3>4. <<>> = [i \in 1 .. 0 |-> v]
            OBVIOUS
        <3> QED
            BY <1>4, <1>5, <2>1, <3>3, <3>4
    <2>2. CASE v # u
        <3>1. v \in alone /\ v \notin Writing(n)
            BY <1>2, <2>2
        <3>2. /\ v \in Upload /\ upload[v].step = "writing" /\ Writing(upload[v].name) = {v}
              /\ entry[upload[v].name] = upload[v].file
              /\ data[upload[v].file] = [i \in 1 .. upload[v].at |-> v]
            BY <3>1 DEF IInv, AloneInv
        <3>3. upload'[v] = upload[v] /\ upload[v].name \in Name \ {n} /\ upload[v].file \in Upload
            BY <1>5, <2>2, <3>1, <3>2, UploadSteps DEF IInv, Writing
        <3>4. Writing(upload[v].name)' = {v}
            <4>1. PICK m \in Name \ {n} : m = upload[v].name /\ m = upload'[v].name
                BY <3>3
            <4> QED
                BY <1>8, <3>2, <4>1
        <3>5. upload[v].file # f
            BY <1>6, <3>2, <3>3
        <3> QED
            BY <1>4, <3>2, <3>3, <3>4, <3>5
    <2> QED
        BY <2>1, <2>2
<1>11. \A m \in Name \ {n} : \A x : Ready(m, x)' <=> Ready(m, x)
    <2>1. \A m \in Name \ {n} : entry'[m] = entry[m] /\ entry[m] # f
        BY <1>4, <1>6
    <2>2. \A m \in Name \ {n} : entry[m] # None => entry[m] \in Upload /\ data'[entry[m]] = data[entry[m]]
        BY <1>4, <2>1 DEF IInv, ValueInv
    <2> QED
        BY <2>1, <2>2 DEF Ready, IsFile, Whole
<1>12. ObjectsMatch'
    <2> SUFFICES ASSUME NEW m \in Name, m \notin marred, Writing(m)' = {}
                 PROVE  Ready(m, meta[m])'
        BY <1>2 DEF ObjectsMatch, Ready
    <2>1. m # n
        BY <1>5 DEF Writing
    <2>2. Writing(m) = {}
        BY <1>8, <2>1
    <2>3. Ready(m, meta[m])
        BY <1>2, <2>2 DEF IInv, ObjectsMatch, Ready
    <2> QED
        BY <1>2, <1>11, <2>1, <2>3 DEF Ready, IsFile, Whole
<1>13. ReaderInv'
    <2> SUFFICES ASSUME NEW r \in Reader, r \notin spoiled, r \notin Exposed(n)
                 PROVE  Faithful(download[r])'
        BY <1>2 DEF ReaderInv
    <2> SUFFICES ASSUME NEW d, d = download[r], d = download'[r] PROVE Faithful(d)'
        BY <1>2 DEF Faithful
    <2>1. Faithful(d)
        BY DEF IInv, ReaderInv
    <2>2. CASE d.step = "looked"
        <3>1. d.name \in Name \ {n} /\ Writing(d.name) = {}
            BY <2>1, <2>2, DownloadSteps DEF IInv, Faithful, Exposed
        <3>2. Writing(d.name)' = {}
            BY <1>8, <3>1
        <3>3. IsFile(d.name)' => data'[entry'[d.name]] = Whole(d.told)
            <4>1. entry'[d.name] = entry[d.name] /\ entry[d.name] # f
                BY <1>4, <1>6, <3>1
            <4>2. IsFile(d.name)' => IsFile(d.name) /\ entry[d.name] \in Upload
                BY <3>1, <4>1 DEF IInv, ValueInv, IsFile
            <4> QED
                BY <1>4, <2>1, <2>2, <4>1, <4>2 DEF Faithful
        <3> QED
            BY <2>2, <3>2, <3>3 DEF Faithful, Whole
    <2>3. CASE d.step = "reading"
        <3>1. d.file \in Upload /\ upload[d.file] # New /\ d.file # entry[n]
            BY <2>3, DownloadSteps DEF IInv, FilesInv, Exposed
        <3>2. d.file # f
            BY <1>1, <1>2, <3>1
        <3>3. data'[d.file] = data[d.file]
            BY <1>4, <3>1, <3>2
        <3>4. \A v \in Upload : upload'[v].step = "writing" => upload'[v].file # d.file
            BY <1>5, <2>1, <2>3, <3>2 DEF Faithful
        <3> QED
            BY <2>1, <2>3, <3>3, <3>4 DEF Faithful, Whole
    <2> QED
        BY <2>1, <2>2, <2>3 DEF Faithful, Whole
<1>14. TreeInv'
    <2>1. \A m \in Name : IsFile(m)' => m = n \/ IsFile(m)
        BY <1>4 DEF IsFile
    <2>2. \A m \in Name : IsFile(m)' => m \notin dirs' /\ Parents(m) \subseteq dirs'
        BY <1>2, <2>1, ParentsNest DEF IInv, TreeInv, CanMakeDirs
    <2>3. \A p \in dirs' : Parents(p) \subseteq dirs'
        BY <1>2, ParentsNest DEF IInv, TreeInv
    <2> QED
        BY <2>2, <2>3 DEF TreeInv
<1>15. UploadInv'
    <2>1. 0 <= Size[u]
        BY StorageConstants
    <2>2. \A v \in Upload : upload'[v].step = "entered" => v # u
        BY <1>5
    <2> QED
        BY <1>2, <1>5, <2>1, <2>2 DEF IInv, UploadInv
<1>16. ValueInv'
    BY <1>2, <1>4 DEF IInv, ValueInv, Exposed
<1>17. DownInv' /\ DownloadInv' /\ SavedInv' /\ RestInv'
    BY <1>2 DEF IInv, DownInv, DownloadInv, SavedInv, Recorded, RestInv
<1> QED
    BY <1>9, <1>10, <1>12, <1>13, <1>14, <1>15, <1>16, <1>17 DEF IInv

LEMMA StutterKeeps == IInv /\ UNCHANGED vars => IInv'
<1> SUFFICES ASSUME IInv, UNCHANGED vars PROVE IInv'
    OBVIOUS
<1>1. /\ UNCHANGED <<up, meta, metaFile, lock, dirs, entry, data, upload, download>>
      /\ UNCHANGED <<alone, marred, unsaved, spoiled>>
    BY DEF vars, disk, names, history
<1>2. ValueInv' /\ TreeInv' /\ UploadInv' /\ DownloadInv' /\ DownInv'
    BY <1>1 DEF IInv, ValueInv, TreeInv, IsFile, UploadInv, DownloadInv, DownInv
<1>3. FilesInv' /\ AloneInv' /\ SavedInv' /\ RestInv'
    BY <1>1 DEF IInv, FilesInv, AloneInv, Writing, SavedInv, Recorded, RestInv, Ready, IsFile, Whole
<1>4. ObjectsMatch' /\ ReaderInv'
    BY <1>1 DEF IInv, ObjectsMatch, ReaderInv, Faithful, Writing, IsFile, Whole
<1> QED
    BY <1>2, <1>3, <1>4 DEF IInv

-----------------------------------------------------------------------------
\* The invariant holds in every state, whatever calls of storage.go overlap, break off
\* or fail and whenever the process dies.
THEOREM Invariance == Spec => []IInv
<1>1. Init => IInv
    BY InitHolds
<1>2. IInv /\ [Next]_vars => IInv'
    <2> SUFFICES ASSUME IInv, [Next]_vars PROVE IInv'
        OBVIOUS
    <2>1. ASSUME NEW u \in Upload, NEW n \in Name, Create(u, n) \/ Refused(u, n) PROVE IInv'
        BY <2>1, CreateKeeps, RefusedKeeps
    <2>2. ASSUME NEW u \in Upload, WriteChunk(u) \/ BreakOff(u) \/ Enter(u) PROVE IInv'
        BY <2>2, WriteChunkKeeps, BreakOffKeeps, EnterKeeps
    <2>3. ASSUME NEW n \in Name, Delete(n) \/ RemoveFails(n) PROVE IInv'
        BY <2>3, DeleteKeeps, RemoveFailsKeeps
    <2>4. ASSUME NEW r \in Reader, NEW n \in Name, Lookup(r, n) PROVE IInv'
        BY <2>4, LookupKeeps
    <2>5. ASSUME NEW r \in Reader, OpenFile(r) \/ OpenFails(r) \/ ReadChunk(r) \/ Close(r) PROVE IInv'
        BY <2>5, OpenFileKeeps, OpenFailsKeeps, ReadChunkKeeps, CloseKeeps
    <2>6. CASE Start \/ Crash \/ OpenMeta \/ WriteMeta \/ SaveFails \/ UNCHANGED vars
        BY <2>6, StartKeeps, CrashKeeps, OpenMetaKeeps, WriteMetaKeeps, SaveFailsKeeps, StutterKeeps
    <2> QED
        BY <2>1, <2>2, <2>3, <2>4, <2>5, <2>6 DEF Next
<1> QED
    BY <1>1, <1>2, PTL DEF Spec

\* The variables keep their types, and the directories and files below objects/ stay a
\* tree, whatever Put and Delete make and remove.
THEOREM TypeCorrect == Spec => []TypeOK
<1>1. IInv => TypeOK
    BY TypesSuffice
<1> QED
    BY <1>1, Invariance, PTL

\* What Open finds listed is, chunk for chunk, the upload it is listed with, if the last
\* Put or Delete of its name succeeded, was saved before any crash and was alone.
THEOREM ObjectsDescribed == Spec => []ObjectsMatch
<1>1. IInv => ObjectsMatch
    BY DEF IInv
<1> QED
    BY <1>1, Invariance, PTL

\* A download that reaches its end has the chunks it was told of when it was looked up,
\* although it reads its file with no lock held while others delete and replace it.
THEOREM DownloadsComplete == Spec => []DownloadsWhole
<1>1. IInv => DownloadsWhole
    BY DEF IInv, ReaderInv, Faithful, DownloadsWhole
<1> QED
    BY <1>1, Invariance, PTL

=============================================================================
