# Firego in TLA+

A verification project for Firego, a self-hosted backend in Go (`src/`): a JSON
database with a realtime stream, accounts and tokens, security rules, object
storage and remote configuration, all per application.  It models the parts that
keep state under concurrency, failure and restarts, checks them on small
instances with TLC, and proves what matters most for every instance with TLAPS.

Run a model with `tlc -config MCDatabase.cfg MCDatabase`, check the proofs of a
module with `tlapm DatabaseProofs.tla`.

## Inventory

Firego is one process, restarted by systemd or by scripts.  Every request is a
goroutine of `net/http`; requests share the services of an application through
mutexes.  There are no message queues but the channels of the realtime hub, and no
retries; what is hard is interleaving, failing file operations, what a restart finds,
and two processes at once when a restart does not wait.

| Component (source) | State | Operations | Interacts with | What makes it correct |
|---|---|---|---|---|
| JSON tree (`internal/database`) | `root`, nested maps | `Get`, `Set`, `Update`, `Push`, `Delete` | used by Database | results are documents; a mutation changes what it names and nothing else |
| Database (`internal/database`) | `root`, `mu`, the file and its temporary file | the mutations, `save`, `load` | handlers call it; it publishes to the hub after unlocking | saved calls survive failures and crashes; the file is never torn; memory and file agree; every call returns |
| Push identifiers (`internal/database`) | `lastPushTime`, `lastRand`, `pushMu` | `generatePushID` | called by `Push`, shared by all applications | keys unique and in order of creation, but where time or suffix run out |
| Hub (`internal/realtime`) | `subs`, a channel of 16 events each | `Subscribe`, unsubscribe, `Publish` | called by Database and the stream handler | publishers never wait for clients; no send on a closed channel; relevant events are offered |
| Stream handler (`internal/server`) | one goroutine per client | subscribe, snapshot, forward, unsubscribe | Hub, Database, Rules, Auth | a client ends up with the subtree it watches |
| Auth and tokens (`internal/auth`, `internal/jwt`) | `users`, `byUID`, `users.json`, `blacklist` | `Register`, `Login`, `Verify`, `Logout`, the hourly sweep, `load` | handlers; the sweep is a goroutine | one account per address; tokens name saved accounts; a logout holds |
| Rate limiter (`internal/ratelimit`) | `windows` | `Allow`, the sweep | in front of register and login | bounded bursts, no undeserved refusal, bounded memory |
| Security rules (`internal/rules`) | the rule tree and `rules.json` | `CanRead`, `CanWrite`, `Update` | every data handler | a grant cascades down; evaluation is deterministic and fails closed; file and memory agree |
| App manager (`internal/apps`) | `apps`, `apps.json`, one directory each | `Create`, `Delete`, `Get`, `loadAll` | owns all the services above | registry, map and directories agree after failures and restarts |
| Remote config (`internal/apps`) | `params` and its file | `Set`, `Merge`, `DeleteKey`, `Get` | admin and SDK handlers | each parameter is what the last successful call left; the lock survives a panic |
| Object storage (`internal/storage`) | `meta`, `metadata.json`, object files | `Put`, `Open`, `Delete`, `List` | storage handlers, which copy to and from clients | metadata describes the object's content; a download is one upload, whole |
| HTTP server (`internal/server`) | routes | middleware, admin API, the handlers | everything | handlers do the steps of the services in their order |
| Process (`cmd/firego`, `deploy`) | `secret.key`, `admin.key`, the PID file | load or draw keys, listen, shut down; `restart.sh`, `keepalive.sh`, systemd | starts everything | acknowledged writes and tokens survive restarts; a shutdown ends |
| Web console (`web`) | none of the server's | | | |

The hazards, each at its line and with the properties that would catch it, are
listed in `PROJECT.json`.  A note says of a hazard what no property catches: it is then a
case that the code does not guard against, which the models have and the properties
excuse by a history variable (`raced`, `missed`, `unremoved`, `marred`), or one that the
code accepts by design.

## Modules

`JsonTree` ← `TreeStore`, `Database`, `Hub`; `Database` implements `TreeStore`;
`Stream` composes `TreeStore` and `Hub`; `RuleStore`, `RuleExpr` ← `Rules`.
`Auth`, `RateLimit`, `Apps`, `Storage`, `RemoteConfig`, `PushId` and `Process` stand
alone.  `MC…` modules give the constants
values for TLC, `…Proofs` modules hold the theorems.  What is recursive is a
recursive function: no module declares a RECURSIVE operator.

**JsonTree.**  A document is the function from the paths that exist in it to `Obj`
or a leaf.  `At`, `SetAt`, `UpdateAt` and `DeleteAt` are `Get`, `Set`, `Update` and
`Delete` without lock and file; `Graft` is `ensureParent`, which replaces scalars
on the way by objects.  A scalar put at the root is dropped by the code and an
empty object is left: so it is here.

**Database.**  `Call` is a handler that enters a mutation, `Mutate` takes `db.mu` and
edits the tree; `OpenTmp`, `WriteTmp` and `Commit` are the three steps of `save`
(the file is created, written, renamed and the lock released); `SaveFails` leaves
from any of them with the edit still in memory, as the code does; `Publish` comes
after the lock.  `Crash` keeps the files, `Load` is `New` with `load`, which refuses
a file that does not parse.  History variables remember the tree before the edit
(`prior`), the saved calls nothing has touched since (`standing`) and whether a
save has failed (`strayed`).

**TreeStore** is what the rest of the program may rely on: mutations that are
atomic in memory and on disk, or in memory only with an error.

**Hub, Stream.**  `Hub` has one action per critical section of `hub.go`; `Publish` is
`Enter`, one `Offer` for each matching subscriber, `Leave`, with the read lock held.
`Stream` adds the writers (through `TreeStore`), the handler's subscribe, snapshot
and forward, and a client that applies events to its own copy of the document.
An event holds the very maps that `Set` and `Update` stored (`Shared`), and a later
mutation that edits the tree in place edits the events on their way as well
(`Edited`); what a client gets is what they hold when `Forward` encodes them.
`older`, `overtaken`, `raced` and `missed` are history: the writers that were publishing
already when one wrote, the clients that a later event reached first, and the clients that
got an event too late or were not told something.

**Auth.**  `Register` hashes outside the lock; `Taken` or `Insert` look the address up
under it; `Save` or `SaveFails` end it.  `Verify` is `Parse`, `CheckRevoked`,
`FindUser`, three steps between which anything may come; `Logout` parses and
`Revoke` lists.  The sweep reads the clock in `StartSweep` and deletes in `EndSweep`.

**RateLimit.**  `Allow` and `Cleanup` are one critical section each; `grants` is the
history of admissions the properties are about.

**Rules.**  `RuleStore` is `New` and `Update`: truncate, write, install, with no lock
around the first two.  A second writer's bytes may show behind a shorter document,
which makes the file `Torn`; a write may also fail when all of it is on disk, at the
`Close`.  `RuleExpr` is the evaluator on tokens, an operator per method; the
methods call each other, so `Parser` is the function of all calls on later tokens.
Below it the grammar is the reference: `Grammar` is the set of values of each phrase, one
for each way to derive it.
`Rules` walks the tree: `Walks` are the walks after each number of segments, and the
result of `check` is the set of the answers possible, because Go walks a map of sibling
wildcards in any order.

**Apps.**  `Create` and `Delete` hold the manager's lock over several file steps, each
of which may fail; a request resolves its application (`Resolve`) and works on it
later (`Write`), by which time it may be deleted, or another may have its name.
What an application holds is abstracted to *whose* data it is.

**Storage.**  A file is named by the upload that created it and holds chunks, each the
upload that wrote it, so that mixed contents show.  `Create` makes the directories and
truncates or creates the file, `WriteChunk` is a round of `io.Copy` at this upload's
own offset, `BreakOff` leaves the truncated file; `Enter` takes the lock and
`OpenMeta`, `WriteMeta`, `SaveFails` are `saveMeta` under it.  `Delete` and
`RemoveFails` are `Delete`, up to its save.  A download is `Lookup` under the read
lock, `OpenFile` and `ReadChunk` without it.  A file without a name lives while it is
open (`FreeUnused`); directories are made on the way and removed only by name.  The
history says which uploads were alone at their name, and which names were last left
by a call that failed or had company.

**RemoteConfig.**  `Set` writes first and installs then, `Merge` and `DeleteKey` the
reverse; `OpenFile`, `WriteFile` and `WriteFails` are the `os.WriteFile` that ends each.
JSON `null` is the value `Nil`, on which `Merge` panics (`MergeNil`, `Panic`).

**PushId.**  `generatePushID` is one action, for it runs under `pushMu`; the clock may
show any time.  Keys are digits, so that encoding, carry and order are the code's own.

**Process.**  Processes in the order they are started, on one data directory.  One
action per step of `main`: `ReadKey` or `DrawKey`, `WriteKey`, `KeyFails`, `Load`,
`Listen`, and `Exit` at the end of `Shutdown` or its timeout.  `Restart` is the signal,
`Wake` is `restart.sh` after its sleep, `Revive` is systemd or the cron job that finds
nothing running.  A write and its save are one step, as `TreeStore` has it.

## Runs

| Run | Bounds | States | What it shows |
|---|---|---|---|
| `database` | 2 writers, 2 names and a push key, 5 requests | 88,000 | `SavedCallsStand`, `MemoryMatchesFile`, the refinement `ImplementsStore`, and that calls return |
| `stream` | 2 writers, 1 client, a channel of 1, 3 requests that share maps | 186,000 | a client converges but for the cases it names; no send on a closed channel; publishers never wait |
| `auth` | 2 requests, 2 accounts, 2 tokens, one address in two spellings, clock to 2 | 316,000 | accounts agree with their file, one per address, tokens known; revocation within a run of the process |
| `ratelimit` | 2 clients, 2 requests per 2 ticks, clock to 7 | 229,000 | `BurstBound`, `NoEarlyRefusal`, windows go |
| `apps` | `default` and one more identifier, 3 API keys, 2 requests | 46,000 | registry, directories and memory agree; data stays with its application |
| `rules` | 2 updaters, 520 documents, 9 paths, 3 users | 42,600 | every check is what the text means; a lone update survives a restart |
| `storage` | 3 uploads of 2, 1 and 0 chunks, 1 download, 2 names, one below the other | 667,000 | an object is what its metadata says; a finished download is one upload, whole; the lock comes free |
| `config` | 2 keys, 2 values | 12,600 | each parameter is what the last successful call left; every call returns |
| `pushid` | base 2, 2 digits of time and 2 of suffix, 5 keys | 1,911,000 | keys in order and distinct but for the cases named |
| `process` | 3 processes, 2 writes, 2 keys, a timeout of 2 s and a sleep of 1 s | 164,000 | acknowledged writes and tokens survive; a shutdown ends |

Why the bounds suffice.  Two writers, requests or updaters show every ordering of
two calls, and nothing in the code counts more than that; the refinement and the
invariants of all components are proved for any number.
A channel of one fills with one event where the code's needs sixteen.  The
requests of `database` are chosen to meet each other: nested and disjoint paths, a
scalar on the way, the root.  The clock of `ratelimit` runs over three windows.
Three API keys give an identifier to an application, take it away and give it to
another.  The documents of `rules` are all texts of up to two tokens, those of three
with `true` at an end, the longer ones in which precedence, association and
brackets count, and two trees with wildcards.  The three uploads of `storage` make the
two that overlap differ in length from each other and from one before them; names below
one another bring in directories.  In base 2 with two digits a suffix carries and runs
over within five keys.  `process` keeps the order of sleep and timeout of
`restart.sh` (2 s) and `main.go` (5 s), which is all that counts; three processes are
one that goes, one that takes over and one that finds what they left.

`rules`, `storage`, `config` and `process` are checked without the deadlock check,
because the system really stops: a file that was cut off refuses every start, and in
`process` the last of the processes goes.
Bounds written as sets of fresh values (`PushKey`, `JTI`, `UID`, `APIKey`) limit how
often a run creates something; `MaxTime` and `MaxMillis` stop the clocks.

Runs that end in a violation, each of a sentence in the repository:

| Run | The sentence | What the code does |
|---|---|---|
| `apps_delete` | "Delete removes an app and all its data" (`manager.go:234`) | a request still running writes the directory again, and the next application of that name starts with it |
| `restart_overlap` | data is stored on disk (`web/index.html:645`) | `restart.sh` starts the next process 2 s after the signal, while the last may serve requests for 5 s and then saves its old tree over what the next has acknowledged |

Other sentences of the repository go too far as well.  They have no run; the properties
of the passing runs state what holds instead and name the exception where they meet it:

- `database.go:2-3`, every mutation is broadcast: one whose save fails stays in memory and
  is not (`missed` in `Stream`, `strayed` in `Database`).
- `web/index.html:645`, what is stored is synchronised to subscribers: events of two
  writers may arrive in reverse and leave the older value (`raced`).
- `hub.go:51-52`, an event at, above or below the watched node is relevant: the root's
  prefix `/` matches nothing but itself (`RootDiffers`).
- `manager.go:234`, Delete removes all the data: where `RemoveAll` fails it succeeds all the
  same, and the data waits for the next application of that name (`unremoved` in `Apps`).
- `auth.go:201-202`, later `Verify` calls return `ErrTokenRevoked`: a restart forgets the
  list, which `README.md:175` says is in memory; `RevokedTokenRefused` speaks of one run.
- `rules.go:467`, unexpected input is false: `!` alone is true, and what follows an
  expression is ignored; `CheckMeansRules` speaks of texts that are expressions.
- `rules.go:103-104`, default rules are written when there is no file: `New` does not.
- `ratelimit.go:27`, at most `limit` requests per `dur`: over the edge of two windows it is
  up to `2*limit-1`, which `BurstBound` states and the proofs establish.
- `database.go:238-239`, push keys are unique and sort by creation time: not when the clock
  steps back or a suffix runs over (`unordered` in `PushId`).

## Fairness

Only what the Go runtime gives is assumed: a goroutine that can take its next step
takes it (`WF` of a handler's steps), a goroutine that waits for `db.mu` gets it
although others keep taking it (`SF` of `Mutate`: `sync.RWMutex` hands the lock to
waiting writers and readers in turn), and the tickers of the sweeps do not stop
(`WF` of `Cleanup`, `StartSweep`, `EndSweep`).  Nothing is assumed of clients, of
failures, of time (but in `Process`) or of the choice between success and failure.  In
`Stream` only the steps of publishing are fair: `Forward` is not, because a client may
stop reading for good.  Who holds the lock of `Storage` or `RemoteConfig` goes on, while
uploads and downloads may stop anywhere.  In `Process` time passes (`Tick`) and `main`
leaves `Shutdown` when it returns (`Exit`); requests may never end.

## Proofs

TLAPS proves, for every value of the constants:

- `DatabaseProofs`, of the tree: mutations yield documents (`ApplyIsDoc`), change nothing
  outside the paths they name (`ApplyFrame`) and leave there what they were given
  (`ApplyWrites`).  Of the database: `TypeOK`, `OneSaver`, `SavedCallsStand`, `MemoryMatchesFile` and the
  refinement of `TreeStore`.  The inductive invariant is `TypeOK` with three parts.
  `LockInv` is `OneSaver`, and that the holder of the lock is saving and nobody is
  while the process is down: without it nothing is known of what `Commit` renames.
  `FileInv` strengthens `MemoryMatchesFile` to times when the lock is held: the file
  is then the document the holder found (`prior`).  `StandingInv` is
  `SavedCallsStand`, which is inductive beside the other two.  That a call untouched
  by another still holds afterwards is `ApplyFrame`.
- `MutexProofs`, of the components whose whole state is behind one mutex.  Of `RateLimit`:
  `TypeOK`, `BurstBound`, `NoEarlyRefusal`.  The properties speak of the history of
  admissions only, so the inductive invariant `ClientInv` says where in it the current
  window lies (`WindowInv`), or that the last one is over (`NoWindowInv`).
  Of `RemoteConfig`: `ConfigTypeOK` and `SavedParamsStand`.  `MemoryAgrees` extends it to a
  call in progress, but for the keys a `Merge` or `DeleteKey` has changed already;
  `FileAgrees` says the same of the file, and that before there is one nothing was
  acknowledged that has a value; `ChangeInv`, that a `Merge` or `DeleteKey` writes what is in
  memory, and so nothing but its own keys changes in the file.
  Of `PushId`: `PushTypeOK`, `KeysInOrder` and `KeysDistinct`, for any alphabet and lengths.
  `EntriesInv` says that a key is the digits of its time and a suffix, `LastInv` that the
  process remembers those of its last key, and `CountInv` that between two draws the number
  of the suffix (`Number`) goes up by one with each key, or starts over at
  `Values[RandDigits]`.  Under it lies arithmetic: the digits of a smaller time sort first
  (`EncodeOrder`), and counting up sorts later (`IncrementOrder`) and adds one
  (`NumberGoesUp`) or starts over (`NumberStartsOver`).
- `RulesProofs`: `TypeOK`, `LoneUpdatePersists` and `CheckMeansRules`.  Of the store,
  `AloneInv` says that a call that
  runs alone is the only one and the file is as it left it, and that beside any
  other call the history has gone astray.  Of the documents, `DocumentsReadAsWritten` is
  `CheckMeansRules` for each, in force or not, whatever its tree and its texts, and for any
  path and user.  It has two halves.  The parser: if `s` has the value `v` as a phrase of
  the grammar, the method for such phrases, called where `s` begins, returns `v` and the
  position behind `s`, provided that what follows cannot continue the phrase (`Reads`).
  The proof is by induction on the length of `s` (`EverythingReads`), with a lemma for each
  level of the grammar; `ReadsOr` and `ReadsAnd` say that the loop goes on behind `s` with
  `v`, which is why association to the left comes out right.  It follows that an expression has
  one value (`EvaluatesAsMeant`), and that whether it is one does not depend on who asks
  (`EverythingDerives`).  The walk: every walk is at a node that stands for the path so far,
  with the wildcards bound as `Binding` says, and has granted if the node's rule does
  (`Followed`); to each node that stands for a prefix some walk is under way unless a rule
  above has granted (`Toward`); and without sibling wildcards there is one walk (`OneWalk`).
  That the recursive functions `Parser`, `Grammar` and `Walks` exist, and so are what their
  definitions say, is `RankedRecursion`: a function defined from its values at arguments of
  lower rank.
- `AuthProofs`: `TypeOK`, `AccountsMatchFile`, `OneAccountPerAddress`, `TokenHoldersKnown`
  and `RevokedTokenRefused`.  The invariant follows an account through `Register`:
  `HolderInv` says that the lock is held from the insertion of an account to the answer;
  `MapsInv` (with `Hold`) that the two maps hold the accounts of the file and the one
  being saved, whose addresses and identifiers differ, and nothing else, which is
  `AccountsMatchFile` extended to the time the lock is held; `FileInv` that the file names
  no address twice, and `TokenInv` that every token is for an account in it.  For a logout,
  `RevokedInv` says that a revoked token is on the list until it has expired, which
  holds because the time a sweep has read is never ahead of the clock, and `LateInv` that a
  `Verify` that began after the logout gets past the list only once the token has expired.
- `ProcessProofs`: `TypeOK`, `AckedWritesKept`, `TokensOutliveRestarts`.  `OneInv` says that
  one process listens at most, and under systemd one is alive at most; `WriteInv` that under
  systemd no process saves while another has loaded the data, and that until one does what
  was acknowledged is on disk and in every process that has loaded it, those shutting
  down included; `KeyInv` that one process at a time writes a key, into a file without one,
  and that everything is signed with the key in the file.  `RequestInv` binds requests to
  processes that listen or shut down.
- `AppsProofs`: `TypeOK`, `ServedAreRegistered`, `AckedDataKept`, `DataIsolated`.
  `RegistryInv` and `AdminInv` say how map and `apps.json` differ while a `Create` or
  `Delete` is under way, `KeysInv` that a key stands for one application, `HandlerInv` that
  a request whose application is still served works for a registered one, and `AckedInv`
  that applications with acknowledged data are served.  `FilesInv` is the heart: as long as
  no removal failed and no late request wrote (`Sound`), the directory of an identifier
  holds data of the registered application only, and none when a `Create` comes to it;
  `DataInv` says the same of memory.
- `StorageProofs`: `TypeOK`, `ObjectsMatch`, `DownloadsWhole`.  `TreeInv` is the tree of
  directories.  `FilesInv` says that no two names lead to one file and that an upload writes
  to no name but its own, although a `Delete` may have taken its file's name meanwhile;
  `AloneInv`, that an upload beside which nothing happened is the only writer of its name's
  file and has written all of it.  `SavedInv` relates `metadata.json` to memory, and `RestInv`
  says of a process that is down what `ObjectsMatch` will say when it starts again.
  `ReaderInv` says why a download is whole: nobody writes to the file it has open.  That
  the directories on the way to a name lie on the way to each other is `ParentsNest`.

- `StreamProofs`: `TypeOK`, `NoSendOnClosed`, `StreamConverges`.  The proof looks at one
  node at a time: a mutation either determines what is at a node, whatever was there
  (`NodeDetermined`), or leaves it alone (`NodeUntouched`), and two mutations that determine
  it conflict or both make an object of it (`NoConflict`).  `Viewed` says that at each node a
  client has what memory has, or something in its channel (`Behind`) or still due to it
  (`DueFor`) will determine the node; `Buffered` the same of every event in the channel, and
  `DueStands` of what is due: it stands in memory, unless a younger mutation undid it
  that is due as well, or the client has been overtaken.  `EventInv` says what an event may
  become on its way: later mutations edit the objects it shares with the tree, and never
  anything but what they determine in the tree (`EditedEvent`).  `HubInv` says that who
  is inside `Publish` has only subscribed clients left.  The laws of `JsonTree` come from
  `DatabaseProofs`, by instantiation.

Each inductive invariant was first checked as an invariant of the run of its component
(`Number`, which is chosen among all functions, written out for two digits).
TLC finds a wrong one there, but that an invariant is inductive only the proof shows.

`RemoteConfig` and `PushId` name their specifications `ConfigSpec` and `PushSpec`, and so on,
so that `MutexProofs` can extend both beside `RateLimit`.

The assumptions are those named in the modules (`RequestsAreCalls`, `FreeIsNoWriter`,
`RuleStoreConstants` and the like), and TLC evaluates each.  They say what the code's
types and constants give: that the values standing for nothing (`None`, `Empty`,
`NoFile`, `Torn`) are none of the others, that limits and durations are numbers, that names
are sequences that are not empty.  `RulesConstants` says that a document of rules is a tree
(each node's parent is one) whose texts are sequences of tokens, and `TextAssumption` that
the empty string and `__auth__` are among the texts.

Only model-checked: all liveness, which rests on fairness.  Every invariant and action
property of the passing runs is proved.  Induction over numbers, lengths and segments is
done with sets: `LeastNumber` takes the least counterexample from
`NatLessThanWellFounded`, and `AllNumbers` follows from it.  `CheckMeansRules` says nothing
of texts that are no expressions; what the evaluator makes of those, TLC computes in the run
but nothing is stated of it.

## Not modelled

- What `json.Marshal` makes of a map that is edited while it is encoded
  (`database.go:108`): Go detects some of these races and ends the process, which is
  `Restart`; otherwise the event is encoded before or after the edit, which is `Forward`
  before or after `Write`.  The response to the writer, made of the same map, is left out.
- In `Process`, two processes that write one temporary file at once: a write with its
  save is one step there.
- Rules or a token that change between a handler's check and its access
  (`server.go:464`): the check on arrival decides, and nothing says it should not.
- A power failure that loses what was renamed but not synced; the process dies, the
  machine does not.
- `RLock` waiting behind a writer that waits: the models allow more orders.
- Passwords, hashes, signatures, `ClientIP`, clocks that step back (but in `PushId`), input
  limits, CORS, routing, the tokenizer of rules, the console.
- `sanitize`, content types, `List` with its prefix: they read, or choose a name.

## Plan

In this order, the most important behaviour first; all of it is done.

1. `JsonTree`, `TreeStore`, `Database`, with their proofs.
2. `Hub`, `Stream` over `TreeStore`, with the maps that events share with the tree.
3. `Auth`; `RateLimit` with its proofs.
4. `Apps`: registry and directories against running requests.
5. `RuleStore` with its proofs, `RuleExpr`, `Rules`.
6. `Storage`, `RemoteConfig`: object files outside the lock, files overwritten in place.
7. `PushId`.
8. `Process`: keys, shutdown, and the next process.
9. Proofs of `Auth`, `Process`, `Apps` and `Storage`.
10. Proofs of `Stream`.
11. Proofs of `RemoteConfig`.
12. Proofs of `PushId`.
13. `RuleExpr` and `Rules` with recursive functions, and their proofs.
