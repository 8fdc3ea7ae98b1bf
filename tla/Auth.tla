-------------------------------- MODULE Auth --------------------------------
(***************************************************************************)
(* auth.go and the expiry rules of jwt.go: one app's accounts, the file    *)
(* they are kept in, the tokens issued for them and the revocation list,   *)
(* under concurrent requests, failing saves and restarts.  Passwords are   *)
(* right or wrong, hashes and signatures are not forged, random identifiers*)
(* do not repeat.  The file is replaced by a rename (its temporary file is *)
(* written and read by nobody else), so here a save succeeds or fails.     *)
(***************************************************************************)
EXTENDS Naturals, FiniteSets, Functions

CONSTANTS
    Email,       \* addresses as users spell them
    Lower,       \* each address trimmed and in lower case
    UID, JTI,    \* the random identifiers there are (bounds on accounts, tokens)
    Request,     \* the requests that may be in progress at once
    TTL,         \* tokenTTL, in ticks of the clock
    MaxTime,     \* bound: the clock stops here
    None

ASSUME LowerMapsAddresses == Lower \in [Email -> Email]
ASSUME TokensLast == TTL \in Nat
ASSUME NoneHoldsNothing == None \notin Request

VARIABLES
    up,          \* the process is running
    users,       \* s.users: the accounts by lower-case address
    byUID,       \* s.byUID: the accounts by identifier
    file,        \* the accounts in the file
    holder,      \* the request that holds s.mu for writing, or None
    blacklist,   \* s.blacklist: expiry by token identifier
    sweep,       \* the time cleanBlacklist has read, or None
    pc, arg,     \* where each request is, and the address, account or token it is about
    now,         \* the clock
    issued,      \* every token signed so far
    usedUIDs,    \* the account identifiers drawn so far
    revoked,     \* history: tokens whose logout has returned since the last start
    late         \* history: the requests whose Verify began after that

vars == <<up, users, byUID, file, holder, blacklist, sweep, pc, arg, now,
          issued, usedUIDs, revoked, late>>
accounts == <<users, byUID, file, holder, usedUIDs>>
revocation == <<blacklist, sweep, revoked>>

-----------------------------------------------------------------------------
NoEntry == [k \in {} |-> None]

\* f with k mapped to v, and f without k: Go's m[k] = v and delete(m, k).
Put(f, k, v) == [x \in DOMAIN f \cup {k} |-> IF x = k THEN v ELSE f[x]]
Drop(f, k) == Restrict(f, DOMAIN f \ {k})

Account(uid, email) == [uid |-> uid, email |-> email]

\* jwt.Sign and jwt.Parse, up to the signature.
Token(uid, jti) == [uid |-> uid, jti |-> jti, exp |-> now + TTL]
Expired(exp) == now > exp

\* Mutant: what is loaded is keyed by the address as it was spelled.
BySpelling(accts) ==
    [k \in {u.email : u \in accts} |-> CHOOSE u \in accts : u.email = k]

\* load: both maps are rebuilt from the list in the file.
UsersOf(accts) ==
    [k \in {Lower[u.email] : u \in accts} |-> CHOOSE u \in accts : Lower[u.email] = k]
ByUIDOf(accts) ==
    [k \in {u.uid : u \in accts} |-> CHOOSE u \in accts : u.uid = k]

Goto(p, step) == pc' = [pc EXCEPT ![p] = step]
With(p, x) == arg' = [arg EXCEPT ![p] = x]
Return(p) == Goto(p, "idle") /\ With(p, None)

\* The end of a request that began with Verify.
Answer(p) == Return(p) /\ late' = late \ {p}

\* A token signed for the account u, with an identifier never used before.
Issue(u) ==
    \E j \in JTI \ {t.jti : t \in issued} : issued' = issued \cup {Token(u.uid, j)}

Init ==
    /\ up = TRUE
    /\ users = NoEntry /\ byUID = NoEntry /\ file = {} /\ holder = None
    /\ blacklist = NoEntry /\ sweep = None
    /\ pc = [p \in Request |-> "idle"] /\ arg = [p \in Request |-> None]
    /\ now = 0 /\ issued = {} /\ usedUIDs = {}
    /\ revoked = {} /\ late = {}

-----------------------------------------------------------------------------
\* Register hashes the password before it asks for the lock.
Register(p, e) ==
    /\ up /\ pc[p] = "idle"
    /\ Goto(p, "register") /\ With(p, e)
    /\ UNCHANGED <<up, now, issued, accounts, revocation, late>>

\* Under the lock the address is looked up again ...
Taken(p) ==
    /\ up /\ pc[p] = "register" /\ holder = None
    /\ Lower[arg[p]] \in DOMAIN users
    /\ Return(p)
    /\ UNCHANGED <<up, now, issued, accounts, revocation, late>>

\* Mutant: the address is not looked up again under the lock.
InsertUnchecked(p) ==
    /\ up /\ pc[p] = "register" /\ holder = None
    /\ \E id \in UID \ usedUIDs :
        /\ usedUIDs' = usedUIDs \cup {id}
        /\ users' = Put(users, Lower[arg[p]], Account(id, arg[p]))
        /\ byUID' = Put(byUID, id, Account(id, arg[p]))
        /\ With(p, Account(id, arg[p]))
    /\ holder' = p
    /\ Goto(p, "inserted")
    /\ UNCHANGED <<up, now, file, issued, revocation, late>>

\* ... and if it is free the account is entered in both maps.
Insert(p) ==
    /\ up /\ pc[p] = "register" /\ holder = None
    /\ Lower[arg[p]] \notin DOMAIN users
    /\ \E id \in UID \ usedUIDs :
        /\ usedUIDs' = usedUIDs \cup {id}
        /\ users' = Put(users, Lower[arg[p]], Account(id, arg[p]))
        /\ byUID' = Put(byUID, id, Account(id, arg[p]))
        /\ With(p, Account(id, arg[p]))
    /\ holder' = p
    /\ Goto(p, "inserted")
    /\ UNCHANGED <<up, now, file, issued, revocation, late>>

Save(p) ==
    /\ up /\ pc[p] = "inserted"
    /\ file' = Range(users)
    /\ Goto(p, "saved")
    /\ UNCHANGED <<up, users, byUID, holder, arg, now, issued, usedUIDs, revocation, late>>

\* Mutant: a failed save is not undone.
SaveFailsKept(p) ==
    /\ up /\ pc[p] = "inserted"
    /\ holder' = None
    /\ Return(p)
    /\ UNCHANGED <<up, users, byUID, file, now, issued, usedUIDs, revocation, late>>

\* A failed save is undone in memory.
SaveFails(p) ==
    /\ up /\ pc[p] = "inserted"
    /\ users' = Drop(users, Lower[arg[p].email])
    /\ byUID' = Drop(byUID, arg[p].uid)
    /\ holder' = None
    /\ Return(p)
    /\ UNCHANGED <<up, file, now, issued, usedUIDs, revocation, late>>

\* issueToken still runs under the lock; the account and its token are returned.
Registered(p) ==
    /\ up /\ pc[p] = "saved"
    /\ Issue(arg[p])
    /\ holder' = None
    /\ Return(p)
    /\ UNCHANGED <<up, users, byUID, file, now, usedUIDs, revocation, late>>

-----------------------------------------------------------------------------
\* Login reads the account under the read lock and compares the hash without it.
Login(p, e) ==
    /\ up /\ pc[p] = "idle" /\ holder = None
    /\ Lower[e] \in DOMAIN users
    /\ Goto(p, "compare") /\ With(p, users[Lower[e]])
    /\ UNCHANGED <<up, now, issued, accounts, revocation, late>>

LoggedIn(p) ==
    /\ up /\ pc[p] = "compare"
    /\ Issue(arg[p])
    /\ Return(p)
    /\ UNCHANGED <<up, now, accounts, revocation, late>>

WrongPassword(p) ==
    /\ up /\ pc[p] = "compare"
    /\ Return(p)
    /\ UNCHANGED <<up, now, issued, accounts, revocation, late>>

-----------------------------------------------------------------------------
\* Verify, in the three steps between which other requests run: parse ...
Parse(p, t) ==
    /\ up /\ pc[p] = "idle"
    /\ ~ Expired(t.exp)
    /\ late' = IF t \in revoked THEN late \cup {p} ELSE late
    /\ Goto(p, "parsed") /\ With(p, t)
    /\ UNCHANGED <<up, now, issued, accounts, blacklist, sweep, revoked>>

\* Mutant: the revocation list is not consulted.
CheckNothing(p) ==
    /\ up /\ pc[p] = "parsed"
    /\ Goto(p, "unrevoked")
    /\ UNCHANGED <<up, arg, now, issued, accounts, revocation, late>>

\* ... look the identifier up in the revocation list ...
CheckRevoked(p) ==
    /\ up /\ pc[p] = "parsed"
    /\ IF arg[p].jti \in DOMAIN blacklist
       THEN Answer(p)
       ELSE Goto(p, "unrevoked") /\ UNCHANGED <<arg, late>>
    /\ UNCHANGED <<up, now, issued, accounts, revocation>>

\* ... and find the account.
FindUser(p) ==
    /\ up /\ pc[p] = "unrevoked" /\ holder = None
    /\ IF arg[p].uid \in DOMAIN byUID
       THEN Goto(p, "verified") /\ UNCHANGED <<arg, late>>
       ELSE Answer(p)
    /\ UNCHANGED <<up, now, issued, accounts, revocation>>

\* The handler behind the check does its work and answers.
Serve(p) ==
    /\ up /\ pc[p] = "verified"
    /\ Answer(p)
    /\ UNCHANGED <<up, now, issued, accounts, revocation>>

\* handleLogout, behind the check, calls Logout, which parses the token again ...
Logout(p) ==
    /\ up /\ pc[p] = "verified"
    /\ ~ Expired(arg[p].exp)
    /\ Goto(p, "logout")
    /\ UNCHANGED <<up, arg, now, issued, accounts, revocation, late>>

\* ... and enters it in the revocation list.
Revoke(p) ==
    /\ up /\ pc[p] = "logout"
    /\ blacklist' = Put(blacklist, arg[p].jti, arg[p].exp)
    /\ revoked' = revoked \cup {arg[p]}
    /\ Answer(p)
    /\ UNCHANGED <<up, now, issued, accounts, sweep>>

-----------------------------------------------------------------------------
\* cleanBlacklist reads the clock, then takes the lock.
StartSweep ==
    /\ up /\ sweep = None
    /\ sweep' = now
    /\ UNCHANGED <<up, pc, arg, now, issued, accounts, blacklist, revoked, late>>

\* Mutants: an entry goes in the second its token expires, in which it still counts;
\* nothing is deleted.
EndSweepEarly ==
    /\ up /\ sweep # None
    /\ blacklist' = Restrict(blacklist, {j \in DOMAIN blacklist : sweep < blacklist[j]})
    /\ sweep' = None
    /\ UNCHANGED <<up, pc, arg, now, issued, accounts, revoked, late>>
EndSweepIdle ==
    /\ up /\ sweep # None
    /\ sweep' = None
    /\ UNCHANGED <<up, pc, arg, now, issued, accounts, blacklist, revoked, late>>

\* Under the lock it deletes what had expired by that time.
EndSweep ==
    /\ up /\ sweep # None
    /\ blacklist' = Restrict(blacklist, {j \in DOMAIN blacklist : sweep <= blacklist[j]})
    /\ sweep' = None
    /\ UNCHANGED <<up, pc, arg, now, issued, accounts, revoked, late>>

Tick ==
    /\ now < MaxTime
    /\ now' = now + 1
    /\ UNCHANGED <<up, pc, arg, issued, accounts, revocation, late>>

\* The process dies; the revocation list dies with it.
Crash ==
    /\ up
    /\ up' = FALSE
    /\ users' = NoEntry /\ byUID' = NoEntry /\ holder' = None
    /\ blacklist' = NoEntry /\ sweep' = None
    /\ revoked' = {} /\ late' = {}
    /\ pc' = [p \in Request |-> "idle"] /\ arg' = [p \in Request |-> None]
    /\ UNCHANGED <<file, now, issued, usedUIDs>>

\* New and load.
Start ==
    /\ ~ up
    /\ up' = TRUE
    /\ users' = UsersOf(file) /\ byUID' = ByUIDOf(file)
    /\ UNCHANGED <<file, holder, pc, arg, now, issued, usedUIDs, revocation, late>>

Next ==
    \/ \E p \in Request :
        \/ \E e \in Email : Register(p, e) \/ Login(p, e)
        \/ Taken(p) \/ Insert(p) \/ Save(p) \/ SaveFails(p) \/ Registered(p)
        \/ LoggedIn(p) \/ WrongPassword(p)
        \/ \E t \in issued : Parse(p, t)
        \/ CheckRevoked(p) \/ FindUser(p) \/ Serve(p) \/ Logout(p) \/ Revoke(p)
    \/ StartSweep \/ EndSweep \/ Tick \/ Crash \/ Start

\* The sweeping goroutine runs as long as the process does.
Spec == Init /\ [][Next]_vars /\ WF_vars(StartSweep) /\ WF_vars(EndSweep)

-----------------------------------------------------------------------------
TypeOK ==
    /\ up \in BOOLEAN /\ holder \in Request \cup {None}
    /\ DOMAIN users \subseteq Email /\ DOMAIN byUID \subseteq UID
    /\ file \subseteq [uid : UID, email : Email]
    /\ issued \subseteq [uid : UID, jti : JTI, exp : Nat]
    /\ DOMAIN blacklist \subseteq JTI
    /\ revoked \subseteq issued /\ late \subseteq Request
    /\ pc \in [Request -> {"idle", "register", "inserted", "saved", "compare",
                           "parsed", "unrevoked", "verified", "logout"}]

\* Outside a registration both maps hold exactly the accounts in the file, each
\* under its own keys, although saves fail and the file is reloaded.
AccountsMatchFile ==
    up /\ holder = None =>
        /\ Range(users) = file /\ Range(byUID) = file
        /\ \A k \in DOMAIN users : Lower[users[k].email] = k
        /\ \A id \in DOMAIN byUID : byUID[id].uid = id

\* No two accounts share an address, however it is spelled and however the
\* registrations interleave with each other and with restarts.
OneAccountPerAddress ==
    \A u, v \in file : Lower[u.email] = Lower[v.email] => u = v

\* Nobody holds a token for an account that was never saved or that a later
\* registration, failure or restart has displaced.
TokenHoldersKnown ==
    \A t \in issued :
        /\ \E u \in file : u.uid = t.uid
        /\ up => t.uid \in DOMAIN byUID

\* A Verify that begins after a logout in the same run accepts its token only if
\* the token expires, and a sweep forgets it, between two steps of that Verify.
RevokedTokenRefused ==
    \A p \in Request :
        p \in late /\ pc[p] = "verified" => Expired(arg[p].exp)

\* The revocation list forgets what has expired.
ExpiredRevocationsGo ==
    \A j \in JTI :
        (j \in DOMAIN blacklist /\ now > blacklist[j]) ~> j \notin DOMAIN blacklist

=============================================================================
