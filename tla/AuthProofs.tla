----------------------------- MODULE AuthProofs -----------------------------
(***************************************************************************)
(* The accounts, their file, the tokens and the revocation list, for any   *)
(* number of addresses, accounts, tokens and requests: proofs about module *)
(* Auth.                                                                   *)
(***************************************************************************)
EXTENDS Auth, TLAPS

-----------------------------------------------------------------------------
\* The requests that are past parsing a token.
Checking == {"parsed", "unrevoked", "verified", "logout"}

\* The accounts in memory: those in the file, and the one whose save is to come.
Entered == file \cup {arg[p] : p \in {q \in Request : pc[q] = "inserted"}}

\* Both maps hold the accounts of S and nothing else, each under its own keys.
Hold(S) ==
    /\ DOMAIN users = {Lower[u.email] : u \in S}
    /\ DOMAIN byUID = {u.uid : u \in S}
    /\ \A u \in S : users[Lower[u.email]] = u /\ byUID[u.uid] = u

\* What a request carries at each of its steps.
ArgInv ==
    /\ DOMAIN arg = Request
    /\ \A p \in Request :
        /\ pc[p] = "register" => arg[p] \in Email
        /\ pc[p] = "inserted" => arg[p] \in [uid : usedUIDs, email : Email] \ file
        /\ pc[p] \in {"saved", "compare"} => arg[p] \in file
        /\ pc[p] \in Checking => arg[p] \in issued

\* The lock is held from the insertion of an account to the answer.
HolderInv ==
    \A p \in Request : holder = p <=> pc[p] \in {"inserted", "saved"}

\* The file names no address and no identifier twice, and only identifiers drawn.
FileInv ==
    /\ usedUIDs \subseteq UID
    /\ file \subseteq [uid : usedUIDs, email : Email]
    /\ \A u, v \in file : Lower[u.email] = Lower[v.email] \/ u.uid = v.uid => u = v

MapsInv == up => Hold(Entered)

\* A process that is down has nothing in progress and no revocation list.
DownInv ==
    ~ up => holder = None /\ revoked = {} /\ \A p \in Request : pc[p] = "idle"

\* A token is for an account in the file, and no other token has its identifier.
TokenInv ==
    /\ \A t \in issued : \E u \in file : u.uid = t.uid
    /\ \A s, t \in issued : s.jti = t.jti => s = t

\* A revoked token is listed until it has expired, whatever a sweep has read.
RevokedInv ==
    /\ now \in Nat
    /\ sweep # None => sweep \in 0..now
    /\ \A t \in revoked :
        \/ t.jti \in DOMAIN blacklist /\ blacklist[t.jti] = t.exp
        \/ Expired(t.exp)

\* A Verify that begins after the logout is past the list only if the token expired.
LateInv ==
    \A p \in late :
        /\ pc[p] \in Checking /\ arg[p] \in revoked
        /\ pc[p] # "parsed" => Expired(arg[p].exp)

IInv ==
    /\ TypeOK /\ ArgInv /\ HolderInv /\ FileInv /\ MapsInv /\ DownInv
    /\ TokenInv /\ RevokedInv /\ LateInv

-----------------------------------------------------------------------------
\* Moving one request leaves the others where they are.
LEMMA Moved ==
    ASSUME TypeOK, NEW p \in Request, NEW step, Goto(p, step)
    PROVE  pc'[p] = step /\ \A q \in Request \ {p} : pc'[q] = pc[q]
BY DEF TypeOK, Goto

LEMMA Carries ==
    ASSUME ArgInv, NEW p \in Request, NEW x, With(p, x)
    PROVE  /\ arg'[p] = x /\ DOMAIN arg' = Request
           /\ \A q \in Request \ {p} : arg'[q] = arg[q]
BY DEF ArgInv, With

\* While the lock is free the accounts in memory are those in the file; while a request
\* has it, that request alone is registering.
LEMMA FreeLock == ASSUME IInv, holder = None PROVE Entered = file
BY NoneHoldsNothing DEF IInv, HolderInv, Entered

LEMMA HeldLock ==
    ASSUME IInv, NEW p \in Request, pc[p] \in {"inserted", "saved"}
    PROVE  \A q \in Request \ {p} : pc[q] \notin {"inserted", "saved"}
BY DEF IInv, HolderInv

LEMMA InsertedEntered ==
    ASSUME IInv, NEW p \in Request, pc[p] = "inserted"
    PROVE  Entered = file \cup {arg[p]}
BY HeldLock DEF Entered

\* What it means for the maps to hold the accounts of S.
LEMMA HoldRange ==
    ASSUME NEW S, Hold(S)
    PROVE  Range(users) = S /\ Range(byUID) = S
BY DEF Hold, Range

LEMMA HoldKeys ==
    ASSUME NEW S, Hold(S)
    PROVE  /\ \A k \in DOMAIN users : Lower[users[k].email] = k
           /\ \A id \in DOMAIN byUID : byUID[id].uid = id
BY DEF Hold

LEMMA HoldUnique ==
    ASSUME NEW S, Hold(S), NEW u \in S, NEW v \in S,
           Lower[u.email] = Lower[v.email] \/ u.uid = v.uid
    PROVE  u = v
BY DEF Hold

\* A signed token is for the account, and its identifier is new.
LEMMA Issued ==
    ASSUME IInv, NEW u \in file, Issue(u)
    PROVE  /\ issued \subseteq issued'
           /\ issued' \subseteq [uid : UID, jti : JTI, exp : Nat]
           /\ \A t \in issued' : \E v \in file : v.uid = t.uid
           /\ \A s, t \in issued' : s.jti = t.jti => s = t
<1>1. PICK j \in JTI \ {t.jti : t \in issued} : issued' = issued \cup {Token(u.uid, j)}
    BY DEF Issue
<1>2. Token(u.uid, j) \in [uid : UID, jti : JTI, exp : Nat]
    BY TokensLast DEF IInv, FileInv, RevokedInv, Token
<1>3. Token(u.uid, j).jti = j /\ Token(u.uid, j).uid = u.uid
    BY DEF Token
<1>4. \A t \in issued : t.jti # j
    BY <1>1
<1>5. \A s, t \in issued' : s.jti = t.jti => s = t
    BY <1>1, <1>3, <1>4 DEF IInv, TokenInv
<1>6. \A t \in issued' : \E v \in file : v.uid = t.uid
    BY <1>1, <1>3 DEF IInv, TokenInv
<1> QED
    BY <1>1, <1>2, <1>5, <1>6 DEF IInv, TypeOK

-----------------------------------------------------------------------------
LEMMA InitHolds == Init => IInv
<1> SUFFICES ASSUME Init PROVE IInv
    OBVIOUS
<1>1. DOMAIN NoEntry = {}
    BY DEF NoEntry
<1>2. Entered = {}
    BY DEF Init, Entered
<1>3. TypeOK
    BY <1>1 DEF Init, TypeOK
<1>4. ArgInv /\ HolderInv
    BY NoneHoldsNothing DEF Init, ArgInv, HolderInv, Checking
<1>5. FileInv /\ MapsInv
    BY <1>1, <1>2 DEF Init, FileInv, MapsInv, Hold
<1> QED
    BY <1>3, <1>4, <1>5 DEF Init, IInv, DownInv, TokenInv, RevokedInv, LateInv

\* The steps that leave the accounts, the tokens and the revocation list alone: one
\* request moves, outside the lock, and carries what its new step asks for.
LEMMA MoveKeeps ==
    ASSUME IInv, up, NEW p \in Request, NEW step, Goto(p, step),
           step \in {"idle", "register", "compare"} \cup Checking,
           pc[p] \notin {"inserted", "saved"},
           DOMAIN arg' = Request,
           \A q \in Request \ {p} : arg'[q] = arg[q],
           step = "register" => arg'[p] \in Email,
           step = "compare" => arg'[p] \in file,
           step \in Checking => arg'[p] \in issued,
           late' \subseteq late \cup {p},
           p \in late' => /\ step \in Checking /\ arg'[p] \in revoked
                          /\ step # "parsed" => Expired(arg'[p].exp),
           UNCHANGED <<up, now, issued, accounts, revocation>>
    PROVE  IInv'
<1>1. pc'[p] = step /\ \A q \in Request \ {p} : pc'[q] = pc[q]
    BY Moved DEF IInv
<1>2. UNCHANGED <<up, now, issued, users, byUID, file, holder, usedUIDs, blacklist, sweep, revoked>>
    BY DEF accounts, revocation
<1>3. TypeOK'
    BY <1>2 DEF IInv, TypeOK, Goto, Checking
<1>4. ArgInv'
    BY <1>1, <1>2 DEF IInv, ArgInv, Checking
<1>5. HolderInv'
    BY <1>1, <1>2 DEF IInv, HolderInv, Checking
<1>6. MapsInv'
    <2>1. {q \in Request : pc'[q] = "inserted"} = {q \in Request : pc[q] = "inserted"}
        BY <1>1 DEF Checking
    <2>2. \A q \in Request : pc[q] = "inserted" => arg'[q] = arg[q]
        OBVIOUS
    <2>3. Entered' = Entered
        BY <1>2, <2>1, <2>2 DEF Entered
    <2> QED
        BY <1>2, <2>3 DEF IInv, MapsInv, Hold
<1>7. LateInv'
    <2>1. ASSUME NEW q \in late', q # p
          PROVE  /\ q \in late /\ q \in Request
                 /\ pc'[q] = pc[q] /\ arg'[q] = arg[q]
        BY <1>1, <2>1 DEF IInv, TypeOK
    <2> QED
        BY <1>1, <1>2, <2>1 DEF IInv, LateInv, Expired
<1>8. FileInv' /\ DownInv' /\ TokenInv' /\ RevokedInv'
    BY <1>2 DEF IInv, FileInv, DownInv, TokenInv, RevokedInv, Expired
<1> QED
    BY <1>3, <1>4, <1>5, <1>6, <1>7, <1>8 DEF IInv

LEMMA RegisterKeeps ==
    ASSUME NEW p \in Request, NEW e \in Email PROVE IInv /\ Register(p, e) => IInv'
<1> SUFFICES ASSUME IInv, Register(p, e) PROVE IInv'
    OBVIOUS
<1>1. arg'[p] = e /\ DOMAIN arg' = Request /\ \A q \in Request \ {p} : arg'[q] = arg[q]
    BY Carries DEF IInv, Register
<1>2. p \notin late'
    BY DEF IInv, LateInv, Register, Checking
<1> QED
    BY <1>1, <1>2, MoveKeeps DEF Register, Checking

\* A request that returns and carries nothing more.
LEMMA ReturnKeeps ==
    ASSUME IInv, up, NEW p \in Request, Return(p),
           pc[p] \notin {"inserted", "saved"},
           p \notin late', late' \subseteq late,
           UNCHANGED <<up, now, issued, accounts, revocation>>
    PROVE  IInv'
<1>1. DOMAIN arg' = Request /\ \A q \in Request \ {p} : arg'[q] = arg[q]
    BY Carries DEF IInv, Return
<1> QED
    BY <1>1, MoveKeeps DEF Return, Checking

LEMMA AnswerKeeps ==
    ASSUME IInv, up, NEW p \in Request, Answer(p), pc[p] \in Checking,
           UNCHANGED <<up, now, issued, accounts, revocation>>
    PROVE  IInv'
BY ReturnKeeps DEF Answer, Checking

LEMMA TakenKeeps == ASSUME NEW p \in Request PROVE IInv /\ Taken(p) => IInv'
BY ReturnKeeps DEF IInv, LateInv, Taken, Checking

LEMMA LoginKeeps ==
    ASSUME NEW p \in Request, NEW e \in Email PROVE IInv /\ Login(p, e) => IInv'
<1> SUFFICES ASSUME IInv, Login(p, e) PROVE IInv'
    OBVIOUS
<1>1. /\ arg'[p] = users[Lower[e]]
      /\ DOMAIN arg' = Request /\ \A q \in Request \ {p} : arg'[q] = arg[q]
    BY Carries DEF IInv, Login
<1>2. arg'[p] \in file
    <2>1. Hold(file)
        BY FreeLock DEF IInv, MapsInv, Login
    <2> QED
        BY <1>1, <2>1, HoldRange DEF Login, Range
<1>3. p \notin late'
    BY DEF IInv, LateInv, Login, Checking
<1> QED
    BY <1>1, <1>2, <1>3, MoveKeeps DEF Login, Checking, accounts

LEMMA WrongPasswordKeeps == ASSUME NEW p \in Request PROVE IInv /\ WrongPassword(p) => IInv'
BY ReturnKeeps DEF IInv, LateInv, WrongPassword, Checking

LEMMA ParseKeeps ==
    ASSUME NEW p \in Request, NEW t \in issued PROVE IInv /\ Parse(p, t) => IInv'
<1> SUFFICES ASSUME IInv, Parse(p, t) PROVE IInv'
    OBVIOUS
<1>1. arg'[p] = t /\ DOMAIN arg' = Request /\ \A q \in Request \ {p} : arg'[q] = arg[q]
    BY Carries DEF IInv, Parse
<1>2. p \notin late
    BY DEF IInv, LateInv, Parse, Checking
<1> QED
    BY <1>1, <1>2, MoveKeeps DEF Parse, Checking, revocation

LEMMA CheckRevokedKeeps == ASSUME NEW p \in Request PROVE IInv /\ CheckRevoked(p) => IInv'
<1> SUFFICES ASSUME IInv, CheckRevoked(p) PROVE IInv'
    OBVIOUS
<1>1. CASE arg[p].jti \in DOMAIN blacklist
    BY <1>1, AnswerKeeps DEF CheckRevoked, Checking
<1>2. CASE arg[p].jti \notin DOMAIN blacklist
    <2>1. arg[p] \in issued /\ DOMAIN arg = Request
        BY DEF IInv, ArgInv, CheckRevoked, Checking
    <2>2. p \in late => arg[p] \in revoked /\ Expired(arg[p].exp)
        BY <1>2 DEF IInv, LateInv, RevokedInv
    <2> QED
        BY <1>2, <2>1, <2>2, MoveKeeps DEF CheckRevoked, Checking, Expired
<1> QED
    BY <1>1, <1>2

\* A step on of a request that is past the revocation list with its token.
LEMMA ProceedKeeps ==
    ASSUME IInv, up, NEW p \in Request, NEW step \in Checking \ {"parsed"}, Goto(p, step),
           pc[p] \in Checking \ {"parsed"},
           UNCHANGED <<up, arg, now, issued, accounts, revocation, late>>
    PROVE  IInv'
<1>1. arg[p] \in issued /\ DOMAIN arg = Request
    BY DEF IInv, ArgInv
<1>2. p \in late => arg[p] \in revoked /\ Expired(arg[p].exp)
    BY DEF IInv, LateInv
<1> QED
    BY <1>1, <1>2, MoveKeeps DEF Checking, Expired

LEMMA FindUserKeeps == ASSUME NEW p \in Request PROVE IInv /\ FindUser(p) => IInv'
BY AnswerKeeps, ProceedKeeps DEF FindUser, Checking

LEMMA ServeKeeps == ASSUME NEW p \in Request PROVE IInv /\ Serve(p) => IInv'
BY AnswerKeeps DEF Serve, Checking

LEMMA LogoutKeeps == ASSUME NEW p \in Request PROVE IInv /\ Logout(p) => IInv'
BY ProceedKeeps DEF Logout, Checking

-----------------------------------------------------------------------------
LEMMA InsertKeeps == ASSUME NEW p \in Request PROVE IInv /\ Insert(p) => IInv'
<1> SUFFICES ASSUME IInv, Insert(p) PROVE IInv'
    OBVIOUS
<1>1. PICK id \in UID \ usedUIDs :
        /\ usedUIDs' = usedUIDs \cup {id}
        /\ users' = Put(users, Lower[arg[p]], Account(id, arg[p]))
        /\ byUID' = Put(byUID, id, Account(id, arg[p]))
        /\ With(p, Account(id, arg[p]))
    BY DEF Insert
<1> DEFINE new == Account(id, arg[p])
<1>2. /\ new.uid = id /\ new.email = arg[p] /\ arg[p] \in Email
      /\ new \in [uid : usedUIDs', email : Email] \ file
    BY <1>1 DEF IInv, ArgInv, FileInv, Insert, Account
<1> HIDE DEF new
<1>3. /\ arg'[p] = new /\ DOMAIN arg' = Request
      /\ \A q \in Request \ {p} : arg'[q] = arg[q]
    BY <1>1, Carries DEF IInv, new
<1>4. pc'[p] = "inserted" /\ \A q \in Request \ {p} : pc'[q] = pc[q]
    BY Moved DEF IInv, Insert
<1>5. \A q \in Request : pc[q] \notin {"inserted", "saved"}
    BY NoneHoldsNothing DEF IInv, HolderInv, Insert
<1>6. UNCHANGED <<up, now, file, issued, blacklist, sweep, revoked, late>>
    BY DEF Insert, revocation
<1>7. Entered' = file \cup {new}
    BY <1>3, <1>4, <1>5, <1>6 DEF Entered
<1>8. MapsInv'
    <2>1. Hold(file) /\ \A u \in file : Lower[u.email] # Lower[arg[p]] /\ u.uid # id
        BY <1>1, FreeLock DEF IInv, MapsInv, Hold, FileInv, Insert
    <2>2. /\ users' = Put(users, Lower[arg[p]], new)
          /\ byUID' = Put(byUID, id, new)
        BY <1>1 DEF new
    <2> QED
        BY <1>2, <1>7, <2>1, <2>2 DEF MapsInv, Hold, Put
<1>9. TypeOK'
    <2>1. DOMAIN users' \subseteq Email /\ DOMAIN byUID' \subseteq UID
        BY <1>1, <1>2, LowerMapsAddresses DEF IInv, TypeOK, Put
    <2> QED
        BY <1>6, <2>1 DEF IInv, TypeOK, Insert, Goto
<1>10. ArgInv'
    BY <1>1, <1>2, <1>3, <1>4, <1>5, <1>6 DEF IInv, ArgInv, Checking
<1>11. HolderInv'
    BY <1>4, <1>5 DEF HolderInv, Insert
<1>12. LateInv'
    BY <1>3, <1>4, <1>6 DEF IInv, TypeOK, LateInv, Insert, Checking, Expired
<1>13. FileInv' /\ DownInv' /\ TokenInv' /\ RevokedInv'
    BY <1>1, <1>6 DEF IInv, FileInv, DownInv, TokenInv, RevokedInv, Insert, Expired
<1> QED
    BY <1>8, <1>9, <1>10, <1>11, <1>12, <1>13 DEF IInv

LEMMA SaveKeeps == ASSUME NEW p \in Request PROVE IInv /\ Save(p) => IInv'
<1> SUFFICES ASSUME IInv, Save(p) PROVE IInv'
    OBVIOUS
<1>1. pc'[p] = "saved" /\ \A q \in Request \ {p} : pc'[q] = pc[q]
    BY Moved DEF IInv, Save
<1>2. UNCHANGED <<up, users, byUID, holder, arg, now, issued, usedUIDs, blacklist, sweep, revoked, late>>
    BY DEF Save, revocation
<1>3. Hold(Entered) /\ Entered = file \cup {arg[p]}
    BY InsertedEntered DEF IInv, MapsInv, Save
<1>4. file' = Entered
    BY <1>3, HoldRange DEF Save
<1>5. Entered' = file'
    BY <1>1, <1>2, HeldLock DEF Entered, Save
<1>6. arg[p] \in [uid : usedUIDs, email : Email]
    BY DEF IInv, ArgInv, Save
<1>7. FileInv'
    <2>1. \A u, v \in file' : Lower[u.email] = Lower[v.email] \/ u.uid = v.uid => u = v
        BY <1>3, <1>4, HoldUnique
    <2> QED
        BY <1>2, <1>3, <1>4, <1>6, <2>1 DEF IInv, FileInv
<1>8. MapsInv'
    BY <1>2, <1>3, <1>4, <1>5 DEF MapsInv, Hold
<1>9. TypeOK'
    BY <1>2, <1>7 DEF IInv, TypeOK, FileInv, Save, Goto
<1>10. ArgInv' /\ HolderInv'
    BY <1>1, <1>2, <1>3, <1>4, HeldLock DEF IInv, ArgInv, HolderInv, Checking, Save
<1>11. LateInv'
    BY <1>1, <1>2 DEF IInv, TypeOK, LateInv, Checking, Expired, Save
<1>12. TokenInv' /\ DownInv' /\ RevokedInv'
    BY <1>2, <1>3, <1>4 DEF IInv, TokenInv, DownInv, RevokedInv, Save, Expired
<1> QED
    BY <1>7, <1>8, <1>9, <1>10, <1>11, <1>12 DEF IInv

LEMMA SaveFailsKeeps == ASSUME NEW p \in Request PROVE IInv /\ SaveFails(p) => IInv'
<1> SUFFICES ASSUME IInv, SaveFails(p) PROVE IInv'
    OBVIOUS
<1>1. pc'[p] = "idle" /\ \A q \in Request \ {p} : pc'[q] = pc[q]
    BY Moved DEF IInv, SaveFails, Return
<1>2. DOMAIN arg' = Request /\ \A q \in Request \ {p} : arg'[q] = arg[q]
    BY Carries DEF IInv, SaveFails, Return
<1>3. UNCHANGED <<up, file, now, issued, usedUIDs, blacklist, sweep, revoked, late>>
    BY DEF SaveFails, revocation
<1>4. \A q \in Request : pc'[q] \notin {"inserted", "saved"}
    BY <1>1, HeldLock DEF SaveFails
<1>5. Entered' = file
    BY <1>3, <1>4 DEF Entered
<1>6. Hold(file \cup {arg[p]}) /\ arg[p] \notin file
    BY InsertedEntered DEF IInv, MapsInv, ArgInv, SaveFails
<1>7. MapsInv'
    <2>1. \A u \in file : Lower[u.email] # Lower[arg[p].email] /\ u.uid # arg[p].uid
        BY <1>6, HoldUnique
    <2> QED
        BY <1>5, <1>6, <2>1 DEF MapsInv, Hold, SaveFails, Drop, Restrict
<1>8. TypeOK'
    <2>1. DOMAIN users' \subseteq DOMAIN users /\ DOMAIN byUID' \subseteq DOMAIN byUID
        BY DEF SaveFails, Drop, Restrict
    <2> QED
        BY <1>3, <2>1 DEF IInv, TypeOK, SaveFails, Return, Goto
<1>9. ArgInv'
    BY <1>1, <1>2, <1>3 DEF IInv, ArgInv, Checking
<1>10. HolderInv'
    BY <1>4, NoneHoldsNothing DEF HolderInv, SaveFails
<1>11. LateInv'
    BY <1>1, <1>2, <1>3 DEF IInv, TypeOK, LateInv, Checking, Expired, SaveFails
<1>12. FileInv' /\ TokenInv' /\ DownInv' /\ RevokedInv'
    BY <1>3 DEF IInv, FileInv, TokenInv, DownInv, RevokedInv, SaveFails, Expired
<1> QED
    BY <1>7, <1>8, <1>9, <1>10, <1>11, <1>12 DEF IInv

\* A request that leaves with a token for the account it carries.
LEMMA IssueKeeps ==
    ASSUME IInv, up, NEW p \in Request, pc[p] \in {"saved", "compare"},
           Issue(arg[p]), Return(p),
           holder' = IF pc[p] = "saved" THEN None ELSE holder,
           UNCHANGED <<up, users, byUID, file, now, usedUIDs, revocation, late>>
    PROVE  IInv'
<1>1. pc'[p] = "idle" /\ \A q \in Request \ {p} : pc'[q] = pc[q]
    BY Moved DEF IInv, Return
<1>2. DOMAIN arg' = Request /\ \A q \in Request \ {p} : arg'[q] = arg[q]
    BY Carries DEF IInv, Return
<1>3. UNCHANGED <<up, users, byUID, file, now, usedUIDs, blacklist, sweep, revoked, late>>
    BY DEF revocation
<1>4. /\ issued \subseteq issued'
      /\ issued' \subseteq [uid : UID, jti : JTI, exp : Nat]
      /\ \A t \in issued' : \E v \in file : v.uid = t.uid
      /\ \A s, t \in issued' : s.jti = t.jti => s = t
    BY Issued DEF IInv, ArgInv
<1>5. Entered' = Entered
    <2>1. {q \in Request : pc'[q] = "inserted"} = {q \in Request : pc[q] = "inserted"}
        BY <1>1
    <2>2. \A q \in Request : pc[q] = "inserted" => arg'[q] = arg[q]
        BY <1>2
    <2> QED
        BY <1>3, <2>1, <2>2 DEF Entered
<1>6. TypeOK'
    BY <1>3, <1>4 DEF IInv, TypeOK, Return, Goto
<1>7. ArgInv'
    BY <1>1, <1>2, <1>3, <1>4 DEF IInv, ArgInv, Checking
<1>8. HolderInv'
    BY <1>1, HeldLock, NoneHoldsNothing DEF IInv, HolderInv
<1>9. LateInv'
    BY <1>1, <1>2, <1>3 DEF IInv, TypeOK, LateInv, Checking, Expired
<1>10. MapsInv' /\ FileInv' /\ TokenInv' /\ DownInv' /\ RevokedInv'
    BY <1>3, <1>4, <1>5
    DEF IInv, MapsInv, Hold, FileInv, TokenInv, DownInv, RevokedInv, Expired
<1> QED
    BY <1>6, <1>7, <1>8, <1>9, <1>10 DEF IInv

LEMMA RegisteredKeeps == ASSUME NEW p \in Request PROVE IInv /\ Registered(p) => IInv'
BY IssueKeeps DEF Registered

LEMMA LoggedInKeeps == ASSUME NEW p \in Request PROVE IInv /\ LoggedIn(p) => IInv'
BY IssueKeeps DEF LoggedIn, accounts

-----------------------------------------------------------------------------
\* The parts of the invariant that do not see the revocation list.
LEMMA RevocationAside ==
    ASSUME IInv, UNCHANGED <<up, users, byUID, file, holder, usedUIDs, pc, arg, issued>>
    PROVE  ArgInv' /\ HolderInv' /\ FileInv' /\ MapsInv' /\ TokenInv'
<1>1. Entered' = Entered
    BY DEF Entered
<1> QED
    BY <1>1 DEF IInv, ArgInv, HolderInv, FileInv, MapsInv, Hold, TokenInv

LEMMA RevokeKeeps == ASSUME NEW p \in Request PROVE IInv /\ Revoke(p) => IInv'
<1> SUFFICES ASSUME IInv, Revoke(p) PROVE IInv'
    OBVIOUS
<1>1. pc'[p] = "idle" /\ \A q \in Request \ {p} : pc'[q] = pc[q]
    BY Moved DEF IInv, Revoke, Answer, Return
<1>2. DOMAIN arg' = Request /\ \A q \in Request \ {p} : arg'[q] = arg[q]
    BY Carries DEF IInv, Revoke, Answer, Return
<1>3. UNCHANGED <<up, now, issued, users, byUID, file, holder, usedUIDs, sweep>>
    BY DEF Revoke, accounts
<1>4. arg[p] \in issued
    BY DEF IInv, ArgInv, Revoke, Checking
<1>5. Entered' = Entered
    <2>1. {q \in Request : pc'[q] = "inserted"} = {q \in Request : pc[q] = "inserted"}
        BY <1>1 DEF Revoke
    <2>2. \A q \in Request : pc[q] = "inserted" => arg'[q] = arg[q]
        BY <1>2 DEF Revoke
    <2> QED
        BY <1>3, <2>1, <2>2 DEF Entered
<1>6. TypeOK'
    BY <1>3, <1>4 DEF IInv, TypeOK, Revoke, Put, Answer, Return, Goto
<1>7. ArgInv'
    BY <1>1, <1>2, <1>3 DEF IInv, ArgInv, Checking
<1>8. RevokedInv'
    <2>1. \A t \in revoked : t.jti = arg[p].jti => t = arg[p]
        BY <1>4 DEF IInv, TypeOK, TokenInv
    <2>2. /\ \A j \in DOMAIN blacklist : j # arg[p].jti => j \in DOMAIN blacklist' /\ blacklist'[j] = blacklist[j]
          /\ arg[p].jti \in DOMAIN blacklist' /\ blacklist'[arg[p].jti] = arg[p].exp
        BY DEF Revoke, Put
    <2>3. revoked' = revoked \cup {arg[p]}
        BY DEF Revoke
    <2> QED
        BY <1>3, <2>1, <2>2, <2>3 DEF IInv, RevokedInv, Expired
<1>9. LateInv'
    BY <1>1, <1>2, <1>3 DEF IInv, TypeOK, LateInv, Expired, Revoke, Answer
<1>10. HolderInv' /\ FileInv' /\ MapsInv' /\ TokenInv' /\ DownInv'
    BY <1>1, <1>3, <1>5
    DEF IInv, HolderInv, FileInv, MapsInv, Hold, TokenInv, DownInv, Revoke
<1> QED
    BY <1>6, <1>7, <1>8, <1>9, <1>10 DEF IInv

LEMMA StartSweepKeeps == IInv /\ StartSweep => IInv'
<1> SUFFICES ASSUME IInv, StartSweep PROVE IInv'
    OBVIOUS
<1>1. ArgInv' /\ HolderInv' /\ FileInv' /\ MapsInv' /\ TokenInv'
    BY RevocationAside DEF StartSweep, accounts
<1> QED
    BY <1>1 DEF IInv, TypeOK, DownInv, RevokedInv, LateInv, Expired, StartSweep, accounts

\* A sweep deletes only what had expired when it read the clock, so what has expired.
LEMMA EndSweepKeeps == IInv /\ EndSweep => IInv'
<1> SUFFICES ASSUME IInv, EndSweep PROVE IInv'
    OBVIOUS
<1>1. ArgInv' /\ HolderInv' /\ FileInv' /\ MapsInv' /\ TokenInv'
    BY RevocationAside DEF EndSweep, accounts
<1>2. RevokedInv'
    <2>1. sweep \in 0..now /\ now \in Nat
        BY DEF IInv, RevokedInv, EndSweep
    <2>2. \A j \in DOMAIN blacklist : sweep <= blacklist[j] =>
              j \in DOMAIN blacklist' /\ blacklist'[j] = blacklist[j]
        BY DEF EndSweep, Restrict
    <2>3. \A t \in revoked : t.exp \in Nat
        BY DEF IInv, TypeOK
    <2> QED
        BY <2>1, <2>2, <2>3 DEF IInv, RevokedInv, EndSweep, Expired
<1>3. DOMAIN blacklist' \subseteq DOMAIN blacklist
    BY DEF EndSweep, Restrict
<1> QED
    BY <1>1, <1>2, <1>3 DEF IInv, TypeOK, DownInv, LateInv, Expired, EndSweep, accounts

LEMMA TickKeeps == IInv /\ Tick => IInv'
<1> SUFFICES ASSUME IInv, Tick PROVE IInv'
    OBVIOUS
<1>1. ArgInv' /\ HolderInv' /\ FileInv' /\ MapsInv' /\ TokenInv'
    BY RevocationAside DEF Tick, accounts
<1>2. now \in Nat /\ now' = now + 1
    BY DEF IInv, RevokedInv, Tick
<1>3. \A t \in issued : Expired(t.exp) => Expired(t.exp)'
    BY <1>2 DEF IInv, TypeOK, Expired
<1>4. RevokedInv'
    BY <1>2, <1>3 DEF IInv, TypeOK, RevokedInv, Tick, revocation
<1>5. LateInv'
    BY <1>3 DEF IInv, TypeOK, LateInv, Tick, revocation
<1> QED
    BY <1>1, <1>4, <1>5 DEF IInv, TypeOK, DownInv, Tick, accounts, revocation

LEMMA CrashKeeps == IInv /\ Crash => IInv'
<1> SUFFICES ASSUME IInv, Crash PROVE IInv'
    OBVIOUS
<1>1. DOMAIN NoEntry = {}
    BY DEF NoEntry
<1>2. TypeOK'
    BY <1>1 DEF IInv, TypeOK, Crash
<1>3. ArgInv' /\ HolderInv' /\ DownInv'
    BY NoneHoldsNothing DEF ArgInv, HolderInv, DownInv, Crash, Checking
<1> QED
    BY <1>2, <1>3
    DEF IInv, FileInv, MapsInv, TokenInv, RevokedInv, LateInv, Crash, Expired

\* Both maps are rebuilt from a file that names nothing twice.
LEMMA StartKeeps == IInv /\ Start => IInv'
<1> SUFFICES ASSUME IInv, Start PROVE IInv'
    OBVIOUS
<1>1. Entered' = file
    BY DEF IInv, DownInv, Start, Entered
<1>2. MapsInv'
    <2>1. \A u \in file :
            /\ (CHOOSE v \in file : Lower[v.email] = Lower[u.email]) = u
            /\ (CHOOSE v \in file : v.uid = u.uid) = u
        BY DEF IInv, FileInv
    <2> QED
        BY <1>1, <2>1 DEF MapsInv, Hold, Start, UsersOf, ByUIDOf
<1>3. TypeOK'
    BY LowerMapsAddresses
    DEF IInv, TypeOK, FileInv, Start, UsersOf, ByUIDOf, revocation
<1> QED
    BY <1>2, <1>3
    DEF IInv, ArgInv, HolderInv, FileInv, DownInv, TokenInv, RevokedInv, LateInv, Start,
        revocation, Expired

LEMMA StutterKeeps == IInv /\ UNCHANGED vars => IInv'
<1> SUFFICES ASSUME IInv, UNCHANGED vars PROVE IInv'
    OBVIOUS
<1>1. ArgInv' /\ HolderInv' /\ FileInv' /\ MapsInv' /\ TokenInv'
    BY RevocationAside DEF vars
<1> QED
    BY <1>1 DEF vars, IInv, TypeOK, DownInv, RevokedInv, LateInv, Expired

-----------------------------------------------------------------------------
\* The invariant holds of every behaviour of the accounts, tokens and revocations.
THEOREM Invariance == Spec => []IInv
<1>1. IInv /\ [Next]_vars => IInv'
    BY RegisterKeeps, LoginKeeps, TakenKeeps, InsertKeeps, SaveKeeps, SaveFailsKeeps,
       RegisteredKeeps, LoggedInKeeps, WrongPasswordKeeps, ParseKeeps, CheckRevokedKeeps,
       FindUserKeeps, ServeKeeps, LogoutKeeps, RevokeKeeps, StartSweepKeeps, EndSweepKeeps,
       TickKeeps, CrashKeeps, StartKeeps, StutterKeeps DEF Next
<1> QED
    BY InitHolds, <1>1, PTL DEF Spec

\* Accounts, tokens and revocations keep their types, whatever saves fail.
THEOREM TypeCorrect == Spec => []TypeOK
<1>1. IInv => TypeOK
    BY DEF IInv
<1> QED
    BY Invariance, <1>1, PTL

\* Outside a registration the two maps of auth.go hold exactly the accounts in the file,
\* each under its own keys, although saves fail and the file is loaded again.
THEOREM MapsAgree == Spec => []AccountsMatchFile
<1>1. IInv => AccountsMatchFile
    <2> SUFFICES ASSUME IInv, up, holder = None
                 PROVE  /\ Range(users) = file /\ Range(byUID) = file
                        /\ \A k \in DOMAIN users : Lower[users[k].email] = k
                        /\ \A id \in DOMAIN byUID : byUID[id].uid = id
        BY DEF AccountsMatchFile
    <2>1. Hold(file)
        BY FreeLock DEF IInv, MapsInv
    <2> QED
        BY <2>1, HoldRange, HoldKeys
<1> QED
    BY Invariance, <1>1, PTL

\* Register (auth.go) never admits two accounts under one address, however it is spelled
\* and however registrations interleave with each other and with restarts.
THEOREM AddressesUnique == Spec => []OneAccountPerAddress
<1>1. IInv => OneAccountPerAddress
    BY DEF IInv, FileInv, OneAccountPerAddress
<1> QED
    BY Invariance, <1>1, PTL

\* A token is always for an account that was saved and is in memory whenever the process
\* is up: the token is signed only after the save, under the lock.
THEOREM HoldersKnown == Spec => []TokenHoldersKnown
<1>1. IInv => TokenHoldersKnown
    BY DEF IInv, TokenInv, MapsInv, Hold, Entered, TokenHoldersKnown
<1> QED
    BY Invariance, <1>1, PTL

\* A Verify that begins after the logout of its token never succeeds while the token is
\* valid, whatever the sweeping goroutine does between its steps.
THEOREM RevocationHolds == Spec => []RevokedTokenRefused
<1>1. IInv => RevokedTokenRefused
    BY DEF IInv, LateInv, RevokedTokenRefused
<1> QED
    BY Invariance, <1>1, PTL

=============================================================================
