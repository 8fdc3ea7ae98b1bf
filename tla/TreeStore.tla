----------------------------- MODULE TreeStore -----------------------------
(***************************************************************************)
(* What database.go promises to the rest of the program, its locks and     *)
(* files hidden: a document in memory and one on disk.  A mutation takes   *)
(* effect in one step, in both and is then published, or in memory only    *)
(* and its caller gets an error; a restart brings the disk's document back *)
(* and forgets every call.                                                 *)
(***************************************************************************)
EXTENDS JsonTree

CONSTANTS Writer, Requests, PushKey, NoReq

VARIABLES
    mem,      \* what Get reads
    disk,     \* what a restart would bring back
    pc,       \* "idle", "call" or "publish", for each writer
    req,      \* the mutation it is in
    issued    \* push keys generated so far

vars == <<mem, disk, pc, req, issued>>

Init ==
    /\ mem = EmptyDoc /\ disk = EmptyDoc
    /\ pc = [w \in Writer |-> "idle"]
    /\ req = [w \in Writer |-> NoReq]
    /\ issued = {}

Call(w, r) ==
    /\ pc[w] = "idle" /\ r.op # "push"
    /\ pc' = [pc EXCEPT ![w] = "call"]
    /\ req' = [req EXCEPT ![w] = r]
    /\ UNCHANGED <<mem, disk, issued>>

\* Push is a put on a child whose name no push ever used before.
CallPush(w, r, k) ==
    /\ pc[w] = "idle" /\ r.op = "push" /\ k \in PushKey \ issued
    /\ issued' = issued \cup {k}
    /\ pc' = [pc EXCEPT ![w] = "call"]
    /\ req' = [req EXCEPT ![w] = [op |-> "put", path |-> Append(r.path, k), val |-> r.val]]
    /\ UNCHANGED <<mem, disk>>

Write(w) ==
    /\ pc[w] = "call"
    /\ pc' = [pc EXCEPT ![w] = "publish"]
    /\ mem' = Apply(mem, req[w])
    /\ disk' = mem'
    /\ UNCHANGED <<req, issued>>

Fail(w) ==
    /\ pc[w] = "call"
    /\ pc' = [pc EXCEPT ![w] = "idle"]
    /\ req' = [req EXCEPT ![w] = NoReq]
    /\ mem' = Apply(mem, req[w])
    /\ UNCHANGED <<disk, issued>>

Publish(w) ==
    /\ pc[w] = "publish"
    /\ pc' = [pc EXCEPT ![w] = "idle"]
    /\ req' = [req EXCEPT ![w] = NoReq]
    /\ UNCHANGED <<mem, disk, issued>>

Restart ==
    /\ mem' = disk
    /\ pc' = [w \in Writer |-> "idle"]
    /\ req' = [w \in Writer |-> NoReq]
    /\ UNCHANGED <<disk, issued>>

Next ==
    \/ \E w \in Writer :
        \/ \E r \in Requests : Call(w, r) \/ (\E k \in PushKey : CallPush(w, r, k))
        \/ Write(w) \/ Fail(w) \/ Publish(w)
    \/ Restart

Fairness == \A w \in Writer : WF_vars(Write(w) \/ Fail(w)) /\ WF_vars(Publish(w))

SafetySpec == Init /\ [][Next]_vars

Spec == SafetySpec /\ Fairness

=============================================================================
