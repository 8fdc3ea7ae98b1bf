------------------------------- MODULE Stream -------------------------------
(***************************************************************************)
(* The realtime path end to end: handlers mutate the document and publish  *)
(* after the lock is gone, the hub fans the events out, handleStream first *)
(* subscribes, then sends a snapshot, then forwards events, and a client   *)
(* rebuilds the subtree it watches from what it receives.  The database is *)
(* TreeStore, which Database implements.  An event holds the very maps the *)
(* tree was given, which later mutations edit in place: what a client gets *)
(* is what they hold when the event is encoded.                            *)
(***************************************************************************)
EXTENDS JsonTree, FiniteSets

CONSTANTS
    Writer, Requests, PushKey, NoReq,    \* as in TreeStore
    Client,                              \* the open EventSource connections
    Prefix, Cap                          \* as in Hub

ASSUME HubConstants == Prefix \in [Client -> Path] /\ Cap \in Nat \ {0}

\* What the handlers pass on: decodeJSON gives Update a map, Push becomes a put.
ASSUME RequestsAreCalls ==
    \A r \in Requests :
        /\ r.op # "push" => IsMutation(r)
        /\ r.op = "push" => r.path \in Path /\ IsTree(r.val)

ASSUME PushKeysAreKeys == PushKey \subseteq Key

VARIABLES
    mem, disk, pc, req, issued,    \* as in TreeStore
    subs, chan, inside, todo,      \* as in Hub
    conn,         \* where each connection's handler is
    view,         \* what each client has built from its stream
    event,        \* the event of each writer that is publishing
    older,        \* history: the writers that were publishing when this one wrote, and still are
    overtaken,    \* history: the clients a later event reached before this writer's
    raced,        \* history: a connection was given an event after a later one
    missed        \* history: a change a connection was never told of

dbVars == <<mem, disk, pc, req, issued>>
hubVars == <<subs, chan, inside, todo>>
history == <<older, overtaken, raced, missed>>
vars == <<dbVars, hubVars, conn, view, event, history>>

Db == INSTANCE TreeStore
TheHub == INSTANCE Hub WITH Publisher <- Writer, Subscriber <- Client

-----------------------------------------------------------------------------
Publishing == {w \in Writer : pc[w] = "publish"}

NoEvents == [w \in {} |-> NoReq]

\* The objects in a mutation's value that are now part of the tree, too.
Shared(r) ==
    CASE r.op = "put"    -> IF r.val[<<>>] = Obj THEN {<<>>} ELSE {}
      [] r.op = "patch"  -> {q \in DOMAIN r.val : Len(q) = 1 /\ r.val[q] = Obj}
      [] r.op = "delete" -> {}

Published(r) == [op |-> r.op, path |-> r.path, val |-> r.val, shared |-> Shared(r)]

\* What event e holds once r has made tree t: an object r replaces is the event's alone
\* from then on, one it edits in place changes in the event as well.
Edited(e, r, t) ==
    LET shared == {l \in e.shared : \A q \in Written(r) : ~ IsPrefix(q, e.path \o l)}
        own == {q \in DOMAIN e.val : \A l \in shared : ~ IsPrefix(l, q)}
        tree == UNION {{l \o q : q \in DOMAIN At(t, e.path \o l)} : l \in shared}
    IN  [e EXCEPT !.shared = shared,
                  !.val = [q \in own \cup tree |-> IF q \in own THEN e.val[q] ELSE t[e.path \o q]]]

\* A mutation changes the events that are on their way.
EditEvents(r) ==
    chan' = [c \in Client |-> [i \in DOMAIN chan[c] |-> Edited(chan[c][i], r, mem')]]

Init ==
    /\ Db!Init /\ TheHub!HubInit
    /\ conn = [c \in Client |-> "off"]
    /\ view = [c \in Client |-> EmptyDoc]
    /\ event = NoEvents
    /\ older = [w \in Writer |-> {}]
    /\ overtaken = [w \in Writer |-> {}]
    /\ raced = [c \in Client |-> FALSE]
    /\ missed = [c \in Client |-> FALSE]

Conflict(r, s) == Disturbs(r, s) \/ Disturbs(s, r)

\* The writers still publishing an older mutation that conflicts with r.
Pending(r, earlier) == {p \in earlier : Conflict(req[p], r)}

\* The clients of C are told, or their next snapshot tells them, of r before the
\* events of the older writers.
Overtake(r, earlier, C) ==
    overtaken' = [p \in Writer |->
        IF p \in Pending(r, earlier) THEN overtaken[p] \cup C ELSE overtaken[p]]

Request(w) ==
    /\ \E r \in Requests : Db!Call(w, r) \/ \E k \in PushKey : Db!CallPush(w, r, k)
    /\ UNCHANGED <<hubVars, conn, view, event, history>>

\* A mutation that is saved: its event is now owed to the subscribers.
Write(w) ==
    /\ Db!Write(w)
    /\ older' = [older EXCEPT ![w] = Publishing]
    /\ EditEvents(req[w])
    /\ event' = [v \in DOMAIN event \cup {w} |->
                    IF v = w THEN Published(req[w]) ELSE Edited(event[v], req[w], mem')]
    /\ UNCHANGED <<subs, inside, todo, conn, view, overtaken, raced, missed>>

\* A mutation whose save fails stays in memory, and no event is sent.
Fail(w) ==
    /\ Db!Fail(w)
    /\ Overtake(req[w], Publishing, Client)
    /\ missed' = [c \in Client |->
                    missed[c] \/ (c \in subs /\ Comparable(Prefix[c], req[w].path))]
    /\ EditEvents(req[w])
    /\ event' = [v \in DOMAIN event |-> Edited(event[v], req[w], mem')]
    /\ UNCHANGED <<subs, inside, todo, conn, view, older, raced>>

\* Whether one of the two, and not both, is the root.
RootDiffers(p, q) == (p = <<>>) # (q = <<>>)

StartPublish(w) ==
    /\ pc[w] = "publish"
    /\ TheHub!Enter(w, event[w])
    /\ Overtake(req[w], older[w], Client \ todo'[w])
    /\ missed' = [c \in Client |->
                    missed[c] \/ (c \in subs /\ RootDiffers(Prefix[c], req[w].path))]
    /\ UNCHANGED <<dbVars, conn, view, event, older, raced>>

Deliver(w, c) ==
    /\ w \in DOMAIN event /\ TheHub!Offer(w, c, event[w])
    /\ Overtake(req[w], older[w], {c})
    /\ raced' = [raced EXCEPT ![c] = @ \/ c \in overtaken[w]]
    /\ missed' = [missed EXCEPT ![c] = @ \/ TheHub!Full(c)]
    /\ UNCHANGED <<dbVars, conn, view, event, older>>

EndPublish(w) ==
    /\ TheHub!Leave(w) /\ Db!Publish(w)
    /\ older' = [p \in Writer |-> IF p = w THEN {} ELSE older[p] \ {w}]
    /\ overtaken' = [overtaken EXCEPT ![w] = {}]
    /\ event' = Restrict(event, DOMAIN event \ {w})
    /\ UNCHANGED <<conn, view, raced, missed>>

\* handleStream: subscribe first ...
Connect(c) ==
    /\ conn[c] = "off"
    /\ TheHub!Subscribe(c)
    /\ conn' = [conn EXCEPT ![c] = "subscribed"]
    /\ UNCHANGED <<dbVars, view, event, history>>

\* ... then send what Get finds, if it finds anything ...
Snapshot(c) ==
    /\ conn[c] = "subscribed"
    /\ conn' = [conn EXCEPT ![c] = "live"]
    /\ view' = [view EXCEPT ![c] =
                  IF Prefix[c] \in DOMAIN mem THEN SetAt(@, Prefix[c], At(mem, Prefix[c])) ELSE @]
    /\ UNCHANGED <<dbVars, hubVars, event, history>>

\* ... then forward events one by one.
Forward(c) ==
    /\ conn[c] = "live"
    /\ TheHub!Receive(c)
    /\ view' = [view EXCEPT ![c] = Apply(@, Head(chan[c]))]
    /\ UNCHANGED <<dbVars, conn, event, history>>

\* The client is gone: the handler leaves its loop and runs unsubscribe; the
\* client starts over when it connects again.
Close(c) ==
    /\ conn[c] = "live"
    /\ conn' = [conn EXCEPT ![c] = "closing"]
    /\ UNCHANGED <<dbVars, hubVars, view, event, history>>

Disconnect(c) ==
    /\ conn[c] = "closing"
    /\ TheHub!Unsubscribe(c)
    /\ conn' = [conn EXCEPT ![c] = "off"]
    /\ view' = [view EXCEPT ![c] = EmptyDoc]
    /\ raced' = [raced EXCEPT ![c] = FALSE]
    /\ missed' = [missed EXCEPT ![c] = FALSE]
    /\ UNCHANGED <<dbVars, event, older, overtaken>>

\* The process dies and starts again: calls, subscriptions, channels are gone.
Restart ==
    /\ Db!Restart
    /\ subs' = {} /\ inside' = {}
    /\ chan' = [c \in Client |-> <<>>]
    /\ todo' = [w \in Writer |-> {}]
    /\ conn' = [c \in Client |-> "off"]
    /\ view' = [c \in Client |-> EmptyDoc]
    /\ event' = NoEvents
    /\ older' = [w \in Writer |-> {}]
    /\ overtaken' = [w \in Writer |-> {}]
    /\ raced' = [c \in Client |-> FALSE]
    /\ missed' = [c \in Client |-> FALSE]

Next ==
    \/ \E w \in Writer :
        \/ Request(w) \/ Write(w) \/ Fail(w)
        \/ StartPublish(w) \/ EndPublish(w)
        \/ \E c \in Client : Deliver(w, c)
    \/ \E c \in Client : Connect(c) \/ Snapshot(c) \/ Forward(c) \/ Close(c) \/ Disconnect(c)
    \/ Restart

\* A handler that publishes goes on whatever the clients do: no fairness is asked of
\* Forward, whose write to a slow client may block for good.
Fairness ==
    \A w \in Writer : WF_vars(StartPublish(w) \/ EndPublish(w) \/ \E c \in Client : Deliver(w, c))

Spec == Init /\ [][Next]_vars /\ Fairness

-----------------------------------------------------------------------------
TypeOK ==
    /\ IsDoc(mem) /\ IsDoc(disk)
    /\ \A c \in Client : IsDoc(view[c]) /\ Len(chan[c]) <= Cap
    /\ conn \in [Client -> {"off", "subscribed", "live", "closing"}]
    /\ subs = {c \in Client : conn[c] # "off"}
    /\ inside \subseteq Publishing /\ DOMAIN event = Publishing
    /\ todo \in [Writer -> SUBSET Client]

\* Nothing is on its way to the client of a stream that is up.
Quiet(c) == conn[c] = "live" /\ chan[c] = <<>> /\ Publishing = {}

InSync(c) == At(view[c], Prefix[c]) = At(mem, Prefix[c])

\* Subscribing before the snapshot leaves no gap, and applying again an event the
\* snapshot already holds does no harm: once nothing is on its way, a client has
\* exactly the subtree it watches, unless one of its events was skipped at a full
\* channel or never sent, or reached it after a later, conflicting one.
StreamConverges == \A c \in Client : Quiet(c) /\ ~ missed[c] /\ ~ raced[c] => InSync(c)

\* A client may disconnect while events are sent to it: none is offered to a channel
\* that unsubscribe has closed, which would panic the writer's handler.
NoSendOnClosed == \A w \in Writer : todo[w] \subseteq subs

\* A publisher never waits for a client: its call returns although clients that
\* do not read fill their channels.
PublisherNeverBlocks == \A w \in Writer : pc[w] = "publish" ~> pc[w] = "idle"

=============================================================================
