-------------------------------- MODULE Hub --------------------------------
(***************************************************************************)
(* hub.go: the fan-out of an app's events to its subscribers.  Publishers  *)
(* share the hub's read lock and put the event on the channel of every     *)
(* subscriber it concerns, skipping a channel that is full; subscribing    *)
(* and unsubscribing take the write lock.  Stream composes these actions   *)
(* with the database's and the stream handlers'.                           *)
(***************************************************************************)
EXTENDS JsonTree

CONSTANTS
    Publisher,
    Subscriber,
    Prefix,      \* the path each subscriber watches
    Cap          \* the capacity of a subscriber's channel (16 in the code)

VARIABLES
    subs,      \* h.subs
    chan,      \* the events buffered for each subscriber
    inside,    \* the publishers in Publish, that is, holding h.mu.RLock
    todo       \* the subscribers each of them has still to offer its event to

hubVars == <<subs, chan, inside, todo>>

\* Mutant: changes above the watched node are not relevant.
MatchesBelow(prefix, path) == prefix = path \/ (prefix # <<>> /\ IsPrefix(prefix, path))

\* matches, on the strings it is given.  The root is the string "/", whose slash
\* is also its last character: no other path extends it by a slash.
Matches(prefix, path) ==
    \/ prefix = path
    \/ prefix # <<>> /\ path # <<>> /\ Comparable(prefix, path)

HubInit ==
    /\ subs = {} /\ inside = {}
    /\ chan = [s \in Subscriber |-> <<>>]
    /\ todo = [p \in Publisher |-> {}]

Subscribe(s) ==
    /\ s \notin subs /\ inside = {}
    /\ subs' = subs \cup {s}
    /\ chan' = [chan EXCEPT ![s] = <<>>]
    /\ UNCHANGED <<inside, todo>>

\* Mutant: unsubscribing does not take the write lock.
UnsubscribeUnlocked(s) ==
    /\ s \in subs
    /\ subs' = subs \ {s}
    /\ UNCHANGED <<chan, inside, todo>>

\* The channel is closed; nothing may be sent on it any more.
Unsubscribe(s) ==
    /\ s \in subs /\ inside = {}
    /\ subs' = subs \ {s}
    /\ UNCHANGED <<chan, inside, todo>>

\* Publish takes the read lock; the set it will range over is now fixed.
Enter(p, ev) ==
    /\ p \notin inside
    /\ inside' = inside \cup {p}
    /\ todo' = [todo EXCEPT ![p] = {s \in subs : Matches(Prefix[s], ev.path)}]
    /\ UNCHANGED <<subs, chan>>

Full(s) == Len(chan[s]) = Cap

\* Mutant: the buffer's capacity is not looked at.
OfferAlways(p, s, ev) ==
    /\ s \in todo[p]
    /\ todo' = [todo EXCEPT ![p] = @ \ {s}]
    /\ chan' = [chan EXCEPT ![s] = Append(@, ev)]
    /\ UNCHANGED <<subs, inside>>

\* Mutant: the send has no default and blocks.
OfferWaiting(p, s, ev) == ~ Full(s) /\ OfferAlways(p, s, ev)

\* One round of the loop: send, or skip a full channel.
Offer(p, s, ev) ==
    /\ s \in todo[p]
    /\ todo' = [todo EXCEPT ![p] = @ \ {s}]
    /\ chan' = [chan EXCEPT ![s] = IF Full(s) THEN @ ELSE Append(@, ev)]
    /\ UNCHANGED <<subs, inside>>

Leave(p) ==
    /\ p \in inside /\ todo[p] = {}
    /\ inside' = inside \ {p}
    /\ UNCHANGED <<subs, chan, todo>>

\* The stream handler takes the oldest event from its channel.
Receive(s) ==
    /\ chan[s] # <<>>
    /\ chan' = [chan EXCEPT ![s] = Tail(@)]
    /\ UNCHANGED <<subs, inside, todo>>

=============================================================================
