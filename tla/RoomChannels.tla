------------------------------ MODULE RoomChannels ------------------------------
(***************************************************************************)
(* How one instance subscribes to the Redis channels of the rooms that its *)
(* clients are in (socket/redis_room_channels.py).                         *)
(*                                                                         *)
(* Clients join and leave rooms in handlers of their own; one loop takes   *)
(* all changes noted so far, subscribes and unsubscribes, and sends a      *)
(* PING: a join returns when the PONG is back, for Redis answers in order. *)
(* The connection may break at any time.  The Redis client then reconnects *)
(* without telling the loop, subscribing again to what it has a record of, *)
(* or gives up, and the loop starts again with a new connection.  It marks *)
(* what it is asked to remove before it connects, and connecting takes the *)
(* marks off: a removal that it sends next is one it has no record of.     *)
(*                                                                         *)
(* Serial numbers are only compared with the latest, so a PING or PONG is  *)
(* fresh or it is not.  Replies to one command are taken together.         *)
(***************************************************************************)
EXTENDS Naturals, Sequences

CONSTANTS Client,    \* clients of the instance
          Room,      \* rooms
          RoomOf,    \* the room that each client joins
          Main,      \* the channel that every instance listens to
          MaxBreaks  \* bound: breaks of the connection

ASSUME RoomAssumption == RoomOf \in [Client -> Room] /\ Main \notin Room
ASSUME ClientAssumption == "change" \notin Client
ASSUME BreakAssumption == MaxBreaks \in Nat

VARIABLES state,    \* of each client: out of its room, joining, in it
          events,   \* _subscription_queue: clients that wait, and Change
          waiters,  \* the events that the loop has taken
          pc,       \* where the loop is
          wanted,   \* the channels it has found to be wanted,
          removed,  \* and those it is removing when the connection is down
          got,      \* the reply it has been given and not looked at
          channels, \* the Redis client's record of its channels,
          removing, \* and of those it has asked to be removed
          link,     \* the connection: up, down, or closed by the loop
          wire,     \* the commands on their way to Redis
          inbox,    \* the replies on their way back
          subs,     \* the channels Redis sends to this connection
          breaks,   \* number of breaks
          missed,   \* clients that were in their room when it broke
          crossed   \* channels removed, of this connection, that the record keeps

loop   == <<events, waiters, pc, wanted, removed, got>>
client == <<channels, removing>>
redis  == <<link, wire, inbox, subs>>
past   == <<breaks, missed, crossed>>
vars   == <<state, loop, client, redis, past>>

Change  == "change"
NoReply == [type |-> "none", channels |-> {}, fresh |-> FALSE]
Channel == Room \cup {Main}

Command(type, set) == [type |-> type, channels |-> set, fresh |-> FALSE]
Ping == [type |-> "ping", channels |-> {}, fresh |-> TRUE]
Aged(m) == [m EXCEPT !.fresh = FALSE]
Age(messages) == [i \in DOMAIN messages |-> Aged(messages[i])]
Some(type, set) == IF set = {} THEN <<>> ELSE <<Command(type, set)>>

-----------------------------------------------------------------------------
(* Clients.  A join notes the change and waits; a leave notes it only when *)
(* the room is empty now.                                                  *)

Members == {c \in Client : state[c] \in {"joining", "in"}}
Wanted == {Main} \cup {RoomOf[c] : c \in Members}

Join(c) ==
    /\ state[c] = "out"
    /\ state' = [state EXCEPT ![c] = "joining"]
    /\ events' = events \cup {Change, c}
    /\ UNCHANGED <<waiters, pc, wanted, removed, got, client, redis, past>>

\* A client that leaves while it waits leaves an event that nobody waits for.
Anonymous(set, c) == IF c \in set THEN (set \ {c}) \cup {Change} ELSE set
EmptyNow(c) == RoomOf[c] \notin {RoomOf[d] : d \in Members \ {c}}
Leave(c) ==
    /\ c \in Members
    /\ state' = [state EXCEPT ![c] = "out"]
    /\ events' = Anonymous(events, c) \cup (IF EmptyNow(c) THEN {Change} ELSE {})
    /\ waiters' = Anonymous(waiters, c)
    /\ missed' = missed \ {c}
    /\ UNCHANGED <<pc, wanted, removed, got, client, redis, breaks, crossed>>

-----------------------------------------------------------------------------
(* The loop (_listen_to_rooms): changes first, in three sends.  A broken   *)
(* connection is made anew before a command is sent.                       *)

Send(commands) == (commands # <<>> => link = "up") /\ wire' = wire \o commands

Subscribe ==
    /\ pc = "waiting" /\ waiters = {} /\ events # {}
    /\ waiters' = events /\ events' = {}
    /\ wanted' = Wanted
    /\ LET added == Wanted \ (channels \ removing) IN
         /\ Send(Some("subscribe", added))
         /\ channels' = channels \cup added
         /\ removing' = removing \ added
    /\ pc' = "unsubscribing"
    /\ UNCHANGED <<state, removed, got, link, inbox, subs, past>>

\* What is no longer wanted is marked; without a connection, it is sent when
\* there is one.
\* (Whether there is a record of it or not.)
UnwantedAll == Channel \ wanted
Unwanted == (channels \ wanted) \ removing
Unsubscribe ==
    /\ pc = "unsubscribing"
    /\ removing' = removing \cup Unwanted
    /\ crossed' = crossed \ Unwanted
    /\ \/ /\ Send(Some("unsubscribe", Unwanted))
          /\ pc' = "pinging" /\ removed' = {}
       \/ /\ link = "down" /\ Unwanted # {}
          /\ pc' = "removing" /\ removed' = Unwanted
          /\ wire' = wire
    /\ UNCHANGED <<state, events, waiters, wanted, got, channels, link, inbox, subs, breaks, missed>>

\* By then the marks are gone, and the record keeps what is removed.
Remove ==
    /\ pc = "removing" /\ link = "up"
    /\ Send(Some("unsubscribe", removed))
    /\ crossed' = crossed \cup (removed \ removing)
    /\ pc' = "pinging" /\ removed' = {}
    /\ UNCHANGED <<state, events, waiters, wanted, got, client, link, inbox, subs, breaks, missed>>

\* The next serial number: no other PING or PONG has it.
SendPing ==
    /\ pc = "pinging" /\ link = "up"
    /\ wire' = Append(Age(wire), Ping)
    /\ inbox' = Age(inbox) /\ got' = Aged(got)
    /\ pc' = "waiting"
    /\ UNCHANGED <<state, events, waiters, wanted, removed, client, link, subs, past>>

\* A subscription was made, perhaps anew: what is wanted is looked at again,
\* and a PONG may have been lost.
\* (It was made for a change.)
NotesNone == {}
Notes == {Change}
\* (PONGs are not lost.)
PingsNever == <<>>
PingsAgain == IF Main \in got.channels THEN <<Ping>> ELSE <<>>
Subscribed ==
    /\ pc = "waiting" /\ got.type = "subscribe"
    /\ got' = NoReply
    /\ events' = events \cup Notes
    /\ Send(PingsAgain)
    /\ UNCHANGED <<state, waiters, pc, wanted, removed, client, link, inbox, subs, past>>

\* (Any PONG will do.)
IsAnswerAny == got.type = "ping"
IsAnswer == got.type = "ping" /\ got.fresh
Confirmed ==
    /\ pc = "waiting" /\ IsAnswer
    /\ got' = NoReply
    /\ state' = [c \in Client |-> IF c \in waiters THEN "in" ELSE state[c]]
    /\ waiters' = {}
    /\ UNCHANGED <<events, pc, wanted, removed, client, redis, past>>

Ignored ==
    /\ pc = "waiting" /\ got # NoReply
    /\ got.type # "subscribe" /\ ~IsAnswer
    /\ got' = NoReply
    /\ UNCHANGED <<state, events, waiters, pc, wanted, removed, client, redis, past>>

-----------------------------------------------------------------------------
(* The Redis client: one reply is read ahead of the loop.                  *)

Read == LET m == Head(inbox)
            gone == IF m.type = "unsubscribe" THEN m.channels \cap removing ELSE {} IN
    /\ link = "up" /\ got = NoReply /\ inbox # <<>>
    /\ got' = m /\ inbox' = Tail(inbox)
    /\ channels' = channels \ gone
    /\ removing' = removing \ gone
    /\ UNCHANGED <<state, events, waiters, pc, wanted, removed, link, wire, subs, past>>

\* It subscribes to everything it has a record of, and takes the marks off.
Reconnect ==
    /\ link = "down"
    /\ link' = "up"
    /\ removing' = {}
    /\ wire' = Some("subscribe", channels)
    /\ UNCHANGED <<state, loop, channels, inbox, subs, past>>

\* It gives up; the events taken go back to the queue.
\* (They do not.)
PutBackNone == events
PutBack == events \cup waiters
GiveUp ==
    /\ link = "down"
    /\ link' = "closed"
    /\ events' = PutBack /\ waiters' = {}
    /\ pc' = "closed" /\ got' = NoReply /\ removed' = {}
    /\ UNCHANGED <<state, wanted, client, wire, inbox, subs, past>>

\* After a pause: a new connection, the main channel, and a look at the rooms.
\* (The record of the old connection is taken over.)
NewRecordOld == channels' = channels \cup {Main} /\ removing' = removing
NewRecord == channels' = {Main} /\ removing' = {}
Restart ==
    /\ link = "closed"
    /\ link' = "up"
    /\ NewRecord
    /\ wire' = Some("subscribe", {Main})
    /\ events' = events \cup {Change}
    /\ pc' = "waiting"
    /\ UNCHANGED <<state, waiters, wanted, removed, got, inbox, subs, past>>

-----------------------------------------------------------------------------
(* Redis and the network. *)

Process == LET m == Head(wire) IN
    /\ wire # <<>>
    /\ wire' = Tail(wire) /\ inbox' = Append(inbox, m)
    /\ subs' = IF m.type = "subscribe" THEN subs \cup m.channels
               ELSE IF m.type = "unsubscribe" THEN subs \ m.channels ELSE subs
    /\ UNCHANGED <<state, loop, client, link, past>>

\* Missed: also by those whose PONG has been read.
Break ==
    /\ link = "up" /\ breaks < MaxBreaks
    /\ breaks' = breaks + 1
    /\ link' = "down" /\ wire' = <<>> /\ inbox' = <<>> /\ subs' = {}
    /\ missed' = {c \in Client : \/ state[c] = "in"
                                 \/ IsAnswer /\ c \in waiters}
    /\ crossed' = {}
    /\ UNCHANGED <<state, loop, client>>

-----------------------------------------------------------------------------
Init == /\ state = [c \in Client |-> "out"]
        /\ events = {} /\ waiters = {} /\ pc = "closed" /\ wanted = {} /\ removed = {} /\ got = NoReply
        /\ channels = {} /\ removing = {}
        /\ link = "closed" /\ wire = <<>> /\ inbox = <<>> /\ subs = {}
        /\ breaks = 0 /\ missed = {} /\ crossed = {}

Listen == Subscribe \/ Unsubscribe \/ Remove \/ SendPing
Look   == Subscribed \/ Confirmed \/ Ignored

Next == \/ \E c \in Client : Join(c) \/ Leave(c)
        \/ Listen \/ Look
        \/ Read \/ Reconnect \/ GiveUp \/ Restart
        \/ Process \/ Break

Spec == Init /\ [][Next]_vars

\* The loop and the Redis client go on, and Redis answers; clients join and
\* leave as they like, and the connection need not break.
FairSpec ==
    /\ Spec
    /\ WF_vars(Listen) /\ WF_vars(Look) /\ WF_vars(Read)
    /\ WF_vars(Reconnect \/ GiveUp) /\ WF_vars(Restart) /\ WF_vars(Process)

-----------------------------------------------------------------------------
(* Properties. *)

Messages == [type: {"none", "subscribe", "unsubscribe", "ping"}, channels: SUBSET Channel, fresh: BOOLEAN]
TypeOK ==
    /\ state \in [Client -> {"out", "joining", "in"}]
    /\ events \subseteq Client \cup {Change} /\ waiters \subseteq Client \cup {Change}
    /\ pc \in {"waiting", "unsubscribing", "removing", "pinging", "closed"}
    /\ wanted \subseteq Channel /\ removed \subseteq Channel /\ got \in Messages
    /\ channels \subseteq Channel /\ removing \subseteq channels
    /\ link \in {"up", "down", "closed"}
    /\ wire \in Seq(Messages) /\ inbox \in Seq(Messages)
    /\ subs \subseteq Channel
    /\ breaks \in 0..MaxBreaks /\ missed \subseteq Client /\ crossed \subseteq Channel

\* When a join has returned, Redis sends what is emitted to the room, until
\* the client leaves, whoever else joins and leaves (enter_room: "PONG confirms
\* Redis processed the subscriptions before a join returns"); excepted are
\* those that were in the room when the connection broke, and rooms that are
\* removed while it is made anew, until they are removed again.
JoinedIsSubscribed ==
    \A c \in Client : state[c] = "in" /\ c \notin missed /\ RoomOf[c] \notin crossed
                       => RoomOf[c] \in subs

\* What the comment says without that exception.  Not so: the record keeps a
\* room whose removal was sent right after connecting, so that the next client
\* to join it is taken to be subscribed.  Stated for the record.
PongConfirms ==
    \A c \in Client : state[c] = "in" /\ c \notin missed => RoomOf[c] \in subs

\* Every join returns, although silent reconnects lose the PONG it waits for
\* and the connection is given up while it waits.
JoinReturns == \A c \in Client : state[c] = "joining" ~> state[c] # "joining"

\* Who was in a room when the connection broke is sent its messages again.
SubscribedAgain ==
    \A c \in Client : c \in missed ~> (RoomOf[c] \in subs \/ c \notin missed)

\* The messages of an empty room are no longer sent, although a reconnect may
\* lose the removal and restore the subscription.
LeftIsDropped ==
    \A r \in Room : r \in subs \ Wanted ~> (r \notin subs \/ r \in Wanted)
================================================================================
