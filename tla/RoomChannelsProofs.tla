-------------------------- MODULE RoomChannelsProofs --------------------------
(* Proofs about RoomChannels, for any clients, rooms and breaks.           *)
EXTENDS RoomChannels, SequenceTheorems, TLAPS

\* Command i on the way to Redis adds or drops a channel.
Adds(i, r) == wire[i].type = "subscribe" /\ r \in wire[i].channels
Drops(i, r) == wire[i].type = "unsubscribe" /\ r \in wire[i].channels

\* Redis sends a channel, and goes on with it; or it will, when it has
\* processed all commands, or those before the k-th.
Sent(r) == r \in subs /\ \A j \in 1..Len(wire) : ~Drops(j, r)
SentAtLast(r) ==
    \/ Sent(r)
    \/ \E i \in 1..Len(wire) : Adds(i, r) /\ \A j \in 1..Len(wire) : i < j => ~Drops(j, r)
SentBy(r, k) ==
    \/ Sent(r)
    \/ \E i \in 1..Len(wire) : /\ i < k /\ Adds(i, r)
                               /\ \A j \in 1..Len(wire) : i < j => ~Drops(j, r)

\* Only a connection that is up has commands, replies, subscriptions and
\* removals that the record does not show.
Connected == link # "up" => wire = <<>> /\ inbox = <<>> /\ subs = {} /\ crossed = {}

\* Clients wait while they join, in the queue or with the loop; a loop that is
\* without a connection has none.
Waiting ==
    /\ \A c \in Client : c \in events \cup waiters => state[c] = "joining"
    /\ events \cap waiters \cap Client = {}
    /\ pc \in {"unsubscribing", "removing", "pinging"} => waiters # {}
    /\ link = "closed" => pc = "closed" /\ waiters = {}

\* Until the events that the loop has taken are confirmed, it keeps what it
\* found to be wanted; that is the rooms of the clients that wait and, while it
\* unsubscribes, of all in their room.  It removes nothing of it.
Keeping ==
    /\ waiters # {} => wanted \subseteq channels \ removing
    /\ \A c \in waiters \cap Client : RoomOf[c] \in wanted
    /\ pc = "unsubscribing" => \A c \in Client : state[c] = "in" => RoomOf[c] \in wanted
    /\ removed \cap wanted = {}
    /\ pc # "removing" => removed = {}

\* What the client has a record of, Redis sends or will send.
Recorded == link = "up" => \A r \in (channels \ removing) \ crossed : SentAtLast(r)

\* When the loop waits, what is wanted precedes each fresh PING, and is sent
\* when there is a fresh PONG.
Pinged ==
    pc = "waiting" /\ waiters # {} =>
        /\ \A k \in 1..Len(wire) : wire[k].type = "ping" /\ wire[k].fresh =>
             \A r \in wanted \ crossed : SentBy(r, k)
        /\ \A k \in 1..Len(inbox) : inbox[k].type = "ping" /\ inbox[k].fresh =>
             \A r \in wanted \ crossed : Sent(r)
        /\ IsAnswer => \A c \in (waiters \cap Client) \ missed :
                          RoomOf[c] \notin crossed => Sent(RoomOf[c])

\* Who has joined and saw no break is sent its room, and will be.
Joined ==
    \A c \in Client : state[c] = "in" /\ c \notin missed /\ RoomOf[c] \notin crossed =>
        Sent(RoomOf[c]) /\ RoomOf[c] \in channels \ removing

IInv == TypeOK /\ Connected /\ Waiting /\ Keeping /\ Recorded /\ Pinged /\ Joined

-----------------------------------------------------------------------------
(* Commands on their way.                                                  *)

\* Commands that do not drop a channel change nothing for it.
LEMMA AppendSent ==
    ASSUME wire \in Seq(Messages), NEW s \in Seq(Messages), wire' = wire \o s, subs' = subs,
           NEW r, \A j \in 1..Len(s) : ~(s[j].type = "unsubscribe" /\ r \in s[j].channels)
    PROVE  /\ Sent(r) => Sent(r)'
           /\ \A k \in Nat : SentBy(r, k) => SentBy(r, k)'
           /\ SentAtLast(r) => SentAtLast(r)' /\ \A k \in Nat : Len(wire) < k => SentBy(r, k)'
           /\ (\E i \in 1..Len(s) : s[i].type = "subscribe" /\ r \in s[i].channels) => SentAtLast(r)'
<1>1. /\ Len(wire') = Len(wire) + Len(s) /\ Len(wire) \in Nat /\ Len(s) \in Nat
      /\ \A i \in 1..Len(wire) : wire'[i] = wire[i]
      /\ \A i \in 1..Len(s) : wire'[Len(wire) + i] = s[i]
  OBVIOUS
<1>2. \A j \in 1..Len(wire') : Drops(j, r)' => j \in 1..Len(wire) /\ Drops(j, r)
  <2> SUFFICES ASSUME NEW j \in 1..Len(wire'), Drops(j, r)'
               PROVE  j \in 1..Len(wire) /\ Drops(j, r)
    OBVIOUS
  <2>1. j \notin 1..Len(wire) => j - Len(wire) \in 1..Len(s) /\ wire'[j] = s[j - Len(wire)]
    <3>1. ASSUME j \notin 1..Len(wire) PROVE j - Len(wire) \in 1..Len(s)
      BY <1>1, <3>1
    <3> QED BY <1>1, <3>1
  <2> QED BY <1>1, <2>1 DEF Drops
<1>3. Sent(r) => Sent(r)'
  BY <1>2 DEF Sent
<1>4. ASSUME NEW k \in Nat, SentBy(r, k), ~Sent(r) PROVE SentBy(r, k)'
  <2>1. PICK i \in 1..Len(wire) : i < k /\ Adds(i, r) /\ \A j \in 1..Len(wire) : i < j => ~Drops(j, r)
    BY <1>4 DEF SentBy
  <2>2. i \in 1..Len(wire') /\ Adds(i, r)'
    BY <1>1, <2>1 DEF Adds
  <2> QED BY <1>2, <2>1, <2>2 DEF SentBy
<1>5. ASSUME SentAtLast(r), ~Sent(r)
      PROVE  SentAtLast(r)' /\ \A k \in Nat : Len(wire) < k => SentBy(r, k)'
  <2>1. PICK i \in 1..Len(wire) : Adds(i, r) /\ \A j \in 1..Len(wire) : i < j => ~Drops(j, r)
    BY <1>5 DEF SentAtLast
  <2>2. i \in 1..Len(wire') /\ Adds(i, r)' /\ \A k \in Nat : Len(wire) < k => i < k
    BY <1>1, <2>1 DEF Adds
  <2> QED BY <1>2, <2>1, <2>2 DEF SentBy, SentAtLast
<1>6. ASSUME NEW i \in 1..Len(s), s[i].type = "subscribe", r \in s[i].channels PROVE SentAtLast(r)'
  <2>1. PICK n : n = Len(wire) + i
    OBVIOUS
  <2>2. n \in 1..Len(wire') /\ wire'[n] = s[i]
    BY <1>1, <2>1
  <2>3. Adds(n, r)'
    BY <1>6, <2>2 DEF Adds
  <2>4. \A j \in 1..Len(wire') : n < j => ~Drops(j, r)'
    BY <1>1, <1>2, <2>1
  <2> QED BY <2>2, <2>3, <2>4 DEF SentAtLast
<1> QED BY <1>3, <1>4, <1>5, <1>6 DEF SentBy, SentAtLast

\* When Redis has processed a command, the others move up.
LEMMA ProcessSent ==
    ASSUME wire \in Seq(Messages), wire # <<>>, wire' = Tail(wire), NEW r,
           subs' = IF Head(wire).type = "subscribe" THEN subs \cup Head(wire).channels
                   ELSE IF Head(wire).type = "unsubscribe" THEN subs \ Head(wire).channels ELSE subs
    PROVE  /\ Sent(r) => Sent(r)'
           /\ SentBy(r, 1) => Sent(r)
           /\ \A k \in Nat : SentBy(r, k + 1) => SentBy(r, k)'
           /\ SentAtLast(r) => SentAtLast(r)'
<1>1. /\ Len(wire) \in Nat /\ Len(wire) > 0 /\ Len(wire') = Len(wire) - 1
      /\ \A i \in 1..Len(wire') : wire'[i] = wire[i + 1]
      /\ Head(wire) = wire[1]
  OBVIOUS
<1>2. \A j \in 1..Len(wire') : j + 1 \in 1..Len(wire) /\ (Drops(j, r)' <=> Drops(j + 1, r))
  BY <1>1 DEF Drops
<1>3. Sent(r) => Sent(r)'
  BY <1>1, <1>2 DEF Sent, Drops
<1>4. SentBy(r, 1) => Sent(r)
  BY DEF SentBy
<1>5. ASSUME NEW k \in Nat, SentBy(r, k + 1), ~Sent(r) PROVE SentBy(r, k)'
  <2>1. PICK i \in 1..Len(wire) :
          i < k + 1 /\ Adds(i, r) /\ \A j \in 1..Len(wire) : i < j => ~Drops(j, r)
    BY <1>5 DEF SentBy
  <2>2. CASE i = 1
    <3>1. r \in subs'
      BY <1>1, <2>1, <2>2 DEF Adds
    <3>2. \A j \in 1..Len(wire') : ~Drops(j, r)'
      BY <1>2, <2>1, <2>2
    <3> QED BY <3>1, <3>2 DEF SentBy, Sent
  <2>3. CASE i # 1
    <3>1. i - 1 \in 1..Len(wire') /\ i - 1 < k
      BY <1>1, <2>1, <2>3
    <3>2. Adds(i - 1, r)'
      BY <1>1, <2>1, <3>1 DEF Adds
    <3>3. \A j \in 1..Len(wire') : i - 1 < j => ~Drops(j, r)'
      BY <1>2, <2>1
    <3> QED BY <3>1, <3>2, <3>3 DEF SentBy
  <2> QED BY <2>2, <2>3
<1>6. ASSUME SentAtLast(r) PROVE SentAtLast(r)'
  <2>1. SentBy(r, Len(wire) + 1)
    BY <1>1, <1>6 DEF SentAtLast, SentBy
  <2>2. \E k \in Nat : SentBy(r, k)' \/ Sent(r)'
    BY <1>1, <1>3, <1>5, <2>1
  <2> QED BY <2>2 DEF SentAtLast, SentBy
<1> QED BY <1>3, <1>4, <1>5, <1>6 DEF SentBy

\* Commands are messages.
LEMMA CommandType ==
    ASSUME NEW type \in {"subscribe", "unsubscribe"}, NEW set \in SUBSET Channel
    PROVE  /\ Some(type, set) \in Seq(Messages)
           /\ \A j \in 1..Len(Some(type, set)) :
                Some(type, set)[j].type = type /\ Some(type, set)[j].channels = set
           /\ set # {} => Len(Some(type, set)) = 1
           /\ set = {} => Len(Some(type, set)) = 0
<1>1. Command(type, set) \in Messages /\ Command(type, set).type = type /\ Command(type, set).channels = set
  BY DEF Command, Messages
<1>2. CASE set = {}
  BY <1>2 DEF Some
<1>3. CASE set # {}
  BY <1>1, <1>3 DEF Some
<1> QED BY <1>2, <1>3

\* Ageing changes nothing but the freshness.
LEMMA AgeType ==
    ASSUME NEW s \in Seq(Messages)
    PROVE  /\ Age(s) \in Seq(Messages) /\ Len(Age(s)) = Len(s)
           /\ \A i \in 1..Len(s) : /\ Age(s)[i].type = s[i].type
                                   /\ Age(s)[i].channels = s[i].channels
                                   /\ ~Age(s)[i].fresh
<1>1. \A m \in Messages : /\ Aged(m) \in Messages /\ ~Aged(m).fresh
                          /\ Aged(m).type = m.type /\ Aged(m).channels = m.channels
  BY DEF Aged, Messages
<1>2. DOMAIN s = 1..Len(s) /\ Len(s) \in Nat /\ \A i \in 1..Len(s) : s[i] \in Messages
  OBVIOUS
<1>3. Age(s) = [i \in 1..Len(s) |-> Aged(s[i])]
  BY <1>2 DEF Age
<1>4. Age(s) \in [1..Len(s) -> Messages]
  BY <1>1, <1>2, <1>3
<1>5. Age(s) \in Seq(Messages) /\ Len(Age(s)) = Len(s)
  BY <1>2, <1>4
<1> QED BY <1>1, <1>2, <1>3, <1>5

LEMMA SameSent ==
    ASSUME UNCHANGED <<wire, subs>>
    PROVE  /\ \A r : (Sent(r)' <=> Sent(r)) /\ (SentAtLast(r)' <=> SentAtLast(r))
           /\ \A r, k : SentBy(r, k)' <=> SentBy(r, k)
BY DEF Sent, SentAtLast, SentBy, Adds, Drops

-----------------------------------------------------------------------------
(* Every action keeps the invariant.                                       *)

LEMMA JoinKeeps == ASSUME IInv, NEW c \in Client, Join(c) PROVE IInv'
<1>1. /\ state[c] = "out" /\ state' = [state EXCEPT ![c] = "joining"]
      /\ events' = events \cup {Change, c}
      /\ UNCHANGED <<waiters, pc, wanted, removed, got, channels, removing, link, wire, inbox, subs, breaks, missed, crossed>>
  BY DEF Join, client, redis, past
<1>2. TypeOK'
  BY <1>1 DEF IInv, TypeOK
<1>3. /\ \A r : (Sent(r)' <=> Sent(r)) /\ (SentAtLast(r)' <=> SentAtLast(r))
      /\ \A r, k : SentBy(r, k)' <=> SentBy(r, k)
  BY <1>1, SameSent
<1>4. Change \notin Client /\ state \in [Client -> {"out", "joining", "in"}]
  BY ClientAssumption DEF IInv, TypeOK, Change
<1>5. Waiting'
  BY <1>1, <1>4 DEF IInv, Waiting
<1>6. Keeping'
  BY <1>1, <1>4 DEF IInv, Keeping
<1>7. Joined'
  BY <1>1, <1>3, <1>4 DEF IInv, Joined
<1>8. Connected' /\ Recorded' /\ Pinged'
  BY <1>1, <1>3 DEF IInv, Connected, Recorded, Pinged, IsAnswer
<1> QED BY <1>2, <1>5, <1>6, <1>7, <1>8 DEF IInv

LEMMA LeaveKeeps == ASSUME IInv, NEW c \in Client, Leave(c) PROVE IInv'
<1>1. /\ state' = [state EXCEPT ![c] = "out"]
      /\ events' = Anonymous(events, c) \cup (IF EmptyNow(c) THEN {Change} ELSE {})
      /\ waiters' = Anonymous(waiters, c)
      /\ missed' = missed \ {c}
      /\ UNCHANGED <<pc, wanted, removed, got, channels, removing, link, wire, inbox, subs, breaks, crossed>>
  BY DEF Leave, client, redis, past
<1>2. Change \notin Client /\ state \in [Client -> {"out", "joining", "in"}]
  BY ClientAssumption DEF IInv, TypeOK, Change
<1>3. /\ events' \subseteq (events \cup {Change}) \ {c}
      /\ waiters' \subseteq (waiters \cup {Change}) \ {c}
      /\ waiters # {} <=> waiters' # {}
  BY <1>1, <1>2 DEF Anonymous
<1>4. /\ \A r : (Sent(r)' <=> Sent(r)) /\ (SentAtLast(r)' <=> SentAtLast(r))
      /\ \A r, k : SentBy(r, k)' <=> SentBy(r, k)
  BY <1>1, SameSent
<1>5. TypeOK'
  BY <1>1, <1>3 DEF IInv, TypeOK
<1>6. Waiting'
  BY <1>1, <1>2, <1>3 DEF IInv, Waiting
<1>7. Keeping'
  BY <1>1, <1>2, <1>3 DEF IInv, Keeping
<1>8. Joined'
  BY <1>1, <1>2, <1>4 DEF IInv, Joined
<1>9. Connected' /\ Recorded'
  BY <1>1, <1>4 DEF IInv, Connected, Recorded
<1>10. Pinged'
  BY <1>1, <1>2, <1>3, <1>4 DEF IInv, Pinged, IsAnswer
<1> QED BY <1>5, <1>6, <1>7, <1>8, <1>9, <1>10 DEF IInv

LEMMA WantedType == ASSUME TypeOK PROVE Wanted \subseteq Channel
BY RoomAssumption DEF TypeOK, Wanted, Members, Channel

LEMMA SubscribeKeeps == ASSUME IInv, Subscribe PROVE IInv'
<1> DEFINE added == Wanted \ (channels \ removing)
<1>1. /\ pc = "waiting" /\ waiters = {} /\ events # {}
      /\ waiters' = events /\ events' = {} /\ wanted' = Wanted
      /\ wire' = wire \o Some("subscribe", added)
      /\ Some("subscribe", added) # <<>> => link = "up"
      /\ channels' = channels \cup added
      /\ removing' = removing \ added
      /\ pc' = "unsubscribing"
      /\ UNCHANGED <<state, removed, got, link, inbox, subs, breaks, missed, crossed>>
  BY DEF Subscribe, Send, past
<1>2. TypeOK
  BY DEF IInv
<1>3. Wanted \subseteq Channel /\ added \subseteq Channel /\ added \in SUBSET Channel
  BY <1>2, WantedType
<1>4. /\ Some("subscribe", added) \in Seq(Messages)
      /\ \A j \in 1..Len(Some("subscribe", added)) :
            Some("subscribe", added)[j].type = "subscribe" /\ Some("subscribe", added)[j].channels = added
      /\ added # {} => Len(Some("subscribe", added)) = 1
  BY <1>3, CommandType
<1> DEFINE s == Some("subscribe", added)
<1>5. wire \in Seq(Messages) /\ s \in Seq(Messages) /\ wire' = wire \o s
  BY <1>1, <1>2, <1>4 DEF TypeOK
<1> HIDE DEF s
<1>6. \A r : (Sent(r) => Sent(r)') /\ (SentAtLast(r) => SentAtLast(r)')
  BY <1>1, <1>4, <1>5, AppendSent DEF s
<1>7. \A r \in added : SentAtLast(r)'
  <2> TAKE r \in added
  <2>1. Len(s) = 1 /\ added # {} /\ \A j \in 1..Len(s) : s[j].type = "subscribe" /\ s[j].channels = added
    BY <1>4 DEF s
  <2>2. 1 \in 1..Len(s) /\ s[1].type = "subscribe" /\ r \in s[1].channels
    BY <2>1
  <2>3. \A j \in 1..Len(s) : ~(s[j].type = "unsubscribe" /\ r \in s[j].channels)
    BY <2>1
  <2>4. subs' = subs
    BY <1>1
  <2> HIDE DEF added
  <2> QED BY <1>5, <2>2, <2>3, <2>4, AppendSent
<1>8. wire' \in Seq(Messages)
  BY <1>5
<1>9. TypeOK'
  BY <1>1, <1>2, <1>3, <1>8 DEF TypeOK
<1>10. Connected'
  BY <1>1, <1>5 DEF IInv, Connected, s
<1>11. Waiting'
  BY <1>1 DEF IInv, Waiting
<1>12. Keeping'
  <2>1. wanted' \subseteq channels' \ removing'
    BY <1>1
  <2>2. \A c \in Client : state[c] \in {"joining", "in"} => RoomOf[c] \in Wanted
    BY DEF Wanted, Members
  <2>3. \A c \in waiters' \cap Client : RoomOf[c] \in wanted'
    BY <1>1, <2>2 DEF IInv, Waiting
  <2> QED BY <1>1, <2>1, <2>2, <2>3 DEF IInv, Keeping
<1>13. Recorded'
  BY <1>1, <1>6, <1>7 DEF IInv, Recorded
<1>14. Pinged'
  BY <1>1 DEF Pinged
<1>15. Joined'
  BY <1>1, <1>6 DEF IInv, Joined
<1> QED BY <1>9, <1>10, <1>11, <1>12, <1>13, <1>14, <1>15 DEF IInv

\* What is removed is not wanted, and the others are sent as before.
LEMMA RemovalSent ==
    ASSUME TypeOK, NEW set \in SUBSET Channel, subs' = subs,
           wire' = wire \o Some("unsubscribe", set)
    PROVE  /\ wire' \in Seq(Messages)
           /\ \A r : r \notin set => (Sent(r) => Sent(r)') /\ (SentAtLast(r) => SentAtLast(r)')
<1> DEFINE s == Some("unsubscribe", set)
<1>1. /\ s \in Seq(Messages) /\ wire \in Seq(Messages) /\ wire' = wire \o s
      /\ \A j \in 1..Len(s) : s[j].channels = set
  BY CommandType DEF TypeOK
<1> HIDE DEF s
<1>2. ASSUME NEW r, r \notin set
      PROVE  (Sent(r) => Sent(r)') /\ (SentAtLast(r) => SentAtLast(r)')
  <2>1. \A j \in 1..Len(s) : ~(s[j].type = "unsubscribe" /\ r \in s[j].channels)
    BY <1>1, <1>2
  <2> QED BY <1>1, <2>1, AppendSent
<1>3. wire' \in Seq(Messages)
  <2>1. s \in Seq(Messages) /\ wire \in Seq(Messages)
    BY <1>1
  <2>2. wire \o s \in Seq(Messages)
    BY <2>1, ConcatProperties
  <2> QED BY <1>1, <2>2
<1> QED BY <1>2, <1>3

LEMMA UnsubscribeKeeps == ASSUME IInv, Unsubscribe PROVE IInv'
<1> DEFINE set == Unwanted
<1>1. /\ pc = "unsubscribing"
      /\ removing' = removing \cup set
      /\ crossed' = crossed \ set
      /\ \/ /\ wire' = wire \o Some("unsubscribe", set)
            /\ Some("unsubscribe", set) # <<>> => link = "up"
            /\ pc' = "pinging" /\ removed' = {}
         \/ /\ link = "down" /\ wire' = wire
            /\ pc' = "removing" /\ removed' = set
      /\ UNCHANGED <<state, events, waiters, wanted, got, channels, link, inbox, subs, breaks, missed>>
  BY DEF Unsubscribe, Send
<1>2. TypeOK /\ wire \in Seq(Messages)
  BY DEF IInv, TypeOK
<1>3. /\ set = (channels \ wanted) \ removing /\ set \in SUBSET Channel /\ set \subseteq channels
      /\ set \cap wanted = {}
  BY <1>2 DEF Unwanted, TypeOK
<1> HIDE DEF set
<1>5. /\ wire' \in Seq(Messages)
      /\ \A r : r \notin set => (Sent(r) => Sent(r)') /\ (SentAtLast(r) => SentAtLast(r)')
  <2>1. CASE wire' = wire
    BY <1>1, <1>2, <2>1, SameSent
  <2>2. CASE wire' = wire \o Some("unsubscribe", set)
    BY <1>1, <1>2, <1>3, <2>2, RemovalSent
  <2> QED BY <1>1, <2>1, <2>2
<1>6. TypeOK'
  BY <1>1, <1>2, <1>3, <1>5 DEF TypeOK
<1>7. Connected'
  <2>1. link # "up" => wire' = <<>>
    BY <1>1, <1>2 DEF IInv, Connected
  <2> QED BY <1>1, <2>1 DEF IInv, Connected
<1>8. Waiting' /\ Pinged'
  BY <1>1 DEF IInv, Waiting, Pinged
<1>9. Keeping'
  BY <1>1, <1>3 DEF IInv, Keeping
<1>10. Recorded'
  <2> SUFFICES ASSUME link = "up", NEW r \in (channels \ removing') \ crossed' PROVE SentAtLast(r)'
    BY <1>1 DEF Recorded
  <2>1. r \notin set /\ r \in (channels \ removing) \ crossed
    BY <1>1
  <2> QED BY <1>5, <2>1 DEF IInv, Recorded
<1>11. Joined'
  <2> SUFFICES ASSUME NEW c \in Client, state[c] = "in", c \notin missed, RoomOf[c] \notin crossed'
               PROVE  Sent(RoomOf[c])' /\ RoomOf[c] \in channels' \ removing'
    BY <1>1 DEF Joined
  <2>1. RoomOf[c] \in wanted
    BY <1>1 DEF IInv, Keeping
  <2>2. RoomOf[c] \notin set /\ RoomOf[c] \notin crossed
    BY <1>1, <1>3, <2>1
  <2>3. Sent(RoomOf[c]) /\ RoomOf[c] \in channels \ removing
    BY <2>2 DEF IInv, Joined
  <2> QED BY <1>1, <1>5, <2>2, <2>3
<1> QED BY <1>6, <1>7, <1>8, <1>9, <1>10, <1>11 DEF IInv

LEMMA RemoveKeeps == ASSUME IInv, Remove PROVE IInv'
<1>1. /\ pc = "removing" /\ link = "up"
      /\ wire' = wire \o Some("unsubscribe", removed)
      /\ crossed' = crossed \cup (removed \ removing)
      /\ pc' = "pinging" /\ removed' = {}
      /\ UNCHANGED <<state, events, waiters, wanted, got, channels, removing, link, inbox, subs, breaks, missed>>
  BY DEF Remove, Send, client
<1>2. TypeOK /\ removed \in SUBSET Channel
  BY DEF IInv, TypeOK
<1>3. /\ wire' \in Seq(Messages)
      /\ \A r : r \notin removed => (Sent(r) => Sent(r)') /\ (SentAtLast(r) => SentAtLast(r)')
  BY <1>1, <1>2, RemovalSent
<1>4. TypeOK'
  BY <1>1, <1>2, <1>3 DEF TypeOK
<1>5. Connected' /\ Pinged'
  BY <1>1 DEF Connected, Pinged
<1>6. Waiting' /\ Keeping'
  BY <1>1 DEF IInv, Waiting, Keeping
<1>7. Recorded'
  <2> SUFFICES ASSUME NEW r \in (channels \ removing) \ crossed' PROVE SentAtLast(r)'
    BY <1>1 DEF Recorded
  <2>1. r \notin removed /\ r \notin crossed
    BY <1>1
  <2> QED BY <1>1, <1>3, <2>1 DEF IInv, Recorded
<1>8. Joined'
  <2> SUFFICES ASSUME NEW c \in Client, state[c] = "in", c \notin missed, RoomOf[c] \notin crossed'
               PROVE  Sent(RoomOf[c])' /\ RoomOf[c] \in channels \ removing
    BY <1>1 DEF Joined
  <2>1. Sent(RoomOf[c]) /\ RoomOf[c] \in channels \ removing
    BY <1>1 DEF IInv, Joined
  <2>2. RoomOf[c] \notin removed
    BY <1>1, <2>1
  <2> QED BY <1>3, <2>1, <2>2
<1> QED BY <1>4, <1>5, <1>6, <1>7, <1>8 DEF IInv

\* A fresh PING is sent, after the commands that are on their way.
LEMMA PingSent ==
    ASSUME TypeOK, NEW before \in Seq(Messages), Len(before) = Len(wire),
           \A i \in 1..Len(wire) : /\ before[i].type = wire[i].type
                                   /\ before[i].channels = wire[i].channels,
           wire' = Append(before, Ping), subs' = subs
    PROVE  /\ wire' \in Seq(Messages) /\ Len(wire') = Len(wire) + 1
           /\ \A i \in 1..Len(wire) : wire'[i] = before[i]
           /\ wire'[Len(wire) + 1] = Ping
           /\ \A r : /\ Sent(r) => Sent(r)'
                     /\ SentAtLast(r) => SentAtLast(r)' /\ \A k \in Nat : Len(wire) < k => SentBy(r, k)'
                     /\ \A k \in Nat : SentBy(r, k) => SentBy(r, k)'
<1>1. Ping \in Messages /\ Ping.type = "ping" /\ wire \in Seq(Messages)
  BY DEF Ping, Messages, TypeOK
<1>2. /\ wire' \in Seq(Messages) /\ Len(wire') = Len(wire) + 1 /\ Len(wire) \in Nat
      /\ \A i \in 1..Len(wire) : wire'[i] = before[i]
      /\ wire'[Len(wire) + 1] = Ping
  BY <1>1
<1>3. ASSUME NEW r, NEW i \in 1..Len(wire')
      PROVE  /\ Drops(i, r)' => i \in 1..Len(wire) /\ Drops(i, r)
             /\ i \in 1..Len(wire) /\ Adds(i, r) => Adds(i, r)'
  <2>1. i \in 1..Len(wire) \/ i = Len(wire) + 1
    BY <1>2
  <2> QED BY <1>1, <1>2, <2>1 DEF Drops, Adds
<1>4. 1..Len(wire) \subseteq 1..Len(wire')
  BY <1>2
<1>5. ASSUME NEW r
      PROVE  /\ Sent(r) => Sent(r)'
             /\ SentAtLast(r) => SentAtLast(r)' /\ \A k \in Nat : Len(wire) < k => SentBy(r, k)'
             /\ \A k \in Nat : SentBy(r, k) => SentBy(r, k)'
  <2>1. Sent(r) => Sent(r)'
    BY <1>3 DEF Sent
  <2>2. ASSUME NEW i \in 1..Len(wire), Adds(i, r), \A j \in 1..Len(wire) : i < j => ~Drops(j, r)
        PROVE  /\ i \in 1..Len(wire') /\ Adds(i, r)'
               /\ \A j \in 1..Len(wire') : i < j => ~Drops(j, r)'
               /\ \A k \in Nat : Len(wire) < k => i < k
    BY <1>2, <1>3, <1>4, <2>2
  <2> QED BY <2>1, <2>2 DEF SentAtLast, SentBy
<1> QED BY <1>2, <1>5

LEMMA SendPingKeeps == ASSUME IInv, SendPing PROVE IInv'
<1>1. /\ pc = "pinging" /\ link = "up"
      /\ wire' = Append(Age(wire), Ping)
      /\ inbox' = Age(inbox) /\ got' = Aged(got)
      /\ pc' = "waiting"
      /\ UNCHANGED <<state, events, waiters, wanted, removed, channels, removing, link, subs, breaks, missed, crossed>>
  BY DEF SendPing, client, past
<1>2. TypeOK /\ wire \in Seq(Messages) /\ inbox \in Seq(Messages) /\ got \in Messages
  BY DEF IInv, TypeOK
<1>3. /\ Age(wire) \in Seq(Messages) /\ Len(Age(wire)) = Len(wire)
      /\ \A i \in 1..Len(wire) : /\ Age(wire)[i].type = wire[i].type
                                 /\ Age(wire)[i].channels = wire[i].channels
                                 /\ ~Age(wire)[i].fresh
      /\ Age(inbox) \in Seq(Messages) /\ Len(Age(inbox)) = Len(inbox)
      /\ \A i \in 1..Len(inbox) : ~Age(inbox)[i].fresh
  BY <1>2, AgeType
<1>4. /\ wire' \in Seq(Messages) /\ Len(wire') = Len(wire) + 1
      /\ \A i \in 1..Len(wire) : wire'[i] = Age(wire)[i]
      /\ \A r : /\ Sent(r) => Sent(r)'
                /\ SentAtLast(r) => SentAtLast(r)' /\ \A k \in Nat : Len(wire) < k => SentBy(r, k)'
  BY <1>1, <1>2, <1>3, PingSent
<1>5. got' \in Messages /\ ~got'.fresh
  BY <1>1, <1>2 DEF Aged, Messages
<1>6. TypeOK'
  BY <1>1, <1>2, <1>3, <1>4, <1>5 DEF TypeOK
<1>7. Connected' /\ Waiting' /\ Keeping'
  BY <1>1 DEF IInv, Connected, Waiting, Keeping
<1>8. Recorded'
  BY <1>1, <1>4 DEF IInv, Recorded
<1>9. Joined'
  BY <1>1, <1>4 DEF IInv, Joined
<1>10. Pinged'
  <2>1. ASSUME waiters # {}, NEW k \in 1..Len(wire'), wire'[k].type = "ping", wire'[k].fresh,
               NEW r \in wanted \ crossed
        PROVE  SentBy(r, k)'
    <3>1. k \in Nat /\ Len(wire) < k
      <4>1. Len(wire) \in Nat /\ Len(wire') = Len(wire) + 1
        BY <1>3, <1>4
      <4>2. k \notin 1..Len(wire)
        BY <1>3, <1>4, <2>1
      <4> QED BY <4>1, <4>2
    <3>2. SentAtLast(r)
      BY <1>1, <2>1 DEF IInv, Keeping, Recorded
    <3> QED BY <1>4, <3>1, <3>2
  <2>2. ASSUME NEW k \in 1..Len(inbox') PROVE ~inbox'[k].fresh
    BY <1>1, <1>3
  <2> QED BY <1>1, <1>5, <2>1, <2>2 DEF Pinged, IsAnswer
<1> QED BY <1>6, <1>7, <1>8, <1>9, <1>10 DEF IInv

LEMMA SubscribedKeeps == ASSUME IInv, Subscribed PROVE IInv'
<1>1. /\ pc = "waiting" /\ got.type = "subscribe"
      /\ PingsAgain # <<>> => link = "up"
      /\ got' = NoReply
      /\ events' = events \cup {Change}
      /\ wire' = wire \o PingsAgain
      /\ UNCHANGED <<state, waiters, pc, wanted, removed, channels, removing, link, inbox, subs, breaks, missed, crossed>>
  BY DEF Subscribed, Send, Notes, client, past
<1>2. TypeOK /\ wire \in Seq(Messages)
  BY DEF IInv, TypeOK
<1>3. NoReply \in Messages /\ NoReply.type = "none" /\ Ping \in Messages
  BY DEF NoReply, Messages, Ping
<1>4. /\ wire' \in Seq(Messages)
      /\ \A k \in 1..Len(wire') : /\ k \in Nat
                                 /\ \/ k \in 1..Len(wire) /\ wire'[k] = wire[k]
                                    \/ Len(wire) < k /\ link = "up"
      /\ \A r : /\ Sent(r) => Sent(r)'
                /\ SentAtLast(r) => SentAtLast(r)' /\ \A k \in Nat : Len(wire) < k => SentBy(r, k)'
                /\ \A k \in Nat : SentBy(r, k) => SentBy(r, k)'
  <2>1. CASE Main \in got.channels
    <3>1. wire' = Append(wire, Ping)
      BY <1>1, <1>2, <1>3, <2>1 DEF PingsAgain
    <3>2. /\ wire' \in Seq(Messages) /\ Len(wire') = Len(wire) + 1
          /\ \A i \in 1..Len(wire) : wire'[i] = wire[i]
          /\ \A r : /\ Sent(r) => Sent(r)'
                    /\ SentAtLast(r) => SentAtLast(r)' /\ \A k \in Nat : Len(wire) < k => SentBy(r, k)'
                    /\ \A k \in Nat : SentBy(r, k) => SentBy(r, k)'
      BY <1>1, <1>2, <3>1, PingSent
    <3>3. Len(wire) \in Nat /\ link = "up"
      BY <1>1, <1>2, <2>1 DEF PingsAgain
    <3> QED BY <3>2, <3>3
  <2>2. CASE Main \notin got.channels
    <3>1. wire' = wire /\ subs' = subs /\ Len(wire) \in Nat
      BY <1>1, <1>2, <2>2 DEF PingsAgain
    <3>2. /\ \A r : (Sent(r)' <=> Sent(r)) /\ (SentAtLast(r)' <=> SentAtLast(r))
          /\ \A r, k : SentBy(r, k)' <=> SentBy(r, k)
      BY <3>1, SameSent
    <3>3. ASSUME NEW r, SentAtLast(r), NEW k \in Nat, Len(wire) < k PROVE SentBy(r, k)
      BY <3>1, <3>3 DEF SentAtLast, SentBy
    <3> QED BY <1>2, <3>1, <3>2, <3>3
  <2> QED BY <2>1, <2>2
<1>5. TypeOK'
  BY <1>1, <1>2, <1>3, <1>4 DEF TypeOK
<1>6. Connected' /\ Waiting' /\ Keeping'
  BY <1>1, ClientAssumption DEF IInv, Connected, Waiting, Keeping, Change
<1>7. Recorded'
  BY <1>1, <1>4 DEF IInv, Recorded
<1>8. Joined'
  BY <1>1, <1>4 DEF IInv, Joined
<1>9. Pinged'
  <2>1. ASSUME waiters # {}, NEW k \in 1..Len(wire'), wire'[k].type = "ping", wire'[k].fresh,
               NEW r \in wanted \ crossed
        PROVE  SentBy(r, k)'
    <3>1. CASE k \in 1..Len(wire) /\ wire'[k] = wire[k]
      BY <1>1, <1>4, <2>1, <3>1 DEF IInv, Pinged
    <3>2. CASE Len(wire) < k /\ link = "up"
      <4>1. SentAtLast(r)
        BY <1>1, <2>1, <3>2 DEF IInv, Keeping, Recorded
      <4> QED BY <1>4, <3>2, <4>1
    <3> QED BY <1>4, <3>1, <3>2
  <2> QED BY <1>1, <1>3, <1>4, <2>1 DEF IInv, Pinged, IsAnswer
<1> QED BY <1>5, <1>6, <1>7, <1>8, <1>9 DEF IInv

LEMMA ConfirmedKeeps == ASSUME IInv, Confirmed PROVE IInv'
<1>1. /\ pc = "waiting" /\ IsAnswer /\ got' = NoReply
      /\ state' = [c \in Client |-> IF c \in waiters THEN "in" ELSE state[c]]
      /\ waiters' = {}
      /\ UNCHANGED <<events, pc, wanted, removed, channels, removing, link, wire, inbox, subs, breaks, missed, crossed>>
  BY DEF Confirmed, client, redis, past
<1>2. TypeOK /\ NoReply \in Messages
  BY DEF IInv, NoReply, Messages
<1>3. /\ \A r : (Sent(r)' <=> Sent(r)) /\ (SentAtLast(r)' <=> SentAtLast(r))
      /\ \A r, k : SentBy(r, k)' <=> SentBy(r, k)
  BY <1>1, SameSent
<1>4. TypeOK'
  BY <1>1, <1>2 DEF TypeOK
<1>5. Connected' /\ Recorded'
  BY <1>1, <1>3 DEF IInv, Connected, Recorded
<1>6. Waiting'
  BY <1>1 DEF IInv, Waiting
<1>7. Keeping' /\ Pinged'
  BY <1>1 DEF IInv, Keeping, Pinged
<1>8. Joined'
  <2> SUFFICES ASSUME NEW c \in Client, state'[c] = "in", c \notin missed, RoomOf[c] \notin crossed
               PROVE  Sent(RoomOf[c]) /\ RoomOf[c] \in channels \ removing
    BY <1>1, <1>3 DEF Joined
  <2>1. CASE c \in waiters
    <3>1. Sent(RoomOf[c])
      BY <1>1, <2>1 DEF IInv, Pinged
    <3>2. RoomOf[c] \in channels \ removing
      BY <2>1 DEF IInv, Keeping
    <3> QED BY <3>1, <3>2
  <2>2. CASE c \notin waiters
    BY <1>1, <2>2 DEF IInv, Joined
  <2> QED BY <2>1, <2>2
<1> QED BY <1>4, <1>5, <1>6, <1>7, <1>8 DEF IInv

LEMMA IgnoredKeeps == ASSUME IInv, Ignored PROVE IInv'
<1>1. /\ got' = NoReply
      /\ UNCHANGED <<state, events, waiters, pc, wanted, removed, channels, removing, link, wire, inbox, subs, breaks, missed, crossed>>
  BY DEF Ignored, client, redis, past
<1>2. NoReply \in Messages /\ NoReply.type = "none"
  BY DEF NoReply, Messages
<1>3. /\ \A r : (Sent(r)' <=> Sent(r)) /\ (SentAtLast(r)' <=> SentAtLast(r))
      /\ \A r, k : SentBy(r, k)' <=> SentBy(r, k)
  BY <1>1, SameSent
<1>4. TypeOK'
  BY <1>1, <1>2 DEF IInv, TypeOK
<1>5. Connected' /\ Waiting' /\ Keeping'
  BY <1>1 DEF IInv, Connected, Waiting, Keeping
<1>6. Recorded' /\ Joined'
  BY <1>1, <1>3 DEF IInv, Recorded, Joined
<1>7. Pinged'
  BY <1>1, <1>2, <1>3 DEF IInv, Pinged, IsAnswer
<1> QED BY <1>4, <1>5, <1>6, <1>7 DEF IInv

LEMMA ReadKeeps == ASSUME IInv, Read PROVE IInv'
<1> DEFINE m == Head(inbox)
           gone == IF m.type = "unsubscribe" THEN m.channels \cap removing ELSE {}
<1>1. /\ link = "up" /\ inbox # <<>>
      /\ got' = m /\ inbox' = Tail(inbox)
      /\ channels' = channels \ gone
      /\ removing' = removing \ gone
      /\ UNCHANGED <<state, events, waiters, pc, wanted, removed, link, wire, subs, breaks, missed, crossed>>
  BY DEF Read, past
<1>2. TypeOK /\ inbox \in Seq(Messages)
  BY DEF IInv, TypeOK
<1>3. /\ 1 \in 1..Len(inbox) /\ m = inbox[1] /\ m \in Messages
      /\ Tail(inbox) \in Seq(Messages)
      /\ \A k \in 1..Len(Tail(inbox)) : k + 1 \in 1..Len(inbox) /\ Tail(inbox)[k] = inbox[k + 1]
  BY <1>1, <1>2
<1>4. gone \subseteq removing /\ channels' \ removing' = channels \ removing
  BY <1>1
<1> HIDE DEF m, gone
<1>5. /\ \A r : (Sent(r)' <=> Sent(r)) /\ (SentAtLast(r)' <=> SentAtLast(r))
      /\ \A r, k : SentBy(r, k)' <=> SentBy(r, k)
  BY <1>1, SameSent
<1>6. TypeOK'
  BY <1>1, <1>2, <1>3, <1>4 DEF TypeOK
<1>7. Connected' /\ Waiting' /\ Keeping'
  BY <1>1, <1>4 DEF IInv, Connected, Waiting, Keeping
<1>8. Recorded' /\ Joined'
  BY <1>1, <1>4, <1>5 DEF IInv, Recorded, Joined
<1>9. Pinged'
  <2> SUFFICES ASSUME pc = "waiting", waiters # {} PROVE Pinged'
    BY <1>1 DEF Pinged
  <2>1. ASSUME NEW k \in 1..Len(inbox'), inbox'[k].type = "ping", inbox'[k].fresh, NEW r \in wanted \ crossed
        PROVE  Sent(r)
    BY <1>1, <1>3, <2>1 DEF IInv, Pinged
  <2>2. ASSUME IsAnswer', NEW c \in (waiters \cap Client) \ missed,
               RoomOf[c] \notin crossed
        PROVE  Sent(RoomOf[c])
    <3>1. inbox[1].type = "ping" /\ inbox[1].fresh
      BY <1>1, <1>3, <2>2 DEF IsAnswer
    <3>2. RoomOf[c] \in wanted
      BY DEF IInv, Keeping
    <3> QED BY <1>3, <2>2, <3>1, <3>2 DEF IInv, Pinged
  <2>3. \A k \in 1..Len(wire) : wire[k].type = "ping" /\ wire[k].fresh =>
           \A r \in wanted \ crossed : SentBy(r, k)
    BY DEF IInv, Pinged
  <2> QED BY <1>1, <1>5, <2>1, <2>2, <2>3 DEF Pinged
<1> QED BY <1>6, <1>7, <1>8, <1>9 DEF IInv

LEMMA ReconnectKeeps == ASSUME IInv, Reconnect PROVE IInv'
<1> DEFINE s == Some("subscribe", channels)
<1>1. /\ link = "down" /\ link' = "up" /\ removing' = {} /\ wire' = s
      /\ UNCHANGED <<state, events, waiters, pc, wanted, removed, got, channels, inbox, subs, breaks, missed, crossed>>
  BY DEF Reconnect, loop, past
<1>2. /\ TypeOK /\ wire = <<>> /\ inbox = <<>> /\ subs = {} /\ crossed = {}
      /\ channels \in SUBSET Channel
  BY <1>1 DEF IInv, TypeOK, Connected
<1>3. /\ s \in Seq(Messages)
      /\ \A j \in 1..Len(s) : s[j].type = "subscribe" /\ s[j].channels = channels
      /\ channels # {} => Len(s) = 1
  BY <1>2, CommandType
<1> HIDE DEF s
<1>4. \A r : ~Sent(r)
  BY <1>2 DEF Sent
<1>5. TypeOK'
  BY <1>1, <1>2, <1>3 DEF TypeOK
<1>6. Connected' /\ Waiting' /\ Keeping'
  BY <1>1 DEF IInv, Connected, Waiting, Keeping
<1>7. Recorded'
  <2> SUFFICES ASSUME NEW r \in channels PROVE SentAtLast(r)'
    BY <1>1 DEF Recorded
  <2>1. 1 \in 1..Len(wire') /\ Adds(1, r)' /\ \A j \in 1..Len(wire') : ~Drops(j, r)'
    BY <1>1, <1>3 DEF Adds, Drops
  <2> QED BY <2>1 DEF SentAtLast
<1>8. Pinged'
  <2>1. \A k \in 1..Len(wire') : wire'[k].type # "ping"
    BY <1>1, <1>3
  <2>2. pc = "waiting" /\ waiters # {} /\ IsAnswer => (waiters \cap Client) \ missed = {}
    BY <1>2, <1>4 DEF IInv, Pinged
  <2>3. Len(inbox') = 0
    BY <1>1, <1>2
  <2> QED BY <1>1, <2>1, <2>2, <2>3 DEF Pinged, IsAnswer
<1>9. Joined'
  BY <1>1, <1>2, <1>4 DEF IInv, Joined
<1> QED BY <1>5, <1>6, <1>7, <1>8, <1>9 DEF IInv

LEMMA GiveUpKeeps == ASSUME IInv, GiveUp PROVE IInv'
<1>1. /\ link = "down" /\ link' = "closed"
      /\ events' = events \cup waiters /\ waiters' = {}
      /\ pc' = "closed" /\ got' = NoReply /\ removed' = {}
      /\ UNCHANGED <<state, wanted, channels, removing, wire, inbox, subs, breaks, missed, crossed>>
  BY DEF GiveUp, PutBack, client, past
<1>2. NoReply \in Messages
  BY DEF NoReply, Messages
<1>3. /\ \A r : (Sent(r)' <=> Sent(r)) /\ (SentAtLast(r)' <=> SentAtLast(r))
      /\ \A r, k : SentBy(r, k)' <=> SentBy(r, k)
  BY <1>1, SameSent
<1>4. TypeOK'
  BY <1>1, <1>2 DEF IInv, TypeOK
<1>5. Connected' /\ Waiting'
  BY <1>1 DEF IInv, Connected, Waiting
<1>6. Keeping' /\ Recorded' /\ Pinged'
  BY <1>1 DEF Keeping, Recorded, Pinged
<1>7. Joined'
  BY <1>1, <1>3 DEF IInv, Joined
<1> QED BY <1>4, <1>5, <1>6, <1>7 DEF IInv

LEMMA RestartKeeps == ASSUME IInv, Restart PROVE IInv'
<1> DEFINE s == Some("subscribe", {Main})
<1>1. /\ link = "closed" /\ link' = "up"
      /\ channels' = {Main} /\ removing' = {} /\ wire' = s
      /\ events' = events \cup {Change} /\ pc' = "waiting"
      /\ UNCHANGED <<state, waiters, wanted, removed, got, inbox, subs, breaks, missed, crossed>>
  BY DEF Restart, NewRecord, past
<1>2. TypeOK /\ subs = {} /\ crossed = {} /\ waiters = {} /\ removed = {} /\ {Main} \in SUBSET Channel
  BY <1>1 DEF IInv, Connected, Waiting, Keeping, Channel
<1>3. /\ s \in Seq(Messages)
      /\ \A j \in 1..Len(s) : s[j].type = "subscribe" /\ s[j].channels = {Main}
      /\ Len(s) = 1
  BY <1>2, CommandType
<1> HIDE DEF s
<1>4. TypeOK'
  BY <1>1, <1>2, <1>3 DEF TypeOK
<1>5. Connected' /\ Keeping' /\ Pinged'
  BY <1>1, <1>2 DEF Connected, Keeping, Pinged
<1>6. Waiting'
  BY <1>1, ClientAssumption DEF IInv, Waiting, Change
<1>7. Recorded'
  <2>1. 1 \in 1..Len(wire') /\ Adds(1, Main)' /\ \A j \in 1..Len(wire') : ~Drops(j, Main)'
    BY <1>1, <1>3 DEF Adds, Drops
  <2> QED BY <1>1, <2>1 DEF Recorded, SentAtLast
<1>8. Joined'
  <2>1. \A r : ~Sent(r)
    BY <1>2 DEF Sent
  <2> QED BY <1>1, <2>1 DEF IInv, Joined
<1> QED BY <1>4, <1>5, <1>6, <1>7, <1>8 DEF IInv

LEMMA ProcessKeeps == ASSUME IInv, Process PROVE IInv'
<1> DEFINE m == Head(wire)
<1>1. /\ wire # <<>> /\ wire' = Tail(wire) /\ inbox' = Append(inbox, m)
      /\ subs' = IF m.type = "subscribe" THEN subs \cup m.channels
                 ELSE IF m.type = "unsubscribe" THEN subs \ m.channels ELSE subs
      /\ UNCHANGED <<state, events, waiters, pc, wanted, removed, got, channels, removing, link, breaks, missed, crossed>>
  BY DEF Process, loop, client, past
<1>2. TypeOK /\ wire \in Seq(Messages) /\ inbox \in Seq(Messages)
  BY DEF IInv, TypeOK
<1>3. /\ m = wire[1] /\ m \in Messages /\ 1 \in 1..Len(wire) /\ Tail(wire) \in Seq(Messages)
      /\ \A k \in 1..Len(Tail(wire)) : k \in Nat /\ k + 1 \in 1..Len(wire) /\ Tail(wire)[k] = wire[k + 1]
  BY <1>1, <1>2
<1>4. ASSUME NEW r
      PROVE  /\ Sent(r) => Sent(r)'
             /\ SentBy(r, 1) => Sent(r)
             /\ \A k \in Nat : SentBy(r, k + 1) => SentBy(r, k)'
             /\ SentAtLast(r) => SentAtLast(r)'
  BY <1>1, <1>2, ProcessSent
<1>5. /\ inbox' \in Seq(Messages)
      /\ \A k \in 1..Len(inbox') : \/ k \in 1..Len(inbox) /\ inbox'[k] = inbox[k]
                                   \/ inbox'[k] = m
  <2>1. Len(inbox') = Len(inbox) + 1 /\ inbox' \in Seq(Messages) /\ Len(inbox) \in Nat
    BY <1>1, <1>2, <1>3
  <2>2. ASSUME NEW k \in 1..Len(inbox')
        PROVE  (k \in 1..Len(inbox) /\ inbox'[k] = inbox[k]) \/ inbox'[k] = m
    <3>1. CASE k \in 1..Len(inbox)
      BY <1>1, <1>2, <1>3, <3>1
    <3>2. CASE k = Len(inbox) + 1
      BY <1>1, <1>2, <1>3, <3>2
    <3> QED BY <2>1, <3>1, <3>2
  <2> QED BY <2>1, <2>2
<1> HIDE DEF m
<1>6. TypeOK'
  <2>1. m.channels \subseteq Channel
    BY <1>3 DEF Messages
  <2>2. subs' \subseteq Channel
    BY <1>1, <1>2, <2>1 DEF TypeOK
  <2> QED BY <1>1, <1>2, <1>3, <1>5, <2>2 DEF TypeOK
<1>7. Connected'
  BY <1>1 DEF IInv, Connected
<1>8. Waiting' /\ Keeping'
  BY <1>1 DEF IInv, Waiting, Keeping
<1>9. Recorded' /\ Joined'
  BY <1>1, <1>4 DEF IInv, Recorded, Joined
<1>10. Pinged'
  <2> SUFFICES ASSUME pc = "waiting", waiters # {} PROVE Pinged'
    BY <1>1 DEF Pinged
  <2>1. ASSUME NEW k \in 1..Len(wire'), wire'[k].type = "ping", wire'[k].fresh, NEW r \in wanted \ crossed
        PROVE  SentBy(r, k)'
    <3>1. SentBy(r, k + 1)
      BY <1>1, <1>3, <2>1 DEF IInv, Pinged
    <3> QED BY <1>1, <1>3, <1>4, <3>1
  <2>2. ASSUME NEW k \in 1..Len(inbox'), inbox'[k].type = "ping", inbox'[k].fresh, NEW r \in wanted \ crossed
        PROVE  Sent(r)
    <3>1. CASE inbox'[k] = m
      BY <1>3, <1>4, <2>2, <3>1 DEF IInv, Pinged
    <3>2. CASE k \in 1..Len(inbox) /\ inbox'[k] = inbox[k]
      BY <2>2, <3>2 DEF IInv, Pinged
    <3> QED BY <1>5, <3>1, <3>2
  <2> QED BY <1>1, <1>4, <2>1, <2>2 DEF IInv, Pinged, IsAnswer
<1> QED BY <1>6, <1>7, <1>8, <1>9, <1>10 DEF IInv

LEMMA BreakKeeps == ASSUME IInv, Break PROVE IInv'
<1>1. /\ link = "up" /\ breaks < MaxBreaks /\ breaks' = breaks + 1
      /\ link' = "down" /\ wire' = <<>> /\ inbox' = <<>> /\ subs' = {}
      /\ missed' = {c \in Client : state[c] = "in" \/ (IsAnswer /\ c \in waiters)}
      /\ crossed' = {}
      /\ UNCHANGED <<state, events, waiters, pc, wanted, removed, got, channels, removing>>
  BY DEF Break, loop, client
<1>2. <<>> \in Seq(Messages) /\ Len(<<>>) = 0
  OBVIOUS
<1>3. breaks' \in 0..MaxBreaks
  BY <1>1, BreakAssumption DEF IInv, TypeOK
<1>4. TypeOK'
  BY <1>1, <1>2, <1>3 DEF IInv, TypeOK
<1>5. Connected' /\ Recorded'
  BY <1>1 DEF Connected, Recorded
<1>6. Waiting' /\ Keeping'
  BY <1>1 DEF IInv, Waiting, Keeping
<1>7. Pinged' /\ Joined'
  BY <1>1, <1>2 DEF Pinged, Joined, IsAnswer
<1> QED BY <1>4, <1>5, <1>6, <1>7 DEF IInv

-----------------------------------------------------------------------------
(* The theorems. *)

\* No client is in a room, and there is no connection.
LEMMA InitHolds == Init => IInv
<1> SUFFICES ASSUME Init PROVE IInv
  OBVIOUS
<1>1. NoReply \in Messages /\ <<>> \in Seq(Messages) /\ 0 \in 0..MaxBreaks
  BY BreakAssumption DEF NoReply, Messages
<1>2. TypeOK
  BY <1>1 DEF Init, TypeOK
<1>3. Connected /\ Waiting /\ Keeping /\ Recorded /\ Pinged /\ Joined
  BY DEF Init, Connected, Waiting, Keeping, Recorded, Pinged, Joined
<1> QED BY <1>2, <1>3 DEF IInv

LEMMA StutterHolds == ASSUME IInv, UNCHANGED vars PROVE IInv'
<1>1. UNCHANGED <<state, events, waiters, pc, wanted, removed, got, channels, removing,
                  link, wire, inbox, subs, breaks, missed, crossed>>
  BY DEF vars, loop, client, redis, past
<1>2. /\ \A r : (Sent(r)' <=> Sent(r)) /\ (SentAtLast(r)' <=> SentAtLast(r))
      /\ \A r, k : SentBy(r, k)' <=> SentBy(r, k)
  BY <1>1, SameSent
<1>3. TypeOK'
  BY <1>1 DEF IInv, TypeOK
<1>4. Connected' /\ Waiting' /\ Keeping'
  BY <1>1 DEF IInv, Connected, Waiting, Keeping
<1>5. Recorded' /\ Joined' /\ Pinged'
  BY <1>1, <1>2 DEF IInv, Recorded, Joined, Pinged, IsAnswer
<1> QED BY <1>3, <1>4, <1>5 DEF IInv

LEMMA StepHolds == IInv /\ [Next]_vars => IInv'
<1> SUFFICES ASSUME IInv, [Next]_vars PROVE IInv'
  OBVIOUS
<1>1. ASSUME NEW c \in Client, Join(c) PROVE IInv'
  BY <1>1, JoinKeeps
<1>2. ASSUME NEW c \in Client, Leave(c) PROVE IInv'
  BY <1>2, LeaveKeeps
<1>3. CASE Listen
  BY <1>3, SubscribeKeeps, UnsubscribeKeeps, RemoveKeeps, SendPingKeeps DEF Listen
<1>4. CASE Look
  BY <1>4, SubscribedKeeps, ConfirmedKeeps, IgnoredKeeps DEF Look
<1>5. CASE Read \/ Reconnect \/ GiveUp \/ Restart
  BY <1>5, ReadKeeps, ReconnectKeeps, GiveUpKeeps, RestartKeeps
<1>6. CASE Process \/ Break
  BY <1>6, ProcessKeeps, BreakKeeps
<1>7. CASE UNCHANGED vars
  BY <1>7, StutterHolds
<1> QED BY <1>1, <1>2, <1>3, <1>4, <1>5, <1>6, <1>7 DEF Next

\* The invariant of the instance's loop, its Redis client and the connection.
THEOREM Invariance == Spec => []IInv
<1> QED BY InitHolds, StepHolds, PTL DEF Spec

\* The variables keep their types; above all, the client only removes channels
\* that it has a record of.
THEOREM TypeCorrect == Spec => []TypeOK
<1>1. IInv => TypeOK
  BY DEF IInv
<1> QED BY <1>1, Invariance, PTL

\* A join that has returned is subscribed (enter_room: "PONG confirms Redis
\* processed the subscriptions before a join returns"), whoever joins and
\* leaves at the same time, until the connection breaks.
THEOREM JoinedSends == Spec => []JoinedIsSubscribed
<1>1. IInv => JoinedIsSubscribed
  BY DEF IInv, Joined, Sent, JoinedIsSubscribed
<1> QED BY <1>1, Invariance, PTL
===============================================================================
