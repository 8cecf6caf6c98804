-------------------------- MODULE NoteDocumentProofs --------------------------
(* Proofs about NoteDocument, for any editors, words, titles and drops.    *)
EXTENDS NoteDocument, SequenceTheorems, FiniteSetTheorems, TLAPS

-----------------------------------------------------------------------------
(* Queues of messages.                                                     *)

At(q) == 1..Len(q)
Pushed(r, q, m) == /\ Len(r) = Len(q) + 1 /\ r[Len(q) + 1] = m
                   /\ \A i \in At(q) : i \in At(r) /\ r[i] = q[i]
Popped(r, q) == /\ Len(q) = Len(r) + 1 /\ 1 \in At(q)
                /\ \A i \in At(r) : i + 1 \in At(q) /\ r[i] = q[i + 1]

LEMMA Pushes ==
    ASSUME NEW S, NEW q \in Seq(S), NEW m \in S
    PROVE  q \o <<m>> \in Seq(S) /\ Pushed(q \o <<m>>, q, m)
  BY DEF Pushed, At

LEMMA Pops ==
    ASSUME NEW S, NEW q \in Seq(S), q # <<>>
    PROVE  /\ Tail(q) \in Seq(S) /\ Popped(Tail(q), q)
           /\ Head(q) = q[1] /\ Head(q) \in S
  BY DEF Popped, At

LEMMA Elements ==
    ASSUME NEW S, NEW q \in Seq(S)
    PROVE  /\ Len(q) \in Nat /\ \A i \in At(q) : i \in Nat /\ q[i] \in S
           /\ q # <<>> => 1 \in At(q)
  BY DEF At

-----------------------------------------------------------------------------
(* What the messages, documents and texts are made of.                     *)

\* Operations of words in W.
Ops(W) == [client: Client, words: SUBSET W, needs: SUBSET (Client \X SUBSET W)]

\* Who sends what; the messages that have operations.
FromEditor == {"join", "seed", "edit", "resync", "snapshot", "leave"}
FromServer == {"state", "update", "seeded"}
Carries(m) == m.type \in {"seed", "update", "seeded"}
Sound(W, types) ==
    {m \in [type: types, ops: SUBSET Ops(W), text: SUBSET W] : Carries(m) => m.ops # {}}

\* All that is written has words of W.
Written(W) ==
    /\ note \subseteq W /\ save \subseteq SUBSET W /\ stopped \subseteq SUBSET W
    /\ stored \subseteq Ops(W)
    /\ doc \in [Editor -> SUBSET Ops(W)]
    /\ out \in [Editor -> Seq(Sound(W, FromEditor))]
    /\ inbox \in [Editor -> Seq(Sound(W, FromServer))]
    /\ \A e \in Editor : timer[e] => doc[e] # {}

\* The words there are.
Words == Title \cup typed

\* The rest of the state; saves are stopped by a save that replaces them.
Control ==
    /\ phase \in [Editor -> {"new", "open", "closed"}]
    /\ online \in [Editor -> BOOLEAN] /\ synced \in [Editor -> BOOLEAN] /\ timer \in [Editor -> BOOLEAN]
    /\ link \in [Editor -> Nat]
    /\ users \subseteq Editor \X Nat /\ room = users
    /\ typed \subseteq Word /\ seeds \in Nat /\ raced \in BOOLEAN
    /\ save = {} \/ \E text \in save : save = {text}
    /\ save = {} => stopped = {}

Typing == Control /\ Written(Words)

LEMMA TextOfOps ==
    ASSUME NEW W, NEW D \in SUBSET Ops(W)
    PROVE  Shown(D) \subseteq D /\ Text(Shown(D)) \subseteq W
<1>1. Shown(D) \subseteq D
  BY DEF Shown
<1>2. ASSUME NEW o \in D PROVE o.words \subseteq W
  BY <1>2 DEF Ops
<1> QED BY <1>1, <1>2 DEF Text

\* Documents that have more show more.
LEMMA ShownMore ==
    ASSUME NEW D, NEW E, D \subseteq E
    PROVE  /\ Ids(D) \subseteq Ids(E) /\ Shown(D) \subseteq Shown(E)
           /\ Text(Shown(D)) \subseteq Text(Shown(E))
<1>1. Ids(D) \subseteq Ids(E)
  BY DEF Ids
<1>2. Shown(D) \subseteq Shown(E)
  BY <1>1 DEF Shown
<1> QED BY <1>1, <1>2 DEF Text

LEMMA SoundMessage ==
    ASSUME NEW W, NEW types, NEW type \in types, NEW ops \in SUBSET Ops(W), NEW text \in SUBSET W,
           type \in {"seed", "update", "seeded"} => ops # {}
    PROVE  /\ Message(type, ops, text) \in Sound(W, types)
           /\ Message(type, ops, text).type = type
           /\ Message(type, ops, text).ops = ops /\ Message(type, ops, text).text = text
  BY DEF Message, Sound, Carries

LEMMA SoundFields ==
    ASSUME NEW W, NEW types, NEW m \in Sound(W, types)
    PROVE  /\ m.type \in types /\ m.ops \subseteq Ops(W) /\ m.text \subseteq W
           /\ m.type \in {"seed", "update", "seeded"} => m.ops # {}
  BY DEF Sound, Carries

LEMMA WrittenGrows ==
    ASSUME NEW W, NEW V, W \subseteq V, Written(W)
    PROVE  Written(V)
<1>1. SUBSET W \subseteq SUBSET V
  OBVIOUS
<1>2. Ops(W) \subseteq Ops(V)
  <2>1. SUBSET (Client \X SUBSET W) \subseteq SUBSET (Client \X SUBSET V)
    BY <1>1
  <2> QED BY <1>1, <2>1 DEF Ops
<1>3. ASSUME NEW types PROVE Seq(Sound(W, types)) \subseteq Seq(Sound(V, types))
  <2>1. Sound(W, types) \subseteq Sound(V, types)
    BY <1>2 DEF Sound
  <2> QED BY <2>1, SeqMonotonic
<1>4. /\ out \in [Editor -> Seq(Sound(V, FromEditor))]
      /\ inbox \in [Editor -> Seq(Sound(V, FromServer))]
  BY <1>3 DEF Written
<1>5. doc \in [Editor -> SUBSET Ops(V)]
  <2>1. doc \in [Editor -> SUBSET Ops(W)] /\ SUBSET Ops(W) \subseteq SUBSET Ops(V)
    BY <1>2 DEF Written
  <2> QED BY <2>1
<1> QED BY <1>1, <1>2, <1>4, <1>5 DEF Written

\* The queue of one editor, with another message, without its first, or as it was.
Puts(e, m) == /\ Pushed(out'[e], out[e], m)
              /\ \A f \in Editor : f # e => out'[f] = out[f]
Takes(e) == /\ Popped(out'[e], out[e])
            /\ \A f \in Editor : f # e => out'[f] = out[f]

LEMMA SendsOne ==
    ASSUME NEW W, out \in [Editor -> Seq(Sound(W, FromEditor))],
           NEW e \in Editor, NEW m \in Sound(W, FromEditor), Sends(e, <<m>>)
    PROVE  out' \in [Editor -> Seq(Sound(W, FromEditor))] /\ Puts(e, m)
<1> DEFINE S == Sound(W, FromEditor)
<1>1. out[e] \in Seq(S) /\ m \in S /\ \A f \in Editor : out[f] \in Seq(S)
  OBVIOUS
<1>2. out' = [out EXCEPT ![e] = out[e] \o <<m>>]
  BY DEF Sends
<1> HIDE DEF S
<1>3. out[e] \o <<m>> \in Seq(S) /\ Pushed(out[e] \o <<m>>, out[e], m)
  BY <1>1, Pushes
<1>4. out' \in [Editor -> Seq(S)] /\ out'[e] = out[e] \o <<m>> /\ \A f \in Editor : f # e => out'[f] = out[f]
  BY <1>1, <1>2, <1>3 DEF S
<1> QED BY <1>3, <1>4 DEF Puts, S

LEMMA SendsNone ==
    ASSUME NEW W, out \in [Editor -> Seq(Sound(W, FromEditor))], NEW e \in Editor, Sends(e, <<>>)
    PROVE  out' = out
<1> DEFINE S == Sound(W, FromEditor)
<1>1. out \in [Editor -> Seq(S)] /\ out[e] \in Seq(S)
  OBVIOUS
<1> HIDE DEF S
<1>2. out[e] \o <<>> = out[e]
  BY <1>1, ConcatEmptySeq
<1> QED BY <1>1, <1>2 DEF Sends

LEMMA HandlesOne ==
    ASSUME NEW W, out \in [Editor -> Seq(Sound(W, FromEditor))],
           NEW e \in Editor, NEW type, Handles(e, type)
    PROVE  /\ out' \in [Editor -> Seq(Sound(W, FromEditor))] /\ Takes(e)
           /\ Head(out[e]) = out[e][1] /\ Head(out[e]) \in Sound(W, FromEditor) /\ out[e][1].type = type
<1> DEFINE S == Sound(W, FromEditor)
<1>1. out[e] \in Seq(S) /\ \A f \in Editor : out[f] \in Seq(S)
  OBVIOUS
<1>2. out[e] # <<>> /\ Head(out[e]).type = type /\ out' = [out EXCEPT ![e] = Tail(out[e])]
  BY DEF Handles
<1> HIDE DEF S
<1>3. /\ Tail(out[e]) \in Seq(S) /\ Popped(Tail(out[e]), out[e])
      /\ Head(out[e]) = out[e][1] /\ Head(out[e]) \in S
  BY <1>1, <1>2, Pops
<1>4. out' \in [Editor -> Seq(S)] /\ out'[e] = Tail(out[e]) /\ \A f \in Editor : f # e => out'[f] = out[f]
  BY <1>1, <1>2, <1>3 DEF S
<1> QED BY <1>2, <1>3, <1>4 DEF Takes, S

\* Whom a message to the room reaches.
Reaches(f) == phase[f] = "open" /\ online[f] /\ InRoom(f)

LEMMA DeliversOne ==
    ASSUME NEW W, inbox \in [Editor -> Seq(Sound(W, FromServer))], NEW e \in Editor,
           NEW own \in Seq(Sound(W, FromServer)), NEW others \in Seq(Sound(W, FromServer)),
           inbox' = Delivered(e, own, others)
    PROVE  /\ inbox' \in [Editor -> Seq(Sound(W, FromServer))]
           /\ own = <<>> => inbox'[e] = inbox[e]
           /\ \A m \in Sound(W, FromServer) : own = <<m>> => Pushed(inbox'[e], inbox[e], m)
           /\ \A f \in Editor : f # e =>
                /\ ~Reaches(f) \/ others = <<>> => inbox'[f] = inbox[f]
                /\ \A m \in Sound(W, FromServer) :
                     Reaches(f) /\ others = <<m>> => Pushed(inbox'[f], inbox[f], m)
<1> DEFINE S == Sound(W, FromServer)
<1>1. \A f \in Editor : inbox[f] \in Seq(S)
  OBVIOUS
<1>2. /\ DOMAIN inbox' = Editor
      /\ \A f \in Editor : inbox'[f] = IF f = e THEN inbox[f] \o own
                                       ELSE IF Reaches(f) THEN inbox[f] \o others ELSE inbox[f]
      /\ inbox' = [f \in Editor |-> inbox'[f]]
  BY DEF Delivered, Reaches
<1>3. own \in Seq(S) /\ others \in Seq(S)
  OBVIOUS
<1> HIDE DEF S
<1>4. \A f \in Editor : inbox[f] \o own \in Seq(S) /\ inbox[f] \o others \in Seq(S)
  BY <1>1, <1>3, ConcatProperties
<1>5. \A f \in Editor : inbox[f] \o <<>> = inbox[f]
  BY <1>1, ConcatEmptySeq
<1>6. \A f \in Editor : \A m \in S : Pushed(inbox[f] \o <<m>>, inbox[f], m)
  BY <1>1, Pushes
<1>7. \A f \in Editor : inbox'[f] \in Seq(S)
  BY <1>1, <1>2, <1>4
<1>8. inbox' \in [Editor -> Seq(S)]
  BY <1>2, <1>7
<1>9. own = <<>> => inbox'[e] = inbox[e]
  BY <1>2, <1>5
<1>10. \A m \in S : own = <<m>> => Pushed(inbox'[e], inbox[e], m)
  BY <1>2, <1>6
<1>11. \A f \in Editor : f # e =>
                /\ ~Reaches(f) \/ others = <<>> => inbox'[f] = inbox[f]
                /\ \A m \in S : Reaches(f) /\ others = <<m>> => Pushed(inbox'[f], inbox[f], m)
  <2> SUFFICES ASSUME NEW f \in Editor, f # e
               PROVE  /\ ~Reaches(f) \/ others = <<>> => inbox'[f] = inbox[f]
                      /\ \A m \in S : Reaches(f) /\ others = <<m>> => Pushed(inbox'[f], inbox[f], m)
    OBVIOUS
  <2>1. inbox'[f] = IF Reaches(f) THEN inbox[f] \o others ELSE inbox[f]
    BY <1>2
  <2>2. ~Reaches(f) \/ others = <<>> => inbox'[f] = inbox[f]
    BY <1>5, <2>1
  <2>3. ASSUME NEW m \in S, Reaches(f), others = <<m>> PROVE Pushed(inbox'[f], inbox[f], m)
    BY <1>6, <2>1, <2>3
  <2> QED BY <2>2, <2>3
<1> QED BY <1>8, <1>9, <1>10, <1>11 DEF S

-----------------------------------------------------------------------------
(* What each action does, and that it keeps the types.                     *)

\* The editors other than e, their messages from the server included, stay.
Others(e) ==
    \A f \in Editor : f # e =>
        /\ phase'[f] = phase[f] /\ online'[f] = online[f] /\ link'[f] = link[f]
        /\ synced'[f] = synced[f] /\ timer'[f] = timer[f] /\ doc'[f] = doc[f]
        /\ inbox'[f] = inbox[f]

\* A connection is made.
Connects(e) ==
    /\ phase'[e] = "open" /\ online'[e] /\ link'[e] = link[e] /\ synced'[e] = synced[e]
    /\ timer'[e] = timer[e] /\ doc'[e] = doc[e] /\ inbox'[e] = inbox[e]
    /\ Others(e) /\ UNCHANGED <<server, seeds, typed, raced>>
    /\ \E m : m.type = "join" /\ m.ops = {} /\ Puts(e, m)

LEMMA OpenDoes ==
    ASSUME Typing, NEW e \in Editor, Open(e)
    PROVE  Typing' /\ phase[e] = "new" /\ Connects(e)
<1>1. /\ Control /\ Written(Words) /\ phase[e] = "new"
      /\ phase' = [phase EXCEPT ![e] = "open"] /\ online' = [online EXCEPT ![e] = TRUE]
      /\ Sends(e, <<Message("join", {}, {})>>)
      /\ UNCHANGED <<note, stored, users, room, save, stopped, link, synced, timer, doc, inbox,
                     seeds, typed, raced>>
  BY DEF Typing, Open, server
<1> DEFINE m == Message("join", {}, {})
<1>2. m \in Sound(Words, FromEditor) /\ m.type = "join" /\ m.ops = {}
  BY DEF Message, Sound, Carries, FromEditor
<1>3. Sends(e, <<m>>)
  BY <1>1
<1> HIDE DEF m
<1>4. out' \in [Editor -> Seq(Sound(Words, FromEditor))] /\ Puts(e, m)
  BY <1>1, <1>2, <1>3, SendsOne DEF Written
<1>5. Words' = Words
  BY <1>1 DEF Words
<1>6. Control'
  BY <1>1 DEF Control
<1>7. Written(Words)'
  BY <1>1, <1>4, <1>5 DEF Written
<1>8. phase'[e] = "open" /\ online'[e] /\ Others(e)
  BY <1>1 DEF Control, Others
<1> QED BY <1>1, <1>2, <1>4, <1>6, <1>7, <1>8 DEF Typing, Connects, server

LEMMA ReconnectDoes ==
    ASSUME Typing, NEW e \in Editor, Reconnect(e)
    PROVE  Typing' /\ phase[e] = "open" /\ ~online[e] /\ Connects(e)
<1>1. /\ Control /\ Written(Words) /\ phase[e] = "open" /\ ~online[e]
      /\ online' = [online EXCEPT ![e] = TRUE]
      /\ Sends(e, <<Message("join", {}, {})>>)
      /\ UNCHANGED <<note, stored, users, room, save, stopped, phase, link, synced, timer, doc, inbox,
                     seeds, typed, raced>>
  BY DEF Typing, Reconnect, server
<1> DEFINE m == Message("join", {}, {})
<1>2. m \in Sound(Words, FromEditor) /\ m.type = "join" /\ m.ops = {}
  BY DEF Message, Sound, Carries, FromEditor
<1>3. Sends(e, <<m>>)
  BY <1>1
<1> HIDE DEF m
<1>4. out' \in [Editor -> Seq(Sound(Words, FromEditor))] /\ Puts(e, m)
  BY <1>1, <1>2, <1>3, SendsOne DEF Written
<1>5. Words' = Words
  BY <1>1 DEF Words
<1>6. Control'
  BY <1>1 DEF Control
<1>7. Written(Words)'
  BY <1>1, <1>4, <1>5 DEF Written
<1>8. phase'[e] = "open" /\ online'[e] /\ Others(e)
  BY <1>1 DEF Control, Others
<1> QED BY <1>1, <1>2, <1>4, <1>6, <1>7, <1>8 DEF Typing, Connects, server

\* A word is typed.
Types(e, w, needs) ==
    /\ needs \in Needed(e)
    /\ w \in Word \ typed /\ typed' = typed \cup {w}
    /\ phase[e] = "open" /\ (synced[e] \/ ~online[e])
    /\ phase'[e] = phase[e] /\ online'[e] = online[e] /\ link'[e] = link[e] /\ synced'[e] = synced[e]
    /\ inbox'[e] = inbox[e] /\ doc'[e] = doc[e] \cup {Typed(e, w, needs)}
    /\ Others(e) /\ UNCHANGED <<server, seeds>>
    /\ online[e] => /\ timer'[e] = FALSE
                    /\ \E m : /\ m.type = "edit" /\ m.ops = {Typed(e, w, needs)}
                              /\ m.text = Text(Shown(doc'[e])) /\ Puts(e, m)
    /\ ~online[e] => timer'[e] = timer[e] /\ out' = out
    /\ raced' = (raced \/ \E f \in Editor : phase[f] = "closed" /\ out[f] # <<>>)

LEMMA TypeDoes ==
    ASSUME Typing, NEW e \in Editor, Type(e)
    PROVE  Typing' /\ \E w, needs : Types(e, w, needs)
<1> DEFINE w == CHOOSE w \in Word : w \notin typed
<1>0. PICK needs \in Needed(e) :
        /\ doc' = [doc EXCEPT ![e] = doc[e] \cup {Typed(e, w, needs)}]
        /\ online[e] => /\ Sends(e, <<Message("edit", {Typed(e, w, needs)}, Text(Shown(doc'[e])))>>)
                        /\ timer' = [timer EXCEPT ![e] = FALSE]
        /\ ~online[e] => UNCHANGED <<out, timer>>
  BY DEF Type
<1>1. /\ Control /\ Written(Words) /\ phase[e] = "open" /\ (synced[e] \/ ~online[e])
      /\ typed # Word /\ typed' = typed \cup {w}
      /\ raced' = (raced \/ \E f \in Editor : phase[f] = "closed" /\ out[f] # <<>>)
      /\ UNCHANGED <<note, stored, users, room, save, stopped, phase, online, link, synced, inbox, seeds>>
  BY DEF Typing, Type, server
<1>2. w \in Word \ typed
  <2>1. \E x \in Word : x \notin typed
    BY <1>1 DEF Control
  <2> QED BY <2>1
<1> HIDE DEF w
<1> DEFINE V == Title \cup typed'
<1>3. Words' = V /\ Words \subseteq V /\ w \in V
  BY <1>1 DEF Words
<1>4. Written(V)
  BY <1>1, <1>3, WrittenGrows
<1> HIDE DEF V
<1> DEFINE o == Typed(e, w, needs)
<1>5. o \in Ops(V)
  <2>1. doc[e] \subseteq Ops(V)
    BY <1>4 DEF Written
  <2>2. needs \in SUBSET (Client \X SUBSET V)
    <3>1. needs \subseteq Ids(doc[e])
      BY ShownMore DEF Needed, Shown, Ids
    <3>2. \A p \in doc[e] : Id(p) \in Client \X SUBSET V
      BY <2>1 DEF Ops, Id
    <3> QED BY <3>1, <3>2 DEF Ids
  <2>3. e \in Client /\ {w} \subseteq V
    BY <1>3 DEF Client
  <2> QED BY <2>2, <2>3 DEF Typed, Ops
<1> HIDE DEF o
<1>6. /\ doc' \in [Editor -> SUBSET Ops(V)] /\ doc'[e] = doc[e] \cup {o}
      /\ \A f \in Editor : f # e => doc'[f] = doc[f]
  BY <1>0, <1>4, <1>5 DEF Written, o
<1>7. Text(Shown(doc'[e])) \subseteq V
  BY <1>6, TextOfOps
<1> DEFINE m == Message("edit", {o}, Text(Shown(doc'[e])))
<1>8. m \in Sound(V, FromEditor) /\ m.type = "edit" /\ m.ops = {o} /\ m.text = Text(Shown(doc'[e]))
  BY <1>5, <1>7 DEF Message, Sound, Carries, FromEditor
<1>9. online[e] => Sends(e, <<m>>)
  BY <1>0 DEF o
<1> HIDE DEF m
<1>10. online[e] => out' \in [Editor -> Seq(Sound(V, FromEditor))] /\ Puts(e, m)
  BY <1>4, <1>8, <1>9, SendsOne DEF Written
<1>11. out' \in [Editor -> Seq(Sound(V, FromEditor))]
  BY <1>0, <1>4, <1>10 DEF Written
<1>12. /\ timer' \in [Editor -> BOOLEAN] /\ \A f \in Editor : f # e => timer'[f] = timer[f]
       /\ online[e] => timer'[e] = FALSE
       /\ ~online[e] => timer'[e] = timer[e]
  BY <1>0, <1>1 DEF Control
<1>13. Control'
  BY <1>1, <1>2, <1>12 DEF Control
<1>14. \A f \in Editor : timer'[f] => doc'[f] # {}
  BY <1>4, <1>6, <1>12 DEF Written
<1>15. Written(Words)'
  BY <1>1, <1>3, <1>4, <1>6, <1>11, <1>14 DEF Written
<1>16. Others(e)
  BY <1>1, <1>6, <1>12 DEF Others
<1>17. Types(e, w, needs)
  BY <1>0, <1>1, <1>2, <1>6, <1>8, <1>10, <1>12, <1>16 DEF Types, server, o
<1> QED BY <1>13, <1>15, <1>17 DEF Typing

\* A snapshot is due.
Snaps(e) ==
    /\ phase[e] = "open" /\ timer[e]
    /\ phase'[e] = phase[e] /\ online'[e] = online[e] /\ link'[e] = link[e] /\ synced'[e] = synced[e]
    /\ inbox'[e] = inbox[e] /\ doc'[e] = doc[e] /\ timer'[e] = FALSE
    /\ Others(e) /\ UNCHANGED <<server, seeds, typed, raced>>
    /\ online[e] => \E m : /\ m.type = "snapshot" /\ m.ops = {} /\ m.text = Text(Shown(doc[e]))
                           /\ Puts(e, m)
    /\ ~online[e] => out' = out

LEMMA SnapshotSound ==
    ASSUME NEW W, Written(W), NEW e \in Editor
    PROVE  /\ Snapshot(e) \in Sound(W, FromEditor)
           /\ Snapshot(e).type = "snapshot" /\ Snapshot(e).ops = {} /\ Snapshot(e).text = Text(Shown(doc[e]))
<1>1. doc[e] \in SUBSET Ops(W)
  BY DEF Written
<1>2. Text(Shown(doc[e])) \subseteq W
  BY <1>1, TextOfOps
<1> QED BY <1>2 DEF Snapshot, Message, Sound, Carries, FromEditor

LEMMA SendSnapshotDoes ==
    ASSUME Typing, NEW e \in Editor, SendSnapshot(e)
    PROVE  Typing' /\ Snaps(e)
<1>1. /\ Control /\ Written(Words) /\ phase[e] = "open" /\ timer[e]
      /\ timer' = [timer EXCEPT ![e] = FALSE]
      /\ Sends(e, IF online[e] THEN <<Snapshot(e)>> ELSE <<>>)
      /\ UNCHANGED <<note, stored, users, room, save, stopped, phase, online, link, synced, doc, inbox,
                     seeds, typed, raced>>
  BY DEF Typing, SendSnapshot, server
<1> DEFINE m == Snapshot(e)
<1>2. /\ m \in Sound(Words, FromEditor)
      /\ m.type = "snapshot" /\ m.ops = {} /\ m.text = Text(Shown(doc[e]))
  BY <1>1, SnapshotSound
<1>3. /\ online[e] => Sends(e, <<m>>)
      /\ ~online[e] => Sends(e, <<>>)
  BY <1>1
<1> HIDE DEF m
<1>4. out \in [Editor -> Seq(Sound(Words, FromEditor))]
  BY <1>1 DEF Written
<1>5. /\ online[e] => out' \in [Editor -> Seq(Sound(Words, FromEditor))] /\ Puts(e, m)
      /\ ~online[e] => out' = out
  BY <1>2, <1>3, <1>4, SendsOne, SendsNone
<1>6. Words' = Words
  BY <1>1 DEF Words
<1>7. /\ timer' \in [Editor -> BOOLEAN] /\ timer'[e] = FALSE
      /\ \A f \in Editor : f # e => timer'[f] = timer[f]
  BY <1>1 DEF Control
<1>8. Control'
  BY <1>1, <1>7 DEF Control
<1>9. Written(Words)'
  BY <1>1, <1>4, <1>5, <1>6, <1>7 DEF Written
<1>10. Others(e)
  BY <1>1, <1>7 DEF Others
<1> QED BY <1>1, <1>2, <1>5, <1>7, <1>8, <1>9, <1>10 DEF Typing, Snaps, server

\* The note is closed: with a snapshot that was due, unless offline.
Closes(e) ==
    /\ phase[e] = "open" /\ phase'[e] = "closed"
    /\ online'[e] = online[e] /\ link'[e] = link[e] /\ synced'[e] = FALSE
    /\ inbox'[e] = <<>> /\ doc'[e] = {} /\ timer'[e] = FALSE
    /\ Others(e) /\ UNCHANGED <<server, seeds, typed>>
    /\ raced' = (raced \/ ~(typed \subseteq Text(Shown(doc[e]))))
    /\ \A f \in Editor : f # e => out'[f] = out[f]
    /\ ~online[e] => out' = out
    /\ online[e] => \E q, l : /\ l.type = "leave" /\ l.ops = {} /\ Pushed(out'[e], q, l)
                              /\ ~timer[e] => q = out[e]
                              /\ timer[e] => \E m : /\ m.type = "snapshot" /\ m.ops = {}
                                                    /\ m.text = Text(Shown(doc[e]))
                                                    /\ Pushed(q, out[e], m)
                              /\ Len(q) \in Nat

LEMMA CloseDoes ==
    ASSUME Typing, NEW e \in Editor, Close(e)
    PROVE  Typing' /\ Closes(e)
<1> DEFINE m == Snapshot(e)  l == Message("leave", {}, {})  S == Sound(Words, FromEditor)
           due == IF timer[e] THEN <<m>> ELSE <<>>
           sent == IF online[e] THEN due \o <<l>> ELSE <<>>
<1>1. /\ Control /\ Written(Words) /\ phase[e] = "open"
      /\ phase' = [phase EXCEPT ![e] = "closed"] /\ timer' = [timer EXCEPT ![e] = FALSE]
      /\ doc' = [doc EXCEPT ![e] = {}] /\ synced' = [synced EXCEPT ![e] = FALSE]
      /\ inbox' = [inbox EXCEPT ![e] = <<>>]
      /\ raced' = (raced \/ ~(typed \subseteq Text(Shown(doc[e]))))
      /\ UNCHANGED <<note, stored, users, room, save, stopped, online, link, seeds, typed>>
  BY DEF Typing, Close, server
<1>2. Sends(e, sent)
  BY DEF Close
<1>3. l \in S /\ l.type = "leave" /\ l.ops = {}
  BY DEF Message, Sound, Carries, FromEditor
<1>4. timer[e] => m \in S /\ m.type = "snapshot" /\ m.ops = {} /\ m.text = Text(Shown(doc[e]))
  BY <1>1, SnapshotSound
<1>5. out \in [Editor -> Seq(S)]
  BY <1>1 DEF Written
<1> HIDE DEF m, l, S
<1> DEFINE q == out[e] \o due
<1>6. out[e] \in Seq(S)
  BY <1>5
<1>7. /\ q \in Seq(S) /\ Len(q) \in Nat
      /\ ~timer[e] => q = out[e]
      /\ timer[e] => Pushed(q, out[e], m)
  <2>1. CASE timer[e]
    BY <1>4, <1>6, <2>1, Pushes, Elements
  <2>2. CASE ~timer[e]
    BY <1>6, <2>2, ConcatEmptySeq, Elements
  <2> QED BY <1>1, <2>1, <2>2 DEF Control
<1>8. due \in Seq(S) /\ <<l>> \in Seq(S) /\ <<>> \in Seq(S)
  BY <1>3, <1>4
<1>9. out[e] \o (due \o <<l>>) = q \o <<l>>
  <2> DEFINE a == out[e]  b == due  c == <<l>>
  <2>1. a \in Seq(S) /\ b \in Seq(S) /\ c \in Seq(S)
    BY <1>6, <1>8
  <2> HIDE DEF a, b, c
  <2>2. a \o (b \o c) = (a \o b) \o c
    BY <2>1, ConcatAssociative, SMTT(20)
  <2> QED BY <2>2 DEF a, b, c
<1> HIDE DEF q
<1>10. q \o <<l>> \in Seq(S) /\ Pushed(q \o <<l>>, q, l)
  BY <1>3, <1>7, Pushes
<1>11. out' = [out EXCEPT ![e] = out[e] \o sent]
  BY <1>2 DEF Sends
<1>12. online[e] => out' = [out EXCEPT ![e] = q \o <<l>>]
  BY <1>9, <1>11
<1>13. ~online[e] => out' = out
  BY <1>5, <1>6, <1>11, ConcatEmptySeq
<1> HIDE DEF sent, due
<1>14. /\ out' \in [Editor -> Seq(S)] /\ \A f \in Editor : f # e => out'[f] = out[f]
       /\ online[e] => Pushed(out'[e], q, l)
  BY <1>5, <1>10, <1>12, <1>13
<1>15. Words' = Words
  BY <1>1 DEF Words
<1>16. Control'
  BY <1>1 DEF Control
<1>17. /\ doc' \in [Editor -> SUBSET Ops(Words)] /\ inbox' \in [Editor -> Seq(Sound(Words, FromServer))]
       /\ \A f \in Editor : timer'[f] => doc'[f] # {}
  BY <1>1 DEF Written, Control
<1>18. Written(Words)'
  BY <1>1, <1>14, <1>15, <1>17 DEF Written, S
<1>19. /\ phase'[e] = "closed" /\ synced'[e] = FALSE /\ inbox'[e] = <<>> /\ doc'[e] = {} /\ timer'[e] = FALSE
       /\ Others(e)
  BY <1>1 DEF Control, Written, Others
<1>20. online[e] => \E r, n : /\ n.type = "leave" /\ n.ops = {} /\ Pushed(out'[e], r, n)
                              /\ ~timer[e] => r = out[e]
                              /\ timer[e] => \E k : /\ k.type = "snapshot" /\ k.ops = {}
                                                    /\ k.text = Text(Shown(doc[e]))
                                                    /\ Pushed(r, out[e], k)
                              /\ Len(r) \in Nat
  BY <1>3, <1>4, <1>7, <1>14
<1> QED BY <1>1, <1>13, <1>14, <1>16, <1>18, <1>19, <1>20 DEF Typing, Closes, server

\* The connection is lost.
Loses(e) ==
    /\ phase[e] = "open" /\ online[e]
    /\ phase'[e] = phase[e] /\ online'[e] = FALSE /\ link'[e] = link[e] + 1 /\ synced'[e] = FALSE
    /\ timer'[e] = timer[e] /\ doc'[e] = doc[e] /\ inbox'[e] = <<>> /\ out'[e] = <<>>
    /\ Others(e) /\ UNCHANGED <<server, seeds, typed, raced>>
    /\ \A f \in Editor : f # e => out'[f] = out[f]

LEMMA DropDoes ==
    ASSUME Typing, NEW e \in Editor, Drop(e)
    PROVE  Typing' /\ Loses(e)
<1>1. /\ Control /\ Written(Words) /\ phase[e] = "open" /\ online[e]
      /\ online' = [online EXCEPT ![e] = FALSE] /\ synced' = [synced EXCEPT ![e] = FALSE]
      /\ out' = [out EXCEPT ![e] = <<>>] /\ inbox' = [inbox EXCEPT ![e] = <<>>]
      /\ link' = [link EXCEPT ![e] = link[e] + 1]
      /\ UNCHANGED <<note, stored, users, room, save, stopped, phase, timer, doc, seeds, typed, raced>>
  BY DEF Typing, Drop, server
<1>2. Words' = Words
  BY <1>1 DEF Words
<1>3. Control'
  BY <1>1 DEF Control
<1>4. /\ out' \in [Editor -> Seq(Sound(Words, FromEditor))]
      /\ inbox' \in [Editor -> Seq(Sound(Words, FromServer))]
  BY <1>1 DEF Written
<1>5. Written(Words)'
  BY <1>1, <1>2, <1>4 DEF Written
<1>6. /\ online'[e] = FALSE /\ link'[e] = link[e] + 1 /\ synced'[e] = FALSE /\ inbox'[e] = <<>>
      /\ out'[e] = <<>> /\ Others(e) /\ \A f \in Editor : f # e => out'[f] = out[f]
  BY <1>1 DEF Control, Written, Others
<1> QED BY <1>1, <1>3, <1>5, <1>6 DEF Typing, Loses, server

\* A message from the server, m, and what it is answered with.
Hears(e, m) ==
    /\ m = inbox[e][1] /\ Popped(inbox'[e], inbox[e])
    /\ phase'[e] = phase[e] /\ online'[e] = online[e] /\ link'[e] = link[e]
    /\ \A f \in Editor : f # e =>
         /\ phase'[f] = phase[f] /\ online'[f] = online[f] /\ link'[f] = link[f]
         /\ synced'[f] = synced[f] /\ timer'[f] = timer[f] /\ doc'[f] = doc[f] /\ inbox'[f] = inbox[f]
    /\ UNCHANGED <<server, typed, raced>>
HearsUpdate(e, m) ==
    /\ m.type = "update" /\ m.ops # {}
    /\ doc'[e] = doc[e] \cup m.ops /\ timer'[e] = TRUE /\ synced'[e] = synced[e] /\ out' = out
HearsState(e, m) ==
    /\ m.type = "state" /\ m.ops # {}
    /\ doc'[e] = doc[e] \cup m.ops /\ timer'[e] = timer[e] /\ synced'[e] = TRUE /\ out' = out
Seeds(e, m) ==
    /\ m.type = "state" /\ m.ops = {} /\ Shown(doc[e]) = {}
    /\ doc'[e] = doc[e] /\ timer'[e] = timer[e] /\ synced'[e] = synced[e]
    /\ \E s, o : s.type = "seed" /\ s.ops = {o} /\ o.words = m.text /\ o.needs = {} /\ Puts(e, s)
Resyncs(e, m) ==
    /\ m.type = "state" /\ m.ops = {} /\ Shown(doc[e]) # {}
    /\ doc'[e] = doc[e] /\ timer'[e] = timer[e] /\ synced'[e] = TRUE
    /\ \E s : s.type = "resync" /\ s.ops = doc[e] /\ Puts(e, s)
HearsSeeded(e, m) ==
    /\ m.type = "seeded" /\ m.ops # {}
    /\ doc'[e] = doc[e] \cup m.ops /\ timer'[e] = timer[e] /\ synced'[e] = TRUE
    /\ timer[e] => out' = out
    /\ ~timer[e] => \E s : /\ s.type = "snapshot" /\ s.ops = {} /\ s.text = Text(Shown(doc'[e]))
                           /\ Puts(e, s)

LEMMA ReceiveDoes ==
    ASSUME Typing, NEW e \in Editor, Receive(e)
    PROVE  /\ Typing'
           /\ \E m : /\ Hears(e, m)
                     /\ \/ HearsUpdate(e, m) \/ HearsState(e, m) \/ Seeds(e, m)
                        \/ Resyncs(e, m) \/ HearsSeeded(e, m)
<1> DEFINE m == Head(inbox[e])  W == Words
<1>1. /\ Control /\ Written(W) /\ inbox[e] # <<>>
      /\ inbox' = [inbox EXCEPT ![e] = Tail(inbox[e])]
      /\ UNCHANGED <<note, stored, users, room, save, stopped, phase, online, link, typed, raced>>
  BY DEF Typing, Receive, server
<1>2. \/ /\ m.type = "update"
         /\ doc' = [doc EXCEPT ![e] = doc[e] \cup m.ops]
         /\ timer' = [timer EXCEPT ![e] = TRUE]
         /\ UNCHANGED <<synced, out, seeds>>
      \/ /\ m.type = "state" /\ m.ops # {}
         /\ doc' = [doc EXCEPT ![e] = doc[e] \cup m.ops]
         /\ synced' = [synced EXCEPT ![e] = TRUE]
         /\ UNCHANGED <<timer, out, seeds>>
      \/ /\ m.type = "state" /\ m.ops = {} /\ Shown(doc[e]) = {}
         /\ seeds' = seeds + 1
         /\ Sends(e, <<Message("seed", {Seed(seeds', m.text)}, {})>>)
         /\ UNCHANGED <<synced, timer, doc>>
      \/ /\ m.type = "state" /\ m.ops = {} /\ Shown(doc[e]) # {}
         /\ synced' = [synced EXCEPT ![e] = TRUE]
         /\ Sends(e, <<Message("resync", doc[e], {})>>)
         /\ UNCHANGED <<timer, doc, seeds>>
      \/ /\ m.type = "seeded"
         /\ doc' = [doc EXCEPT ![e] = doc[e] \cup m.ops]
         /\ synced' = [synced EXCEPT ![e] = TRUE]
         /\ Sends(e, IF timer[e] THEN <<>> ELSE <<Message("snapshot", {}, Text(Shown(doc'[e])))>>)
         /\ UNCHANGED <<timer, seeds>>
  BY DEF Receive
<1>3. /\ inbox[e] \in Seq(Sound(W, FromServer)) /\ inbox \in [Editor -> Seq(Sound(W, FromServer))]
      /\ out \in [Editor -> Seq(Sound(W, FromEditor))] /\ doc \in [Editor -> SUBSET Ops(W)]
  BY <1>1 DEF Written
<1>4. /\ Tail(inbox[e]) \in Seq(Sound(W, FromServer)) /\ Popped(Tail(inbox[e]), inbox[e])
      /\ m = inbox[e][1] /\ m \in Sound(W, FromServer)
  BY <1>1, <1>3, Pops
<1> HIDE DEF m
<1>5. /\ m.ops \subseteq Ops(W) /\ m.text \subseteq W
      /\ m.type \in {"update", "seeded"} => m.ops # {}
  BY <1>4, SoundFields
<1>6. /\ inbox' \in [Editor -> Seq(Sound(W, FromServer))] /\ inbox'[e] = Tail(inbox[e])
      /\ \A f \in Editor : f # e => inbox'[f] = inbox[f]
  BY <1>1, <1>3, <1>4
<1>7. Words' = W
  BY <1>1 DEF Words
<1> HIDE DEF W
<1>8. /\ synced' \in [Editor -> BOOLEAN] /\ timer' \in [Editor -> BOOLEAN] /\ seeds' \in Nat
      /\ \A f \in Editor : f # e => /\ synced'[f] = synced[f] /\ timer'[f] = timer[f]
                                    /\ doc'[f] = doc[f]
      /\ doc' \in [Editor -> SUBSET Ops(W)]
  <2>1. Control
    BY <1>1
  <2>2. doc[e] \cup m.ops \in SUBSET Ops(W)
    BY <1>3, <1>5
  <2>3. /\ synced' \in [Editor -> BOOLEAN] /\ \A f \in Editor : f # e => synced'[f] = synced[f]
    BY <1>2, <2>1 DEF Control
  <2>4. /\ timer' \in [Editor -> BOOLEAN] /\ \A f \in Editor : f # e => timer'[f] = timer[f]
    BY <1>2, <2>1 DEF Control
  <2>5. doc' = doc \/ doc' = [doc EXCEPT ![e] = doc[e] \cup m.ops]
    BY <1>2
  <2>6. doc' \in [Editor -> SUBSET Ops(W)] /\ \A f \in Editor : f # e => doc'[f] = doc[f]
    BY <1>3, <2>2, <2>5
  <2>7. seeds' \in Nat
    BY <1>2, <2>1 DEF Control
  <2> QED BY <2>3, <2>4, <2>6, <2>7
<1>9. Control'
  BY <1>1, <1>8 DEF Control
<1>10. Hears(e, m)
  BY <1>1, <1>4, <1>6, <1>8 DEF Hears, server
<1> DEFINE Done == /\ out' \in [Editor -> Seq(Sound(W, FromEditor))]
                   /\ timer'[e] => doc'[e] # {}
                   /\ \/ HearsUpdate(e, m) \/ HearsState(e, m) \/ Seeds(e, m)
                      \/ Resyncs(e, m) \/ HearsSeeded(e, m)
<1>11. timer[e] => doc[e] # {}
  BY <1>1 DEF Written
<1>12. timer[e] \in BOOLEAN /\ timer' \in [Editor -> BOOLEAN] /\ DOMAIN timer = Editor /\ DOMAIN synced = Editor
  BY <1>1, <1>8 DEF Control
<1>13. ASSUME m.type = "update", doc' = [doc EXCEPT ![e] = doc[e] \cup m.ops],
              timer' = [timer EXCEPT ![e] = TRUE], UNCHANGED <<synced, out, seeds>>
       PROVE  Done
  BY <1>3, <1>5, <1>12, <1>13 DEF HearsUpdate
<1>14. ASSUME m.type = "state", m.ops # {}, doc' = [doc EXCEPT ![e] = doc[e] \cup m.ops],
              synced' = [synced EXCEPT ![e] = TRUE], UNCHANGED <<timer, out, seeds>>
       PROVE  Done
  BY <1>3, <1>5, <1>12, <1>14 DEF HearsState
<1>15. ASSUME m.type = "state", m.ops = {}, Shown(doc[e]) = {}, seeds' = seeds + 1,
              Sends(e, <<Message("seed", {Seed(seeds', m.text)}, {})>>), UNCHANGED <<synced, timer, doc>>
       PROVE  Done
  <2> DEFINE o == Seed(seeds', m.text)  s == Message("seed", {o}, {})
  <2>1. o \in Ops(W) /\ o.words = m.text /\ o.needs = {}
    <3>1. seeds' \in Client
      BY <1>8 DEF Client
    <3> QED BY <1>5, <3>1 DEF Seed, Ops
  <2>2. s \in Sound(W, FromEditor) /\ s.type = "seed" /\ s.ops = {o}
    BY <2>1 DEF Message, Sound, Carries, FromEditor
  <2>3. Sends(e, <<s>>)
    BY <1>15
  <2> HIDE DEF s, o
  <2>4. out' \in [Editor -> Seq(Sound(W, FromEditor))] /\ Puts(e, s)
    BY <1>3, <2>2, <2>3, SendsOne
  <2>5. Seeds(e, m)
    BY <1>15, <2>1, <2>2, <2>4 DEF Seeds
  <2> QED BY <1>11, <1>15, <2>4, <2>5
<1>16. ASSUME m.type = "state", m.ops = {}, Shown(doc[e]) # {}, synced' = [synced EXCEPT ![e] = TRUE],
              Sends(e, <<Message("resync", doc[e], {})>>), UNCHANGED <<timer, doc, seeds>>
       PROVE  Done
  <2> DEFINE s == Message("resync", doc[e], {})
  <2>1. s \in Sound(W, FromEditor) /\ s.type = "resync" /\ s.ops = doc[e]
    BY <1>3 DEF Message, Sound, Carries, FromEditor
  <2>2. Sends(e, <<s>>)
    BY <1>16
  <2> HIDE DEF s
  <2>3. out' \in [Editor -> Seq(Sound(W, FromEditor))] /\ Puts(e, s)
    BY <1>3, <2>1, <2>2, SendsOne
  <2>4. Resyncs(e, m)
    BY <1>12, <1>16, <2>1, <2>3 DEF Resyncs
  <2> QED BY <1>11, <1>16, <2>3, <2>4
<1>17. ASSUME m.type = "seeded", doc' = [doc EXCEPT ![e] = doc[e] \cup m.ops],
              synced' = [synced EXCEPT ![e] = TRUE],
              Sends(e, IF timer[e] THEN <<>> ELSE <<Message("snapshot", {}, Text(Shown(doc'[e])))>>),
              UNCHANGED <<timer, seeds>>
       PROVE  Done
  <2>1. doc'[e] = doc[e] \cup m.ops /\ doc'[e] # {} /\ doc'[e] \in SUBSET Ops(W)
    BY <1>3, <1>5, <1>17
  <2>2. Text(Shown(doc'[e])) \subseteq W
    BY <2>1, TextOfOps
  <2> DEFINE s == Message("snapshot", {}, Text(Shown(doc'[e])))
  <2>3. s \in Sound(W, FromEditor) /\ s.type = "snapshot" /\ s.ops = {} /\ s.text = Text(Shown(doc'[e]))
    BY <2>2 DEF Message, Sound, Carries, FromEditor
  <2>4. /\ timer[e] => Sends(e, <<>>)
        /\ ~timer[e] => Sends(e, <<s>>)
    BY <1>17
  <2> HIDE DEF s
  <2>5. /\ timer[e] => out' = out
        /\ ~timer[e] => out' \in [Editor -> Seq(Sound(W, FromEditor))] /\ Puts(e, s)
    BY <1>3, <2>3, <2>4, SendsOne, SendsNone
  <2>6. HearsSeeded(e, m)
    BY <1>5, <1>12, <1>17, <2>1, <2>3, <2>5 DEF HearsSeeded
  <2>7. out' \in [Editor -> Seq(Sound(W, FromEditor))]
    BY <1>3, <2>5
  <2> QED BY <2>1, <2>6, <2>7
<1>18. Done
  BY <1>2, <1>13, <1>14, <1>15, <1>16, <1>17
<1>19. \A f \in Editor : timer'[f] => doc'[f] # {}
  BY <1>1, <1>8, <1>18 DEF Written
<1>20. Written(Words)'
  BY <1>1, <1>6, <1>7, <1>8, <1>18, <1>19 DEF Written
<1> QED BY <1>9, <1>10, <1>18, <1>20 DEF Typing

\* A handler of the server takes message m of editor e.
Serves(e, m) ==
    /\ m = out[e][1] /\ Takes(e)
    /\ UNCHANGED <<editor, note, seeds, typed, raced>>

Joins(e, m) ==
    /\ Serves(e, m) /\ m.type = "join"
    /\ users' = users \cup {Connection(e)} /\ room' = users' /\ UNCHANGED <<stored, save, stopped>>
    /\ \A f \in Editor : f # e => inbox'[f] = inbox[f]
    /\ phase[e] # "open" => inbox'[e] = inbox[e]
    /\ phase[e] = "open" => \E r : /\ r.type = "state" /\ r.ops = stored /\ r.text = note
                                   /\ Pushed(inbox'[e], inbox[e], r)

LEMMA JoinDoes ==
    ASSUME Typing, NEW e \in Editor, Join(e)
    PROVE  Typing' /\ \E m : Joins(e, m)
<1> DEFINE W == Words  r == Message("state", stored, note)
           own == IF phase[e] = "open" THEN <<r>> ELSE <<>>
           m == out[e][1]
<1>1. /\ Control /\ Written(W) /\ Handles(e, "join")
      /\ users' = users \cup {Connection(e)} /\ room' = room \cup {Connection(e)}
      /\ inbox' = Delivered(e, own, <<>>)
      /\ UNCHANGED <<note, stored, save, stopped, phase, online, link, synced, timer, doc,
                     seeds, typed, raced>>
  BY DEF Typing, Join, editor
<1>2. /\ note \subseteq W /\ stored \subseteq Ops(W)
      /\ out \in [Editor -> Seq(Sound(W, FromEditor))] /\ inbox \in [Editor -> Seq(Sound(W, FromServer))]
  BY <1>1 DEF Written
<1>3. /\ r \in Sound(W, FromServer)
      /\ r.type = "state" /\ r.ops = stored /\ r.text = note
  BY <1>2 DEF Message, Sound, Carries, FromServer
<1>4. Words' = W
  BY <1>1 DEF Words
<1> HIDE DEF W, r
<1>5. own \in Seq(Sound(W, FromServer)) /\ <<>> \in Seq(Sound(W, FromServer))
  BY <1>3
<1>6. /\ phase[e] = "open" => own = <<r>>
      /\ phase[e] # "open" => own = <<>>
  OBVIOUS
<1> HIDE DEF own
<1>7. /\ inbox' \in [Editor -> Seq(Sound(W, FromServer))]
      /\ phase[e] # "open" => inbox'[e] = inbox[e]
      /\ phase[e] = "open" => Pushed(inbox'[e], inbox[e], r)
      /\ \A f \in Editor : f # e => inbox'[f] = inbox[f]
  <2>1. PICK none : none = <<>>
    OBVIOUS
  <2>2. /\ inbox' = Delivered(e, own, none) /\ none \in Seq(Sound(W, FromServer))
        /\ inbox \in [Editor -> Seq(Sound(W, FromServer))]
    BY <1>1, <1>2, <1>5, <2>1
  <2>3. /\ inbox' \in [Editor -> Seq(Sound(W, FromServer))]
        /\ own = <<>> => inbox'[e] = inbox[e]
        /\ \A n \in Sound(W, FromServer) : own = <<n>> => Pushed(inbox'[e], inbox[e], n)
        /\ \A f \in Editor : f # e => (none = <<>> => inbox'[f] = inbox[f])
    BY <1>5, <2>2, DeliversOne
  <2>4. /\ own = <<r>> => Pushed(inbox'[e], inbox[e], r)
        /\ \A f \in Editor : f # e => inbox'[f] = inbox[f]
    BY <1>3, <2>1, <2>3
  <2> QED BY <1>6, <2>3, <2>4
<1>8. /\ out' \in [Editor -> Seq(Sound(W, FromEditor))] /\ Takes(e) /\ m.type = "join"
  BY <1>1, <1>2, HandlesOne
<1>9. Control'
  BY <1>1 DEF Control, Connection
<1>10. Written(Words)'
  BY <1>1, <1>4, <1>7, <1>8 DEF Written
<1>11. Joins(e, m)
  BY <1>1, <1>3, <1>7, <1>8, <1>9 DEF Joins, Serves, Control, editor
<1> QED BY <1>9, <1>10, <1>11 DEF Typing

\* The first seed is taken; whoever is in the room gets the document.
Initializes(e, m) ==
    /\ Serves(e, m) /\ m.type = "seed" /\ m.ops # {} /\ InRoom(e)
    /\ stored' = IF stored = {} THEN m.ops ELSE stored
    /\ UNCHANGED <<users, room, save, stopped>>
    /\ phase[e] # "open" => inbox'[e] = inbox[e]
    /\ phase[e] = "open" => \E r : /\ r.type = "seeded" /\ r.ops = stored'
                                   /\ Pushed(inbox'[e], inbox[e], r)
    /\ \A f \in Editor : f # e =>
         /\ stored # {} \/ ~Reaches(f) => inbox'[f] = inbox[f]
         /\ stored = {} /\ Reaches(f) => \E r : /\ r.type = "update" /\ r.ops = m.ops
                                                /\ Pushed(inbox'[f], inbox[f], r)

LEMMA InitializeDoes ==
    ASSUME Typing, NEW e \in Editor, Initialize(e)
    PROVE  Typing' /\ \E m : Initializes(e, m)
<1> DEFINE W == Words  m == Head(out[e])
           r == Message("seeded", stored', {})  u == Message("update", m.ops, {})
           own == IF phase[e] = "open" THEN <<r>> ELSE <<>>
           others == IF stored = {} THEN <<u>> ELSE <<>>
<1>1. /\ Control /\ Written(W) /\ Handles(e, "seed") /\ InRoom(e)
      /\ stored' = IF stored = {} THEN m.ops ELSE stored
      /\ inbox' = Delivered(e, own, others)
      /\ UNCHANGED <<note, users, room, save, stopped, phase, online, link, synced, timer, doc,
                     seeds, typed, raced>>
  BY DEF Typing, Initialize, editor
<1>2. /\ note \subseteq W /\ stored \subseteq Ops(W)
      /\ out \in [Editor -> Seq(Sound(W, FromEditor))] /\ inbox \in [Editor -> Seq(Sound(W, FromServer))]
  BY <1>1 DEF Written
<1>3. /\ out' \in [Editor -> Seq(Sound(W, FromEditor))] /\ Takes(e)
      /\ m = out[e][1] /\ m \in Sound(W, FromEditor) /\ m.type = "seed"
  BY <1>1, <1>2, HandlesOne DEF Handles
<1> HIDE DEF m, W
<1>4. m.ops \subseteq Ops(W) /\ m.ops # {}
  BY <1>3, SoundFields
<1>5. stored' \subseteq Ops(W) /\ stored' # {}
  BY <1>1, <1>2, <1>4
<1>6. r \in Sound(W, FromServer) /\ r.type = "seeded" /\ r.ops = stored'
  BY <1>5 DEF Message, Sound, Carries, FromServer
<1>7. u \in Sound(W, FromServer) /\ u.type = "update" /\ u.ops = m.ops
  BY <1>4 DEF Message, Sound, Carries, FromServer
<1>8. Words' = W
  BY <1>1 DEF Words, W
<1> HIDE DEF r, u
<1>9. own \in Seq(Sound(W, FromServer)) /\ others \in Seq(Sound(W, FromServer))
  BY <1>6, <1>7
<1>10. /\ phase[e] = "open" => own = <<r>>
       /\ phase[e] # "open" => own = <<>>
       /\ stored = {} => others = <<u>>
       /\ stored # {} => others = <<>>
  OBVIOUS
<1> HIDE DEF own, others
<1>11. /\ inbox' \in [Editor -> Seq(Sound(W, FromServer))]
       /\ own = <<>> => inbox'[e] = inbox[e]
       /\ \A k \in Sound(W, FromServer) : own = <<k>> => Pushed(inbox'[e], inbox[e], k)
       /\ \A f \in Editor : f # e =>
            /\ ~Reaches(f) \/ others = <<>> => inbox'[f] = inbox[f]
            /\ \A k \in Sound(W, FromServer) :
                 Reaches(f) /\ others = <<k>> => Pushed(inbox'[f], inbox[f], k)
  BY <1>1, <1>2, <1>9, DeliversOne
<1>12. Control'
  BY <1>1 DEF Control
<1>13. Written(Words)'
  BY <1>1, <1>3, <1>5, <1>8, <1>11 DEF Written
<1>14. /\ phase[e] # "open" => inbox'[e] = inbox[e]
       /\ phase[e] = "open" => Pushed(inbox'[e], inbox[e], r)
  BY <1>6, <1>10, <1>11
<1>15. \A f \in Editor : f # e =>
         /\ stored # {} \/ ~Reaches(f) => inbox'[f] = inbox[f]
         /\ stored = {} /\ Reaches(f) => Pushed(inbox'[f], inbox[f], u)
  BY <1>7, <1>10, <1>11
<1>16. Initializes(e, m)
  BY <1>1, <1>3, <1>4, <1>6, <1>7, <1>14, <1>15 DEF Initializes, Serves, editor
<1> QED BY <1>12, <1>13, <1>16 DEF Typing

\* An update is logged and relayed, and its text is going to be saved.
Updates(e, m) ==
    /\ Serves(e, m) /\ m.type \in {"edit", "resync", "snapshot"} /\ InRoom(e)
    /\ stored' = stored \cup m.ops
    /\ UNCHANGED <<users, room>>
    /\ m.type = "resync" => UNCHANGED <<save, stopped>>
    /\ m.type # "resync" => save' = {m.text} /\ stopped' = stopped \cup save
    /\ inbox'[e] = inbox[e]
    /\ \A f \in Editor : f # e =>
         /\ m.ops = {} \/ ~Reaches(f) => inbox'[f] = inbox[f]
         /\ m.ops # {} /\ Reaches(f) => \E r : /\ r.type = "update" /\ r.ops = m.ops
                                               /\ Pushed(inbox'[f], inbox[f], r)

LEMMA UpdateDoes ==
    ASSUME Typing, NEW e \in Editor, Update(e)
    PROVE  Typing' /\ \E m : Updates(e, m)
<1> DEFINE W == Words  m == Head(out[e])
           u == Message("update", m.ops, {})
           others == IF m.ops = {} THEN <<>> ELSE <<u>>
<1>1. PICK type \in {"edit", "resync", "snapshot"} : Handles(e, type)
  BY DEF Update
<1>2. /\ Control /\ Written(W) /\ InRoom(e)
      /\ stored' = stored \cup m.ops
      /\ inbox' = Delivered(e, <<>>, others)
      /\ m.type = "resync" => UNCHANGED <<save, stopped>>
      /\ m.type # "resync" => save' = {m.text} /\ stopped' = stopped \cup save
      /\ UNCHANGED <<note, users, room, phase, online, link, synced, timer, doc, seeds, typed, raced>>
  BY DEF Typing, Update, Replaced, editor
<1>3. /\ note \subseteq W /\ stored \subseteq Ops(W) /\ save \subseteq SUBSET W /\ stopped \subseteq SUBSET W
      /\ out \in [Editor -> Seq(Sound(W, FromEditor))] /\ inbox \in [Editor -> Seq(Sound(W, FromServer))]
  BY <1>2 DEF Written
<1>4. /\ out' \in [Editor -> Seq(Sound(W, FromEditor))] /\ Takes(e)
      /\ m = out[e][1] /\ m \in Sound(W, FromEditor) /\ m.type \in {"edit", "resync", "snapshot"}
  BY <1>1, <1>3, HandlesOne DEF Handles
<1> HIDE DEF m, W
<1>5. m.ops \subseteq Ops(W) /\ m.text \subseteq W
  BY <1>4, SoundFields
<1>6. stored' \subseteq Ops(W)
  BY <1>2, <1>3, <1>5
<1>7. m.ops # {} => u \in Sound(W, FromServer) /\ u.type = "update" /\ u.ops = m.ops
  BY <1>5 DEF Message, Sound, Carries, FromServer
<1>8. Words' = W
  BY <1>2 DEF Words, W
<1> HIDE DEF u
<1>9. others \in Seq(Sound(W, FromServer)) /\ <<>> \in Seq(Sound(W, FromServer))
  BY <1>7
<1>10. /\ m.ops = {} => others = <<>>
       /\ m.ops # {} => others = <<u>>
  OBVIOUS
<1> HIDE DEF others
<1>11. /\ inbox' \in [Editor -> Seq(Sound(W, FromServer))]
       /\ inbox'[e] = inbox[e]
       /\ \A f \in Editor : f # e =>
            /\ ~Reaches(f) \/ others = <<>> => inbox'[f] = inbox[f]
            /\ \A k \in Sound(W, FromServer) :
                 Reaches(f) /\ others = <<k>> => Pushed(inbox'[f], inbox[f], k)
  BY <1>2, <1>3, <1>9, DeliversOne
<1>12. Control'
  <2>1. save' = {} \/ \E text \in save' : save' = {text}
    BY <1>2 DEF Control
  <2>2. save' = {} => stopped' = {}
    BY <1>2 DEF Control
  <2> QED BY <1>2, <2>1, <2>2 DEF Control
<1>13. save' \subseteq SUBSET W /\ stopped' \subseteq SUBSET W
  BY <1>2, <1>3, <1>4, <1>5
<1>14. Written(Words)'
  BY <1>2, <1>4, <1>6, <1>8, <1>11, <1>13 DEF Written
<1>15. \A f \in Editor : f # e =>
         /\ m.ops = {} \/ ~Reaches(f) => inbox'[f] = inbox[f]
         /\ m.ops # {} /\ Reaches(f) => Pushed(inbox'[f], inbox[f], u)
  BY <1>7, <1>10, <1>11
<1>16. Updates(e, m)
  BY <1>2, <1>4, <1>7, <1>11, <1>15 DEF Updates, Serves, editor
<1> QED BY <1>12, <1>14, <1>16 DEF Typing

\* A connection is forgotten, and the document with the last one.
Forgets(c) ==
    /\ users' = users \ {c} /\ room' = users'
    /\ stored' = IF users' = {} /\ save = {} THEN {} ELSE stored
    /\ UNCHANGED <<editor, note, save, stopped, inbox, seeds, typed, raced>>
Leaves(e, m) == Serves(e, m) /\ m.type = "leave" /\ Forgets(Connection(e))
Disconnects(e, n) ==
    <<e, n>> \in users /\ (n < link[e] \/ ~online[e]) /\ Forgets(<<e, n>>) /\ out' = out

LEMMA ForgetTypes ==
    ASSUME Typing, NEW c, Forgets(c), out' \in [Editor -> Seq(Sound(Words, FromEditor))]
    PROVE  Typing'
<1>1. Words' = Words /\ Control /\ Written(Words)
  BY DEF Typing, Forgets, Words
<1>2. Control'
  BY <1>1 DEF Control, Forgets, editor
<1>3. Written(Words)'
  BY <1>1 DEF Written, Forgets, editor
<1> QED BY <1>2, <1>3 DEF Typing

LEMMA LeaveDoes ==
    ASSUME Typing, NEW e \in Editor, Leave(e)
    PROVE  Typing' /\ \E m : Leaves(e, m)
<1>1. /\ Control /\ Written(Words) /\ Handles(e, "leave") /\ Forget(Connection(e))
      /\ UNCHANGED <<note, save, stopped, editor, inbox, seeds, typed, raced>>
  BY DEF Typing, Leave
<1>2. /\ out' \in [Editor -> Seq(Sound(Words, FromEditor))] /\ Takes(e) /\ out[e][1].type = "leave"
  BY <1>1, HandlesOne DEF Written
<1>3. Forgets(Connection(e))
  BY <1>1 DEF Control, Forget, Forgets
<1>4. Leaves(e, out[e][1])
  BY <1>1, <1>2, <1>3 DEF Leaves, Serves
<1> QED BY <1>2, <1>3, <1>4, ForgetTypes

LEMMA DisconnectDoes ==
    ASSUME Typing, NEW e \in Editor, NEW n, Disconnect(e, n)
    PROVE  Typing' /\ Disconnects(e, n)
<1>1. Control /\ out' = out /\ out \in [Editor -> Seq(Sound(Words, FromEditor))]
  BY DEF Typing, Disconnect, Written
<1>2. Disconnects(e, n)
  BY <1>1 DEF Control, Disconnect, Disconnects, Forget, Forgets
<1>3. Forgets(<<e, n>>)
  BY <1>2 DEF Disconnects
<1> DEFINE c == <<e, n>>
<1> HIDE DEF c
<1>4. Forgets(c)
  BY <1>3 DEF c
<1> QED BY <1>1, <1>2, <1>4, ForgetTypes

\* A text is saved; without users the document is cleared.
SavesText(text) == note' = text /\ stored' = IF users = {} THEN {} ELSE stored
Saves == /\ stopped = {} /\ \E text : save = {text} /\ SavesText(text)
         /\ save' = {}
         /\ UNCHANGED <<users, room, stopped, editor, out, inbox, seeds, typed, raced>>
SavesStopped ==
    /\ \E text \in stopped : SavesText(text) \/ UNCHANGED <<note, stored>>
    /\ stopped' \subseteq stopped
    /\ raced' = (raced \/ stored' # stored)
    /\ UNCHANGED <<users, room, save, editor, out, inbox, seeds, typed>>

LEMMA SaveDoes == ASSUME Typing, Save PROVE Typing' /\ Saves
<1>1. /\ Control /\ Written(Words) /\ save # {} /\ stopped = {} /\ save' = {}
      /\ UNCHANGED <<users, room, stopped, phase, online, link, synced, timer, doc, out, inbox,
                     seeds, typed, raced>>
  BY DEF Typing, Save, editor
<1>2. PICK text \in save : note' = text /\ stored' = IF users = {} THEN {} ELSE stored
  BY DEF Save, Saved
<1>3. save = {text}
  BY <1>1, <1>2 DEF Control
<1>4. Words' = Words
  BY <1>1 DEF Words
<1>5. Control'
  BY <1>1 DEF Control
<1>6. Written(Words)'
  BY <1>1, <1>2, <1>4 DEF Written
<1> QED BY <1>1, <1>2, <1>3, <1>5, <1>6 DEF Typing, Saves, SavesText, editor

LEMMA SaveStoppedDoes == ASSUME Typing, SaveStopped PROVE Typing' /\ SavesStopped
<1>1. /\ Control /\ Written(Words) /\ raced' = (raced \/ stored' # stored)
      /\ UNCHANGED <<users, room, save, phase, online, link, synced, timer, doc, out, inbox, seeds, typed>>
  BY DEF Typing, SaveStopped, editor
<1>2. PICK text \in stopped : /\ stopped' = stopped \ {text}
                              /\ \/ note' = text /\ stored' = IF users = {} THEN {} ELSE stored
                                 \/ UNCHANGED <<note, stored>>
  BY DEF SaveStopped, Saved
<1>3. Words' = Words
  BY <1>1 DEF Words
<1>4. Control'
  BY <1>1, <1>2 DEF Control
<1>5. Written(Words)'
  BY <1>1, <1>2, <1>3 DEF Written
<1> QED BY <1>1, <1>2, <1>4, <1>5 DEF Typing, SavesStopped, SavesText, editor

-----------------------------------------------------------------------------
(* Types.                                                                  *)

LEMMA TypingInit == Init => Typing
<1> SUFFICES ASSUME Init PROVE Typing
  OBVIOUS
<1>1. Title \subseteq Words /\ Title # {}
  BY WordAssumption DEF Words
<1>2. note \subseteq Words
  BY <1>1 DEF Init
<1>3. \A S : <<>> \in Seq(S)
  OBVIOUS
<1>4. Written(Words)
  BY <1>2, <1>3 DEF Init, Written
<1>5. Control
  BY DEF Init, Control
<1> QED BY <1>4, <1>5 DEF Typing

LEMMA TypingStep == Typing /\ [Next]_vars => Typing'
<1> SUFFICES ASSUME Typing, [Next]_vars PROVE Typing'
  OBVIOUS
<1>1. CASE UNCHANGED vars
  BY <1>1 DEF Typing, Control, Written, Words, vars, server, editor
<1>2. ASSUME NEW e \in Editor,
             \/ Open(e) \/ SendSnapshot(e) \/ Close(e) \/ Receive(e) \/ Type(e) \/ Drop(e) \/ Reconnect(e)
      PROVE  Typing'
  BY <1>2, OpenDoes, SendSnapshotDoes, CloseDoes, ReceiveDoes, TypeDoes, DropDoes, ReconnectDoes
<1>3. ASSUME NEW e \in Editor, Serve(e) PROVE Typing'
  BY <1>3, JoinDoes, InitializeDoes, UpdateDoes, LeaveDoes DEF Serve
<1>4. ASSUME NEW e \in Editor, NEW n \in 1..link[e], Disconnect(e, n) PROVE Typing'
  BY <1>4, DisconnectDoes
<1>5. CASE Save \/ SaveStopped
  BY <1>5, SaveDoes, SaveStoppedDoes
<1> QED BY <1>1, <1>2, <1>3, <1>4, <1>5 DEF Next

LEMMA TypingTypeOK == Typing => TypeOK
<1> SUFFICES ASSUME Typing PROVE TypeOK
  OBVIOUS
<1>1. Control /\ Written(Words)
  BY DEF Typing
<1>2. Words \subseteq Word \cup Title
  BY <1>1 DEF Words, Control
<1>3. Ops(Words) \subseteq Operations /\ SUBSET Words \subseteq SUBSET (Word \cup Title)
  <2>1. SUBSET (Client \X SUBSET Words) \subseteq SUBSET (Client \X SUBSET (Word \cup Title))
    BY <1>2
  <2> QED BY <1>2, <2>1 DEF Ops, Operations
<1>4. Seq(Sound(Words, FromEditor)) \subseteq Seq(Messages) /\ Seq(Sound(Words, FromServer)) \subseteq Seq(Messages)
  <2>1. Sound(Words, FromEditor) \subseteq Messages /\ Sound(Words, FromServer) \subseteq Messages
    BY <1>2, <1>3 DEF Sound, Messages, FromEditor, FromServer
  <2> QED BY <2>1, SeqMonotonic
<1>5. \A e \in Editor : out[e] \in Seq(Messages) /\ inbox[e] \in Seq(Messages)
  BY <1>1, <1>4 DEF Written
<1>6. \A e \in Editor : doc[e] \subseteq Operations
  BY <1>1, <1>3 DEF Written
<1>7. note \subseteq Word \cup Title /\ stored \subseteq Operations
  BY <1>1, <1>2, <1>3 DEF Written
<1>8. Cardinality(save) <= 1
  <2>1. CASE save = {}
    BY <2>1, FS_EmptySet
  <2>2. CASE save # {}
    <3>1. PICK text \in save : save = {text}
      BY <1>1, <2>2 DEF Control
    <3>2. Cardinality({text}) = 1
      BY FS_Singleton
    <3> QED BY <3>1, <3>2
  <2> QED BY <2>1, <2>2
<1>9. save \subseteq SUBSET (Word \cup Title) /\ stopped \subseteq SUBSET (Word \cup Title)
  BY <1>1, <1>3 DEF Written
<1> QED BY <1>1, <1>5, <1>6, <1>7, <1>8, <1>9 DEF TypeOK, Control

\* Every variable keeps its type, and there is at most one save to be run,
\* whatever editors and server send.
THEOREM DocumentTypeCorrect == Spec => []TypeOK
<1>1. Init => Typing
  BY TypingInit
<1>2. Typing /\ [Next]_vars => Typing'
  BY TypingStep
<1>3. Typing => TypeOK
  BY TypingTypeOK
<1> QED BY <1>1, <1>2, <1>3, PTL DEF Spec

-----------------------------------------------------------------------------
(* Connections and the order of messages.                                  *)

\* Where editor e is in its life, and what that says of its connection.
Linked(e) ==
    /\ phase[e] = "new" => /\ Len(out[e]) = 0 /\ doc[e] = {} /\ ~synced[e] /\ ~timer[e]
                           /\ link[e] = 1 /\ ~online[e]
    /\ phase[e] = "closed" => doc[e] = {} /\ ~timer[e]
    /\ ~online[e] => Len(out[e]) = 0
    /\ phase[e] # "new" /\ ~online[e] => link[e] > 1
    /\ \A n \in Nat : <<e, n>> \in users => n <= link[e] /\ phase[e] # "new"
    /\ ~online[e] => ~InRoom(e)
    /\ Len(inbox[e]) # 0 \/ synced[e] => phase[e] = "open" /\ InRoom(e)
    /\ link[e] = 1 /\ doc[e] # {} => InRoom(e)
    /\ link[e] \in Nat /\ link[e] > 0

\* A connection joins first and leaves last; in between it is in the room.
Queued(e) ==
    \A i \in At(out[e]) : LET m == out[e][i] IN
      /\ m.type = "join" => i = 1 /\ ~InRoom(e)
      /\ m.type = "leave" => i = Len(out[e]) /\ phase[e] = "closed"
      /\ m.type \in {"seed", "edit", "resync"} => InRoom(e)
      /\ m.type = "snapshot" /\ link[e] = 1 => InRoom(e)
      /\ m.type \in {"join", "snapshot", "leave"} => m.ops = {}
      /\ m.type \in {"edit", "resync"} /\ phase[e] = "open" => m.ops \subseteq doc[e]

Connected == \A e \in Editor : Linked(e) /\ Queued(e)

LEMMA PushedAt ==
    ASSUME NEW r, NEW q, NEW m, Len(q) \in Nat, Pushed(r, q, m)
    PROVE  /\ \A i \in At(r) : \/ i \in At(q) /\ r[i] = q[i]
                               \/ i = Len(q) + 1 /\ r[i] = m
           /\ Len(r) = Len(q) + 1 /\ Len(q) + 1 \in At(r) /\ Len(q) + 1 \notin At(q)
           /\ r[Len(q) + 1] = m
           /\ \A i \in At(q) : i \in At(r) /\ r[i] = q[i] /\ i \in Nat /\ i < Len(q) + 1
  BY DEF Pushed, At

LEMMA PoppedAt ==
    ASSUME NEW r, NEW q, Len(q) \in Nat, Len(r) \in Nat, Popped(r, q)
    PROVE  /\ \A i \in At(r) : i \in Nat /\ i + 1 \in At(q) /\ r[i] = q[i + 1] /\ i + 1 # 1
           /\ \A i \in At(q) : i = 1 \/ (i - 1 \in At(r) /\ r[i - 1] = q[i])
           /\ Len(q) = Len(r) + 1 /\ 1 \in At(q)
  BY DEF Popped, At

LEMMA TypingFacts ==
    ASSUME Typing
    PROVE  /\ Control
           /\ \A e \in Editor :
                /\ Len(out[e]) \in Nat /\ Len(inbox[e]) \in Nat
                /\ link[e] \in Nat
                /\ timer[e] => doc[e] # {}
                /\ \A i \in At(out[e]) : /\ i \in Nat /\ out[e][i].type \in FromEditor
                                         /\ out[e][i].type = "seed" => out[e][i].ops # {}
                /\ \A i \in At(inbox[e]) : /\ i \in Nat /\ inbox[e][i].type \in FromServer
                                           /\ inbox[e][i].type # "state" => inbox[e][i].ops # {}
<1>1. Control /\ Written(Words)
  BY DEF Typing
<1> SUFFICES ASSUME NEW e \in Editor
             PROVE  /\ Len(out[e]) \in Nat /\ Len(inbox[e]) \in Nat
                    /\ link[e] \in Nat
                    /\ timer[e] => doc[e] # {}
                    /\ \A i \in At(out[e]) : /\ i \in Nat /\ out[e][i].type \in FromEditor
                                             /\ out[e][i].type = "seed" => out[e][i].ops # {}
                    /\ \A i \in At(inbox[e]) : /\ i \in Nat /\ inbox[e][i].type \in FromServer
                                               /\ inbox[e][i].type # "state" => inbox[e][i].ops # {}
  BY <1>1
<1>2. out[e] \in Seq(Sound(Words, FromEditor)) /\ inbox[e] \in Seq(Sound(Words, FromServer))
  BY <1>1 DEF Written
<1>3. /\ Len(out[e]) \in Nat /\ \A i \in At(out[e]) : i \in Nat /\ out[e][i] \in Sound(Words, FromEditor)
      /\ Len(inbox[e]) \in Nat /\ \A i \in At(inbox[e]) : i \in Nat /\ inbox[e][i] \in Sound(Words, FromServer)
  BY <1>2, Elements
<1>4. \A i \in At(out[e]) : /\ i \in Nat /\ out[e][i].type \in FromEditor
                            /\ out[e][i].type = "seed" => out[e][i].ops # {}
  BY <1>3, SoundFields
<1>5. \A i \in At(inbox[e]) : /\ i \in Nat /\ inbox[e][i].type \in FromServer
                              /\ inbox[e][i].type # "state" => inbox[e][i].ops # {}
  BY <1>3, SoundFields DEF FromServer
<1>6. link[e] \in Nat /\ (timer[e] => doc[e] # {})
  BY <1>1 DEF Control, Written
<1> QED BY <1>3, <1>4, <1>5, <1>6

\* An editor that the step is not about: it may be sent a message.
Bystander(f) ==
    /\ phase'[f] = phase[f] /\ online'[f] = online[f] /\ link'[f] = link[f]
    /\ synced'[f] = synced[f] /\ timer'[f] = timer[f] /\ doc'[f] = doc[f]
    /\ out'[f] = out[f] /\ (inbox'[f] = inbox[f] \/ Reaches(f))
    /\ InRoom(f)' <=> InRoom(f)
    /\ \A n \in Nat : <<f, n>> \in users' => <<f, n>> \in users

LEMMA BystanderConnected ==
    ASSUME NEW f \in Editor, Linked(f), Queued(f), Bystander(f)
    PROVE  Linked(f)' /\ Queued(f)'
<1>1. Linked(f)'
  BY DEF Linked, Bystander, Reaches
<1>2. Queued(f)'
  BY DEF Queued, Bystander
<1> QED BY <1>1, <1>2

\* The other editors, when one editor acts, or the server for one.
LEMMA OthersStand ==
    ASSUME NEW e \in Editor, Others(e), \A f \in Editor : f # e => out'[f] = out[f],
           UNCHANGED <<users, room>>
    PROVE  \A f \in Editor : f # e => Bystander(f)
  BY DEF Others, Bystander, InRoom, Connection

LEMMA ServedStand ==
    ASSUME NEW e \in Editor, UNCHANGED editor, \A f \in Editor : f # e => out'[f] = out[f],
           \A f \in Editor : f # e => inbox'[f] = inbox[f] \/ Reaches(f),
           users' = users \/ \E n : users' = users \cup {<<e, n>>} \/ users' = users \ {<<e, n>>},
           room = users, room' = users'
    PROVE  \A f \in Editor : f # e => Bystander(f)
<1> SUFFICES ASSUME NEW f \in Editor, f # e PROVE Bystander(f)
  OBVIOUS
<1>1. \A n : <<f, n>> \in users' <=> <<f, n>> \in users
  OBVIOUS
<1>2. link'[f] = link[f]
  BY DEF editor
<1>3. InRoom(f)' <=> InRoom(f)
  BY <1>1, <1>2 DEF InRoom, Connection
<1> QED BY <1>1, <1>3 DEF Bystander, editor

LEMMA ConnectsConnected ==
    ASSUME Typing, Typing', Connected, NEW e \in Editor, Connects(e),
           phase[e] = "new" \/ (phase[e] = "open" /\ ~online[e])
    PROVE  Connected'
<1>1. /\ phase'[e] = "open" /\ online'[e] /\ link'[e] = link[e] /\ synced'[e] = synced[e]
      /\ timer'[e] = timer[e] /\ doc'[e] = doc[e] /\ inbox'[e] = inbox[e]
      /\ users' = users /\ room' = room /\ room = users
  BY DEF Connects, server, Typing, Control
<1>2. PICK m : m.type = "join" /\ m.ops = {} /\ Puts(e, m)
  BY DEF Connects
<1>3. Linked(e) /\ Len(out[e]) = 0 /\ ~online[e]
  BY DEF Connected, Linked
<1>4. Pushed(out'[e], out[e], m)
  BY <1>2 DEF Puts
<1>5. \A i \in At(out'[e]) : i = 1 /\ out'[e][i] = m
  <2>1. At(out[e]) = {}
    BY <1>3 DEF At
  <2> QED BY <1>3, <1>4, <2>1, PushedAt
<1>6. InRoom(e)' <=> InRoom(e)
  BY <1>1 DEF InRoom, Connection
<1>7. ~InRoom(e)
  BY <1>3 DEF Linked
<1>8. Linked(e)'
  <2>1. link[e] = 1 \/ phase[e] # "new"
    BY <1>3 DEF Linked
  <2> QED BY <1>1, <1>3, <1>6, <1>7, <2>1 DEF Linked
<1>9. Queued(e)'
  BY <1>1, <1>2, <1>5, <1>6, <1>7 DEF Queued
<1>10. \A f \in Editor : f # e => Bystander(f)
  BY <1>1, <1>2, OthersStand DEF Connects, Puts
<1> QED BY <1>8, <1>9, <1>10, BystanderConnected DEF Connected

LEMMA TypesConnected ==
    ASSUME Typing, Connected, NEW e \in Editor, NEW w, NEW needs, Types(e, w, needs)
    PROVE  Connected'
<1>1. /\ phase[e] = "open" /\ (synced[e] \/ ~online[e])
      /\ phase'[e] = phase[e] /\ online'[e] = online[e] /\ link'[e] = link[e] /\ synced'[e] = synced[e]
      /\ inbox'[e] = inbox[e] /\ doc'[e] = doc[e] \cup {Typed(e, w, needs)}
      /\ users' = users /\ room' = room
      /\ ~online[e] => out' = out
  BY DEF Types, server
<1>2. Linked(e) /\ Queued(e) /\ Len(out[e]) \in Nat
  BY TypingFacts DEF Connected
<1>3. InRoom(e)' <=> InRoom(e)
  BY <1>1 DEF InRoom, Connection
<1>4. synced[e] => InRoom(e)
  BY <1>2 DEF Linked
<1>5. Linked(e)'
  <2>1. ~online[e] => Len(out'[e]) = 0 /\ link[e] > 1
    BY <1>1, <1>2 DEF Linked
  <2>2. online[e] => InRoom(e)
    BY <1>1, <1>4
  <2>3. \A n \in Nat : <<e, n>> \in users' => n <= link'[e]
    BY <1>1, <1>2 DEF Linked
  <2> QED BY <1>1, <1>2, <1>3, <2>1, <2>2, <2>3 DEF Linked
<1>6. Queued(e)'
  <2>1. CASE ~online[e]
    <3>1. out'[e] = out[e]
      BY <1>1, <2>1
    <3> QED BY <1>1, <1>2, <1>3, <3>1 DEF Queued
  <2>2. CASE online[e]
    <3>1. PICK m : m.type = "edit" /\ m.ops = {Typed(e, w, needs)} /\ Pushed(out'[e], out[e], m)
      BY <2>2 DEF Types, Puts
    <3>2. ASSUME NEW i \in At(out'[e])
          PROVE  (i \in At(out[e]) /\ out'[e][i] = out[e][i]) \/ out'[e][i] = m
      BY <1>2, <3>1, PushedAt
    <3>3. InRoom(e)
      BY <1>1, <1>4, <2>2
    <3>4. \A i \in At(out[e]) : out[e][i].type # "leave"
      BY <1>1, <1>2 DEF Queued
    <3> QED BY <1>1, <1>2, <1>3, <3>1, <3>2, <3>3, <3>4 DEF Queued
  <2> QED BY <2>1, <2>2
<1>7. \A f \in Editor : f # e => out'[f] = out[f]
  BY DEF Types, Puts
<1>8. \A f \in Editor : f # e => Bystander(f)
  BY <1>1, <1>7, OthersStand DEF Types
<1> QED BY <1>5, <1>6, <1>8, BystanderConnected DEF Connected

LEMMA SnapsConnected ==
    ASSUME Typing, Connected, NEW e \in Editor, Snaps(e)
    PROVE  Connected'
<1>1. /\ phase[e] = "open" /\ timer[e]
      /\ phase'[e] = phase[e] /\ online'[e] = online[e] /\ link'[e] = link[e] /\ synced'[e] = synced[e]
      /\ inbox'[e] = inbox[e] /\ doc'[e] = doc[e] /\ timer'[e] = FALSE
      /\ users' = users /\ room' = room
      /\ ~online[e] => out' = out
  BY DEF Snaps, server
<1>2. Linked(e) /\ Queued(e) /\ Len(out[e]) \in Nat /\ doc[e] # {}
  BY <1>1, TypingFacts DEF Connected
<1>3. InRoom(e)' <=> InRoom(e)
  BY <1>1 DEF InRoom, Connection
<1>4. Linked(e)'
  BY <1>1, <1>2, <1>3 DEF Linked
<1>5. Queued(e)'
  <2>1. CASE ~online[e]
    <3>1. out'[e] = out[e]
      BY <1>1, <2>1
    <3> QED BY <1>1, <1>2, <1>3, <3>1 DEF Queued
  <2>2. CASE online[e]
    <3>1. PICK m : m.type = "snapshot" /\ m.ops = {} /\ Pushed(out'[e], out[e], m)
      BY <2>2 DEF Snaps, Puts
    <3>2. ASSUME NEW i \in At(out'[e])
          PROVE  (i \in At(out[e]) /\ out'[e][i] = out[e][i]) \/ out'[e][i] = m
      BY <1>2, <3>1, PushedAt
    <3>3. link[e] = 1 => InRoom(e)
      BY <1>2 DEF Linked
    <3>4. \A i \in At(out[e]) : out[e][i].type # "leave"
      BY <1>1, <1>2 DEF Queued
    <3> QED BY <1>1, <1>2, <1>3, <3>1, <3>2, <3>3, <3>4 DEF Queued
  <2> QED BY <2>1, <2>2
<1>6. \A f \in Editor : f # e => out'[f] = out[f]
  BY DEF Snaps, Puts
<1>7. \A f \in Editor : f # e => Bystander(f)
  BY <1>1, <1>6, OthersStand DEF Snaps
<1> QED BY <1>4, <1>5, <1>7, BystanderConnected DEF Connected

LEMMA ClosesConnected ==
    ASSUME Typing, Typing', Connected, NEW e \in Editor, Closes(e)
    PROVE  Connected'
<1>1. /\ phase[e] = "open" /\ phase'[e] = "closed"
      /\ online'[e] = online[e] /\ link'[e] = link[e] /\ synced'[e] = FALSE
      /\ inbox'[e] = <<>> /\ doc'[e] = {} /\ timer'[e] = FALSE
      /\ users' = users /\ room' = room
      /\ ~online[e] => out' = out
  BY DEF Closes, server
<1>2. Linked(e) /\ Queued(e) /\ Len(out[e]) \in Nat /\ (timer[e] => doc[e] # {})
  BY TypingFacts DEF Connected
<1>3. InRoom(e)' <=> InRoom(e)
  BY <1>1 DEF InRoom, Connection
<1>4. Linked(e)'
  BY <1>1, <1>2, <1>3 DEF Linked
<1>5. Queued(e)'
  <2>1. CASE ~online[e]
    <3>1. out'[e] = out[e] /\ At(out[e]) = {}
      BY <1>1, <1>2, <2>1 DEF Linked, At
    <3> QED BY <3>1 DEF Queued
  <2>2. CASE online[e]
    <3>1. PICK q, l : /\ l.type = "leave" /\ l.ops = {} /\ Pushed(out'[e], q, l)
                      /\ ~timer[e] => q = out[e]
                      /\ timer[e] => \E m : /\ m.type = "snapshot" /\ m.ops = {}
                                            /\ Pushed(q, out[e], m)
                      /\ Len(q) \in Nat
      BY <2>2 DEF Closes
    <3>2. link[e] = 1 /\ timer[e] => InRoom(e)
      BY <1>2 DEF Linked
    <3>3. ASSUME NEW i \in At(q)
          PROVE  \/ i \in At(out[e]) /\ q[i] = out[e][i]
                 \/ q[i].type = "snapshot" /\ q[i].ops = {} /\ timer[e]
      <4>1. CASE ~timer[e]
        BY <3>1, <3>3, <4>1
      <4>2. CASE timer[e]
        <5>1. PICK m : m.type = "snapshot" /\ m.ops = {} /\ Pushed(q, out[e], m)
          BY <3>1, <4>2
        <5> QED BY <1>2, <3>3, <4>2, <5>1, PushedAt
      <4> QED BY <4>1, <4>2
    <3>4. ASSUME NEW i \in At(out'[e])
          PROVE  \/ i \in At(q) /\ out'[e][i] = q[i]
                 \/ i = Len(out'[e]) /\ out'[e][i] = l
      BY <3>1, PushedAt
    <3>5. \A i \in At(out[e]) : out[e][i].type # "leave"
      BY <1>1, <1>2 DEF Queued
    <3>6. ASSUME NEW i \in At(out'[e])
          PROVE  \/ i \in At(out[e]) /\ out'[e][i] = out[e][i]
                 \/ out'[e][i].type = "snapshot" /\ out'[e][i].ops = {} /\ timer[e]
                 \/ i = Len(out'[e]) /\ out'[e][i].type = "leave" /\ out'[e][i].ops = {}
      BY <3>1, <3>3, <3>4
    <3> QED BY <1>1, <1>2, <1>3, <3>2, <3>5, <3>6 DEF Queued
  <2> QED BY <2>1, <2>2
<1>6. \A f \in Editor : f # e => Bystander(f)
  BY <1>1, OthersStand DEF Closes
<1> QED BY <1>4, <1>5, <1>6, BystanderConnected DEF Connected

LEMMA LosesConnected ==
    ASSUME Typing, Connected, NEW e \in Editor, Loses(e)
    PROVE  Connected'
<1>1. /\ phase[e] = "open" /\ online[e]
      /\ phase'[e] = phase[e] /\ online'[e] = FALSE /\ link'[e] = link[e] + 1 /\ synced'[e] = FALSE
      /\ timer'[e] = timer[e] /\ doc'[e] = doc[e] /\ inbox'[e] = <<>> /\ out'[e] = <<>>
      /\ users' = users /\ room' = room /\ users = room
  BY DEF Loses, server, Typing, Control
<1>2. Linked(e)
  BY DEF Connected
<1>3. link[e] \in Nat /\ link[e] > 0 /\ link[e] + 1 # 1
  BY <1>2 DEF Linked
<1>4. ~InRoom(e)'
  <2>1. ~(<<e, link[e] + 1>> \in users)
    BY <1>2, <1>3 DEF Linked
  <2> QED BY <1>1, <2>1 DEF InRoom, Connection
<1>5. \A n \in Nat : <<e, n>> \in users' => n <= link'[e]
  BY <1>1, <1>2, <1>3 DEF Linked
<1>6. Linked(e)'
  BY <1>1, <1>2, <1>3, <1>4, <1>5 DEF Linked
<1>7. Queued(e)'
  BY <1>1 DEF Queued, At
<1>8. \A f \in Editor : f # e => Bystander(f)
  BY <1>1, OthersStand DEF Loses
<1> QED BY <1>6, <1>7, <1>8, BystanderConnected DEF Connected

LEMMA HearsConnected ==
    ASSUME Typing, Typing', Connected, NEW e \in Editor, NEW m, Hears(e, m),
           \/ HearsUpdate(e, m) \/ HearsState(e, m) \/ Seeds(e, m)
           \/ Resyncs(e, m) \/ HearsSeeded(e, m)
    PROVE  Connected'
<1>1. /\ Popped(inbox'[e], inbox[e])
      /\ phase'[e] = phase[e] /\ online'[e] = online[e] /\ link'[e] = link[e]
      /\ users' = users /\ room' = room
  BY DEF Hears, server
<1>2. /\ Linked(e) /\ Queued(e) /\ Len(out[e]) \in Nat /\ Len(inbox[e]) \in Nat /\ Len(inbox'[e]) \in Nat
  BY TypingFacts DEF Connected, Typing, Control
<1>3. InRoom(e)' <=> InRoom(e)
  BY <1>1 DEF InRoom, Connection
<1>4. Len(inbox[e]) # 0
  BY <1>1, <1>2, PoppedAt
<1>5. phase[e] = "open" /\ InRoom(e) /\ online[e]
  BY <1>2, <1>4 DEF Linked
<1>6. doc[e] \subseteq doc'[e]
  BY DEF HearsUpdate, HearsState, Seeds, Resyncs, HearsSeeded
<1>7. Linked(e)'
  BY <1>1, <1>2, <1>3, <1>5 DEF Linked
<1>8. \/ out' = out
      \/ \E s : /\ s.type \in {"seed", "resync", "snapshot"}
                /\ s.type = "snapshot" => s.ops = {}
                /\ s.type = "resync" => s.ops \subseteq doc'[e]
                /\ Puts(e, s)
  BY DEF HearsUpdate, HearsState, Seeds, Resyncs, HearsSeeded
<1>9. Queued(e)'
  <2>1. CASE out' = out
    BY <1>1, <1>2, <1>3, <1>6, <2>1 DEF Queued
  <2>2. ASSUME NEW s, s.type \in {"seed", "resync", "snapshot"},
               s.type = "snapshot" => s.ops = {},
               s.type = "resync" => s.ops \subseteq doc'[e],
               Puts(e, s)
        PROVE  Queued(e)'
    <3>1. Pushed(out'[e], out[e], s)
      BY <2>2 DEF Puts
    <3>2. ASSUME NEW i \in At(out'[e])
          PROVE  (i \in At(out[e]) /\ out'[e][i] = out[e][i]) \/ out'[e][i] = s
      BY <1>2, <3>1, PushedAt
    <3>3. \A i \in At(out[e]) : out[e][i].type # "leave"
      BY <1>2, <1>5 DEF Queued
    <3> QED BY <1>1, <1>2, <1>3, <1>5, <1>6, <2>2, <3>2, <3>3 DEF Queued
  <2> QED BY <1>8, <2>1, <2>2
<1>10. \A f \in Editor : f # e => out'[f] = out[f]
  BY <1>8 DEF Puts
<1>11. \A f \in Editor : f # e => Bystander(f)
  BY <1>1, <1>10 DEF Hears, Bystander, InRoom, Connection
<1> QED BY <1>7, <1>9, <1>11, BystanderConnected DEF Connected

\* A message that the server takes from the queue.
LEMMA TakesQueued ==
    ASSUME Typing, Typing', NEW e \in Editor, Queued(e), Takes(e),
           phase'[e] = phase[e], link'[e] = link[e], doc'[e] = doc[e],
           \/ InRoom(e)' <=> InRoom(e)
           \/ InRoom(e)' /\ out[e][1].type = "join"
           \/ out[e][1].type = "leave"
    PROVE  Queued(e)'
<1>1. Popped(out'[e], out[e]) /\ Len(out[e]) \in Nat /\ Len(out'[e]) \in Nat
  BY TypingFacts DEF Takes
<1>2. /\ \A i \in At(out'[e]) : /\ i \in Nat /\ i + 1 \in At(out[e]) /\ out'[e][i] = out[e][i + 1]
                                /\ i + 1 # 1
      /\ Len(out[e]) = Len(out'[e]) + 1 /\ 1 \in At(out[e])
  BY <1>1, PoppedAt
<1>3. CASE out[e][1].type = "leave"
  <2>1. Len(out[e]) = 1
    BY <1>2, <1>3 DEF Queued
  <2>2. At(out'[e]) = {}
    BY <1>1, <1>2, <2>1 DEF At
  <2> QED BY <2>2 DEF Queued
<1>4. CASE out[e][1].type # "leave"
  <2>1. ASSUME NEW i \in At(out'[e])
        PROVE  /\ out'[e][i].type # "join"
               /\ out'[e][i].type = "leave" => i = Len(out'[e]) /\ phase[e] = "closed"
               /\ out'[e][i].type \in {"seed", "edit", "resync"} => InRoom(e)
               /\ out'[e][i].type = "snapshot" /\ link[e] = 1 => InRoom(e)
               /\ out'[e][i].type \in {"join", "snapshot", "leave"} => out'[e][i].ops = {}
               /\ out'[e][i].type \in {"edit", "resync"} /\ phase[e] = "open" => out'[e][i].ops \subseteq doc[e]
    BY <1>1, <1>2 DEF Queued
  <2>2. InRoom(e) => InRoom(e)'
    BY <1>4
  <2> QED BY <2>1, <2>2 DEF Queued
<1> QED BY <1>3, <1>4

LEMMA JoinsConnected ==
    ASSUME Typing, Typing', Connected, NEW e \in Editor, NEW m, Joins(e, m)
    PROVE  Connected'
<1>1. /\ m = out[e][1] /\ m.type = "join" /\ Takes(e) /\ UNCHANGED editor
      /\ users' = users \cup {Connection(e)} /\ room' = users' /\ room = users
      /\ phase[e] # "open" => inbox'[e] = inbox[e]
      /\ phase'[e] = phase[e] /\ online'[e] = online[e] /\ link'[e] = link[e] /\ doc'[e] = doc[e]
      /\ synced'[e] = synced[e] /\ timer'[e] = timer[e]
  BY DEF Joins, Serves, Typing, Control, editor
<1>2. /\ Linked(e) /\ Queued(e) /\ Len(out[e]) \in Nat /\ Len(out'[e]) \in Nat
      /\ Len(out[e]) # 0
  <2>1. Len(out[e]) \in Nat /\ Len(out'[e]) \in Nat /\ Popped(out'[e], out[e])
    BY <1>1, TypingFacts DEF Takes
  <2> QED BY <2>1, PoppedAt DEF Connected
<1>3. online[e] /\ phase[e] # "new" /\ link[e] \in Nat
  BY <1>2 DEF Linked
<1>4. InRoom(e)' /\ \A n \in Nat : <<e, n>> \in users' => n = link[e] \/ <<e, n>> \in users
  BY <1>1 DEF InRoom, Connection
<1>5. \A n \in Nat : <<e, n>> \in users' => n <= link'[e] /\ phase'[e] # "new"
  BY <1>1, <1>2, <1>3, <1>4 DEF Linked
<1>6. Linked(e)'
  BY <1>1, <1>2, <1>3, <1>4, <1>5 DEF Linked
<1>7. Queued(e)'
  BY <1>1, <1>2, <1>4, TakesQueued
<1>8. \A f \in Editor : f # e => Bystander(f)
  <2>1. users' = users \cup {<<e, link[e]>>}
    BY <1>1 DEF Connection
  <2> QED BY <1>1, <2>1, ServedStand DEF Joins, Takes
<1> QED BY <1>6, <1>7, <1>8, BystanderConnected DEF Connected

\* A handler that lets the connections as they are.
LEMMA ServesConnected ==
    ASSUME Typing, Typing', Connected, NEW e \in Editor, NEW m, Serves(e, m), m.type # "join",
           UNCHANGED <<users, room>>, inbox'[e] = inbox[e] \/ (phase[e] = "open" /\ InRoom(e)),
           \A f \in Editor : f # e => inbox'[f] = inbox[f] \/ Reaches(f)
    PROVE  Connected'
<1>1. /\ m = out[e][1] /\ Takes(e) /\ UNCHANGED editor /\ room = users
      /\ phase'[e] = phase[e] /\ online'[e] = online[e] /\ link'[e] = link[e] /\ doc'[e] = doc[e]
      /\ synced'[e] = synced[e] /\ timer'[e] = timer[e]
  BY DEF Serves, Typing, Control, editor
<1>2. /\ Linked(e) /\ Queued(e) /\ Len(out[e]) \in Nat /\ Len(out'[e]) \in Nat
      /\ Len(out[e]) = Len(out'[e]) + 1
  <2>1. Len(out[e]) \in Nat /\ Len(out'[e]) \in Nat /\ Popped(out'[e], out[e])
    BY <1>1, TypingFacts DEF Takes
  <2> QED BY <2>1, PoppedAt DEF Connected
<1>3. InRoom(e)' <=> InRoom(e)
  BY <1>1 DEF InRoom, Connection
<1>4. Linked(e)'
  BY <1>1, <1>2, <1>3 DEF Linked
<1>5. Queued(e)'
  BY <1>1, <1>2, <1>3, TakesQueued
<1>6. \A f \in Editor : f # e => Bystander(f)
  BY <1>1, ServedStand DEF Takes
<1> QED BY <1>4, <1>5, <1>6, BystanderConnected DEF Connected

\* A connection is forgotten when it has left, or is gone.
LEMMA LeavesConnected ==
    ASSUME Typing, Typing', Connected, NEW e \in Editor, NEW m, Leaves(e, m)
    PROVE  Connected'
<1>1. /\ m = out[e][1] /\ Takes(e) /\ UNCHANGED editor /\ room = users /\ m.type = "leave"
      /\ phase'[e] = phase[e] /\ online'[e] = online[e] /\ link'[e] = link[e] /\ doc'[e] = doc[e]
      /\ synced'[e] = synced[e] /\ timer'[e] = timer[e]
      /\ users' = users \ {Connection(e)} /\ room' = users' /\ inbox' = inbox
  BY DEF Leaves, Serves, Forgets, Typing, Control, editor
<1>2. /\ Linked(e) /\ Queued(e) /\ Len(out[e]) \in Nat /\ Len(out'[e]) \in Nat
      /\ Len(out[e]) = Len(out'[e]) + 1 /\ 1 \in At(out[e])
  <2>1. Len(out[e]) \in Nat /\ Len(out'[e]) \in Nat /\ Popped(out'[e], out[e])
    BY <1>1, TypingFacts DEF Takes
  <2> QED BY <2>1, PoppedAt DEF Connected
<1>3. phase[e] = "closed"
  BY <1>1, <1>2 DEF Queued
<1>4. Linked(e)'
  <2>1. \A n \in Nat : <<e, n>> \in users' => <<e, n>> \in users
    BY <1>1
  <2>2. ~InRoom(e)'
    BY <1>1 DEF InRoom, Connection
  <2> QED BY <1>1, <1>2, <1>3, <2>1, <2>2 DEF Linked
<1>5. Queued(e)'
  BY <1>1, <1>2, TakesQueued
<1>6. \A f \in Editor : f # e => Bystander(f)
  <2>1. users' = users \ {<<e, link[e]>>}
    BY <1>1 DEF Connection
  <2> QED BY <1>1, <2>1, ServedStand DEF Takes
<1> QED BY <1>4, <1>5, <1>6, BystanderConnected DEF Connected

LEMMA DisconnectsConnected ==
    ASSUME Typing, Typing', Connected, NEW e \in Editor, NEW n \in Nat, Disconnects(e, n)
    PROVE  Connected' /\ n < link[e]
<1>1. /\ <<e, n>> \in users /\ (n < link[e] \/ ~online[e])
      /\ UNCHANGED editor /\ room = users /\ out' = out
      /\ phase'[e] = phase[e] /\ online'[e] = online[e] /\ link'[e] = link[e] /\ doc'[e] = doc[e]
      /\ synced'[e] = synced[e] /\ timer'[e] = timer[e]
      /\ users' = users \ {<<e, n>>} /\ room' = users' /\ inbox' = inbox
  BY DEF Disconnects, Forgets, Typing, Control, editor
<1>2. Linked(e) /\ Queued(e)
  BY DEF Connected
<1>3. n < link[e]
  <2>1. n <= link[e] /\ link[e] \in Nat
    BY <1>1, <1>2 DEF Linked
  <2>2. n # link[e] \/ online[e]
    BY <1>1, <1>2 DEF Linked, InRoom, Connection
  <2> QED BY <1>1, <2>1, <2>2
<1>4. InRoom(e)' <=> InRoom(e)
  <2>1. n # link[e]
    BY <1>3, <1>2 DEF Linked
  <2>2. <<e, link[e]>> \in users' <=> <<e, link[e]>> \in users
    BY <1>1, <2>1
  <2> QED BY <1>1, <2>2 DEF InRoom, Connection
<1>5. Linked(e)'
  BY <1>1, <1>2, <1>4 DEF Linked
<1>6. Queued(e)'
  BY <1>1, <1>2, <1>4 DEF Queued
<1>7. \A f \in Editor : f # e => Bystander(f)
  BY <1>1, ServedStand
<1> QED BY <1>3, <1>5, <1>6, <1>7, BystanderConnected DEF Connected

LEMMA ConnectedInit == Init => Connected
<1> SUFFICES ASSUME Init, NEW e \in Editor PROVE Linked(e) /\ Queued(e)
  BY DEF Connected
<1> QED BY DEF Init, Linked, Queued, InRoom, Connection, At

LEMMA ConnectedStep ==
    ASSUME Typing, Typing', Connected, [Next]_vars
    PROVE  Connected'
<1>1. CASE UNCHANGED <<users, room, editor, out, inbox>>
  BY <1>1 DEF Connected, Linked, Queued, InRoom, Connection, editor
<1>2. CASE UNCHANGED vars
  BY <1>1, <1>2 DEF vars, server
<1>3. ASSUME NEW e \in Editor, Open(e) \/ Reconnect(e) PROVE Connected'
  BY <1>3, OpenDoes, ReconnectDoes, ConnectsConnected
<1>4. ASSUME NEW e \in Editor, Type(e) PROVE Connected'
  BY <1>4, TypeDoes, TypesConnected
<1>5. ASSUME NEW e \in Editor, SendSnapshot(e) PROVE Connected'
  BY <1>5, SendSnapshotDoes, SnapsConnected
<1>6. ASSUME NEW e \in Editor, Close(e) PROVE Connected'
  BY <1>6, CloseDoes, ClosesConnected
<1>7. ASSUME NEW e \in Editor, Drop(e) PROVE Connected'
  BY <1>7, DropDoes, LosesConnected
<1>8. ASSUME NEW e \in Editor, Receive(e) PROVE Connected'
  BY <1>8, ReceiveDoes, HearsConnected
<1>9. ASSUME NEW e \in Editor, Join(e) PROVE Connected'
  BY <1>9, JoinDoes, JoinsConnected
<1>10. ASSUME NEW e \in Editor, Initialize(e) PROVE Connected'
  <2>1. PICK m : Initializes(e, m)
    BY <1>10, InitializeDoes
  <2>2. /\ Serves(e, m) /\ m.type # "join" /\ UNCHANGED <<users, room>>
        /\ inbox'[e] = inbox[e] \/ (phase[e] = "open" /\ InRoom(e))
        /\ \A f \in Editor : f # e => inbox'[f] = inbox[f] \/ Reaches(f)
    BY <2>1 DEF Initializes
  <2> QED BY <2>2, ServesConnected
<1>11. ASSUME NEW e \in Editor, Update(e) PROVE Connected'
  <2>1. PICK m : Updates(e, m)
    BY <1>11, UpdateDoes
  <2>2. /\ Serves(e, m) /\ m.type # "join" /\ UNCHANGED <<users, room>> /\ inbox'[e] = inbox[e]
        /\ \A f \in Editor : f # e => inbox'[f] = inbox[f] \/ Reaches(f)
    BY <2>1 DEF Updates
  <2> QED BY <2>2, ServesConnected
<1>12. ASSUME NEW e \in Editor, Leave(e) PROVE Connected'
  BY <1>12, LeaveDoes, LeavesConnected
<1>13. ASSUME NEW e \in Editor, NEW n \in 1..link[e], Disconnect(e, n) PROVE Connected'
  <2>1. n \in Nat
    BY TypingFacts
  <2> QED BY <1>13, <2>1, DisconnectDoes, DisconnectsConnected
<1>14. CASE Save \/ SaveStopped
  <2>1. UNCHANGED <<users, room, editor, out, inbox>>
    BY <1>14, SaveDoes, SaveStoppedDoes DEF Saves, SavesStopped
  <2> QED BY <1>1, <2>1
<1> QED BY <1>2, <1>3, <1>4, <1>5, <1>6, <1>7, <1>8, <1>9, <1>10, <1>11, <1>12, <1>13, <1>14 DEF Next, Serve

-----------------------------------------------------------------------------
(* What the server has and what the editors have.                          *)

\* An operation is on its way to editor e; editor e has sent it.
Coming(e, o) == \E i \in At(inbox[e]) : o \in inbox[e][i].ops
Sent(e, o) == \E i \in At(out[e]) : out[e][i].type # "seed" /\ o \in out[e][i].ops

\* Editors are sent what is stored; who is in the room gets all of it; and who
\* never lost its connection has nothing else than that and what it typed.
Arrived(e) == \A i \in At(inbox[e]) : inbox[e][i].ops \subseteq stored
Complete(e) == phase[e] = "open" /\ InRoom(e) => \A o \in stored : o \in doc[e] \/ Coming(e, o)
Own(e) == link[e] = 1 => \A o \in doc[e] : o \in stored \/ Sent(e, o)
Relayed == \A e \in Editor : Arrived(e) /\ Complete(e) /\ Own(e)

\* Once the document is cleared nobody has anything.
LEMMA ClearedRelayed ==
    ASSUME Typing', Connected', users' = {}, stored' = {}
    PROVE  Relayed'
<1> SUFFICES ASSUME NEW e \in Editor PROVE (Arrived(e) /\ Complete(e) /\ Own(e))'
  BY DEF Relayed
<1>1. ~InRoom(e)'
  BY DEF Typing, Control, InRoom
<1>2. Linked(e)'
  BY DEF Connected
<1>3. At(inbox'[e]) = {}
  BY <1>1, <1>2 DEF Linked, At
<1> QED BY <1>1, <1>2, <1>3 DEF Arrived, Complete, Own, Linked

LEMMA KeptRelayed ==
    ASSUME NEW f \in Editor, Arrived(f), Complete(f), Own(f), stored' = stored,
           doc'[f] = doc[f], inbox'[f] = inbox[f], phase'[f] = phase[f], link'[f] = link[f],
           InRoom(f)' => InRoom(f), \A o : Sent(f, o) => Sent(f, o)'
    PROVE  (Arrived(f) /\ Complete(f) /\ Own(f))'
<1>1. Arrived(f)'
  BY DEF Arrived
<1>2. \A o : Coming(f, o)' <=> Coming(f, o)
  BY DEF Coming
<1>3. Complete(f)'
  BY <1>2 DEF Complete
<1>4. Own(f)'
  BY DEF Own
<1> QED BY <1>1, <1>3, <1>4

LEMMA OthersRelayed ==
    ASSUME Relayed, NEW e \in Editor, Others(e), UNCHANGED <<stored, room>>,
           \A f \in Editor : f # e => out'[f] = out[f]
    PROVE  \A f \in Editor : f # e => (Arrived(f) /\ Complete(f) /\ Own(f))'
<1> SUFFICES ASSUME NEW f \in Editor, f # e PROVE (Arrived(f) /\ Complete(f) /\ Own(f))'
  OBVIOUS
<1>1. Arrived(f) /\ Complete(f) /\ Own(f)
  BY DEF Relayed
<1>2. InRoom(f)' <=> InRoom(f)
  BY DEF Others, InRoom, Connection
<1>3. \A o : Sent(f, o) => Sent(f, o)'
  BY DEF Sent
<1> QED BY <1>1, <1>2, <1>3, KeptRelayed DEF Others

\* A message that is put into the queue, and one that is taken from it.
LEMMA PutSent ==
    ASSUME Typing, NEW e \in Editor, NEW m, Puts(e, m)
    PROVE  /\ \A o : Sent(e, o) => Sent(e, o)'
           /\ m.type # "seed" => \A o \in m.ops : Sent(e, o)'
<1>1. Len(out[e]) \in Nat /\ Pushed(out'[e], out[e], m)
  BY TypingFacts DEF Puts
<1>2. /\ \A i \in At(out[e]) : i \in At(out'[e]) /\ out'[e][i] = out[e][i]
      /\ Len(out[e]) + 1 \in At(out'[e]) /\ out'[e][Len(out[e]) + 1] = m
  BY <1>1, PushedAt
<1> QED BY <1>2 DEF Sent

LEMMA TakenSent ==
    ASSUME Typing, Typing', NEW e \in Editor, NEW m, Takes(e), m = out[e][1]
    PROVE  /\ \A o : Sent(e, o) => Sent(e, o)' \/ (m.type # "seed" /\ o \in m.ops)
           /\ \A o : Sent(e, o)' => Sent(e, o)
           /\ m.type # "seed" => \A o \in m.ops : Sent(e, o)
<1>1. Popped(out'[e], out[e]) /\ Len(out[e]) \in Nat /\ Len(out'[e]) \in Nat
  BY TypingFacts DEF Takes
<1>2. /\ \A i \in At(out'[e]) : i + 1 \in At(out[e]) /\ out'[e][i] = out[e][i + 1]
      /\ \A i \in At(out[e]) : i = 1 \/ (i - 1 \in At(out'[e]) /\ out'[e][i - 1] = out[e][i])
      /\ 1 \in At(out[e])
  BY <1>1, PoppedAt
<1>3. ASSUME NEW o, Sent(e, o) PROVE Sent(e, o)' \/ (m.type # "seed" /\ o \in m.ops)
  BY <1>2, <1>3 DEF Sent
<1>4. ASSUME NEW o, Sent(e, o)' PROVE Sent(e, o)
  BY <1>2, <1>4 DEF Sent
<1>5. m.type # "seed" => \A o \in m.ops : Sent(e, o)
  BY <1>2 DEF Sent
<1> QED BY <1>3, <1>4, <1>5

\* Messages for an editor.
LEMMA PushedComing ==
    ASSUME Typing, NEW f \in Editor, NEW r, Pushed(inbox'[f], inbox[f], r)
    PROVE  /\ \A o : Coming(f, o)' <=> Coming(f, o) \/ o \in r.ops
           /\ \A S : (\A i \in At(inbox[f]) : inbox[f][i].ops \subseteq S) /\ r.ops \subseteq S =>
                \A i \in At(inbox'[f]) : inbox'[f][i].ops \subseteq S
<1>1. Len(inbox[f]) \in Nat
  BY TypingFacts
<1>2. /\ \A i \in At(inbox'[f]) : \/ i \in At(inbox[f]) /\ inbox'[f][i] = inbox[f][i]
                                  \/ inbox'[f][i] = r
      /\ \A i \in At(inbox[f]) : i \in At(inbox'[f]) /\ inbox'[f][i] = inbox[f][i]
      /\ Len(inbox[f]) + 1 \in At(inbox'[f]) /\ inbox'[f][Len(inbox[f]) + 1] = r
  BY <1>1, PushedAt
<1>3. ASSUME NEW o, Coming(f, o)' PROVE Coming(f, o) \/ o \in r.ops
  BY <1>2, <1>3 DEF Coming
<1>4. ASSUME NEW o, Coming(f, o) \/ o \in r.ops PROVE Coming(f, o)'
  BY <1>2, <1>4 DEF Coming
<1>5. \A S : (\A i \in At(inbox[f]) : inbox[f][i].ops \subseteq S) /\ r.ops \subseteq S =>
                \A i \in At(inbox'[f]) : inbox'[f][i].ops \subseteq S
  BY <1>2
<1> QED BY <1>3, <1>4, <1>5

LEMMA ConnectsRelayed ==
    ASSUME Typing, Connected, Relayed, NEW e \in Editor, Connects(e),
           phase[e] = "new" \/ (phase[e] = "open" /\ ~online[e])
    PROVE  Relayed'
<1>1. /\ link'[e] = link[e] /\ doc'[e] = doc[e] /\ inbox'[e] = inbox[e] /\ UNCHANGED <<stored, room>>
      /\ Others(e)
  BY DEF Connects, server
<1>2. PICK m : Puts(e, m)
  BY DEF Connects
<1>3. ~InRoom(e)' /\ Arrived(e) /\ Own(e)
  <2>1. Linked(e) /\ ~online[e]
    BY DEF Connected, Linked
  <2> QED BY <1>1, <2>1 DEF Linked, Relayed, InRoom, Connection
<1>4. (Arrived(e) /\ Complete(e) /\ Own(e))'
  BY <1>1, <1>2, <1>3, PutSent DEF Arrived, Complete, Own
<1>5. \A f \in Editor : f # e => out'[f] = out[f]
  BY <1>2 DEF Puts
<1> QED BY <1>1, <1>4, <1>5, OthersRelayed DEF Relayed

LEMMA TypesRelayed ==
    ASSUME Typing, Connected, Relayed, NEW e \in Editor, NEW w, NEW needs, Types(e, w, needs)
    PROVE  Relayed'
<1>1. /\ link'[e] = link[e] /\ doc'[e] = doc[e] \cup {Typed(e, w, needs)} /\ inbox'[e] = inbox[e]
      /\ UNCHANGED <<stored, room>> /\ phase'[e] = phase[e] /\ phase[e] = "open"
      /\ Others(e) /\ (~online[e] => out' = out)
  BY DEF Types, server
<1>2. Arrived(e) /\ Complete(e) /\ Own(e) /\ Linked(e)
  BY DEF Relayed, Connected
<1>3. \A f \in Editor : f # e => out'[f] = out[f]
  BY DEF Types, Puts
<1>4. online[e] => (\A o : Sent(e, o) => Sent(e, o)') /\ Sent(e, Typed(e, w, needs))'
  <2>1. ASSUME online[e]
        PROVE  (\A o : Sent(e, o) => Sent(e, o)') /\ Sent(e, Typed(e, w, needs))'
    <3>1. PICK m : m.type = "edit" /\ m.ops = {Typed(e, w, needs)} /\ Puts(e, m)
      BY <2>1 DEF Types
    <3> QED BY <3>1, PutSent
  <2> QED BY <2>1
<1>5. Own(e)'
  <2>1. ~online[e] => link'[e] # 1
    BY <1>1, <1>2 DEF Linked
  <2> QED BY <1>1, <1>2, <1>4, <2>1 DEF Own
<1>6. Arrived(e)' /\ Complete(e)'
  <2>1. InRoom(e)' <=> InRoom(e)
    BY <1>1 DEF InRoom, Connection
  <2>2. \A o : Coming(e, o)' <=> Coming(e, o)
    BY <1>1 DEF Coming
  <2> QED BY <1>1, <1>2, <2>1, <2>2 DEF Arrived, Complete
<1> QED BY <1>1, <1>3, <1>5, <1>6, OthersRelayed DEF Relayed

LEMMA SnapsRelayed ==
    ASSUME Typing, Connected, Relayed, NEW e \in Editor, Snaps(e)
    PROVE  Relayed'
<1>1. /\ link'[e] = link[e] /\ doc'[e] = doc[e] /\ inbox'[e] = inbox[e]
      /\ UNCHANGED <<stored, room>> /\ phase'[e] = phase[e] /\ Others(e) /\ (~online[e] => out' = out)
  BY DEF Snaps, server
<1>2. Arrived(e) /\ Complete(e) /\ Own(e)
  BY DEF Relayed
<1>3. \A f \in Editor : f # e => out'[f] = out[f]
  BY DEF Snaps, Puts
<1>4. \A o : Sent(e, o) => Sent(e, o)'
  <2>1. CASE online[e]
    <3>1. PICK m : Puts(e, m)
      BY <2>1 DEF Snaps
    <3> QED BY <3>1, PutSent
  <2>2. CASE ~online[e]
    BY <1>1, <2>2 DEF Sent
  <2> QED BY <2>1, <2>2
<1>5. InRoom(e)' <=> InRoom(e)
  BY <1>1 DEF InRoom, Connection
<1>6. (Arrived(e) /\ Complete(e) /\ Own(e))'
  BY <1>1, <1>2, <1>4, <1>5, KeptRelayed
<1> QED BY <1>1, <1>3, <1>6, OthersRelayed DEF Relayed

LEMMA ClosesRelayed ==
    ASSUME Relayed, NEW e \in Editor, Closes(e)
    PROVE  Relayed'
<1>1. /\ phase'[e] = "closed" /\ doc'[e] = {} /\ inbox'[e] = <<>> /\ UNCHANGED <<stored, room>>
      /\ Others(e) /\ \A f \in Editor : f # e => out'[f] = out[f]
  BY DEF Closes, server
<1>2. (Arrived(e) /\ Complete(e) /\ Own(e))'
  BY <1>1 DEF Arrived, Complete, Own, At
<1> QED BY <1>1, <1>2, OthersRelayed DEF Relayed

LEMMA LosesRelayed ==
    ASSUME Typing', Connected', Relayed, NEW e \in Editor, Loses(e)
    PROVE  Relayed'
<1>1. /\ inbox'[e] = <<>> /\ ~online'[e] /\ phase'[e] = "open" /\ UNCHANGED <<stored, room>>
      /\ Others(e) /\ \A f \in Editor : f # e => out'[f] = out[f]
  BY DEF Loses, server
<1>2. ~InRoom(e)' /\ link'[e] # 1
  BY <1>1 DEF Connected, Linked
<1>3. (Arrived(e) /\ Complete(e) /\ Own(e))'
  BY <1>1, <1>2 DEF Arrived, Complete, Own, At
<1> QED BY <1>1, <1>3, OthersRelayed DEF Relayed

\* What an editor takes from its messages and what stays.
LEMMA HearsComing ==
    ASSUME Typing, Typing', NEW e \in Editor, NEW m, Hears(e, m)
    PROVE  /\ \A o : Coming(e, o) <=> Coming(e, o)' \/ o \in m.ops
           /\ \A S : (\A i \in At(inbox[e]) : inbox[e][i].ops \subseteq S) =>
                m.ops \subseteq S /\ \A i \in At(inbox'[e]) : inbox'[e][i].ops \subseteq S
<1>0. m = inbox[e][1]
  BY DEF Hears
<1>1. Popped(inbox'[e], inbox[e]) /\ Len(inbox[e]) \in Nat /\ Len(inbox'[e]) \in Nat
  BY TypingFacts DEF Hears
<1>2. /\ \A i \in At(inbox'[e]) : i + 1 \in At(inbox[e]) /\ inbox'[e][i] = inbox[e][i + 1]
      /\ \A i \in At(inbox[e]) : i = 1 \/ (i - 1 \in At(inbox'[e]) /\ inbox'[e][i - 1] = inbox[e][i])
      /\ 1 \in At(inbox[e])
  <2> DEFINE q == inbox[e]
  <2> DEFINE r == inbox'[e]
  <2>1. Popped(r, q) /\ Len(q) \in Nat /\ Len(r) \in Nat
    BY <1>1
  <2> HIDE DEF q, r
  <2>2. /\ \A i \in At(r) : i + 1 \in At(q) /\ r[i] = q[i + 1]
        /\ \A i \in At(q) : i = 1 \/ (i - 1 \in At(r) /\ r[i - 1] = q[i])
        /\ 1 \in At(q)
    BY <2>1, PoppedAt
  <2> QED BY <2>2 DEF q, r
<1>3. ASSUME NEW o, Coming(e, o) PROVE Coming(e, o)' \/ o \in m.ops
  BY <1>0, <1>2, <1>3 DEF Coming
<1>4. ASSUME NEW o, Coming(e, o)' \/ o \in m.ops PROVE Coming(e, o)
  BY <1>0, <1>2, <1>4 DEF Coming
<1>5. ASSUME NEW S, \A i \in At(inbox[e]) : inbox[e][i].ops \subseteq S
      PROVE  m.ops \subseteq S /\ \A i \in At(inbox'[e]) : inbox'[e][i].ops \subseteq S
  BY <1>0, <1>2, <1>5
<1> QED BY <1>3, <1>4, <1>5

LEMMA HearsRelayed ==
    ASSUME Typing, Typing', Relayed, NEW e \in Editor, NEW m, Hears(e, m),
           \/ HearsUpdate(e, m) \/ HearsState(e, m) \/ Seeds(e, m)
           \/ Resyncs(e, m) \/ HearsSeeded(e, m)
    PROVE  Relayed'
<1>1. /\ phase'[e] = phase[e] /\ link'[e] = link[e] /\ UNCHANGED <<stored, room>>
  BY DEF Hears, server
<1>2. Arrived(e) /\ Complete(e) /\ Own(e)
  BY DEF Relayed
<1>3. /\ doc'[e] = doc[e] \cup m.ops
      /\ out' = out \/ \E s : Puts(e, s)
  BY DEF HearsUpdate, HearsState, Seeds, Resyncs, HearsSeeded
<1>4. \A o : Sent(e, o) => Sent(e, o)'
  <2>1. CASE out' = out
    BY <2>1 DEF Sent
  <2> QED BY <1>3, <2>1, PutSent
<1>5. Arrived(e)' /\ m.ops \subseteq stored
  BY <1>1, <1>2, HearsComing DEF Arrived
<1>6. Complete(e)'
  <2>1. InRoom(e)' <=> InRoom(e)
    BY <1>1 DEF InRoom, Connection
  <2>2. \A o : Coming(e, o) => Coming(e, o)' \/ o \in m.ops
    BY HearsComing
  <2> QED BY <1>1, <1>2, <1>3, <2>1, <2>2 DEF Complete
<1>7. Own(e)'
  BY <1>1, <1>2, <1>3, <1>4, <1>5 DEF Own
<1>8. ASSUME NEW f \in Editor, f # e PROVE (Arrived(f) /\ Complete(f) /\ Own(f))'
  <2>1. /\ phase'[f] = phase[f] /\ link'[f] = link[f] /\ doc'[f] = doc[f] /\ inbox'[f] = inbox[f]
        /\ out'[f] = out[f]
    BY <1>3, <1>8 DEF Hears, Puts
  <2>2. (InRoom(f)' <=> InRoom(f)) /\ \A o : Sent(f, o) => Sent(f, o)'
    BY <1>1, <2>1 DEF InRoom, Connection, Sent
  <2> QED BY <1>1, <2>1, <2>2, KeptRelayed DEF Relayed
<1> QED BY <1>5, <1>6, <1>7, <1>8 DEF Relayed

\* An editor of which nothing changes but what is stored and what it is sent.
LEMMA GrownRelayed ==
    ASSUME Typing, NEW f \in Editor, Arrived(f), Complete(f), Own(f), stored \subseteq stored',
           doc'[f] = doc[f], phase'[f] = phase[f], link'[f] = link[f],
           \A o : Sent(f, o) => Sent(f, o)' \/ o \in stored',
           \/ /\ inbox'[f] = inbox[f]
              /\ phase[f] = "open" /\ InRoom(f)' => InRoom(f) /\ stored' \subseteq stored \cup doc[f]
           \/ \E r : /\ Pushed(inbox'[f], inbox[f], r) /\ r.ops \subseteq stored'
                     /\ (InRoom(f) /\ stored' \subseteq stored \cup r.ops) \/ stored' \subseteq r.ops
    PROVE  (Arrived(f) /\ Complete(f) /\ Own(f))'
<1>1. Own(f)'
  BY DEF Own
<1>2. CASE /\ inbox'[f] = inbox[f]
           /\ phase[f] = "open" /\ InRoom(f)' => InRoom(f) /\ stored' \subseteq stored \cup doc[f]
  <2>1. \A o : Coming(f, o) => Coming(f, o)'
    BY <1>2 DEF Coming
  <2>2. Complete(f)'
    BY <1>2, <2>1 DEF Complete
  <2>3. Arrived(f)'
    BY <1>2 DEF Arrived
  <2> QED BY <1>1, <2>2, <2>3
<1>3. ASSUME NEW r, Pushed(inbox'[f], inbox[f], r), r.ops \subseteq stored',
             (InRoom(f) /\ stored' \subseteq stored \cup r.ops) \/ stored' \subseteq r.ops
      PROVE  (Arrived(f) /\ Complete(f))'
  <2>1. \A o : Coming(f, o)' <=> Coming(f, o) \/ o \in r.ops
    BY <1>3, PushedComing
  <2>2. Complete(f)'
    BY <1>3, <2>1 DEF Complete
  <2>3. \A S : (\A i \in At(inbox[f]) : inbox[f][i].ops \subseteq S) /\ r.ops \subseteq S =>
                 \A i \in At(inbox'[f]) : inbox'[f][i].ops \subseteq S
    BY <1>3, PushedComing
  <2>4. \A i \in At(inbox[f]) : inbox[f][i].ops \subseteq stored'
    BY DEF Arrived
  <2>5. \A i \in At(inbox'[f]) : inbox'[f][i].ops \subseteq stored'
    BY <1>3, <2>3, <2>4
  <2> QED BY <2>2, <2>5 DEF Arrived
<1> QED BY <1>1, <1>2, <1>3

LEMMA JoinsRelayed ==
    ASSUME Typing, Typing', Connected, Relayed, NEW e \in Editor, NEW m, Joins(e, m)
    PROVE  Relayed'
<1>1. /\ UNCHANGED <<stored, doc, phase, link>> /\ m = out[e][1] /\ Takes(e) /\ m.type = "join"
      /\ \A f \in Editor : f # e => inbox'[f] = inbox[f] /\ out'[f] = out[f]
  BY DEF Joins, Serves, editor, Takes
<1>2. m.ops = {}
  BY <1>1, TypingFacts, PoppedAt DEF Connected, Queued, Takes
<1>3. \A o : Sent(e, o) => Sent(e, o)'
  BY <1>1, <1>2, TakenSent
<1>4. (Arrived(e) /\ Complete(e) /\ Own(e))'
  <2>1. Arrived(e) /\ Complete(e) /\ Own(e)
    BY DEF Relayed
  <2>2. CASE phase[e] = "open"
    <3>1. PICK r : r.ops = stored /\ Pushed(inbox'[e], inbox[e], r)
      BY <2>2 DEF Joins
    <3> QED BY <1>1, <1>3, <2>1, <3>1, GrownRelayed
  <2>3. CASE phase[e] # "open"
    <3>1. inbox'[e] = inbox[e]
      BY <2>3 DEF Joins
    <3> QED BY <1>1, <1>3, <2>1, <2>3, <3>1, GrownRelayed
  <2> QED BY <2>2, <2>3
<1>5. ASSUME NEW f \in Editor, f # e PROVE (Arrived(f) /\ Complete(f) /\ Own(f))'
  <2>1. InRoom(f)' => InRoom(f)
    BY <1>1, <1>5 DEF Joins, InRoom, Connection, Typing, Control
  <2>2. \A o : Sent(f, o) => Sent(f, o)'
    BY <1>1, <1>5 DEF Sent
  <2> QED BY <1>1, <1>5, <2>1, <2>2, KeptRelayed DEF Relayed
<1> QED BY <1>4, <1>5 DEF Relayed

\* Who is in the room and open is reached.
LEMMA RoomReaches ==
    ASSUME Connected, NEW f \in Editor, phase[f] = "open", InRoom(f)
    PROVE  Reaches(f)
  BY DEF Connected, Linked, Reaches

LEMMA InitializesRelayed ==
    ASSUME Typing, Typing', Connected, Relayed, NEW e \in Editor, NEW m, Initializes(e, m)
    PROVE  Relayed'
<1>1. /\ UNCHANGED <<doc, phase, link, room>> /\ m = out[e][1] /\ Takes(e) /\ m.type = "seed" /\ InRoom(e)
      /\ \A f \in Editor : f # e => out'[f] = out[f]
      /\ stored' = IF stored = {} THEN m.ops ELSE stored
      /\ stored \subseteq stored'
  BY DEF Initializes, Serves, editor, Takes, Typing, Control
<1>2. \A f \in Editor : (InRoom(f)' <=> InRoom(f)) /\ Arrived(f) /\ Complete(f) /\ Own(f)
  BY <1>1 DEF InRoom, Connection, Relayed
<1>3. \A o : Sent(e, o) => Sent(e, o)'
  BY <1>1, TakenSent
<1>4. (Arrived(e) /\ Complete(e) /\ Own(e))'
  <2>2. CASE phase[e] = "open"
    <3>1. PICK r : r.ops = stored' /\ Pushed(inbox'[e], inbox[e], r)
      BY <2>2 DEF Initializes
    <3> QED BY <1>1, <1>2, <1>3, <3>1, GrownRelayed
  <2>3. CASE phase[e] # "open"
    <3>1. inbox'[e] = inbox[e]
      BY <2>3 DEF Initializes
    <3> QED BY <1>1, <1>2, <1>3, <2>3, <3>1, GrownRelayed
  <2> QED BY <2>2, <2>3
<1>5. ASSUME NEW f \in Editor, f # e PROVE (Arrived(f) /\ Complete(f) /\ Own(f))'
  <2>1. \A o : Sent(f, o) => Sent(f, o)'
    BY <1>1, <1>5 DEF Sent
  <2>2. CASE stored # {} \/ ~Reaches(f)
    <3>1. inbox'[f] = inbox[f]
      BY <1>5, <2>2 DEF Initializes
    <3>2. phase[f] = "open" /\ InRoom(f) => stored' = stored
      BY <1>1, <2>2, RoomReaches
    <3> QED BY <1>1, <1>2, <2>1, <3>1, <3>2, GrownRelayed
  <2>3. CASE stored = {} /\ Reaches(f)
    <3>1. PICK r : r.ops = m.ops /\ Pushed(inbox'[f], inbox[f], r)
      BY <1>5, <2>3 DEF Initializes
    <3>2. r.ops = stored'
      BY <1>1, <2>3, <3>1
    <3> QED BY <1>1, <1>2, <2>1, <3>1, <3>2, GrownRelayed
  <2> QED BY <2>2, <2>3
<1> QED BY <1>4, <1>5 DEF Relayed

LEMMA UpdatesRelayed ==
    ASSUME Typing, Typing', Connected, Relayed, NEW e \in Editor, NEW m, Updates(e, m)
    PROVE  Relayed'
<1>1. /\ UNCHANGED <<doc, phase, link, room>> /\ m = out[e][1] /\ Takes(e) /\ InRoom(e)
      /\ m.type \in {"edit", "resync", "snapshot"}
      /\ \A f \in Editor : f # e => out'[f] = out[f]
      /\ stored' = stored \cup m.ops /\ inbox'[e] = inbox[e]
      /\ stored \subseteq stored'
  BY DEF Updates, Serves, editor, Takes, Typing, Control
<1>2. \A f \in Editor : (InRoom(f)' <=> InRoom(f)) /\ Arrived(f) /\ Complete(f) /\ Own(f)
  BY <1>1 DEF InRoom, Connection, Relayed
<1>3. \A o : Sent(e, o) => Sent(e, o)' \/ o \in stored'
  BY <1>1, TakenSent
<1>4. (Arrived(e) /\ Complete(e) /\ Own(e))'
  <2>1. phase[e] = "open" => m.ops \subseteq doc[e]
    BY <1>1, TypingFacts, PoppedAt DEF Connected, Queued, Takes
  <2> QED BY <1>1, <1>2, <1>3, <2>1, GrownRelayed
<1>5. ASSUME NEW f \in Editor, f # e PROVE (Arrived(f) /\ Complete(f) /\ Own(f))'
  <2>1. \A o : Sent(f, o) => Sent(f, o)'
    BY <1>1, <1>5 DEF Sent
  <2>2. CASE m.ops = {} \/ ~Reaches(f)
    <3>1. inbox'[f] = inbox[f]
      BY <1>5, <2>2 DEF Updates
    <3>2. phase[f] = "open" /\ InRoom(f) => stored' = stored
      BY <1>1, <2>2, RoomReaches
    <3> QED BY <1>1, <1>2, <2>1, <3>1, <3>2, GrownRelayed
  <2>3. CASE m.ops # {} /\ Reaches(f)
    <3>1. PICK r : r.ops = m.ops /\ Pushed(inbox'[f], inbox[f], r)
      BY <1>5, <2>3 DEF Updates
    <3>2. InRoom(f)
      BY <2>3 DEF Reaches
    <3>3. r.ops \subseteq stored' /\ stored' \subseteq stored \cup r.ops
      BY <1>1, <3>1
    <3> QED BY <1>1, <1>2, <2>1, <3>1, <3>2, <3>3, GrownRelayed
  <2> QED BY <2>2, <2>3
<1> QED BY <1>4, <1>5 DEF Relayed

\* Steps that may clear the document and bring nothing.
LEMMA ClearsRelayed ==
    ASSUME Typing', Connected', Relayed, UNCHANGED <<editor, inbox>>,
           \A f \in Editor : InRoom(f)' => InRoom(f),
           stored' = stored \/ (users' = {} /\ stored' = {}),
           \A f \in Editor : \A o : Sent(f, o) => Sent(f, o)'
    PROVE  Relayed'
<1>1. CASE stored' = stored
  <2>1. ASSUME NEW f \in Editor PROVE (Arrived(f) /\ Complete(f) /\ Own(f))'
    <3>1. /\ doc'[f] = doc[f] /\ inbox'[f] = inbox[f] /\ phase'[f] = phase[f] /\ link'[f] = link[f]
          /\ InRoom(f)' => InRoom(f)
      BY DEF editor
    <3> QED BY <1>1, <3>1, KeptRelayed DEF Relayed
  <2> QED BY <2>1 DEF Relayed
<1> QED BY <1>1, ClearedRelayed

LEMMA LeavesRelayed ==
    ASSUME Typing, Typing', Connected, Connected', Relayed, NEW e \in Editor, NEW m, Leaves(e, m)
    PROVE  Relayed'
<1>1. /\ m = out[e][1] /\ Takes(e) /\ m.type = "leave" /\ UNCHANGED <<editor, inbox>>
      /\ \A f \in Editor : f # e => out'[f] = out[f]
      /\ stored' = stored \/ (users' = {} /\ stored' = {})
      /\ \A f \in Editor : InRoom(f)' => InRoom(f)
  BY DEF Leaves, Serves, Forgets, Takes, Typing, Control, editor, InRoom, Connection
<1>2. m.ops = {}
  BY <1>1, TypingFacts, PoppedAt DEF Connected, Queued, Takes
<1>3. \A o : Sent(e, o) => Sent(e, o)'
  BY <1>1, <1>2, TakenSent
<1>4. \A f \in Editor : \A o : Sent(f, o) => Sent(f, o)'
  BY <1>1, <1>3 DEF Sent
<1> QED BY <1>1, <1>4, ClearsRelayed

LEMMA DisconnectsRelayed ==
    ASSUME Typing, Typing', Connected', Relayed, NEW e \in Editor, NEW n, Disconnects(e, n)
    PROVE  Relayed'
<1>1. /\ UNCHANGED <<editor, inbox, out>>
      /\ stored' = stored \/ (users' = {} /\ stored' = {})
      /\ \A f \in Editor : InRoom(f)' => InRoom(f)
  BY DEF Disconnects, Forgets, Typing, Control, editor, InRoom, Connection
<1>2. \A f \in Editor : \A o : Sent(f, o) => Sent(f, o)'
  BY <1>1 DEF Sent
<1> QED BY <1>1, <1>2, ClearsRelayed

LEMMA SavesRelayed ==
    ASSUME Typing, Typing', Connected', Relayed, Saves \/ SavesStopped
    PROVE  Relayed'
<1>1. /\ UNCHANGED <<editor, inbox, out, room, users>>
      /\ stored' = stored \/ (users' = {} /\ stored' = {})
      /\ \A f \in Editor : InRoom(f)' => InRoom(f)
  BY DEF Saves, SavesStopped, SavesText, editor, InRoom, Connection
<1>2. \A f \in Editor : \A o : Sent(f, o) => Sent(f, o)'
  BY <1>1 DEF Sent
<1> QED BY <1>1, <1>2, ClearsRelayed

LEMMA RelayedInit == Init => Relayed
  BY DEF Init, Relayed, Arrived, Complete, Own, At

LEMMA RelayedStep ==
    ASSUME Typing, Typing', Connected, Connected', Relayed, [Next]_vars
    PROVE  Relayed'
<1>1. CASE UNCHANGED vars
  BY <1>1 DEF Relayed, Arrived, Complete, Own, Coming, Sent, InRoom, Connection, vars, server, editor
<1>2. ASSUME NEW e \in Editor, Open(e) PROVE Relayed'
  BY <1>2, OpenDoes, ConnectsRelayed
<1>3. ASSUME NEW e \in Editor, Reconnect(e) PROVE Relayed'
  BY <1>3, ReconnectDoes, ConnectsRelayed
<1>4. ASSUME NEW e \in Editor, Type(e) PROVE Relayed'
  BY <1>4, TypeDoes, TypesRelayed
<1>5. ASSUME NEW e \in Editor, SendSnapshot(e) PROVE Relayed'
  BY <1>5, SendSnapshotDoes, SnapsRelayed
<1>6. ASSUME NEW e \in Editor, Close(e) PROVE Relayed'
  BY <1>6, CloseDoes, ClosesRelayed
<1>7. ASSUME NEW e \in Editor, Drop(e) PROVE Relayed'
  BY <1>7, DropDoes, LosesRelayed
<1>8. ASSUME NEW e \in Editor, Receive(e) PROVE Relayed'
  BY <1>8, ReceiveDoes, HearsRelayed
<1>9. ASSUME NEW e \in Editor, Join(e) PROVE Relayed'
  BY <1>9, JoinDoes, JoinsRelayed
<1>10. ASSUME NEW e \in Editor, Initialize(e) PROVE Relayed'
  BY <1>10, InitializeDoes, InitializesRelayed
<1>11. ASSUME NEW e \in Editor, Update(e) PROVE Relayed'
  BY <1>11, UpdateDoes, UpdatesRelayed
<1>12. ASSUME NEW e \in Editor, Leave(e) PROVE Relayed'
  BY <1>12, LeaveDoes, LeavesRelayed
<1>13. ASSUME NEW e \in Editor, NEW n \in 1..link[e], Disconnect(e, n) PROVE Relayed'
  BY <1>13, DisconnectDoes, DisconnectsRelayed
<1>14. CASE Save
  BY <1>14, SaveDoes, SavesRelayed
<1>15. CASE SaveStopped
  BY <1>15, SaveStoppedDoes, SavesRelayed
<1> QED
  BY <1>1, <1>2, <1>3, <1>4, <1>5, <1>6, <1>7, <1>8, <1>9, <1>10, <1>11, <1>12, <1>13, <1>14, <1>15
     DEF Next, Serve

\* What the next properties rest on.
Inv == Typing /\ Connected /\ Relayed

LEMMA InvInit == Init => Inv
  BY TypingInit, ConnectedInit, RelayedInit DEF Inv

LEMMA InvStep == Inv /\ [Next]_vars => Inv'
  BY TypingStep, ConnectedStep, RelayedStep DEF Inv

-----------------------------------------------------------------------------
(* What a step may do, whichever it is.                                    *)

Answers(e, m) ==
    Hears(e, m) /\ (HearsUpdate(e, m) \/ HearsState(e, m) \/ Seeds(e, m) \/ Resyncs(e, m) \/ HearsSeeded(e, m))

Steps == \/ UNCHANGED vars
         \/ \E e \in Editor :
              \/ Connects(e) /\ (phase[e] = "new" \/ (phase[e] = "open" /\ ~online[e]))
              \/ \E w, needs : Types(e, w, needs)
              \/ Snaps(e) \/ Closes(e) \/ Loses(e)
              \/ \E m : \/ Answers(e, m) \/ Joins(e, m) \/ Initializes(e, m)
                        \/ Updates(e, m) \/ Leaves(e, m)
              \/ \E n \in Nat : n # 0 /\ Disconnects(e, n)
         \/ Saves \/ SavesStopped

LEMMA NextSteps == Typing /\ [Next]_vars => Steps
<1> SUFFICES ASSUME Typing, [Next]_vars PROVE Steps
  OBVIOUS
<1>1. CASE UNCHANGED vars
  BY <1>1 DEF Steps
<1>2. ASSUME NEW e \in Editor, Open(e) PROVE Steps
  BY <1>2, OpenDoes DEF Steps
<1>3. ASSUME NEW e \in Editor, Reconnect(e) PROVE Steps
  BY <1>3, ReconnectDoes DEF Steps
<1>4. ASSUME NEW e \in Editor, Type(e) PROVE Steps
  BY <1>4, TypeDoes DEF Steps
<1>5. ASSUME NEW e \in Editor, SendSnapshot(e) PROVE Steps
  BY <1>5, SendSnapshotDoes DEF Steps
<1>6. ASSUME NEW e \in Editor, Close(e) PROVE Steps
  BY <1>6, CloseDoes DEF Steps
<1>7. ASSUME NEW e \in Editor, Drop(e) PROVE Steps
  BY <1>7, DropDoes DEF Steps
<1>8. ASSUME NEW e \in Editor, Receive(e) PROVE Steps
  BY <1>8, ReceiveDoes DEF Steps, Answers
<1>9. ASSUME NEW e \in Editor, Join(e) PROVE Steps
  BY <1>9, JoinDoes DEF Steps
<1>10. ASSUME NEW e \in Editor, Initialize(e) PROVE Steps
  BY <1>10, InitializeDoes DEF Steps
<1>11. ASSUME NEW e \in Editor, Update(e) PROVE Steps
  BY <1>11, UpdateDoes DEF Steps
<1>12. ASSUME NEW e \in Editor, Leave(e) PROVE Steps
  BY <1>12, LeaveDoes DEF Steps
<1>13. ASSUME NEW e \in Editor, NEW n \in 1..link[e], Disconnect(e, n) PROVE Steps
  BY <1>13, DisconnectDoes DEF Steps
<1>14. CASE Save
  BY <1>14, SaveDoes DEF Steps
<1>15. CASE SaveStopped
  BY <1>15, SaveStoppedDoes DEF Steps
<1> QED
  BY <1>1, <1>2, <1>3, <1>4, <1>5, <1>6, <1>7, <1>8, <1>9, <1>10, <1>11, <1>12, <1>13, <1>14, <1>15
     DEF Next, Serve

\* Connections that are lost stay lost; editors are new once and stay closed.
LEMMA NoWayBack ==
    ASSUME Connected, Steps, NEW f \in Editor
    PROVE  /\ link'[f] = 1 => link[f] = 1
           /\ phase'[f] = "new" => phase[f] = "new"
           /\ phase[f] = "closed" => phase'[f] = "closed"
<1> DEFINE Goal == /\ link'[f] = 1 => link[f] = 1
                   /\ phase'[f] = "new" => phase[f] = "new"
                   /\ phase[f] = "closed" => phase'[f] = "closed"
<1>1. ASSUME UNCHANGED vars PROVE Goal
  BY <1>1 DEF vars, editor
<1>2. ASSUME NEW e \in Editor,
             \/ Connects(e) /\ (phase[e] = "new" \/ (phase[e] = "open" /\ ~online[e]))
             \/ (\E w, needs : Types(e, w, needs)) \/ Snaps(e) \/ Closes(e)
      PROVE  Goal
  BY <1>2 DEF Connects, Types, Snaps, Closes, Others
<1>3. ASSUME NEW e \in Editor, Loses(e)
      PROVE  Goal
  BY <1>3 DEF Loses, Others, Connected, Linked
<1>4. ASSUME NEW e \in Editor, NEW m, Answers(e, m)
      PROVE  Goal
  BY <1>4 DEF Answers, Hears
<1>5. ASSUME UNCHANGED editor
      PROVE  Goal
  BY <1>5 DEF editor
<1>6. ASSUME NEW e \in Editor, NEW m,
             Joins(e, m) \/ Initializes(e, m) \/ Updates(e, m) \/ Leaves(e, m)
      PROVE  UNCHANGED editor
  BY <1>6 DEF Joins, Initializes, Updates, Leaves, Serves
<1>7. ASSUME NEW e \in Editor, NEW n \in Nat, Disconnects(e, n) PROVE UNCHANGED editor
  BY <1>7 DEF Disconnects, Forgets
<1>8. Saves \/ SavesStopped => UNCHANGED editor
  BY DEF Saves, SavesStopped
<1> HIDE DEF Goal
<1>9. Goal
  BY <1>1, <1>2, <1>3, <1>4, <1>5, <1>6, <1>7, <1>8 DEF Steps
<1> QED BY <1>9 DEF Goal

\* A message that editor f writes in a step.
Writes(f, m) ==
    \/ m.type \in {"join", "snapshot", "leave"} /\ m.ops = {}
    \/ m.type = "edit" /\ online[f] /\ \E w, needs : Types(f, w, needs) /\ m.ops = {Typed(f, w, needs)}
    \/ m.type = "seed" /\ \E o : m.ops = {o} /\ o.needs = {}
    \/ m.type = "resync" /\ \E r : Hears(f, r) /\ Resyncs(f, r)

OldOrNew(f) ==
    \A i \in At(out'[f]) : \/ \E j \in At(out[f]) : out'[f][i] = out[f][j]
                           \/ Writes(f, out'[f][i])

LEMMA OutStays ==
    ASSUME NEW f \in Editor, out'[f] = out[f]
    PROVE  OldOrNew(f)
  BY DEF OldOrNew

LEMMA OutPushed ==
    ASSUME Typing, NEW f \in Editor, NEW m, Pushed(out'[f], out[f], m), Writes(f, m)
    PROVE  OldOrNew(f)
<1>1. Len(out[f]) \in Nat
  BY TypingFacts
<1>2. \A i \in At(out'[f]) : \/ i \in At(out[f]) /\ out'[f][i] = out[f][i]
                             \/ i = Len(out[f]) + 1 /\ out'[f][i] = m
  BY <1>1, PushedAt
<1> QED BY <1>2 DEF OldOrNew

LEMMA OutPopped ==
    ASSUME Typing, Typing', NEW f \in Editor, Popped(out'[f], out[f])
    PROVE  OldOrNew(f)
<1>1. Len(out[f]) \in Nat /\ Len(out'[f]) \in Nat
  BY TypingFacts
<1>2. \A i \in At(out'[f]) : i + 1 \in At(out[f]) /\ out'[f][i] = out[f][i + 1]
  BY <1>1, PoppedAt
<1> QED BY <1>2 DEF OldOrNew

LEMMA NewMessages ==
    ASSUME Typing, Typing', Steps, NEW f \in Editor
    PROVE  OldOrNew(f)
<1>1. CASE UNCHANGED vars
  BY <1>1, OutStays DEF vars
<1>2. ASSUME NEW e \in Editor, Connects(e) PROVE OldOrNew(f)
  <2>1. PICK m : m.type = "join" /\ m.ops = {} /\ Puts(e, m)
    BY <1>2 DEF Connects
  <2>2. CASE e = f
    BY <2>1, <2>2, OutPushed DEF Puts, Writes
  <2> QED BY <2>1, <2>2, OutStays DEF Puts
<1>3. ASSUME NEW e \in Editor, NEW w, NEW needs, Types(e, w, needs) PROVE OldOrNew(f)
  <2>1. CASE online[e]
    <3>1. PICK m : m.type = "edit" /\ m.ops = {Typed(e, w, needs)} /\ Puts(e, m)
      BY <1>3, <2>1 DEF Types
    <3>2. CASE e = f
      BY <1>3, <2>1, <3>1, <3>2, OutPushed DEF Puts, Writes
    <3> QED BY <3>1, <3>2, OutStays DEF Puts
  <2> QED BY <1>3, <2>1, OutStays DEF Types
<1>4. ASSUME NEW e \in Editor, Snaps(e) PROVE OldOrNew(f)
  <2>1. CASE online[e]
    <3>1. PICK m : m.type = "snapshot" /\ m.ops = {} /\ Puts(e, m)
      BY <1>4, <2>1 DEF Snaps
    <3>2. CASE e = f
      BY <3>1, <3>2, OutPushed DEF Puts, Writes
    <3> QED BY <3>1, <3>2, OutStays DEF Puts
  <2> QED BY <1>4, <2>1, OutStays DEF Snaps
<1>5. ASSUME NEW e \in Editor, Closes(e) PROVE OldOrNew(f)
  <2>1. CASE e = f /\ online[e]
    <3>1. PICK q, l : /\ l.type = "leave" /\ l.ops = {} /\ Pushed(out'[e], q, l)
                      /\ ~timer[e] => q = out[e]
                      /\ timer[e] => \E m : /\ m.type = "snapshot" /\ m.ops = {}
                                            /\ Pushed(q, out[e], m)
                      /\ Len(q) \in Nat
      BY <1>5, <2>1 DEF Closes
    <3>2. CASE ~timer[e]
      BY <2>1, <3>1, <3>2, OutPushed DEF Writes
    <3>3. CASE timer[e]
      <4>1. PICK m : m.type = "snapshot" /\ m.ops = {} /\ Pushed(q, out[e], m)
        BY <3>1, <3>3
      <4>2. Len(out[e]) \in Nat
        BY TypingFacts
      <4>3. \A i \in At(out'[e]) :
              (i \in At(q) /\ out'[e][i] = q[i]) \/ out'[e][i] = l
        BY <3>1, PushedAt
      <4>4. \A i \in At(q) :
              (i \in At(out[e]) /\ q[i] = out[e][i]) \/ q[i] = m
        BY <4>1, <4>2, PushedAt
      <4>5. Writes(e, l) /\ Writes(e, m)
        BY <3>1, <4>1 DEF Writes
      <4>6. OldOrNew(e)
        BY <4>3, <4>4, <4>5 DEF OldOrNew
      <4> QED BY <2>1, <4>6
    <3> QED BY <3>2, <3>3
  <2> QED BY <1>5, <2>1, OutStays DEF Closes
<1>6. ASSUME NEW e \in Editor, Loses(e) PROVE OldOrNew(f)
  BY <1>6, OutStays DEF Loses, OldOrNew, At
<1>7. ASSUME NEW e \in Editor, NEW r, Answers(e, r) PROVE OldOrNew(f)
  <2>1. CASE HearsUpdate(e, r) \/ HearsState(e, r)
    BY <2>1, OutStays DEF HearsUpdate, HearsState
  <2>2. CASE Seeds(e, r)
    <3>1. PICK s, o : s.type = "seed" /\ s.ops = {o} /\ o.needs = {} /\ Puts(e, s)
      BY <2>2 DEF Seeds
    <3>2. CASE e = f
      BY <3>1, <3>2, OutPushed DEF Puts, Writes
    <3> QED BY <3>1, <3>2, OutStays DEF Puts
  <2>3. CASE Resyncs(e, r)
    <3>1. PICK s : s.type = "resync" /\ Puts(e, s)
      BY <2>3 DEF Resyncs
    <3>2. CASE e = f
      <4>1. Hears(e, r)
        BY <1>7 DEF Answers
      <4>2. Writes(e, s)
        BY <2>3, <3>1, <4>1 DEF Writes
      <4> QED BY <3>1, <3>2, <4>2, OutPushed DEF Puts
    <3> QED BY <3>1, <3>2, OutStays DEF Puts
  <2>4. CASE HearsSeeded(e, r)
    <3>1. CASE ~timer[e]
      <4>1. PICK s : s.type = "snapshot" /\ s.ops = {} /\ Puts(e, s)
        BY <2>4, <3>1 DEF HearsSeeded
      <4>2. CASE e = f
        BY <4>1, <4>2, OutPushed DEF Puts, Writes
      <4> QED BY <4>1, <4>2, OutStays DEF Puts
    <3> QED BY <2>4, <3>1, OutStays DEF HearsSeeded
  <2> QED BY <1>7, <2>1, <2>2, <2>3, <2>4 DEF Answers
<1>8. ASSUME NEW e \in Editor, Takes(e) PROVE OldOrNew(f)
  BY <1>8, OutStays, OutPopped DEF Takes
<1>9. ASSUME NEW e \in Editor, NEW m,
             Joins(e, m) \/ Initializes(e, m) \/ Updates(e, m) \/ Leaves(e, m)
      PROVE  Takes(e)
  BY <1>9 DEF Joins, Initializes, Updates, Leaves, Serves
<1>10. ASSUME NEW e \in Editor, NEW n \in Nat, Disconnects(e, n) PROVE OldOrNew(f)
  BY <1>10, OutStays DEF Disconnects
<1>11. Saves \/ SavesStopped => OldOrNew(f)
  BY OutStays DEF Saves, SavesStopped
<1> QED BY <1>1, <1>2, <1>3, <1>4, <1>5, <1>6, <1>7, <1>8, <1>9, <1>10, <1>11 DEF Steps

\* Where what is stored comes from; it is only lost when nobody is left.
LEMMA NewStored ==
    ASSUME Typing, Typing', Steps
    PROVE  /\ \A o \in stored' : \/ o \in stored \/ \E e \in Editor : Sent(e, o)
                                 \/ stored = {} /\ \E e \in Editor : \E m : Initializes(e, m) /\ o \in m.ops
           /\ stored # {} /\ stored' = {} => users' = {}
<1> DEFINE Goal == /\ \A o \in stored' :
                        \/ o \in stored \/ \E e \in Editor : Sent(e, o)
                        \/ stored = {} /\ \E e \in Editor : \E m : Initializes(e, m) /\ o \in m.ops
                   /\ stored # {} /\ stored' = {} => users' = {}
<1>1. ASSUME stored' = stored \/ (users' = {} /\ stored' = {}) PROVE Goal
  BY <1>1
<1>2. UNCHANGED vars => stored' = stored
  BY DEF vars, server
<1>3. ASSUME NEW e \in Editor,
             Connects(e) \/ (\E w, needs : Types(e, w, needs)) \/ Snaps(e) \/ Closes(e) \/ Loses(e)
      PROVE  stored' = stored
  BY <1>3 DEF Connects, Types, Snaps, Closes, Loses, server
<1>4. ASSUME NEW e \in Editor, NEW m, Answers(e, m) \/ Joins(e, m) PROVE stored' = stored
  BY <1>4 DEF Answers, Hears, Joins, server
<1>5. ASSUME NEW e \in Editor, NEW m, Initializes(e, m) PROVE Goal
  <2>1. stored' = IF stored = {} THEN m.ops ELSE stored
    BY <1>5 DEF Initializes
  <2>2. m.ops # {}
    BY <1>5 DEF Initializes
  <2> QED BY <1>5, <2>1, <2>2
<1>6. ASSUME NEW e \in Editor, NEW m, Updates(e, m) PROVE Goal
  <2>1. stored' = stored \cup m.ops /\ m.type # "seed" /\ Takes(e) /\ m = out[e][1]
    BY <1>6 DEF Updates, Serves
  <2>2. \A o \in m.ops : Sent(e, o)
    BY <2>1, TakenSent
  <2> QED BY <2>1, <2>2
<1>7. ASSUME NEW e \in Editor, NEW m, Leaves(e, m) PROVE Goal
  BY <1>1, <1>7 DEF Leaves, Forgets
<1>8. ASSUME NEW e \in Editor, NEW n \in Nat, Disconnects(e, n) PROVE Goal
  BY <1>1, <1>8 DEF Disconnects, Forgets
<1>9. Saves \/ SavesStopped => Goal
  <2>1. Saves \/ SavesStopped => stored' = stored \/ (users' = {} /\ stored' = {})
    BY DEF Saves, SavesStopped, SavesText
  <2> QED BY <1>1, <2>1
<1> HIDE DEF Goal
<1>10. Goal
  BY <1>1, <1>2, <1>3, <1>4, <1>5, <1>6, <1>7, <1>8, <1>9 DEF Steps
<1> QED BY <1>10 DEF Goal

\* What an editor asked for and what it knows stays as it is, or it acts.
Rests(f) ==
    /\ \A i \in At(inbox'[f]) : inbox'[f][i].type = "state" =>
         i \in At(inbox[f]) /\ inbox[f][i].type = "state"
    /\ doc'[f] = doc[f] /\ synced'[f] = synced[f]
Life(f) ==
    \/ Rests(f)
    \/ Len(inbox'[f]) = 0 /\ ~synced'[f]
    \/ \E w, needs : Types(f, w, needs)
    \/ \E m : Answers(f, m) \/ Joins(f, m)

LEMMA RestsSame ==
    ASSUME NEW f \in Editor, inbox'[f] = inbox[f], doc'[f] = doc[f], synced'[f] = synced[f]
    PROVE  Rests(f)
  BY DEF Rests

LEMMA RestsPushed ==
    ASSUME Typing, NEW f \in Editor, NEW r, Pushed(inbox'[f], inbox[f], r), r.type # "state",
           doc'[f] = doc[f], synced'[f] = synced[f]
    PROVE  Rests(f)
<1>1. Len(inbox[f]) \in Nat
  BY TypingFacts
<1>2. \A i \in At(inbox'[f]) : \/ i \in At(inbox[f]) /\ inbox'[f][i] = inbox[f][i]
                               \/ i = Len(inbox[f]) + 1 /\ inbox'[f][i] = r
  BY <1>1, PushedAt
<1> QED BY <1>2 DEF Rests

LEMMA Lives ==
    ASSUME Typing, Steps, NEW f \in Editor
    PROVE  Life(f)
<1>1. CASE UNCHANGED vars
  BY <1>1, RestsSame DEF vars, editor, Life
<1>2. ASSUME NEW e \in Editor, Connects(e) \/ Snaps(e) PROVE Life(f)
  BY <1>2, RestsSame DEF Connects, Snaps, Others, Life
<1>3. ASSUME NEW e \in Editor, NEW w, NEW needs, Types(e, w, needs) PROVE Life(f)
  <2>1. CASE e # f
    <3>1. inbox'[f] = inbox[f] /\ doc'[f] = doc[f] /\ synced'[f] = synced[f]
      BY <1>3, <2>1 DEF Types, Others
    <3> QED BY <3>1, RestsSame DEF Life
  <2> QED BY <1>3, <2>1 DEF Life
<1>4. ASSUME NEW e \in Editor, Closes(e) \/ Loses(e) PROVE Life(f)
  <2>1. CASE e # f
    <3>1. inbox'[f] = inbox[f] /\ doc'[f] = doc[f] /\ synced'[f] = synced[f]
      BY <1>4, <2>1 DEF Closes, Loses, Others
    <3> QED BY <3>1, RestsSame DEF Life
  <2>2. CASE e = f
    <3>1. inbox'[f] = <<>> /\ synced'[f] = FALSE
      BY <1>4, <2>2 DEF Closes, Loses
    <3> QED BY <3>1 DEF Life
  <2> QED BY <2>1, <2>2
<1>5. ASSUME NEW e \in Editor, NEW m, Answers(e, m) PROVE Life(f)
  <2>1. CASE e # f
    <3>1. inbox'[f] = inbox[f] /\ doc'[f] = doc[f] /\ synced'[f] = synced[f]
      BY <1>5, <2>1 DEF Answers, Hears
    <3> QED BY <3>1, RestsSame DEF Life
  <2> QED BY <1>5, <2>1 DEF Life
<1>6. ASSUME NEW e \in Editor, NEW m, Joins(e, m) PROVE Life(f)
  <2>1. CASE e # f
    <3>1. inbox'[f] = inbox[f] /\ doc'[f] = doc[f] /\ synced'[f] = synced[f]
      BY <1>6, <2>1 DEF Joins, Serves, editor
    <3> QED BY <3>1, RestsSame DEF Life
  <2> QED BY <1>6, <2>1 DEF Life
<1>7. ASSUME NEW e \in Editor, NEW m, Initializes(e, m) PROVE Life(f)
  <2>1. doc'[f] = doc[f] /\ synced'[f] = synced[f]
    BY <1>7 DEF Initializes, Serves, editor
  <2>2. inbox'[f] = inbox[f] \/ \E r : r.type # "state" /\ Pushed(inbox'[f], inbox[f], r)
    BY <1>7 DEF Initializes
  <2> QED BY <2>1, <2>2, RestsSame, RestsPushed DEF Life
<1>8. ASSUME NEW e \in Editor, NEW m, Updates(e, m) PROVE Life(f)
  <2>1. doc'[f] = doc[f] /\ synced'[f] = synced[f]
    BY <1>8 DEF Updates, Serves, editor
  <2>2. inbox'[f] = inbox[f] \/ \E r : r.type # "state" /\ Pushed(inbox'[f], inbox[f], r)
    BY <1>8 DEF Updates
  <2> QED BY <2>1, <2>2, RestsSame, RestsPushed DEF Life
<1>9. ASSUME UNCHANGED <<editor, inbox>> PROVE Life(f)
  BY <1>9, RestsSame DEF Life, editor
<1>10. ASSUME NEW e \in Editor, NEW m, Leaves(e, m) PROVE UNCHANGED <<editor, inbox>>
  BY <1>10 DEF Leaves, Forgets
<1>11. ASSUME NEW e \in Editor, NEW n \in Nat, Disconnects(e, n) PROVE UNCHANGED <<editor, inbox>>
  BY <1>11 DEF Disconnects, Forgets
<1>12. Saves \/ SavesStopped => UNCHANGED <<editor, inbox>>
  BY DEF Saves, SavesStopped
<1> QED BY <1>1, <1>2, <1>3, <1>4, <1>5, <1>6, <1>7, <1>8, <1>9, <1>10, <1>11, <1>12 DEF Steps

-----------------------------------------------------------------------------
(* Every seed is one operation, that needs nothing.                        *)

Rooted == \A e \in Editor : \A i \in At(out[e]) :
              out[e][i].type = "seed" => \E o : out[e][i].ops = {o} /\ o.needs = {}

LEMMA RootedInit == Init => Rooted
  BY DEF Init, Rooted, At

LEMMA RootedStep ==
    ASSUME Typing, Typing', Steps, Rooted
    PROVE  Rooted'
<1> SUFFICES ASSUME NEW e \in Editor, NEW i \in At(out'[e]), out'[e][i].type = "seed"
             PROVE  \E o : out'[e][i].ops = {o} /\ o.needs = {}
  BY DEF Rooted, At
<1>1. ASSUME NEW j \in At(out[e]), out'[e][i] = out[e][j] PROVE \E o : out'[e][i].ops = {o} /\ o.needs = {}
  <2>1. out[e][j].type = "seed"
    BY <1>1
  <2>2. \E o : out[e][j].ops = {o} /\ o.needs = {}
    BY <2>1 DEF Rooted
  <2> QED BY <1>1, <2>2
<1>2. CASE Writes(e, out'[e][i])
  BY <1>2 DEF Writes
<1> QED BY <1>1, <1>2, NewMessages DEF OldOrNew

-----------------------------------------------------------------------------
(* While no connection is lost, nothing stays pending.                     *)

\* What the operations of X need is in Y; what a queue brings up to a place.
Backed(X, Y) == \A o \in X : o.needs \subseteq Ids(Y)
Sofar(q, i) == {o \in UNION {q[j].ops : j \in At(q)} :
                   \E j \in At(q) : j <= i /\ q[j].type # "seed" /\ o \in q[j].ops}

\* Messages bring no operation before those it needs, to who has X.
Lined(q, X) == \A i \in At(q) : q[i].type # "seed" => Backed(q[i].ops, X \cup Sofar(q, i))

\* Editors and server have what the operations need that they have; so have the
\* server and the editors what those need that are on their way to them.
Causal == Unbroken => /\ Backed(stored, stored)
                  /\ \A e \in Editor : /\ Backed(doc[e], doc[e])
                                       /\ Lined(out[e], stored)
                                       /\ Lined(inbox[e], doc[e])

LEMMA BackedMore ==
    ASSUME NEW X, NEW Y, NEW Z, Backed(X, Y), Y \subseteq Z
    PROVE  Backed(X, Z)
<1>1. Ids(Y) \subseteq Ids(Z)
  BY DEF Ids
<1> QED BY <1>1 DEF Backed

LEMMA BackedShown ==
    ASSUME NEW X, Backed(X, X)
    PROVE  Shown(X) = X
  BY DEF Backed, Shown

LEMMA LinedMore ==
    ASSUME NEW q, NEW X, NEW Y, Lined(q, X), X \subseteq Y
    PROVE  Lined(q, Y)
<1> SUFFICES ASSUME NEW i \in At(q), q[i].type # "seed"
             PROVE  Backed(q[i].ops, Y \cup Sofar(q, i))
  BY DEF Lined
<1>1. Backed(q[i].ops, X \cup Sofar(q, i))
  BY DEF Lined
<1> QED BY <1>1, BackedMore

LEMMA LinedPushed ==
    ASSUME NEW r, NEW q, NEW m, NEW X, NEW Y, NEW Z, Len(q) \in Nat, Pushed(r, q, m),
           Lined(q, X), X \subseteq Y,
           m.type = "seed" \/ Backed(m.ops, Z),
           \A o \in Z : o \in Y \/ o \in m.ops \/ \E j \in At(q) : q[j].type # "seed" /\ o \in q[j].ops
    PROVE  Lined(r, Y)
<1>1. /\ \A i \in At(r) : (i \in At(q) /\ r[i] = q[i]) \/ (i = Len(q) + 1 /\ r[i] = m)
      /\ \A i \in At(q) : i \in At(r) /\ r[i] = q[i] /\ i \in Nat /\ i < Len(q) + 1
      /\ Len(q) + 1 \in At(r) /\ Len(q) + 1 \in Nat
  BY PushedAt
<1> SUFFICES ASSUME NEW i \in At(r), r[i].type # "seed"
             PROVE  Backed(r[i].ops, Y \cup Sofar(r, i))
  BY DEF Lined
<1>2. CASE i \in At(q) /\ r[i] = q[i]
  <2>1. Backed(q[i].ops, X \cup Sofar(q, i))
    BY <1>2 DEF Lined
  <2>2. Sofar(q, i) \subseteq Sofar(r, i)
    BY <1>1 DEF Sofar
  <2> QED BY <1>2, <2>1, <2>2, BackedMore
<1>3. CASE i = Len(q) + 1 /\ r[i] = m
  <2>1. Backed(m.ops, Z)
    BY <1>3
  <2>2. ASSUME NEW o \in m.ops PROVE o \in Sofar(r, i)
    BY <1>1, <1>3, <2>2 DEF Sofar
  <2>3. ASSUME NEW o, NEW j \in At(q), q[j].type # "seed", o \in q[j].ops PROVE o \in Sofar(r, i)
    <3>1. j \in At(r) /\ r[j] = q[j] /\ j <= i
      BY <1>1, <1>3
    <3> QED BY <2>3, <3>1 DEF Sofar
  <2>4. Z \subseteq Y \cup Sofar(r, i)
    BY <2>2, <2>3
  <2> QED BY <1>3, <2>1, <2>4, BackedMore
<1> QED BY <1>1, <1>2, <1>3

LEMMA LinedPopped ==
    ASSUME NEW r, NEW q, NEW X, NEW Y, Len(q) \in Nat, Len(r) \in Nat, Popped(r, q),
           Lined(q, X), X \subseteq Y, q[1].type = "seed" \/ q[1].ops \subseteq Y
    PROVE  /\ Lined(r, Y)
           /\ q[1].type # "seed" => Backed(q[1].ops, X \cup q[1].ops)
<1>1. /\ \A i \in At(r) : i \in Nat /\ i + 1 \in At(q) /\ r[i] = q[i + 1]
      /\ \A i \in At(q) : i \in Nat /\ (i = 1 \/ (i - 1 \in At(r) /\ r[i - 1] = q[i]))
      /\ 1 \in At(q)
  BY PoppedAt DEF At
<1>2. ASSUME NEW i \in At(r), r[i].type # "seed"
      PROVE  Backed(r[i].ops, Y \cup Sofar(r, i))
  <2>1. Backed(q[i + 1].ops, X \cup Sofar(q, i + 1))
    BY <1>1, <1>2 DEF Lined
  <2>2. ASSUME NEW o \in Sofar(q, i + 1) PROVE o \in Y \cup Sofar(r, i)
    <3>1. PICK j \in At(q) : j <= i + 1 /\ q[j].type # "seed" /\ o \in q[j].ops
      BY DEF Sofar
    <3>2. CASE j = 1
      BY <3>1, <3>2
    <3>3. CASE j - 1 \in At(r) /\ r[j - 1] = q[j]
      <4>1. j - 1 <= i
        BY <1>1, <3>1
      <4> QED BY <3>1, <3>3, <4>1 DEF Sofar
    <3> QED BY <1>1, <3>2, <3>3
  <2>3. X \cup Sofar(q, i + 1) \subseteq Y \cup Sofar(r, i)
    BY <2>2
  <2> QED BY <1>1, <2>1, <2>3, BackedMore
<1>3. ASSUME q[1].type # "seed" PROVE Backed(q[1].ops, X \cup q[1].ops)
  <2>1. Backed(q[1].ops, X \cup Sofar(q, 1))
    BY <1>1, <1>3 DEF Lined
  <2>2. Sofar(q, 1) \subseteq q[1].ops
    <3>1. \A j \in At(q) : j <= 1 => j = 1
      BY DEF At
    <3> QED BY <3>1 DEF Sofar
  <2> QED BY <2>1, <2>2, BackedMore
<1> QED BY <1>2, <1>3 DEF Lined

\* Messages that bring nothing, and a queue that is empty.
LEMMA LinedNothing ==
    ASSUME NEW r, NEW q, NEW m, NEW X, Len(q) \in Nat, Pushed(r, q, m), Lined(q, X),
           m.type = "seed" \/ m.ops = {}
    PROVE  Lined(r, X)
<1>1. m.ops = {} => Backed(m.ops, {})
  BY DEF Backed
<1> QED BY <1>1, LinedPushed

LEMMA LinedEmpty ==
    ASSUME NEW q, NEW X, \A i \in At(q) : q[i].type # "seed" => q[i].ops = {}
    PROVE  Lined(q, X)
  BY DEF Lined, Backed

\* The steps of an editor that change neither the document on the server nor
\* what the others have, or that clear it.
LEMMA OwnCausal ==
    ASSUME Causal, Unbroken, NEW e \in Editor, stored' = stored,
           \A f \in Editor : f # e => /\ doc'[f] = doc[f] /\ inbox'[f] = inbox[f] /\ out'[f] = out[f],
           Backed(doc'[e], doc'[e]), Lined(out'[e], stored), Lined(inbox'[e], doc'[e])
    PROVE  Causal'
  BY DEF Causal

LEMMA SameCausal ==
    ASSUME Causal, Unbroken, UNCHANGED <<stored, doc, inbox, out>>
    PROVE  Causal'
  BY DEF Causal

LEMMA ClearedCausal ==
    ASSUME Inv', users' = {}, stored' = {}
    PROVE  Causal'
<1> SUFFICES ASSUME Unbroken', NEW e \in Editor
             PROVE  /\ Backed(doc'[e], doc'[e]) /\ Lined(out'[e], stored') /\ Lined(inbox'[e], doc'[e])
  BY DEF Causal, Backed
<1>1. ~InRoom(e)' /\ link'[e] = 1
  BY DEF Inv, Typing, Control, InRoom, Unbroken
<1>2. Linked(e)' /\ Queued(e)'
  BY DEF Inv, Connected
<1>3. doc'[e] = {} /\ At(inbox'[e]) = {}
  BY <1>1, <1>2 DEF Linked, At
<1>4. \A i \in At(out'[e]) : out'[e][i].type \in FromEditor
  <2>1. out'[e] \in Seq(Sound(Words', FromEditor))
    BY DEF Inv, Typing, Written
  <2>2. \A i \in At(out'[e]) : out'[e][i] \in Sound(Words', FromEditor)
    BY <2>1, Elements
  <2> QED BY <2>2, SoundFields
<1>5. \A i \in At(out'[e]) : out'[e][i].type # "seed" => out'[e][i].ops = {}
  BY <1>1, <1>2, <1>4 DEF Queued, FromEditor
<1> QED BY <1>3, <1>5, LinedEmpty DEF Backed

LEMMA TypesCausal ==
    ASSUME Inv, Causal, Unbroken, NEW e \in Editor, NEW w, NEW needs, Types(e, w, needs)
    PROVE  Causal'
<1> DEFINE o == Typed(e, w, needs)
<1>1. /\ Backed(doc[e], doc[e]) /\ Lined(out[e], stored) /\ Lined(inbox[e], doc[e])
      /\ Len(out[e]) \in Nat /\ Own(e) /\ link[e] = 1
  BY TypingFacts DEF Causal, Unbroken, Inv, Relayed
<1>2. /\ doc'[e] = doc[e] \cup {o} /\ inbox'[e] = inbox[e] /\ stored' = stored
      /\ \A f \in Editor : f # e => doc'[f] = doc[f] /\ inbox'[f] = inbox[f]
  BY DEF Types, Others, server
<1>3. o.needs = needs
  BY DEF Typed
<1> HIDE DEF o
<1>4. Backed({o}, doc[e])
  <2>1. needs \subseteq Ids(Shown(doc[e]))
    BY DEF Types, Needed
  <2>2. Ids(Shown(doc[e])) \subseteq Ids(doc[e])
    BY DEF Ids, Shown
  <2> QED BY <1>3, <2>1, <2>2 DEF Backed
<1>5. Backed(doc'[e], doc'[e]) /\ Lined(inbox'[e], doc'[e])
  <2>1. Backed(doc'[e], doc[e])
    BY <1>1, <1>2, <1>4 DEF Backed
  <2> QED BY <1>1, <1>2, <2>1, BackedMore, LinedMore
<1>6. Lined(out'[e], stored) /\ \A f \in Editor : f # e => out'[f] = out[f]
  <2>1. CASE online[e]
    <3>1. PICK m : m.type = "edit" /\ m.ops = {o} /\ Puts(e, m)
      BY <2>1 DEF Types, o
    <3>2. \A p \in doc[e] : p \in stored \/ p \in m.ops
                            \/ \E j \in At(out[e]) : out[e][j].type # "seed" /\ p \in out[e][j].ops
      BY <1>1 DEF Own, Sent
    <3>3. Backed(m.ops, doc[e])
      BY <1>4, <3>1
    <3>4. Pushed(out'[e], out[e], m)
      BY <3>1 DEF Puts
    <3>5. Lined(out'[e], stored)
      BY <1>1, <3>2, <3>3, <3>4, LinedPushed
    <3> QED BY <3>1, <3>5 DEF Puts
  <2> QED BY <1>1, <2>1 DEF Types
<1> QED BY <1>2, <1>5, <1>6, OwnCausal

LEMMA ClosesCausal ==
    ASSUME Inv, Causal, Unbroken, NEW e \in Editor, Closes(e)
    PROVE  Causal'
<1>1. Lined(out[e], stored) /\ Len(out[e]) \in Nat
  BY TypingFacts DEF Causal, Inv
<1>2. /\ doc'[e] = {} /\ inbox'[e] = <<>> /\ stored' = stored
      /\ \A f \in Editor : f # e => doc'[f] = doc[f] /\ inbox'[f] = inbox[f] /\ out'[f] = out[f]
  BY DEF Closes, Others, server
<1>3. Backed(doc'[e], doc'[e]) /\ Lined(inbox'[e], doc'[e])
  BY <1>2, LinedEmpty DEF Backed, At
<1>4. Lined(out'[e], stored)
  <2>1. CASE online[e]
    <3>1. PICK q, l : /\ l.ops = {} /\ Pushed(out'[e], q, l) /\ Len(q) \in Nat
                      /\ ~timer[e] => q = out[e]
                      /\ timer[e] => \E m : m.ops = {} /\ Pushed(q, out[e], m)
      BY <2>1 DEF Closes
    <3>2. Lined(q, stored)
      BY <1>1, <3>1, LinedNothing
    <3> QED BY <3>1, <3>2, LinedNothing
  <2> QED BY <1>1, <2>1 DEF Closes
<1> QED BY <1>2, <1>3, <1>4, OwnCausal

LEMMA AnswersCausal ==
    ASSUME Inv, Inv', Causal, Unbroken, NEW e \in Editor, NEW m, Answers(e, m)
    PROVE  Causal'
<1>1. /\ Backed(doc[e], doc[e]) /\ Lined(out[e], stored) /\ Lined(inbox[e], doc[e])
      /\ Len(out[e]) \in Nat /\ Len(inbox[e]) \in Nat /\ Len(inbox'[e]) \in Nat /\ Own(e) /\ link[e] = 1
  BY TypingFacts DEF Causal, Unbroken, Inv, Relayed
<1>2. /\ m = inbox[e][1] /\ Popped(inbox'[e], inbox[e]) /\ stored' = stored
      /\ \A f \in Editor : f # e => doc'[f] = doc[f] /\ inbox'[f] = inbox[f]
  BY DEF Answers, Hears, server
<1>3. doc'[e] = doc[e] \cup m.ops
  BY DEF Answers, HearsUpdate, HearsState, Seeds, Resyncs, HearsSeeded
<1>4. \A f \in Editor : f # e => out'[f] = out[f]
  BY DEF Answers, HearsUpdate, HearsState, Seeds, Resyncs, HearsSeeded, Puts
<1>5. m.type \in FromServer
  BY <1>2, TypingFacts, PoppedAt, <1>1 DEF Inv
<1>6. Lined(inbox'[e], doc'[e]) /\ Backed(m.ops, doc[e] \cup m.ops)
  BY <1>1, <1>2, <1>3, <1>5, LinedPopped DEF FromServer
<1>7. Backed(doc'[e], doc'[e])
  <2>1. Backed(doc[e], doc'[e])
    BY <1>1, <1>3, BackedMore
  <2> QED BY <1>3, <1>6, <2>1 DEF Backed
<1>8. Lined(out'[e], stored)
  <2>1. CASE Resyncs(e, m)
    <3>1. PICK s : s.type = "resync" /\ s.ops = doc[e] /\ Puts(e, s)
      BY <2>1 DEF Resyncs
    <3>2. \A p \in doc[e] : p \in stored \/ p \in s.ops
                            \/ \E j \in At(out[e]) : out[e][j].type # "seed" /\ p \in out[e][j].ops
      BY <1>1 DEF Own, Sent
    <3>3. Pushed(out'[e], out[e], s) /\ Backed(s.ops, doc[e])
      BY <1>1, <3>1 DEF Puts
    <3> QED BY <1>1, <3>2, <3>3, LinedPushed
  <2>2. CASE Seeds(e, m) \/ (HearsSeeded(e, m) /\ ~timer[e])
    <3>1. PICK s : (s.type = "seed" \/ s.ops = {}) /\ Puts(e, s)
      BY <2>2 DEF Seeds, HearsSeeded
    <3> QED BY <1>1, <3>1, LinedNothing DEF Puts
  <2>3. CASE HearsUpdate(e, m) \/ HearsState(e, m) \/ (HearsSeeded(e, m) /\ timer[e])
    BY <1>1, <2>3 DEF HearsUpdate, HearsState, HearsSeeded
  <2> QED BY <2>1, <2>2, <2>3 DEF Answers
<1> QED BY <1>2, <1>4, <1>6, <1>7, <1>8, OwnCausal

LEMMA JoinsCausal ==
    ASSUME Inv, Inv', Causal, Unbroken, NEW e \in Editor, NEW m, Joins(e, m)
    PROVE  Causal'
<1>1. /\ Backed(doc[e], doc[e]) /\ Lined(out[e], stored) /\ Lined(inbox[e], doc[e]) /\ Backed(stored, stored)
      /\ Len(out[e]) \in Nat /\ Len(out'[e]) \in Nat /\ Len(inbox[e]) \in Nat /\ Complete(e)
  BY TypingFacts DEF Causal, Inv, Relayed
<1>2. /\ m = out[e][1] /\ Popped(out'[e], out[e]) /\ m.type = "join"
      /\ stored' = stored /\ doc'[e] = doc[e]
      /\ \A f \in Editor : f # e => doc'[f] = doc[f] /\ inbox'[f] = inbox[f] /\ out'[f] = out[f]
  BY DEF Joins, Serves, Takes, editor
<1>3. m.ops = {} /\ ~InRoom(e)
  BY <1>1, <1>2, PoppedAt DEF Inv, Connected, Queued
<1>4. Lined(out'[e], stored)
  BY <1>1, <1>2, <1>3, LinedPopped
<1>5. Lined(inbox'[e], doc'[e])
  <2>1. At(inbox[e]) = {}
    BY <1>1, <1>3 DEF Inv, Connected, Linked, At
  <2>2. CASE phase[e] = "open"
    <3>1. PICK r : r.type = "state" /\ r.ops = stored /\ Pushed(inbox'[e], inbox[e], r)
      BY <2>2 DEF Joins
    <3>2. Backed(r.ops, stored) /\ \A o \in stored : o \in doc[e] \/ o \in r.ops
      BY <1>1, <3>1
    <3>3. Lined(inbox'[e], doc[e])
      BY <1>1, <3>1, <3>2, LinedPushed
    <3> QED BY <1>2, <3>3
  <2> QED BY <1>1, <1>2, <2>2 DEF Joins
<1> QED BY <1>1, <1>2, <1>4, <1>5, OwnCausal

LEMMA InitializesCausal ==
    ASSUME Inv, Inv', Rooted, Causal, Unbroken, NEW e \in Editor, NEW m, Initializes(e, m)
    PROVE  Causal'
<1>1. /\ \A f \in Editor : /\ Backed(doc[f], doc[f]) /\ Lined(out[f], stored) /\ Lined(inbox[f], doc[f])
                           /\ Len(out[f]) \in Nat /\ Len(out'[f]) \in Nat /\ Len(inbox[f]) \in Nat
      /\ Backed(stored, stored)
  BY TypingFacts DEF Causal, Inv
<1>2. /\ m = out[e][1] /\ Popped(out'[e], out[e]) /\ m.type = "seed" /\ doc' = doc
      /\ stored' = (IF stored = {} THEN m.ops ELSE stored)
      /\ \A f \in Editor : f # e => out'[f] = out[f]
  BY DEF Initializes, Serves, Takes, editor
<1>3. Backed(m.ops, {})
  <2>1. 1 \in At(out[e])
    BY <1>2 DEF Popped
  <2> QED BY <1>2, <2>1 DEF Rooted, Backed
<1>4. stored \subseteq stored' /\ Backed(stored', stored')
  BY <1>1, <1>2, <1>3, BackedMore
<1>5. ASSUME NEW f \in Editor PROVE Lined(out'[f], stored')
  BY <1>1, <1>2, <1>4, LinedPopped, LinedMore
<1>6. ASSUME NEW f \in Editor PROVE Lined(inbox'[f], doc'[f])
  <2>1. \/ inbox'[f] = inbox[f]
        \/ \E r : (r.ops = stored' \/ r.ops = m.ops) /\ Pushed(inbox'[f], inbox[f], r)
    BY DEF Initializes
  <2>2. ASSUME NEW r, r.ops = stored' \/ r.ops = m.ops, Pushed(inbox'[f], inbox[f], r)
        PROVE  Lined(inbox'[f], doc'[f])
    <3>1. Backed(r.ops, r.ops)
      BY <1>3, <1>4, <2>2, BackedMore
    <3>2. \A o \in r.ops : o \in doc[f] \/ o \in r.ops
      OBVIOUS
    <3>3. Lined(inbox'[f], doc[f])
      BY <1>1, <2>2, <3>1, <3>2, LinedPushed
    <3> QED BY <1>2, <3>3
  <2> QED BY <1>1, <1>2, <2>1, <2>2
<1> QED BY <1>1, <1>2, <1>4, <1>5, <1>6 DEF Causal

LEMMA UpdatesCausal ==
    ASSUME Inv, Inv', Causal, Unbroken, NEW e \in Editor, NEW m, Updates(e, m)
    PROVE  Causal'
<1>1. /\ \A f \in Editor : /\ Backed(doc[f], doc[f]) /\ Lined(out[f], stored) /\ Lined(inbox[f], doc[f])
                           /\ Len(out[f]) \in Nat /\ Len(out'[f]) \in Nat /\ Len(inbox[f]) \in Nat
                           /\ Complete(f)
      /\ Backed(stored, stored)
  BY TypingFacts DEF Causal, Inv, Relayed
<1>2. /\ m = out[e][1] /\ Popped(out'[e], out[e]) /\ m.type # "seed" /\ doc' = doc
      /\ stored' = stored \cup m.ops
      /\ \A f \in Editor : f # e => out'[f] = out[f]
  BY DEF Updates, Serves, Takes, editor
<1>3. Lined(out'[e], stored') /\ Backed(m.ops, stored')
  <2>1. stored \subseteq stored' /\ out[e][1].ops \subseteq stored' /\ out[e][1].type # "seed"
    BY <1>2
  <2>2. /\ Len(out[e]) \in Nat /\ Len(out'[e]) \in Nat
        /\ Popped(out'[e], out[e]) /\ Lined(out[e], stored)
    BY <1>1, <1>2
  <2>3. Lined(out'[e], stored') /\ Backed(out[e][1].ops, stored \cup out[e][1].ops)
    BY <2>1, <2>2, LinedPopped
  <2> QED BY <1>2, <2>3
<1>4. Backed(stored', stored')
  <2>1. Backed(stored, stored')
    BY <1>1, <1>2, BackedMore
  <2> QED BY <1>2, <1>3, <2>1 DEF Backed
<1>5. ASSUME NEW f \in Editor PROVE Lined(out'[f], stored')
  BY <1>1, <1>2, <1>3, LinedMore
<1>6. ASSUME NEW f \in Editor PROVE Lined(inbox'[f], doc'[f])
  <2>1. \/ inbox'[f] = inbox[f]
        \/ Reaches(f) /\ \E r : r.ops = m.ops /\ Pushed(inbox'[f], inbox[f], r)
    BY DEF Updates
  <2>2. ASSUME Reaches(f), NEW r, r.ops = m.ops, Pushed(inbox'[f], inbox[f], r)
        PROVE  Lined(inbox'[f], doc'[f])
    <3>1. \A o \in stored : o \in doc[f] \/ Coming(f, o)
      BY <1>1, <2>2 DEF Complete, Reaches
    <3>2. \A i \in At(inbox[f]) : inbox[f][i].type # "seed"
      BY TypingFacts DEF Inv, FromServer
    <3>3. \A o \in stored' : o \in doc[f] \/ o \in r.ops
                             \/ \E j \in At(inbox[f]) : inbox[f][j].type # "seed" /\ o \in inbox[f][j].ops
      BY <1>2, <2>2, <3>1, <3>2 DEF Coming
    <3>4. Backed(r.ops, stored')
      BY <1>3, <2>2
    <3>5. /\ Len(inbox[f]) \in Nat /\ Pushed(inbox'[f], inbox[f], r)
          /\ Lined(inbox[f], doc[f]) /\ doc[f] \subseteq doc[f]
      BY <1>1, <2>2
    <3>6. Lined(inbox'[f], doc[f])
      BY <3>3, <3>4, <3>5, LinedPushed
    <3> QED BY <1>2, <3>6
  <2> QED BY <1>1, <1>2, <2>1, <2>2
<1> QED BY <1>1, <1>2, <1>4, <1>5, <1>6 DEF Causal

LEMMA LeavesCausal ==
    ASSUME Inv, Inv', Causal, Unbroken, NEW e \in Editor, NEW m, Leaves(e, m)
    PROVE  Causal'
<1>1. (stored' = stored \/ (users' = {} /\ stored' = {})) /\ UNCHANGED <<doc, inbox>>
  BY DEF Leaves, Forgets, editor
<1>2. CASE stored' = stored
  <2>1. /\ Backed(doc[e], doc[e]) /\ Lined(out[e], stored) /\ Lined(inbox[e], doc[e])
        /\ Len(out[e]) \in Nat /\ Len(out'[e]) \in Nat
    BY TypingFacts DEF Causal, Inv
  <2>2. /\ m = out[e][1] /\ Popped(out'[e], out[e]) /\ m.type = "leave"
        /\ \A f \in Editor : f # e => out'[f] = out[f]
    BY DEF Leaves, Serves, Takes
  <2>3. m.ops = {}
    BY <2>1, <2>2, PoppedAt DEF Inv, Connected, Queued
  <2>4. Lined(out'[e], stored)
    BY <2>1, <2>2, <2>3, LinedPopped
  <2> QED BY <1>1, <1>2, <2>1, <2>2, <2>4, OwnCausal
<1> QED BY <1>1, <1>2, ClearedCausal

LEMMA CausalInit == Init => Causal
  BY DEF Init, Causal, Backed, Lined, At

LEMMA CausalStep ==
    ASSUME Inv, Inv', Rooted, Steps, Causal
    PROVE  Causal'
<1> SUFFICES ASSUME Unbroken' PROVE Causal'
  BY DEF Causal
<1>1. Unbroken
  BY NoWayBack DEF Unbroken, Inv
<1>2. ASSUME UNCHANGED vars PROVE Causal'
  BY <1>1, <1>2, SameCausal DEF vars, server, editor
<1>3. ASSUME NEW e \in Editor, Connects(e) \/ Snaps(e) PROVE Causal'
  <2>1. /\ stored' = stored /\ doc'[e] = doc[e] /\ inbox'[e] = inbox[e]
        /\ \A f \in Editor : f # e => doc'[f] = doc[f] /\ inbox'[f] = inbox[f]
    BY <1>3 DEF Connects, Snaps, Others, server
  <2>2. out' = out \/ \E m : m.ops = {} /\ Puts(e, m)
    BY <1>3 DEF Connects, Snaps
  <2>3. Backed(doc[e], doc[e]) /\ Lined(out[e], stored) /\ Lined(inbox[e], doc[e]) /\ Len(out[e]) \in Nat
    BY <1>1, TypingFacts DEF Causal, Inv
  <2>4. Lined(out'[e], stored) /\ \A f \in Editor : f # e => out'[f] = out[f]
    BY <2>2, <2>3, LinedNothing DEF Puts
  <2> QED BY <1>1, <2>1, <2>3, <2>4, OwnCausal
<1>4. ASSUME NEW e \in Editor, NEW w, NEW needs, Types(e, w, needs) PROVE Causal'
  BY <1>1, <1>4, TypesCausal
<1>5. ASSUME NEW e \in Editor, Closes(e) PROVE Causal'
  BY <1>1, <1>5, ClosesCausal
<1>6. ASSUME NEW e \in Editor, Loses(e) PROVE FALSE
  BY <1>1, <1>6 DEF Loses, Unbroken
<1>7. ASSUME NEW e \in Editor, NEW m, Answers(e, m) PROVE Causal'
  BY <1>1, <1>7, AnswersCausal
<1>8. ASSUME NEW e \in Editor, NEW m, Joins(e, m) PROVE Causal'
  BY <1>1, <1>8, JoinsCausal
<1>9. ASSUME NEW e \in Editor, NEW m, Initializes(e, m) PROVE Causal'
  BY <1>1, <1>9, InitializesCausal
<1>10. ASSUME NEW e \in Editor, NEW m, Updates(e, m) PROVE Causal'
  BY <1>1, <1>10, UpdatesCausal
<1>11. ASSUME NEW e \in Editor, NEW m, Leaves(e, m) PROVE Causal'
  BY <1>1, <1>11, LeavesCausal
<1>12. ASSUME UNCHANGED <<doc, inbox, out>>, stored' = stored \/ (users' = {} /\ stored' = {})
       PROVE  Causal'
  BY <1>1, <1>12, SameCausal, ClearedCausal
<1>13. ASSUME NEW e \in Editor, NEW n, Disconnects(e, n) PROVE Causal'
  BY <1>12, <1>13 DEF Disconnects, Forgets, editor
<1>14. Saves \/ SavesStopped => Causal'
  <2>1. Saves \/ SavesStopped => /\ UNCHANGED <<doc, inbox, out>>
                                 /\ stored' = stored \/ (users' = {} /\ stored' = {})
    BY DEF Saves, SavesStopped, SavesText, editor
  <2> QED BY <1>12, <2>1
<1> QED BY <1>2, <1>3, <1>4, <1>5, <1>6, <1>7, <1>8, <1>9, <1>10, <1>11, <1>13, <1>14 DEF Steps

LEMMA QuietConverges == Inv /\ Causal => Converged
<1> SUFFICES ASSUME Inv, Causal, Quiet, NEW e \in Editor, phase[e] = "open", synced[e]
             PROVE  /\ Shown(stored) \subseteq Shown(doc[e])
                    /\ link[e] = 1 => Shown(doc[e]) = Shown(stored)
                    /\ Unbroken => Shown(stored) = stored
  BY DEF Converged
<1>1. InRoom(e) /\ Complete(e) /\ Own(e)
  BY DEF Inv, Connected, Linked, Relayed
<1>2. At(inbox[e]) = {} /\ At(out[e]) = {}
  BY DEF Quiet, At
<1>3. \A o : ~Coming(e, o) /\ ~Sent(e, o)
  BY <1>2 DEF Coming, Sent
<1>4. stored \subseteq doc[e] /\ (link[e] = 1 => doc[e] = stored)
  BY <1>1, <1>3 DEF Complete, Own
<1>5. ASSUME Unbroken PROVE Shown(stored) = stored
  BY <1>5, BackedShown DEF Causal, Unbroken
<1> QED BY <1>4, <1>5, ShownMore

\* Whatever joins, edits, lost connections and clearings there were: when no
\* message is on its way, every synced editor shows all that the server's
\* document shows (yjs_document_join, yjs_document_update), and nothing else if
\* its own connection was never lost; and while none was, nothing is pending.
THEOREM EditorsConverge == Spec => []Converged
<1>1. Init => Inv /\ Rooted /\ Causal
  BY InvInit, RootedInit, CausalInit
<1>2. Inv /\ Rooted /\ Causal /\ [Next]_vars => (Inv /\ Rooted /\ Causal)'
  <2> SUFFICES ASSUME Inv, Rooted, Causal, [Next]_vars PROVE (Inv /\ Rooted /\ Causal)'
    OBVIOUS
  <2>1. Inv' /\ Steps
    BY InvStep, NextSteps DEF Inv
  <2>2. Typing /\ Typing'
    BY <2>1 DEF Inv
  <2> QED BY <2>1, <2>2, RootedStep, CausalStep
<1>3. Inv /\ Causal => Converged
  BY QuietConverges
<1> QED BY <1>1, <1>2, <1>3, PTL DEF Spec

-----------------------------------------------------------------------------
(* While no connection is lost: no word is in two operations.              *)

\* The operations that are stored, or sent to be.
Known(o) == o \in stored \/ \E e \in Editor : Sent(e, o)
Distinct == \A o, p : Known(o) /\ Known(p) /\ o # p => o.words \cap p.words = {}

\* The state of the document is the first that a connection hears; from then on
\* something is stored, and only what was typed is sent.
Calmly(e) ==
    /\ \A i \in At(inbox[e]) : inbox[e][i].type = "state" => i = 1 /\ doc[e] = {} /\ ~synced[e]
    /\ synced[e] => stored # {}
    /\ \A i \in At(out[e]) : /\ out[e][i].type # "resync"
                             /\ out[e][i].type = "edit" => stored # {}
Steadily == Unbroken => Distinct /\ \A e \in Editor : Calmly(e)

LEMMA SteadilyInit == Init => Steadily
  BY DEF Init, Steadily, Distinct, Known, Sent, Calmly, At

LEMMA KnownWords ==
    ASSUME Typing, NEW o, Known(o)
    PROVE  o.words \subseteq Title \cup typed
<1>1. ASSUME NEW p \in Ops(Words) PROVE p.words \subseteq Title \cup typed
  BY <1>1 DEF Ops, Words
<1>2. CASE o \in stored
  BY <1>1, <1>2 DEF Typing, Written
<1>3. ASSUME NEW e \in Editor, Sent(e, o) PROVE o \in Ops(Words)
  <2>1. PICK i \in At(out[e]) : o \in out[e][i].ops
    BY <1>3 DEF Sent
  <2>2. out[e] \in Seq(Sound(Words, FromEditor))
    BY DEF Typing, Written
  <2>3. out[e][i] \in Sound(Words, FromEditor)
    BY <2>1, <2>2, Elements
  <2>4. out[e][i].ops \subseteq Ops(Words)
    BY <2>3, SoundFields
  <2> QED BY <2>1, <2>4
<1> QED BY <1>1, <1>2, <1>3 DEF Known

\* An operation that is new is one that was typed, or the first seed.
LEMMA NewKnown ==
    ASSUME Typing, Typing', Steps, NEW o, Known(o)',
           \A f \in Editor : \A r : Hears(f, r) => ~Resyncs(f, r)
    PROVE  \/ Known(o)
           \/ \E e \in Editor : \E w, needs : online[e] /\ Types(e, w, needs) /\ o = Typed(e, w, needs)
           \/ stored = {} /\ \E e \in Editor : \E m : Initializes(e, m) /\ o \in m.ops
<1>1. CASE o \in stored'
  BY <1>1, NewStored DEF Known
<1>2. ASSUME NEW e \in Editor, Sent(e, o)'
      PROVE  Known(o) \/ \E w, needs : online[e] /\ Types(e, w, needs) /\ o = Typed(e, w, needs)
  <2>1. PICK i \in At(out'[e]) : out'[e][i].type # "seed" /\ o \in out'[e][i].ops
    BY <1>2 DEF Sent, At
  <2>2. CASE \E j \in At(out[e]) : out'[e][i] = out[e][j]
    BY <2>1, <2>2 DEF Known, Sent
  <2>3. CASE Writes(e, out'[e][i])
    BY <2>1, <2>3 DEF Writes
  <2> QED BY <2>2, <2>3, NewMessages DEF OldOrNew
<1> QED BY <1>1, <1>2 DEF Known

\* In a calm, nobody has what the server has not.
LEMMA CalmFacts ==
    ASSUME Inv, Steadily, Unbroken
    PROVE  /\ \A f \in Editor : \A r : Hears(f, r) => ~Resyncs(f, r)
           /\ \A f \in Editor : \A w, needs : Types(f, w, needs) => synced[f] /\ stored # {}
           /\ stored = {} => \A f \in Editor : \A o : ~Sent(f, o)
<1>1. \A f \in Editor : Calmly(f) /\ link[f] = 1
  BY DEF Steadily, Unbroken
<1>2. ASSUME NEW f \in Editor, NEW r, Hears(f, r), Resyncs(f, r) PROVE FALSE
  <2>1. r = inbox[f][1] /\ 1 \in At(inbox[f]) /\ r.type = "state" /\ doc[f] # {}
    BY <1>2 DEF Hears, Resyncs, Popped, Shown
  <2> QED BY <1>1, <2>1 DEF Calmly
<1>3. ASSUME NEW f \in Editor, NEW w, NEW needs, Types(f, w, needs) PROVE synced[f] /\ stored # {}
  BY <1>1, <1>3 DEF Types, Calmly, Inv, Connected, Linked
<1>4. ASSUME stored = {}, NEW f \in Editor, NEW o, Sent(f, o) PROVE FALSE
  <2>1. PICK i \in At(out[f]) : out[f][i].type # "seed" /\ o \in out[f][i].ops
    BY <1>4 DEF Sent
  <2>2. out[f][i].type \in FromEditor /\ (out[f][i].type \in {"join", "snapshot", "leave"} => out[f][i].ops = {})
    BY TypingFacts DEF Inv, Connected, Queued
  <2> QED BY <1>1, <1>4, <2>1, <2>2 DEF Calmly, FromEditor
<1> QED BY <1>2, <1>3, <1>4

LEMMA DistinctStep ==
    ASSUME Inv, Inv', Rooted, Steps, Steadily, Unbroken
    PROVE  Distinct'
<1> SUFFICES ASSUME NEW o, NEW p, Known(o)', Known(p)', o # p
             PROVE  o.words \cap p.words = {}
  BY DEF Distinct
<1>1. Typing /\ Typing' /\ \A f \in Editor : \A r : Hears(f, r) => ~Resyncs(f, r)
  BY CalmFacts DEF Inv
<1> DEFINE Was(q) == Known(q)
           Now(q) == \E e \in Editor : \E w, needs : online[e] /\ Types(e, w, needs) /\ q = Typed(e, w, needs)
           First(q) == stored = {} /\ \E e \in Editor : \E m : Initializes(e, m) /\ q \in m.ops
<1>2. (Was(o) \/ Now(o) \/ First(o)) /\ (Was(p) \/ Now(p) \/ First(p))
  BY <1>1, NewKnown
<1>3. ASSUME Was(o), Was(p) PROVE o.words \cap p.words = {}
  BY <1>3 DEF Steadily, Distinct
<1>4. ASSUME NEW q, NEW r, Was(q), Now(r) PROVE q.words \cap r.words = {}
  <2>1. PICK e, w, needs : e \in Editor /\ Types(e, w, needs) /\ r = Typed(e, w, needs)
    BY <1>4
  <2>2. w \in Word \ typed /\ r.words = {w}
    BY <2>1 DEF Types, Typed
  <2>3. q.words \subseteq Title \cup typed
    BY <1>1, <1>4, KnownWords
  <2> QED BY <2>2, <2>3, WordAssumption
<1>5. ASSUME Now(o), Now(p) PROVE FALSE
  <2>1. PICK e, w, needs : e \in Editor /\ Types(e, w, needs) /\ o = Typed(e, w, needs)
    BY <1>5
  <2>2. PICK f, v, n : f \in Editor /\ Types(f, v, n) /\ p = Typed(f, v, n)
    BY <1>5
  <2>3. w \in Word \ typed /\ o.words = {w}
    BY <2>1 DEF Types, Typed
  <2>4. o \notin doc[e]
    <3>1. \A q \in doc[e] : q.words \subseteq Title \cup typed
      BY <1>1, <2>1 DEF Typing, Written, Ops, Words
    <3> QED BY <2>3, <3>1, WordAssumption
  <2>5. doc'[e] = doc[e] \cup {o} /\ doc'[f] = doc[f] \cup {p} /\ (e # f => doc'[e] = doc[e])
    BY <2>1, <2>2 DEF Types, Others
  <2> QED BY <2>4, <2>5
<1>6. ASSUME NEW q, First(q) PROVE First(o) /\ First(p)
  <2>1. stored = {}
    BY <1>6
  <2>2. \A f \in Editor : \A w, needs : ~Types(f, w, needs)
    BY <2>1, CalmFacts
  <2>3. \A x : ~Known(x)
    BY <2>1, CalmFacts DEF Known
  <2> QED BY <1>2, <2>2, <2>3
<1>7. ASSUME First(o), First(p) PROVE FALSE
  <2>1. PICK e, m : e \in Editor /\ Initializes(e, m) /\ o \in m.ops
    BY <1>7
  <2>2. m = out[e][1] /\ 1 \in At(out[e]) /\ m.type = "seed" /\ stored' = m.ops
    BY <1>7, <2>1 DEF Initializes, Serves, Takes, Popped
  <2>3. PICK x : m.ops = {x}
    BY <2>1, <2>2 DEF Rooted
  <2>4. PICK f, n : f \in Editor /\ Initializes(f, n) /\ p \in n.ops
    BY <1>7
  <2>5. stored' = n.ops
    BY <1>7, <2>4 DEF Initializes
  <2> QED BY <2>1, <2>2, <2>3, <2>4, <2>5
<1> HIDE DEF Was, Now, First
<1> QED BY <1>2, <1>3, <1>4, <1>5, <1>6, <1>7

LEMMA CalmlyStep ==
    ASSUME Inv, Inv', Steps, Steadily, Unbroken, Unbroken', NEW f \in Editor
    PROVE  Calmly(f)'
<1>1. Typing /\ Typing' /\ Connected /\ Connected' /\ link[f] = 1 /\ link'[f] = 1 /\ Calmly(f)
  BY DEF Inv, Steadily, Unbroken
<1>2. InRoom(f)' => (stored # {} => stored' # {})
  BY <1>1, NewStored DEF InRoom, Typing, Control
<1>3. ASSUME NEW i \in At(inbox'[f]), inbox'[f][i].type = "state"
      PROVE  i = 1 /\ doc'[f] = {} /\ ~synced'[f]
  <2>1. CASE Rests(f)
    BY <1>1, <1>3, <2>1 DEF Rests, Calmly
  <2>2. CASE Len(inbox'[f]) = 0
    BY <1>3, <2>2 DEF At
  <2>3. ASSUME NEW w, NEW needs, Types(f, w, needs) PROVE FALSE
    <3>1. synced[f] /\ inbox'[f] = inbox[f]
      BY <2>3, CalmFacts DEF Types
    <3> QED BY <1>1, <1>3, <3>1 DEF Calmly
  <2>4. ASSUME NEW m, Answers(f, m) PROVE FALSE
    <3>1. Popped(inbox'[f], inbox[f]) /\ Len(inbox[f]) \in Nat /\ Len(inbox'[f]) \in Nat
      BY <1>1, <2>4, TypingFacts DEF Answers, Hears
    <3>2. i + 1 \in At(inbox[f]) /\ inbox'[f][i] = inbox[f][i + 1] /\ i + 1 # 1
      BY <3>1, PoppedAt
    <3> QED BY <1>1, <1>3, <3>2 DEF Calmly
  <2>5. ASSUME NEW m, Joins(f, m) PROVE i = 1 /\ doc'[f] = {} /\ ~synced'[f]
    <3>1. m = out[f][1] /\ 1 \in At(out[f]) /\ m.type = "join"
          /\ doc'[f] = doc[f] /\ synced'[f] = synced[f]
      BY <2>5 DEF Joins, Serves, Takes, Popped, editor
    <3>2. ~InRoom(f)
      BY <1>1, <3>1 DEF Connected, Queued
    <3>3. Len(inbox[f]) = 0 /\ doc[f] = {} /\ ~synced[f]
      BY <1>1, <3>2 DEF Connected, Linked
    <3>4. inbox'[f] = inbox[f] \/ \E r : Pushed(inbox'[f], inbox[f], r)
      BY <2>5 DEF Joins
    <3>5. Len(inbox'[f]) = 0 \/ Len(inbox'[f]) = 1
      BY <3>3, <3>4 DEF Pushed
    <3>6. i \in 1..Len(inbox'[f])
      BY <1>3 DEF At
    <3>7. i = 1
      <4> DEFINE n == Len(inbox'[f])
      <4>1. i \in 1..n /\ (n = 0 \/ n = 1)
        BY <3>5, <3>6
      <4> HIDE DEF n
      <4> QED BY <4>1
    <3>8. doc'[f] = {} /\ ~synced'[f]
      BY <3>1, <3>3
    <3> QED BY <3>7, <3>8
  <2> QED BY <1>1, <2>1, <2>2, <2>3, <2>4, <2>5, Lives DEF Life
<1>4. synced'[f] => stored' # {}
  <2> SUFFICES ASSUME synced'[f] PROVE stored' # {}
    OBVIOUS
  <2>1. InRoom(f)'
    BY <1>1 DEF Connected, Linked
  <2>2. CASE synced[f]
    BY <1>1, <1>2, <2>1, <2>2 DEF Calmly
  <2>3. ASSUME NEW m, Answers(f, m), ~synced[f] PROVE stored' # {}
    <3>1. stored' = stored /\ m.ops # {} /\ m = inbox[f][1] /\ 1 \in At(inbox[f])
      BY <2>3, CalmFacts DEF Answers, Hears, HearsUpdate, HearsState, Seeds, HearsSeeded, Popped, server
    <3>2. m.ops \subseteq stored
      BY <3>1 DEF Inv, Relayed, Arrived
    <3> QED BY <3>1, <3>2
  <2>4. ASSUME (\E w, needs : Types(f, w, needs)) \/ (\E m : Joins(f, m)) \/ Rests(f) PROVE synced[f]
    BY <2>4 DEF Types, Joins, Serves, Rests, editor
  <2> QED BY <1>1, <2>2, <2>3, <2>4, Lives DEF Life
<1>5. ASSUME NEW i \in At(out'[f])
      PROVE  out'[f][i].type # "resync" /\ (out'[f][i].type = "edit" => stored' # {})
  <2>1. out'[f][i].type = "edit" => InRoom(f)'
    BY <1>1 DEF Connected, Queued, At
  <2>2. CASE \E j \in At(out[f]) : out'[f][i] = out[f][j]
    BY <1>1, <1>2, <2>1, <2>2 DEF Calmly
  <2>3. CASE Writes(f, out'[f][i])
    BY <1>2, <2>1, <2>3, CalmFacts DEF Writes
  <2> QED BY <1>1, <2>2, <2>3, NewMessages DEF OldOrNew
<1> QED BY <1>3, <1>4, <1>5 DEF Calmly, At

LEMMA SteadilyStep ==
    ASSUME Inv, Inv', Rooted, Steps, Steadily
    PROVE  Steadily'
<1> SUFFICES ASSUME Unbroken' PROVE (Distinct /\ \A e \in Editor : Calmly(e))'
  BY DEF Steadily
<1>1. Unbroken
  BY NoWayBack DEF Unbroken, Inv
<1> QED BY <1>1, DistinctStep, CalmlyStep

-----------------------------------------------------------------------------
(* While there is one editor only, its connection may be lost.             *)

Solo(e) == \A f \in Editor \ {e} : phase[f] = "new"

\* Editor and server take turns; a seed is sent when neither has anything.  The
\* editor has all that its operations need, and those of the server that need any.
Turns(e) ==
    /\ ~timer[e]
    /\ Len(inbox[e]) = 0 \/ (/\ Len(inbox[e]) = 1 /\ inbox[e][1].type # "update"
                             /\ Len(out[e]) = 0 /\ ~synced[e])
    /\ \A i \in At(out[e]) :
         /\ out[e][i].type \in {"join", "seed"} => Len(out[e]) = 1 /\ ~synced[e]
         /\ out[e][i].type = "seed" => doc[e] = {} /\ stored = {}
    /\ ~TwiceIn(doc[e] \cup stored)
    /\ Backed(doc[e], doc[e]) /\ \A o \in stored : o.needs = {} \/ o \in doc[e]
Lonely(e) == Solo(e) /\ phase[e] # "closed" => Turns(e)
Alone == \A e \in Editor : Lonely(e)

LEMMA AloneInit == Init => Alone
  BY DEF Init, Alone, Lonely, Turns, TwiceIn, Backed, At

LEMMA TwiceLess ==
    ASSUME NEW S, NEW T, S \subseteq T, ~TwiceIn(T)
    PROVE  ~TwiceIn(S)
  BY DEF TwiceIn

\* Nobody else acts.
LEMMA SoloSteps ==
    ASSUME Inv, NEW e \in Editor, Solo(e), Solo(e)', Steps
    PROVE  \/ UNCHANGED vars
           \/ Connects(e) /\ (phase[e] = "new" \/ (phase[e] = "open" /\ ~online[e]))
           \/ (\E w, needs : Types(e, w, needs)) \/ Snaps(e) \/ Closes(e) \/ Loses(e)
           \/ \E m : Answers(e, m) \/ Joins(e, m) \/ Initializes(e, m) \/ Updates(e, m) \/ Leaves(e, m)
           \/ \E n \in Nat : Disconnects(e, n)
           \/ Saves \/ SavesStopped
<1> SUFFICES ASSUME NEW f \in Editor, f # e,
                    \/ Connects(f) \/ (\E w, needs : Types(f, w, needs)) \/ Snaps(f) \/ Closes(f) \/ Loses(f)
                    \/ \E m : \/ Answers(f, m) \/ Joins(f, m) \/ Initializes(f, m)
                              \/ Updates(f, m) \/ Leaves(f, m)
                    \/ \E n \in Nat : Disconnects(f, n)
             PROVE  FALSE
  BY DEF Steps
<1>1. phase[f] = "new" /\ phase'[f] = "new" /\ Linked(f)
  BY DEF Solo, Inv, Connected
<1>2. Len(out[f]) = 0 /\ Len(inbox[f]) = 0
  BY <1>1 DEF Linked
<1>3. At(out[f]) = {} /\ At(inbox[f]) = {}
  BY <1>2 DEF At
<1>4. ~Connects(f) /\ ~(\E w, needs : Types(f, w, needs)) /\ ~Snaps(f) /\ ~Closes(f) /\ ~Loses(f)
  BY <1>1 DEF Connects, Types, Snaps, Closes, Loses
<1>5. ASSUME NEW m, Answers(f, m) PROVE FALSE
  BY <1>3, <1>5 DEF Answers, Hears, Popped
<1>6. ~Takes(f)
  BY <1>3 DEF Takes, Popped
<1>7. ASSUME NEW m, Joins(f, m) \/ Initializes(f, m) \/ Updates(f, m) \/ Leaves(f, m) PROVE FALSE
  BY <1>6, <1>7 DEF Joins, Initializes, Updates, Leaves, Serves
<1>8. ASSUME NEW n \in Nat, Disconnects(f, n) PROVE FALSE
  BY <1>1, <1>8 DEF Disconnects, Linked
<1> QED BY <1>4, <1>5, <1>7, <1>8

\* Nothing changes for e but that the document may be cleared.
LEMMA TurnsStay ==
    ASSUME NEW e \in Editor, Turns(e), stored' \subseteq stored, timer'[e] = timer[e],
           inbox'[e] = inbox[e], out'[e] = out[e], synced'[e] = synced[e], doc'[e] = doc[e]
    PROVE  Turns(e)'
<1>1. ~TwiceIn(doc[e] \cup stored)'
  BY TwiceLess DEF Turns
<1>2. stored = {} => stored' = {}
  OBVIOUS
<1> QED BY <1>1, <1>2 DEF Turns

LEMMA TurnsConnects ==
    ASSUME Inv, Inv', NEW e \in Editor, Turns(e), Connects(e),
           phase[e] = "new" \/ (phase[e] = "open" /\ ~online[e])
    PROVE  Turns(e)'
<1>1. Len(out[e]) = 0 /\ ~synced[e] /\ Len(inbox[e]) = 0
  BY DEF Inv, Connected, Linked
<1>2. PICK m : m.type = "join" /\ Pushed(out'[e], out[e], m)
  BY DEF Connects, Puts
<1>3. \A i \in At(out'[e]) : out'[e][i] = m
  BY <1>1, <1>2, PushedAt DEF At
<1>4. Len(out'[e]) = 1
  BY <1>1, <1>2 DEF Pushed
<1>5. /\ stored' = stored /\ timer'[e] = timer[e] /\ inbox'[e] = inbox[e]
      /\ synced'[e] = synced[e] /\ doc'[e] = doc[e]
  BY DEF Connects, server
<1> QED BY <1>1, <1>2, <1>3, <1>4, <1>5 DEF Turns

LEMMA TurnsTypes ==
    ASSUME Inv, Inv', NEW e \in Editor, Turns(e), NEW w, NEW needs, Types(e, w, needs)
    PROVE  Turns(e)'
<1>1. /\ stored' = stored /\ inbox'[e] = inbox[e] /\ synced'[e] = synced[e]
      /\ doc'[e] = doc[e] \cup {Typed(e, w, needs)} /\ ~timer'[e]
  BY DEF Types, server, Turns
<1>2. Len(inbox[e]) = 0
  BY DEF Types, Turns, Inv, Connected, Linked
<1>3. ~TwiceIn(doc[e] \cup stored)'
  <2>1. ASSUME NEW o \in doc[e] \cup stored PROVE o.words \cap {w} = {}
    <3>1. o \in Ops(Words)
      BY <2>1 DEF Inv, Typing, Written
    <3>2. o.words \subseteq Title \cup typed
      BY <3>1 DEF Ops, Words
    <3>3. w \in Word \ typed
      BY DEF Types
    <3> QED BY <3>2, <3>3, WordAssumption
  <2>2. Typed(e, w, needs).words = {w}
    BY DEF Typed
  <2>3. doc'[e] \cup stored' = (doc[e] \cup stored) \cup {Typed(e, w, needs)}
    BY <1>1
  <2> QED BY <2>1, <2>2, <2>3 DEF TwiceIn, Turns
<1>6. Backed(doc'[e], doc'[e]) /\ \A o \in stored' : o.needs = {} \/ o \in doc'[e]
  <2>1. needs \subseteq Ids(Shown(doc[e])) /\ Ids(Shown(doc[e])) \subseteq Ids(doc[e])
    BY DEF Types, Needed, Ids, Shown
  <2>2. Typed(e, w, needs).needs = needs
    BY DEF Typed
  <2>3. Backed(doc'[e], doc[e])
    BY <1>1, <2>1, <2>2 DEF Backed, Turns
  <2> QED BY <1>1, <2>3, BackedMore DEF Turns
<1>4. CASE ~online[e]
  <2>1. Len(out[e]) = 0 /\ out'[e] = out[e]
    BY <1>4 DEF Inv, Connected, Linked, Types
  <2> QED BY <1>1, <1>2, <1>3, <1>6, <2>1 DEF Turns, At
<1>5. CASE online[e]
  <2>1. synced[e]
    BY <1>5 DEF Types
  <2>2. PICK m : m.type = "edit" /\ Pushed(out'[e], out[e], m)
    BY <1>5 DEF Types, Puts
  <2>3. Len(out[e]) \in Nat
    BY TypingFacts DEF Inv
  <2>4. \A i \in At(out'[e]) : (i \in At(out[e]) /\ out'[e][i] = out[e][i]) \/ out'[e][i] = m
    BY <2>2, <2>3, PushedAt
  <2>5. \A i \in At(out'[e]) : out'[e][i].type \notin {"join", "seed"}
    BY <2>1, <2>2, <2>4 DEF Turns
  <2> QED BY <1>1, <1>2, <1>3, <1>6, <2>5 DEF Turns
<1> QED BY <1>4, <1>5

LEMMA TurnsLoses ==
    ASSUME NEW e \in Editor, Turns(e), Loses(e)
    PROVE  Turns(e)'
<1>1. /\ stored' = stored /\ timer'[e] = timer[e] /\ inbox'[e] = <<>> /\ out'[e] = <<>>
      /\ synced'[e] = FALSE /\ doc'[e] = doc[e]
  BY DEF Loses, server
<1>2. Len(inbox'[e]) = 0 /\ At(out'[e]) = {}
  BY <1>1 DEF At
<1> QED BY <1>1, <1>2 DEF Turns

\* Only messages of types that take no turn are in the queue.
LEMMA TurnsPut ==
    ASSUME Inv, NEW e \in Editor, NEW m, Puts(e, m), m.type \notin {"join", "seed"},
           \A i \in At(out[e]) : out[e][i].type \notin {"join", "seed"}
    PROVE  \A i \in At(out'[e]) : out'[e][i].type \notin {"join", "seed"}
<1>1. Pushed(out'[e], out[e], m) /\ Len(out[e]) \in Nat
  BY TypingFacts DEF Puts, Inv
<1>2. \A i \in At(out'[e]) : (i \in At(out[e]) /\ out'[e][i] = out[e][i]) \/ out'[e][i] = m
  BY <1>1, PushedAt
<1> QED BY <1>2

LEMMA TurnsAnswers ==
    ASSUME Inv, Inv', NEW e \in Editor, Turns(e), NEW m, Answers(e, m)
    PROVE  Turns(e)'
<1>1. /\ m = inbox[e][1] /\ Popped(inbox'[e], inbox[e]) /\ stored' = stored
      /\ Len(inbox[e]) \in Nat /\ Len(inbox'[e]) \in Nat
  BY TypingFacts DEF Answers, Hears, server, Inv
<1>2. Len(inbox[e]) = Len(inbox'[e]) + 1 /\ 1 \in At(inbox[e])
  BY <1>1, PoppedAt
<1>3. /\ Len(inbox[e]) # 0 /\ Len(inbox[e]) = 1 /\ Len(inbox'[e]) = 0
      /\ m.type # "update" /\ Len(out[e]) = 0 /\ ~synced[e]
  BY <1>1, <1>2 DEF Turns
<1>4. At(out[e]) = {}
  BY <1>3 DEF At
<1>5. m.ops \subseteq stored
  BY <1>1, <1>2 DEF Inv, Relayed, Arrived
<1>6. /\ ~TwiceIn(doc[e] \cup stored) /\ ~timer[e] /\ Backed(doc[e], doc[e])
      /\ \A o \in stored : o.needs = {} \/ o \in doc[e]
  BY DEF Turns
<1>12. Backed(doc'[e], doc'[e]) /\ \A o \in stored' : o.needs = {} \/ o \in doc'[e]
  <2>1. doc'[e] = doc[e] \cup m.ops
    BY DEF Answers, HearsUpdate, HearsState, Seeds, Resyncs, HearsSeeded
  <2>2. Backed(m.ops, doc[e])
    BY <1>5, <1>6 DEF Backed
  <2>3. Backed(doc'[e], doc[e])
    BY <1>6, <2>1, <2>2 DEF Backed
  <2> QED BY <1>1, <1>6, <2>1, <2>3, BackedMore
<1>7. CASE HearsState(e, m)
  <2>1. /\ doc'[e] \cup stored' = doc[e] \cup stored
        /\ timer'[e] = timer[e] /\ At(out'[e]) = {}
    BY <1>1, <1>4, <1>5, <1>7 DEF HearsState
  <2> QED BY <1>3, <1>6, <1>12, <2>1 DEF Turns
<1>8. CASE Seeds(e, m)
  <2>1. /\ m.ops = {} /\ doc[e] = {} /\ doc'[e] = doc[e] /\ timer'[e] = timer[e] /\ synced'[e] = synced[e]
        /\ \E s : Puts(e, s)
    BY <1>6, <1>8, BackedShown DEF Seeds
  <2>2. Len(out'[e]) = 1
    BY <1>3, <2>1 DEF Puts, Pushed
  <2>3. stored = {}
    <3>1. Complete(e) /\ phase[e] = "open" /\ InRoom(e)
      BY <1>3 DEF Inv, Relayed, Connected, Linked
    <3>2. \A i \in At(inbox[e]) : i = 1
      BY <1>3 DEF At
    <3>3. \A o : ~Coming(e, o)
      BY <1>1, <2>1, <3>2 DEF Coming
    <3> QED BY <2>1, <3>1, <3>3 DEF Complete
  <2> QED BY <1>1, <1>3, <1>6, <1>12, <2>1, <2>2, <2>3 DEF Turns
<1>9. CASE Resyncs(e, m)
  <2>1. /\ doc'[e] = doc[e] /\ timer'[e] = timer[e] /\ \E s : s.type = "resync" /\ Puts(e, s)
    BY <1>9 DEF Resyncs
  <2>2. \A i \in At(out'[e]) : out'[e][i].type \notin {"join", "seed"}
    BY <1>4, <2>1, TurnsPut
  <2> QED BY <1>1, <1>3, <1>6, <1>12, <2>1, <2>2 DEF Turns
<1>10. CASE HearsSeeded(e, m)
  <2>1. /\ doc'[e] \cup stored' = doc[e] \cup stored /\ timer'[e] = timer[e]
        /\ \E s : s.type = "snapshot" /\ Puts(e, s)
    BY <1>1, <1>5, <1>6, <1>10 DEF HearsSeeded
  <2>2. \A i \in At(out'[e]) : out'[e][i].type \notin {"join", "seed"}
    BY <1>4, <2>1, TurnsPut
  <2> QED BY <1>1, <1>3, <1>6, <1>12, <2>1, <2>2 DEF Turns
<1>11. ~HearsUpdate(e, m)
  BY <1>3 DEF HearsUpdate
<1> QED BY <1>7, <1>8, <1>9, <1>10, <1>11 DEF Answers

\* The server takes a message of e: then e has not been sent anything.
LEMMA TurnsTaken ==
    ASSUME Inv, Inv', NEW e \in Editor, Turns(e), NEW m, Serves(e, m)
    PROVE  /\ Len(inbox[e]) = 0 /\ m = out[e][1] /\ 1 \in At(out[e]) /\ phase[e] # "new"
           /\ \A i \in At(out'[e]) : out'[e][i].type \notin {"join", "seed"}
           /\ m.type \in {"join", "seed"} => Len(out'[e]) = 0
           /\ timer'[e] = timer[e] /\ synced'[e] = synced[e] /\ doc'[e] = doc[e]
<1>1. Popped(out'[e], out[e]) /\ Len(out[e]) \in Nat /\ Len(out'[e]) \in Nat
  BY TypingFacts DEF Serves, Takes, Inv
<1>2. /\ Len(out[e]) = Len(out'[e]) + 1 /\ 1 \in At(out[e])
      /\ \A i \in At(out'[e]) : i + 1 \in At(out[e]) /\ out'[e][i] = out[e][i + 1]
  BY <1>1, PoppedAt
<1>3. Len(out[e]) # 0 /\ (Len(out[e]) = 1 => Len(out'[e]) = 0)
  <2>1. Len(out[e]) = Len(out'[e]) + 1 /\ Len(out[e]) \in Nat /\ Len(out'[e]) \in Nat
    BY <1>1, <1>2
  <2> DEFINE n == Len(out'[e])
  <2>2. Len(out[e]) = n + 1 /\ n \in Nat
    BY <2>1
  <2> HIDE DEF n
  <2>3. Len(out[e]) # 0 /\ (Len(out[e]) = 1 => n = 0)
    BY <2>2
  <2> QED BY <2>3 DEF n
<1>4. Len(inbox[e]) = 0 /\ phase[e] # "new"
  BY <1>3 DEF Turns, Inv, Connected, Linked
<1>5. m = out[e][1] /\ timer'[e] = timer[e] /\ synced'[e] = synced[e] /\ doc'[e] = doc[e]
  BY DEF Serves, editor
<1>6. ASSUME NEW i \in At(out'[e]), out'[e][i].type \in {"join", "seed"} PROVE FALSE
  <2>1. Len(out[e]) = 1
    BY <1>2, <1>6 DEF Turns
  <2>2. Len(out'[e]) = 0
    BY <1>3, <2>1
  <2> QED BY <1>6, <2>2 DEF At
<1>7. m.type \in {"join", "seed"} => Len(out'[e]) = 0
  <2>1. m.type \in {"join", "seed"} => Len(out[e]) = 1
    BY <1>2, <1>5 DEF Turns
  <2> QED BY <1>3, <2>1
<1> QED BY <1>2, <1>4, <1>5, <1>6, <1>7

LEMMA TurnsJoins ==
    ASSUME Inv, Inv', NEW e \in Editor, Turns(e), NEW m, Joins(e, m)
    PROVE  Turns(e)'
<1>1. Serves(e, m) /\ m.type = "join" /\ stored' = stored
  BY DEF Joins
<1>2. /\ Len(inbox[e]) = 0 /\ m = out[e][1] /\ 1 \in At(out[e]) /\ Len(out'[e]) = 0
      /\ timer'[e] = timer[e] /\ synced'[e] = synced[e] /\ doc'[e] = doc[e]
  BY <1>1, TurnsTaken
<1>3. /\ ~synced[e] /\ ~timer[e] /\ ~TwiceIn(doc[e] \cup stored) /\ Backed(doc[e], doc[e])
      /\ \A o \in stored : o.needs = {} \/ o \in doc[e]
  BY <1>1, <1>2 DEF Turns
<1>4. inbox'[e] = inbox[e] \/ \E r : r.type = "state" /\ Pushed(inbox'[e], inbox[e], r)
  BY DEF Joins
<1>5. Len(inbox'[e]) = 0 \/ (Len(inbox'[e]) = 1 /\ inbox'[e][1].type # "update")
  BY <1>2, <1>4 DEF Pushed
<1>6. At(out'[e]) = {}
  BY <1>2 DEF At
<1> QED BY <1>1, <1>2, <1>3, <1>5, <1>6 DEF Turns

LEMMA TurnsInitializes ==
    ASSUME Inv, Inv', Rooted, NEW e \in Editor, Turns(e), NEW m, Initializes(e, m)
    PROVE  Turns(e)'
<1>1. Serves(e, m) /\ m.type = "seed" /\ stored' = IF stored = {} THEN m.ops ELSE stored
  BY DEF Initializes
<1>2. /\ Len(inbox[e]) = 0 /\ m = out[e][1] /\ 1 \in At(out[e]) /\ Len(out'[e]) = 0
      /\ timer'[e] = timer[e] /\ synced'[e] = synced[e] /\ doc'[e] = doc[e]
  BY <1>1, TurnsTaken
<1>3. ~synced[e] /\ ~timer[e] /\ doc[e] = {} /\ stored = {}
  BY <1>1, <1>2 DEF Turns
<1>4. inbox'[e] = inbox[e] \/ \E r : r.type = "seeded" /\ Pushed(inbox'[e], inbox[e], r)
  BY DEF Initializes
<1>5. Len(inbox'[e]) = 0 \/ (Len(inbox'[e]) = 1 /\ inbox'[e][1].type # "update")
  BY <1>2, <1>4 DEF Pushed
<1>6. At(out'[e]) = {}
  BY <1>2 DEF At
<1>7. PICK x : m.ops = {x} /\ x.needs = {}
  BY <1>1, <1>2 DEF Rooted
<1>8. doc'[e] \cup stored' = {x}
  BY <1>1, <1>2, <1>3, <1>7
<1>9. ~TwiceIn({x})
  BY DEF TwiceIn
<1>10. Backed(doc'[e], doc'[e]) /\ \A o \in stored' : o.needs = {} \/ o \in doc'[e]
  BY <1>1, <1>2, <1>3, <1>7 DEF Backed
<1> QED BY <1>1, <1>2, <1>3, <1>5, <1>6, <1>8, <1>9, <1>10 DEF Turns

LEMMA TurnsUpdates ==
    ASSUME Inv, Inv', NEW e \in Editor, phase[e] # "closed", Turns(e), NEW m, Updates(e, m)
    PROVE  Turns(e)'
<1>1. /\ Serves(e, m) /\ m.type \in {"edit", "resync", "snapshot"}
      /\ stored' = stored \cup m.ops /\ inbox'[e] = inbox[e]
  BY DEF Updates
<1>2. /\ Len(inbox[e]) = 0 /\ m = out[e][1] /\ 1 \in At(out[e]) /\ phase[e] # "new"
      /\ \A i \in At(out'[e]) : out'[e][i].type \notin {"join", "seed"}
      /\ timer'[e] = timer[e] /\ synced'[e] = synced[e] /\ doc'[e] = doc[e]
  BY <1>1, TurnsTaken
<1>3. phase[e] = "open"
  BY <1>2 DEF Inv, Typing, Control
<1>4. m.ops \subseteq doc[e]
  BY <1>1, <1>2, <1>3 DEF Inv, Connected, Queued
<1>5. doc'[e] \cup stored' = doc[e] \cup stored
  BY <1>1, <1>2, <1>4
<1>6. Backed(doc'[e], doc'[e]) /\ \A o \in stored' : o.needs = {} \/ o \in doc'[e]
  BY <1>1, <1>2, <1>4 DEF Turns
<1> QED BY <1>1, <1>2, <1>5, <1>6 DEF Turns

LEMMA AloneStep ==
    ASSUME Inv, Inv', Rooted, Steps, Alone
    PROVE  Alone'
<1> SUFFICES ASSUME NEW e \in Editor, Solo(e)', phase'[e] # "closed"
             PROVE  Turns(e)'
  BY DEF Alone, Lonely
<1>1. Solo(e) /\ phase[e] # "closed" /\ Turns(e)
  BY NoWayBack DEF Solo, Inv, Alone, Lonely
<1>2. ASSUME stored' \subseteq stored, UNCHANGED <<editor, out, inbox>> PROVE Turns(e)'
  BY <1>1, <1>2, TurnsStay DEF editor
<1>3. CASE UNCHANGED vars
  BY <1>2, <1>3 DEF vars, server
<1>4. CASE Connects(e) /\ (phase[e] = "new" \/ (phase[e] = "open" /\ ~online[e]))
  BY <1>1, <1>4, TurnsConnects
<1>5. ASSUME NEW w, NEW needs, Types(e, w, needs) PROVE Turns(e)'
  BY <1>1, <1>5, TurnsTypes
<1>6. ~Snaps(e) /\ ~Closes(e)
  BY <1>1 DEF Snaps, Closes, Turns
<1>7. CASE Loses(e)
  BY <1>1, <1>7, TurnsLoses
<1>8. ASSUME NEW m, Answers(e, m) PROVE Turns(e)'
  BY <1>1, <1>8, TurnsAnswers
<1>9. ASSUME NEW m, Joins(e, m) PROVE Turns(e)'
  BY <1>1, <1>9, TurnsJoins
<1>10. ASSUME NEW m, Initializes(e, m) PROVE Turns(e)'
  BY <1>1, <1>10, TurnsInitializes
<1>11. ASSUME NEW m, Updates(e, m) PROVE Turns(e)'
  BY <1>1, <1>11, TurnsUpdates
<1>12. ASSUME NEW m, Leaves(e, m) PROVE FALSE
  <2>1. Serves(e, m) /\ m.type = "leave"
    BY <1>12 DEF Leaves
  <2>2. m = out[e][1] /\ 1 \in At(out[e])
    BY <1>1, <2>1, TurnsTaken
  <2> QED BY <1>1, <2>1, <2>2 DEF Inv, Connected, Queued
<1>13. ASSUME NEW n \in Nat, Disconnects(e, n) PROVE Turns(e)'
  <2>1. (stored' = stored \/ stored' = {}) /\ UNCHANGED <<editor, out, inbox>>
    BY <1>13 DEF Disconnects, Forgets
  <2> QED BY <1>2, <2>1
<1>14. CASE Saves \/ SavesStopped
  <2>1. (stored' = stored \/ stored' = {}) /\ UNCHANGED <<editor, out, inbox>>
    BY <1>14 DEF Saves, SavesStopped, SavesText
  <2> QED BY <1>2, <2>1
<1>15. Solo(e)'
  OBVIOUS
<1> HIDE DEF Solo
<1> QED BY <1>1, <1>15, SoloSteps, <1>3, <1>4, <1>5, <1>6, <1>7, <1>8, <1>9, <1>10, <1>11, <1>12, <1>13, <1>14

-----------------------------------------------------------------------------
(* No word twice.                                                          *)

Seeded == Inv /\ Rooted /\ Steadily /\ Alone

LEMMA SeededShown == Seeded => ShownOnce
<1> SUFFICES ASSUME Seeded, NEW e \in Editor, Steady PROVE ~TwiceIn(doc[e])
  <2>1. ASSUME NEW e \in Editor, ~TwiceIn(doc[e]) PROVE ~TwiceIn(Shown(doc[e]))
    <3>1. Shown(doc[e]) \subseteq doc[e]
      BY DEF Shown
    <3> QED BY <2>1, <3>1, TwiceLess
  <2> QED BY <2>1 DEF ShownOnce, NeverTwice
<1>1. CASE Unbroken
  <2>1. \A o \in doc[e] : Known(o)
    BY <1>1 DEF Seeded, Inv, Relayed, Own, Known, Unbroken
  <2> QED BY <1>1, <2>1 DEF Seeded, Steadily, Distinct, TwiceIn
<1>2. ASSUME NEW f \in Editor, Solo(f) PROVE ~TwiceIn(doc[e])
  <2>1. CASE phase[e] # "open"
    <3>1. doc[e] = {}
      BY <2>1 DEF Seeded, Inv, Connected, Linked, Typing, Control
    <3> QED BY <3>1 DEF TwiceIn
  <2>2. CASE phase[e] = "open"
    <3>1. e = f
      BY <1>2, <2>2 DEF Solo
    <3>2. ~TwiceIn(doc[e] \cup stored)
      BY <1>2, <2>2, <3>1 DEF Seeded, Alone, Lonely, Turns
    <3> QED BY <3>2, TwiceLess
  <2> QED BY <2>1, <2>2
<1> QED BY <1>1, <1>2 DEF Steady, Unbroken, Solo

\* However many editors open the note at once, and whatever is typed meanwhile,
\* while no connection is lost no editor shows a word twice; nor does an editor
\* that is alone, however often it loses its connection (initializeContent,
\* yjs_document_update).
THEOREM TextIsShownOnce == Spec => []ShownOnce
<1>1. Init => Seeded
  BY InvInit, RootedInit, SteadilyInit, AloneInit DEF Seeded
<1>2. Seeded /\ [Next]_vars => Seeded'
  <2> SUFFICES ASSUME Seeded, [Next]_vars PROVE Seeded'
    OBVIOUS
  <2>1. Inv' /\ Steps
    BY InvStep, NextSteps DEF Seeded, Inv
  <2>2. Typing /\ Typing'
    BY <2>1 DEF Seeded, Inv
  <2>3. Rooted' /\ Steadily' /\ Alone'
    BY <2>1, <2>2, RootedStep, SteadilyStep, AloneStep DEF Seeded
  <2> QED BY <2>1, <2>3 DEF Seeded
<1>3. Seeded => ShownOnce
  BY SeededShown
<1> QED BY <1>1, <1>2, <1>3, PTL DEF Spec

-----------------------------------------------------------------------------
(* While connections last and nothing races: what a step may do.           *)

Heard(e, m) == Hears(e, m) /\ (HearsUpdate(e, m) \/ HearsState(e, m) \/ Seeds(e, m) \/ HearsSeeded(e, m))
Served(e, m) == Joins(e, m) \/ Initializes(e, m) \/ (Updates(e, m) /\ m.type # "resync") \/ Leaves(e, m)
Writing(e, w, needs) == /\ Types(e, w, needs) /\ online[e] /\ synced[e] /\ stored # {}
                        /\ \A f \in Editor : phase[f] = "closed" => Len(out[f]) = 0
Closing(e) == Closes(e) /\ online[e] /\ typed \subseteq Text(Shown(doc[e]))

\* Editors show all that they have.
AllShown == \A e \in Editor : Shown(doc[e]) = doc[e] /\ Shown(doc'[e]) = doc'[e]
GoesAhead ==
    /\ \/ UNCHANGED vars
       \/ \E e \in Editor : \/ Connects(e) /\ phase[e] = "new"
                            \/ \E w, needs : Writing(e, w, needs)
                            \/ Snaps(e) /\ online[e]
                            \/ Closing(e)
                            \/ \E m : Heard(e, m) \/ Served(e, m)
       \/ Saves
       \/ SavesStopped /\ stored' = stored
    /\ AllShown

LEMMA NotRaced ==
    ASSUME Typing, Steps, raced' = FALSE
    PROVE  raced = FALSE
<1>1. raced \in BOOLEAN
  BY DEF Typing, Control
<1>2. CASE UNCHANGED vars
  BY <1>2 DEF vars
<1>3. ASSUME NEW e \in Editor,
             Connects(e) \/ (\E w, needs : Types(e, w, needs)) \/ Snaps(e) \/ Closes(e) \/ Loses(e)
      PROVE  raced = FALSE
  BY <1>1, <1>3 DEF Connects, Types, Snaps, Closes, Loses
<1>4. ASSUME NEW e \in Editor, NEW m, Answers(e, m) \/ Joins(e, m) \/ Initializes(e, m) \/ Updates(e, m) \/ Leaves(e, m)
      PROVE  raced = FALSE
  BY <1>4 DEF Answers, Hears, Joins, Initializes, Updates, Leaves, Serves
<1>5. ASSUME NEW e \in Editor, NEW n, Disconnects(e, n) PROVE raced = FALSE
  BY <1>5 DEF Disconnects, Forgets
<1>6. Saves \/ SavesStopped => raced = FALSE
  BY <1>1 DEF Saves, SavesStopped
<1> QED BY <1>2, <1>3, <1>4, <1>5, <1>6 DEF Steps

LEMMA GoesOn ==
    ASSUME Inv, Steadily, Causal, Causal', Steps, Lasting'
    PROVE  Lasting /\ GoesAhead
<1>1. /\ Typing /\ Connected
      /\ raced \in BOOLEAN /\ raced' = FALSE /\ \A f \in Editor : link'[f] = 1
  BY DEF Inv, Typing, Control, Lasting, Unbroken
<1>2. Unbroken /\ raced = FALSE
  BY <1>1, NoWayBack, NotRaced DEF Unbroken
<1>3. \A f \in Editor : Linked(f) /\ Queued(f) /\ Calmly(f) /\ link[f] = 1
  BY <1>1, <1>2 DEF Connected, Steadily, Unbroken
<1>4. \A f \in Editor : phase[f] # "new" => online[f]
  BY <1>3 DEF Linked
<1>5. ASSUME NEW e \in Editor, Loses(e) PROVE FALSE
  BY <1>1, <1>3, <1>5 DEF Loses
<1>6. ASSUME NEW e \in Editor, NEW n \in Nat, n # 0, Disconnects(e, n) PROVE FALSE
  <2>1. <<e, n>> \in users /\ (n < link[e] \/ ~online[e])
    BY <1>6 DEF Disconnects
  <2>2. phase[e] # "new" /\ link[e] = 1
    BY <1>3, <2>1 DEF Linked
  <2> QED BY <1>4, <1>6, <2>1, <2>2
<1>7. ASSUME NEW e \in Editor, NEW w, NEW needs, Types(e, w, needs) PROVE Writing(e, w, needs)
  <2>1. phase[e] = "open"
    BY <1>7 DEF Types
  <2>2. \A f \in Editor : phase[f] = "closed" => out[f] = <<>>
    BY <1>1, <1>7 DEF Types
  <2> QED BY <1>2, <1>4, <1>7, <2>1, <2>2, CalmFacts DEF Writing
<1>8. ASSUME NEW e \in Editor, Snaps(e) \/ Closes(e) PROVE online[e]
  BY <1>4, <1>8 DEF Snaps, Closes
<1>9. ASSUME NEW e \in Editor, Closes(e) PROVE Closing(e)
  BY <1>1, <1>8, <1>9 DEF Closes, Closing
<1>10. ASSUME NEW e \in Editor, NEW m, Answers(e, m) PROVE Heard(e, m)
  BY <1>2, <1>10, CalmFacts DEF Answers, Heard
<1>11. ASSUME NEW e \in Editor, NEW m,
              Joins(e, m) \/ Initializes(e, m) \/ Updates(e, m) \/ Leaves(e, m)
       PROVE  Served(e, m)
  <2>1. CASE Updates(e, m)
    <3>1. m = out[e][1] /\ 1 \in At(out[e])
      BY <2>1 DEF Updates, Serves, Takes, Popped
    <3> QED BY <1>3, <2>1, <3>1 DEF Calmly, Served
  <2> QED BY <1>11, <2>1 DEF Served
<1>12. SavesStopped => stored' = stored
  BY <1>1 DEF SavesStopped
<1>13. AllShown
  <2>1. \A f \in Editor : Backed(doc[f], doc[f]) /\ Backed(doc'[f], doc'[f])
    BY <1>1, <1>2 DEF Causal, Unbroken
  <2> QED BY <2>1, BackedShown DEF AllShown
<1>14. GoesAhead
  BY <1>4, <1>5, <1>6, <1>7, <1>8, <1>9, <1>10, <1>11, <1>12, <1>13 DEF Steps, GoesAhead
<1> QED BY <1>2, <1>14 DEF Lasting, Unbroken

\* What editor f may add to its messages, at place i.
IsText(m) == m.type \in {"edit", "snapshot"}
Reports(f, m) ==
    \/ m.ops = {} /\ timer[f] /\ m.text = Text(Shown(doc[f])) /\ (Snaps(f) \/ Closing(f))
    \/ m.ops = {} /\ m.text = Text(Shown(doc'[f])) /\ \E r : Hears(f, r) /\ HearsSeeded(f, r)
    \/ m.text = Text(Shown(doc'[f])) /\ \E w, needs : Writing(f, w, needs) /\ m.ops = {Typed(f, w, needs)}
Adds(f, i, m) ==
    \/ /\ m.type \in {"join", "leave"} /\ m.ops = {}
       /\ Closing(f) \/ (Connects(f) /\ phase[f] = "new")
    \/ /\ m.type = "seed"
       /\ \E r : Hears(f, r) /\ Seeds(f, r) /\ \E o : m.ops = {o} /\ o.words = r.text
    \/ IsText(m) /\ i = Len(out[f]) + 1 /\ Reports(f, m)

\* The messages of f: the first may be taken, others are added.
Passes(f, d) ==
    /\ \A i \in At(out[f]) : i > d => i - d \in At(out'[f]) /\ out'[f][i - d] = out[f][i]
    /\ \A i \in At(out'[f]) : \/ i + d \in At(out[f]) /\ out'[f][i] = out[f][i + d]
                              \/ d = 0 /\ i \notin At(out[f]) /\ Adds(f, i, out'[f][i])
Queue(f) == \/ Passes(f, 0) /\ \A m : ~Served(f, m)
            \/ Passes(f, 1) /\ 1 \in At(out[f]) /\ Served(f, out[f][1])

LEMMA NothingServed ==
    ASSUME Typing, Typing', NEW f \in Editor, Len(out'[f]) # Len(out[f]) - 1
    PROVE  \A m : ~Served(f, m)
<1>1. Len(out[f]) \in Nat /\ Len(out'[f]) \in Nat
  BY TypingFacts
<1>2. \A m : Served(f, m) => Popped(out'[f], out[f])
  BY DEF Served, Joins, Initializes, Updates, Leaves, Serves, Takes
<1>3. Popped(out'[f], out[f]) => Len(out'[f]) = Len(out[f]) - 1
  BY <1>1 DEF Popped
<1> QED BY <1>2, <1>3

LEMMA QueueStays ==
    ASSUME Typing, Typing', NEW f \in Editor, out'[f] = out[f]
    PROVE  Queue(f)
<1>1. Len(out[f]) \in Nat /\ \A i \in At(out[f]) : i \in Nat
  BY TypingFacts
<1>2. \A i \in At(out[f]) : i - 0 = i /\ i + 0 = i
  BY <1>1
<1>3. Passes(f, 0)
  BY <1>2 DEF Passes
<1>4. \A m : ~Served(f, m)
  BY <1>1, NothingServed
<1> QED BY <1>3, <1>4 DEF Queue

LEMMA QueuePushed ==
    ASSUME Typing, Typing', NEW f \in Editor, NEW m, Pushed(out'[f], out[f], m), Adds(f, Len(out[f]) + 1, m)
    PROVE  Queue(f)
<1>1. Len(out[f]) \in Nat
  BY TypingFacts
<1>2. \A i \in At(out'[f]) : \/ i \in At(out[f]) /\ out'[f][i] = out[f][i]
                             \/ i = Len(out[f]) + 1 /\ out'[f][i] = m /\ i \notin At(out[f])
  BY <1>1, PushedAt
<1>3. \A i \in At(out[f]) : i \in At(out'[f]) /\ out'[f][i] = out[f][i] /\ i \in Nat
  BY <1>1, PushedAt
<1>4. \A i \in At(out[f]) : i - 0 = i /\ i + 0 = i
  BY <1>3
<1>5. Passes(f, 0)
  BY <1>2, <1>3, <1>4 DEF Passes
<1>6. Len(out'[f]) = Len(out[f]) + 1
  BY DEF Pushed
<1>7. \A m1 : ~Served(f, m1)
  BY <1>1, <1>6, NothingServed
<1> QED BY <1>5, <1>7 DEF Queue

LEMMA QueuePopped ==
    ASSUME Typing, Typing', NEW f \in Editor, Popped(out'[f], out[f]), Served(f, out[f][1])
    PROVE  Queue(f)
<1>1. Len(out[f]) \in Nat /\ Len(out'[f]) \in Nat
  BY TypingFacts
<1>2. /\ \A i \in At(out'[f]) : i + 1 \in At(out[f]) /\ out'[f][i] = out[f][i + 1]
      /\ \A i \in At(out[f]) : i = 1 \/ (i - 1 \in At(out'[f]) /\ out'[f][i - 1] = out[f][i])
      /\ 1 \in At(out[f])
  BY <1>1, PoppedAt
<1>3. Passes(f, 1)
  BY <1>2 DEF Passes
<1> QED BY <1>2, <1>3 DEF Queue

LEMMA QueueCloses ==
    ASSUME Typing, Typing', NEW f \in Editor, Closing(f)
    PROVE  Queue(f)
<1>1. PICK q, l : /\ l.type = "leave" /\ l.ops = {} /\ Pushed(out'[f], q, l)
                  /\ ~timer[f] => q = out[f]
                  /\ timer[f] => \E m : /\ m.type = "snapshot" /\ m.ops = {} /\ m.text = Text(Shown(doc[f]))
                                        /\ Pushed(q, out[f], m)
                  /\ Len(q) \in Nat
  BY DEF Closing, Closes
<1>2. \A i : Adds(f, i, l)
  BY <1>1 DEF Adds
<1>3. CASE ~timer[f]
  BY <1>1, <1>2, <1>3, QueuePushed
<1>4. CASE timer[f]
  <2>1. PICK m : m.type = "snapshot" /\ m.ops = {} /\ m.text = Text(Shown(doc[f])) /\ Pushed(q, out[f], m)
    BY <1>1, <1>4
  <2>2. Len(out[f]) \in Nat
    BY TypingFacts
  <2>3. /\ \A i \in At(q) : \/ i \in At(out[f]) /\ q[i] = out[f][i]
                            \/ i = Len(out[f]) + 1 /\ q[i] = m
        /\ \A i \in At(out[f]) : i \in At(q) /\ q[i] = out[f][i] /\ i \in Nat /\ i < Len(out[f]) + 1
        /\ Len(q) = Len(out[f]) + 1 /\ Len(out[f]) + 1 \notin At(out[f])
    BY <2>1, <2>2, PushedAt
  <2>4. /\ \A i \in At(out'[f]) : \/ i \in At(q) /\ out'[f][i] = q[i]
                                  \/ i = Len(q) + 1 /\ out'[f][i] = l
        /\ \A i \in At(q) : i \in At(out'[f]) /\ out'[f][i] = q[i] /\ i \in Nat /\ i < Len(q) + 1
        /\ Len(q) + 1 \notin At(q)
    BY <1>1, PushedAt
  <2>5. Adds(f, Len(out[f]) + 1, m)
    BY <1>4, <2>1 DEF Adds, IsText, Reports
  <2>6. \A i \in At(out[f]) : i - 0 = i /\ i + 0 = i /\ i \in At(out'[f]) /\ out'[f][i] = out[f][i]
    BY <2>3, <2>4
  <2>7. \A i \in At(out'[f]) : \/ i \in At(out[f]) /\ out'[f][i] = out[f][i]
                               \/ i \notin At(out[f]) /\ Adds(f, i, out'[f][i])
    <3> SUFFICES ASSUME NEW i \in At(out'[f]), i \notin At(out[f]) PROVE Adds(f, i, out'[f][i])
      BY <2>6
    <3>1. CASE i \in At(q) /\ out'[f][i] = q[i]
      BY <2>3, <2>5, <3>1
    <3>2. CASE out'[f][i] = l
      BY <1>2, <3>2
    <3> QED BY <2>4, <3>1, <3>2
  <2>8. Passes(f, 0)
    BY <2>6, <2>7 DEF Passes
  <2>9. Len(out'[f]) = Len(out[f]) + 2
    <3>1. Len(q) = Len(out[f]) + 1 /\ Len(out'[f]) = Len(q) + 1
      BY <1>1, <2>1 DEF Pushed
    <3> QED BY <2>2, <3>1
  <2>10. \A m1 : ~Served(f, m1)
    BY <2>2, <2>9, NothingServed
  <2> QED BY <2>8, <2>10 DEF Queue
<1> QED BY <1>3, <1>4

LEMMA Queues ==
    ASSUME Typing, Typing', GoesAhead, NEW f \in Editor
    PROVE  Queue(f)
<1>1. CASE UNCHANGED vars
  BY <1>1, QueueStays DEF vars
<1>2. ASSUME NEW e \in Editor, Connects(e), phase[e] = "new" PROVE Queue(f)
  <2>1. PICK m : m.type = "join" /\ m.ops = {} /\ Puts(e, m)
    BY <1>2 DEF Connects
  <2>2. CASE e = f
    <3>1. Adds(f, Len(out[f]) + 1, m)
      BY <1>2, <2>1, <2>2 DEF Adds
    <3> QED BY <2>1, <2>2, <3>1, QueuePushed DEF Puts
  <2> QED BY <2>1, <2>2, QueueStays DEF Puts
<1>3. ASSUME NEW e \in Editor, NEW w, NEW needs, Writing(e, w, needs) PROVE Queue(f)
  <2>1. PICK m : m.type = "edit" /\ m.ops = {Typed(e, w, needs)} /\ m.text = Text(Shown(doc'[e])) /\ Puts(e, m)
    BY <1>3 DEF Writing, Types
  <2>2. CASE e = f
    <3>1. Adds(f, Len(out[f]) + 1, m)
      BY <1>3, <2>1, <2>2 DEF Adds, IsText, Reports
    <3> QED BY <2>1, <2>2, <3>1, QueuePushed DEF Puts
  <2> QED BY <2>1, <2>2, QueueStays DEF Puts
<1>4. ASSUME NEW e \in Editor, Snaps(e), online[e] PROVE Queue(f)
  <2>1. PICK m : m.type = "snapshot" /\ m.ops = {} /\ m.text = Text(Shown(doc[e])) /\ Puts(e, m)
    BY <1>4 DEF Snaps
  <2>2. CASE e = f
    <3>1. Adds(f, Len(out[f]) + 1, m)
      BY <1>4, <2>1, <2>2 DEF Adds, IsText, Reports, Snaps
    <3> QED BY <2>1, <2>2, <3>1, QueuePushed DEF Puts
  <2> QED BY <2>1, <2>2, QueueStays DEF Puts
<1>5. ASSUME NEW e \in Editor, Closing(e) PROVE Queue(f)
  BY <1>5, QueueCloses, QueueStays DEF Closing, Closes
<1>6. ASSUME NEW e \in Editor, NEW r, Heard(e, r) PROVE Queue(f)
  <2>1. CASE HearsUpdate(e, r) \/ HearsState(e, r) \/ (HearsSeeded(e, r) /\ timer[e])
    BY <2>1, QueueStays DEF HearsUpdate, HearsState, HearsSeeded
  <2>2. CASE Seeds(e, r)
    <3>1. PICK m, o : m.type = "seed" /\ m.ops = {o} /\ o.words = r.text /\ Puts(e, m)
      BY <2>2 DEF Seeds
    <3>2. CASE e = f
      <4>1. Adds(f, Len(out[f]) + 1, m)
        BY <1>6, <2>2, <3>1, <3>2 DEF Adds, Heard
      <4> QED BY <3>1, <3>2, <4>1, QueuePushed DEF Puts
    <3> QED BY <3>1, <3>2, QueueStays DEF Puts
  <2>3. CASE HearsSeeded(e, r) /\ ~timer[e]
    <3>1. PICK m : m.type = "snapshot" /\ m.ops = {} /\ m.text = Text(Shown(doc'[e])) /\ Puts(e, m)
      BY <2>3 DEF HearsSeeded
    <3>2. CASE e = f
      <4>1. Adds(f, Len(out[f]) + 1, m)
        BY <1>6, <2>3, <3>1, <3>2 DEF Adds, Heard, IsText, Reports
      <4> QED BY <3>1, <3>2, <4>1, QueuePushed DEF Puts
    <3> QED BY <3>1, <3>2, QueueStays DEF Puts
  <2> QED BY <1>6, <2>1, <2>2, <2>3 DEF Heard
<1>7. ASSUME NEW e \in Editor, NEW m, Served(e, m) PROVE Queue(f)
  <2>1. m = out[e][1] /\ Takes(e)
    BY <1>7 DEF Served, Joins, Initializes, Updates, Leaves, Serves
  <2>2. CASE e = f
    BY <1>7, <2>1, <2>2, QueuePopped DEF Takes
  <2> QED BY <2>1, <2>2, QueueStays DEF Takes
<1>8. Saves \/ SavesStopped => Queue(f)
  BY QueueStays DEF Saves, SavesStopped
<1> QED BY <1>1, <1>2, <1>3, <1>4, <1>5, <1>6, <1>7, <1>8 DEF GoesAhead

\* What the server may send to editor f.
Arrives(f, r) ==
    \/ r.type = "state" /\ r.ops = stored /\ r.text = note /\ \E m : Joins(f, m)
    \/ r.type = "seeded" /\ r.ops = stored' /\ \E m : Initializes(f, m)
    \/ /\ r.type = "update" /\ Reaches(f)
       /\ \E e \in Editor : \E m : /\ e # f /\ r.ops = m.ops
                                   /\ \/ Initializes(e, m) /\ stored = {}
                                      \/ Updates(e, m) /\ m.type # "resync"

\* The messages to f: the first may be heard, another comes, or f is closed.
Hands(f, d) ==
    /\ \A i \in At(inbox[f]) : i > d => i - d \in At(inbox'[f]) /\ inbox'[f][i - d] = inbox[f][i]
    /\ \A i \in At(inbox'[f]) : \/ i + d \in At(inbox[f]) /\ inbox'[f][i] = inbox[f][i + d]
                                \/ d = 0 /\ i = Len(inbox[f]) + 1 /\ Arrives(f, inbox'[f][i])
Mail(f) == \/ Hands(f, 0) /\ \A m : ~Heard(f, m)
           \/ Hands(f, 1) /\ 1 \in At(inbox[f]) /\ Heard(f, inbox[f][1])
           \/ Closing(f) /\ Len(inbox'[f]) = 0

LEMMA NothingHeard ==
    ASSUME Typing, Typing', NEW f \in Editor, Len(inbox'[f]) # Len(inbox[f]) - 1
    PROVE  \A m : ~Heard(f, m)
<1>1. Len(inbox[f]) \in Nat /\ Len(inbox'[f]) \in Nat
  BY TypingFacts
<1> QED BY <1>1 DEF Heard, Hears, Popped

LEMMA MailStays ==
    ASSUME Typing, Typing', NEW f \in Editor, inbox'[f] = inbox[f]
    PROVE  Mail(f)
<1>1. Len(inbox[f]) \in Nat /\ \A i \in At(inbox[f]) : i \in Nat
  BY TypingFacts
<1>2. \A i \in At(inbox[f]) : i - 0 = i /\ i + 0 = i
  BY <1>1
<1>3. Hands(f, 0)
  BY <1>2 DEF Hands
<1>4. \A m : ~Heard(f, m)
  BY <1>1, NothingHeard
<1> QED BY <1>3, <1>4 DEF Mail

LEMMA MailPushed ==
    ASSUME Typing, Typing', NEW f \in Editor, NEW r, Pushed(inbox'[f], inbox[f], r), Arrives(f, r)
    PROVE  Mail(f)
<1>1. Len(inbox[f]) \in Nat
  BY TypingFacts
<1>2. /\ \A i \in At(inbox'[f]) : \/ i \in At(inbox[f]) /\ inbox'[f][i] = inbox[f][i]
                                  \/ i = Len(inbox[f]) + 1 /\ inbox'[f][i] = r
      /\ \A i \in At(inbox[f]) : i \in At(inbox'[f]) /\ inbox'[f][i] = inbox[f][i] /\ i \in Nat
      /\ Len(inbox'[f]) = Len(inbox[f]) + 1
  BY <1>1, PushedAt
<1>3. \A i \in At(inbox[f]) : i - 0 = i /\ i + 0 = i
  BY <1>2
<1>4. Hands(f, 0)
  BY <1>2, <1>3 DEF Hands
<1>5. \A m : ~Heard(f, m)
  BY <1>1, <1>2, NothingHeard
<1> QED BY <1>4, <1>5 DEF Mail

LEMMA MailPopped ==
    ASSUME Typing, Typing', NEW f \in Editor, NEW m, Heard(f, m)
    PROVE  Mail(f)
<1>1. Len(inbox[f]) \in Nat /\ Len(inbox'[f]) \in Nat
  BY TypingFacts
<1>2. Popped(inbox'[f], inbox[f]) /\ m = inbox[f][1]
  BY DEF Heard, Hears
<1>3. /\ \A i \in At(inbox'[f]) : i + 1 \in At(inbox[f]) /\ inbox'[f][i] = inbox[f][i + 1]
      /\ \A i \in At(inbox[f]) : i = 1 \/ (i - 1 \in At(inbox'[f]) /\ inbox'[f][i - 1] = inbox[f][i])
      /\ 1 \in At(inbox[f])
  <2>1. PICK q, r : q = inbox[f] /\ r = inbox'[f]
    OBVIOUS
  <2>2. Len(q) \in Nat /\ Len(r) \in Nat /\ Popped(r, q)
    BY <1>1, <1>2, <2>1
  <2>3. /\ \A i \in At(r) : i + 1 \in At(q) /\ r[i] = q[i + 1]
        /\ \A i \in At(q) : i = 1 \/ (i - 1 \in At(r) /\ r[i - 1] = q[i])
        /\ 1 \in At(q)
    BY <2>2, PoppedAt
  <2> QED BY <2>1, <2>3
<1>4. Hands(f, 1)
  BY <1>3 DEF Hands
<1> QED BY <1>2, <1>3, <1>4 DEF Mail

LEMMA Mails ==
    ASSUME Typing, Typing', GoesAhead, NEW f \in Editor
    PROVE  Mail(f)
<1>1. CASE UNCHANGED vars
  BY <1>1, MailStays DEF vars
<1>2. ASSUME NEW e \in Editor, Connects(e) \/ (\E w, needs : Writing(e, w, needs)) \/ Snaps(e)
      PROVE  Mail(f)
  <2>1. inbox'[f] = inbox[f]
    BY <1>2 DEF Connects, Writing, Types, Snaps, Others
  <2> QED BY <2>1, MailStays
<1>3. ASSUME NEW e \in Editor, Closing(e) PROVE Mail(f)
  <2>1. CASE e = f
    <3>1. inbox'[f] = <<>>
      BY <1>3, <2>1 DEF Closing, Closes
    <3>2. Len(inbox'[f]) = 0
      BY <3>1
    <3> QED BY <1>3, <2>1, <3>2 DEF Mail
  <2>2. CASE e # f
    <3>1. inbox'[f] = inbox[f]
      BY <1>3, <2>2 DEF Closing, Closes, Others
    <3> QED BY <3>1, MailStays
  <2> QED BY <2>1, <2>2
<1>4. ASSUME NEW e \in Editor, NEW r, Heard(e, r) PROVE Mail(f)
  <2>1. CASE e = f
    BY <1>4, <2>1, MailPopped
  <2>2. CASE e # f
    <3>1. inbox'[f] = inbox[f]
      BY <1>4, <2>2 DEF Heard, Hears
    <3> QED BY <3>1, MailStays
  <2> QED BY <2>1, <2>2
<1>5. ASSUME NEW e \in Editor, NEW m, Joins(e, m) PROVE Mail(f)
  <2>1. CASE inbox'[f] = inbox[f]
    BY <2>1, MailStays
  <2>2. CASE e = f /\ phase[e] = "open"
    <3>1. PICK r : /\ r.type = "state" /\ r.ops = stored /\ r.text = note
                   /\ Pushed(inbox'[e], inbox[e], r)
      BY <1>5, <2>2 DEF Joins
    <3>2. Arrives(f, r)
      BY <1>5, <2>2, <3>1 DEF Arrives
    <3> QED BY <2>2, <3>1, <3>2, MailPushed
  <2> QED BY <1>5, <2>1, <2>2 DEF Joins
<1>6. ASSUME NEW e \in Editor, NEW m, Initializes(e, m) PROVE Mail(f)
  <2>1. CASE inbox'[f] = inbox[f]
    BY <2>1, MailStays
  <2>2. CASE e = f /\ phase[e] = "open"
    <3>1. PICK r : r.type = "seeded" /\ r.ops = stored' /\ Pushed(inbox'[e], inbox[e], r)
      BY <1>6, <2>2 DEF Initializes
    <3>2. Arrives(f, r)
      BY <1>6, <2>2, <3>1 DEF Arrives
    <3> QED BY <2>2, <3>1, <3>2, MailPushed
  <2>3. CASE e # f /\ stored = {} /\ Reaches(f)
    <3>1. PICK r : r.type = "update" /\ r.ops = m.ops /\ Pushed(inbox'[f], inbox[f], r)
      BY <1>6, <2>3 DEF Initializes
    <3>2. Arrives(f, r)
      BY <1>6, <2>3, <3>1 DEF Arrives
    <3> QED BY <3>1, <3>2, MailPushed
  <2> QED BY <1>6, <2>1, <2>2, <2>3 DEF Initializes
<1>7. ASSUME NEW e \in Editor, NEW m, Updates(e, m), m.type # "resync" PROVE Mail(f)
  <2>1. CASE inbox'[f] = inbox[f]
    BY <2>1, MailStays
  <2>2. CASE e # f /\ m.ops # {} /\ Reaches(f)
    <3>1. PICK r : r.type = "update" /\ r.ops = m.ops /\ Pushed(inbox'[f], inbox[f], r)
      BY <1>7, <2>2 DEF Updates
    <3>2. Arrives(f, r)
      BY <1>7, <2>2, <3>1 DEF Arrives
    <3> QED BY <3>1, <3>2, MailPushed
  <2> QED BY <1>7, <2>1, <2>2 DEF Updates
<1>8. ASSUME NEW e \in Editor, NEW m, Leaves(e, m) PROVE Mail(f)
  BY <1>8, MailStays DEF Leaves, Forgets
<1>9. Saves \/ SavesStopped => Mail(f)
  BY MailStays DEF Saves, SavesStopped
<1> QED BY <1>1, <1>2, <1>3, <1>4, <1>5, <1>6, <1>7, <1>8, <1>9 DEF GoesAhead, Served

\* An editor stays as it is, but that it may be opened, or it acts.
Stands(f) == /\ doc'[f] = doc[f] /\ timer'[f] = timer[f] /\ synced'[f] = synced[f]
             /\ phase'[f] = phase[f] \/ (phase[f] = "new" /\ phase'[f] = "open")
Acts(f) == (\E w, needs : Writing(f, w, needs)) \/ (Snaps(f) /\ online[f]) \/ Closing(f) \/ (\E m : Heard(f, m))

LEMMA Deeds ==
    ASSUME GoesAhead, NEW f \in Editor
    PROVE  Stands(f) \/ Acts(f)
<1>1. UNCHANGED editor => Stands(f)
  BY DEF editor, Stands
<1>2. UNCHANGED vars \/ Saves \/ SavesStopped => UNCHANGED editor
  BY DEF vars, Saves, SavesStopped
<1>3. ASSUME NEW e \in Editor, NEW m, Served(e, m) PROVE UNCHANGED editor
  BY <1>3 DEF Served, Joins, Initializes, Updates, Leaves, Serves
<1>4. ASSUME NEW e \in Editor, Connects(e), phase[e] = "new" PROVE Stands(f)
  BY <1>4 DEF Connects, Others, Stands
<1>5. ASSUME NEW e \in Editor, e # f,
             (\E w, needs : Writing(e, w, needs)) \/ Snaps(e) \/ Closing(e) \/ (\E m : Heard(e, m))
      PROVE  Stands(f)
  BY <1>5 DEF Writing, Types, Snaps, Closing, Closes, Heard, Hears, Others, Stands
<1> QED BY <1>1, <1>2, <1>3, <1>4, <1>5 DEF GoesAhead, Acts

\* Who acts is open, and loses nothing unless it closes.
LEMMA Actors ==
    ASSUME Inv, GoesAhead, NEW f \in Editor
    PROVE  /\ Acts(f) => phase[f] = "open" /\ UNCHANGED server
           /\ ~Closing(f) \/ phase'[f] # "closed" => doc[f] \subseteq doc'[f]
           /\ Closing(f) <=> phase'[f] = "closed" /\ phase[f] # "closed"
           /\ phase[f] = "open" /\ ~Closing(f) => phase'[f] = "open"
<1>1. \A m : Hears(f, m) => phase[f] = "open"
  <2>1. \A m : Hears(f, m) => Len(inbox[f]) # 0
    BY TypingFacts DEF Hears, Popped, Inv, At
  <2> QED BY <2>1 DEF Inv, Connected, Linked
<1>2. Acts(f) => phase[f] = "open"
  BY <1>1 DEF Acts, Writing, Types, Snaps, Closing, Closes, Heard
<1>3. Acts(f) => UNCHANGED server
  BY DEF Acts, Writing, Types, Snaps, Closing, Closes, Heard, Hears
<1>4. Closing(f) => phase'[f] = "closed"
  BY DEF Closing, Closes
<1>5. Acts(f) /\ ~Closing(f) => phase'[f] = phase[f] /\ doc[f] \subseteq doc'[f]
  BY DEF Acts, Writing, Types, Snaps, Heard, Hears, HearsUpdate, HearsState, Seeds, HearsSeeded
<1>6. Stands(f) => phase'[f] # "closed" \/ phase[f] = "closed"
  BY DEF Stands
<1>7. Closing(f) => phase[f] = "open"
  BY <1>2 DEF Acts
<1>8. /\ ~Closing(f) \/ phase'[f] # "closed" => doc[f] \subseteq doc'[f]
      /\ Closing(f) <=> phase'[f] = "closed" /\ phase[f] # "closed"
      /\ phase[f] = "open" /\ ~Closing(f) => phase'[f] = "open"
  BY <1>2, <1>4, <1>5, <1>6, <1>7, Deeds DEF Stands
<1> QED BY <1>2, <1>3, <1>8

\* Who had a text to send sends it, with all that its document has and had.
LEMMA Speaks ==
    ASSUME Typing, GoesAhead, NEW f \in Editor,
           \/ \E w, needs : Writing(f, w, needs)
           \/ Snaps(f) /\ online[f]
           \/ Closing(f) /\ timer[f]
           \/ ~timer[f] /\ \E r : Heard(f, r) /\ HearsSeeded(f, r)
    PROVE  \E i \in At(out'[f]) : /\ IsText(out'[f][i])
                                  /\ \A o \in doc[f] \cup doc'[f] : o.words \subseteq out'[f][i].text
<1>1. Len(out[f]) \in Nat
  BY TypingFacts
<1>2. /\ \A o \in doc[f] : o.words \subseteq Text(Shown(doc[f]))
      /\ \A o \in doc'[f] : o.words \subseteq Text(Shown(doc'[f]))
  <2>1. \A D : \A o \in D : o.words \subseteq Text(D)
    BY DEF Text
  <2> QED BY <2>1 DEF GoesAhead, AllShown
<1>3. ASSUME NEW m, Pushed(out'[f], out[f], m), IsText(m),
             \A o \in doc[f] \cup doc'[f] : o.words \subseteq m.text
      PROVE  \E i \in At(out'[f]) : /\ IsText(out'[f][i])
                                    /\ \A o \in doc[f] \cup doc'[f] : o.words \subseteq out'[f][i].text
  <2>1. Len(out[f]) + 1 \in At(out'[f]) /\ out'[f][Len(out[f]) + 1] = m
    BY <1>1, <1>3, PushedAt
  <2> QED BY <1>3, <2>1
<1>4. ASSUME NEW w, NEW needs, Writing(f, w, needs)
      PROVE  \E m : /\ Pushed(out'[f], out[f], m) /\ IsText(m)
                    /\ \A o \in doc[f] \cup doc'[f] : o.words \subseteq m.text
  <2>1. PICK m : m.type = "edit" /\ m.text = Text(Shown(doc'[f])) /\ Puts(f, m)
    BY <1>4 DEF Writing, Types
  <2>2. doc'[f] = doc[f] \cup {Typed(f, w, needs)}
    BY <1>4 DEF Writing, Types
  <2>3. \A o \in doc[f] \cup doc'[f] : o \in doc'[f]
    BY <2>2
  <2> QED BY <1>2, <2>1, <2>3 DEF IsText, Puts
<1>5. ASSUME Snaps(f), online[f]
      PROVE  \E m : /\ Pushed(out'[f], out[f], m) /\ IsText(m)
                    /\ \A o \in doc[f] \cup doc'[f] : o.words \subseteq m.text
  <2>1. PICK m : m.type = "snapshot" /\ m.text = Text(Shown(doc[f])) /\ Puts(f, m)
    BY <1>5 DEF Snaps
  <2>2. \A o \in doc[f] \cup doc'[f] : o \in doc[f]
    BY <1>5 DEF Snaps
  <2> QED BY <1>2, <2>1, <2>2 DEF IsText, Puts
<1>6. ASSUME NEW r, Heard(f, r), HearsSeeded(f, r), ~timer[f]
      PROVE  \E m : /\ Pushed(out'[f], out[f], m) /\ IsText(m)
                    /\ \A o \in doc[f] \cup doc'[f] : o.words \subseteq m.text
  <2>1. PICK m : m.type = "snapshot" /\ m.text = Text(Shown(doc'[f])) /\ Puts(f, m)
    BY <1>6 DEF HearsSeeded
  <2>2. \A o \in doc[f] \cup doc'[f] : o \in doc'[f]
    BY <1>6 DEF HearsSeeded
  <2> QED BY <1>2, <2>1, <2>2 DEF IsText, Puts
<1>7. ASSUME Closing(f), timer[f]
      PROVE  \E i \in At(out'[f]) : /\ IsText(out'[f][i])
                                    /\ \A o \in doc[f] \cup doc'[f] : o.words \subseteq out'[f][i].text
  <2>1. PICK q, l : /\ Pushed(out'[f], q, l) /\ Len(q) \in Nat
                    /\ \E m : m.type = "snapshot" /\ m.text = Text(Shown(doc[f])) /\ Pushed(q, out[f], m)
    BY <1>7 DEF Closing, Closes
  <2>2. PICK m : m.type = "snapshot" /\ m.text = Text(Shown(doc[f])) /\ Pushed(q, out[f], m)
    BY <2>1
  <2>3. Len(out[f]) + 1 \in At(q) /\ q[Len(out[f]) + 1] = m
    BY <1>1, <2>2, PushedAt
  <2>4. Len(out[f]) + 1 \in At(out'[f]) /\ out'[f][Len(out[f]) + 1] = m
    BY <2>1, <2>3, PushedAt
  <2>5. \A o \in doc[f] \cup doc'[f] : o \in doc[f]
    BY <1>7 DEF Closing, Closes
  <2>6. IsText(m) /\ \A o \in doc[f] \cup doc'[f] : o.words \subseteq m.text
    BY <1>2, <2>2, <2>5 DEF IsText
  <2> QED BY <2>4, <2>6
<1> QED BY <1>3, <1>4, <1>5, <1>6, <1>7

\* The text that the note has once the save under way, if any, is done.
Final == IF save = {} THEN {note} ELSE save

\* What becomes of the document and of that text.
LEMMA Server ==
    ASSUME Typing, GoesAhead
    PROVE  \/ stored' = stored /\ Final' = Final
           \/ \E e \in Editor : \E m : Initializes(e, m) /\ stored = {}
           \/ \E e \in Editor : \E m : Updates(e, m) /\ m.type # "resync"
           \/ stored' = {} /\ users' = {} /\ save' = {}
<1>1. UNCHANGED server => stored' = stored /\ Final' = Final
  BY DEF server, Final
<1>2. UNCHANGED vars => UNCHANGED server
  BY DEF vars
<1>3. ASSUME NEW e \in Editor,
             Connects(e) \/ (\E w, needs : Writing(e, w, needs)) \/ Snaps(e) \/ Closing(e) \/ (\E m : Heard(e, m))
      PROVE  UNCHANGED server
  BY <1>3 DEF Connects, Writing, Types, Snaps, Closing, Closes, Heard, Hears
<1>4. ASSUME NEW e \in Editor, NEW m, Joins(e, m) PROVE stored' = stored /\ Final' = Final
  BY <1>4 DEF Joins, Serves, Final
<1>5. ASSUME NEW e \in Editor, NEW m, Initializes(e, m), stored # {} PROVE stored' = stored /\ Final' = Final
  BY <1>5 DEF Initializes, Serves, Final
<1>6. ASSUME NEW e \in Editor, NEW m, Leaves(e, m)
      PROVE  \/ stored' = stored /\ Final' = Final
             \/ stored' = {} /\ users' = {} /\ save' = {}
  BY <1>6 DEF Leaves, Forgets, Final
<1>7. CASE Saves
  <2>1. PICK text : save = {text} /\ note' = text /\ stored' = IF users = {} THEN {} ELSE stored
    BY <1>7 DEF Saves, SavesText
  <2>2. save' = {} /\ users' = users
    BY <1>7 DEF Saves
  <2>3. Final' = Final
    BY <2>1, <2>2 DEF Final
  <2> QED BY <2>1, <2>2, <2>3
<1>8. CASE SavesStopped /\ stored' = stored
  <2>1. stopped # {} /\ save' = save
    BY <1>8 DEF SavesStopped
  <2>2. save # {}
    BY <2>1 DEF Typing, Control
  <2> QED BY <1>8, <2>1, <2>2 DEF Final
<1> QED BY <1>1, <1>2, <1>3, <1>4, <1>5, <1>6, <1>7, <1>8 DEF GoesAhead, Served

-----------------------------------------------------------------------------
(* Until the document is seeded, all is as the note has it.                *)

Begun ==
    stored = {} =>
      /\ save = {}
      /\ \A e \in Editor :
           /\ \A i \in At(inbox[e]) : inbox[e][i].type = "state" => inbox[e][i].text = note
           /\ \A i \in At(out[e]) :
                /\ ~IsText(out[e][i])
                /\ out[e][i].type = "seed" => \A o \in out[e][i].ops : o.words = note

\* Nobody is left: nothing is on its way.
LEMMA Emptied ==
    ASSUME Typing', Connected', Unbroken', users' = {}, NEW e \in Editor
    PROVE  /\ Len(inbox'[e]) = 0 /\ ~timer'[e] /\ doc'[e] = {}
           /\ \A i \in At(out'[e]) : out'[e][i].type \notin {"seed", "edit", "snapshot"}
<1>1. ~InRoom(e)' /\ link'[e] = 1
  BY DEF Typing, Control, InRoom, Unbroken
<1>2. Linked(e)' /\ Queued(e)'
  BY DEF Connected
<1>3. Len(inbox'[e]) = 0 /\ doc'[e] = {}
  BY <1>1, <1>2 DEF Linked
<1>4. timer'[e] => doc'[e] # {}
  BY DEF Typing, Written
<1>5. \A i \in At(out'[e]) : out'[e][i].type \notin {"seed", "edit", "snapshot"}
  BY <1>1, <1>2 DEF Queued, At
<1> QED BY <1>3, <1>4, <1>5

\* In a calm without a document, the editors have nothing either.
LEMMA NothingYet ==
    ASSUME Inv, Steadily, Unbroken, stored = {}, NEW f \in Editor
    PROVE  /\ doc[f] = {} /\ ~timer[f] /\ ~synced[f] /\ \A o : ~Sent(f, o)
           /\ \A i \in At(inbox[f]) : inbox[f][i].ops = {}
<1>1. \A o : ~Sent(f, o)
  BY CalmFacts
<1>2. doc[f] = {}
  BY <1>1 DEF Inv, Relayed, Own, Unbroken
<1>3. ~timer[f]
  BY <1>2, TypingFacts DEF Inv
<1>4. ~synced[f]
  BY DEF Steadily, Calmly
<1>5. \A i \in At(inbox[f]) : inbox[f][i].ops = {}
  BY DEF Inv, Relayed, Arrived
<1> QED BY <1>1, <1>2, <1>3, <1>4, <1>5

LEMMA BegunStep ==
    ASSUME Inv, Inv', Steadily, Unbroken, Unbroken', GoesAhead, Begun
    PROVE  Begun'
<1> SUFFICES ASSUME stored' = {}
             PROVE  /\ save' = {}
                    /\ \A e \in Editor :
                         /\ \A i \in At(inbox'[e]) : inbox'[e][i].type = "state" => inbox'[e][i].text = note'
                         /\ \A i \in At(out'[e]) :
                              /\ ~IsText(out'[e][i])
                              /\ out'[e][i].type = "seed" => \A o \in out'[e][i].ops : o.words = note'
  BY DEF Begun, At, IsText
<1>1. Typing /\ Typing' /\ Connected'
  BY DEF Inv
<1>2. CASE users' = {} /\ save' = {}
  BY <1>1, <1>2, Emptied DEF At, IsText
<1>3. ASSUME NEW e \in Editor, NEW m, Initializes(e, m) PROVE stored # {}
  BY <1>3 DEF Initializes
<1>4. ASSUME NEW e \in Editor, NEW m, Updates(e, m), m.type # "resync" PROVE stored # {}
  <2>1. m = out[e][1] /\ 1 \in At(out[e]) /\ m.type \in {"edit", "snapshot"}
    BY <1>4 DEF Updates, Serves, Takes, Popped
  <2> QED BY <2>1 DEF Begun, IsText
<1>5. ASSUME NEW e \in Editor, NEW m, Updates(e, m) PROVE stored' = stored \cup m.ops
  BY <1>5 DEF Updates
<1>6. CASE stored # {} /\ ~(users' = {} /\ save' = {})
  BY <1>3, <1>4, <1>5, <1>6, Server, <1>1
<1>7. CASE stored = {}
  <2>1. /\ save = {} /\ stopped = {}
        /\ \A e \in Editor :
             /\ \A i \in At(inbox[e]) : inbox[e][i].type = "state" => inbox[e][i].text = note
             /\ \A i \in At(out[e]) :
                  /\ ~IsText(out[e][i])
                  /\ out[e][i].type = "seed" => \A o \in out[e][i].ops : o.words = note
    BY <1>1, <1>7 DEF Begun, Typing, Control
  <2>2. ~Saves /\ ~SavesStopped
    BY <2>1 DEF Saves, SavesStopped
  <2>3. save' = save /\ note' = note
    <3>1. UNCHANGED vars => save' = save /\ note' = note
      BY DEF vars, server
    <3>2. ASSUME NEW e \in Editor,
                 Connects(e) \/ (\E w, needs : Writing(e, w, needs)) \/ Snaps(e) \/ Closing(e) \/ (\E m : Heard(e, m))
          PROVE  save' = save /\ note' = note
      BY <3>2 DEF Connects, Writing, Types, Snaps, Closing, Closes, Heard, Hears, server
    <3>3. ASSUME NEW e \in Editor, NEW m, Joins(e, m) \/ Leaves(e, m)
          PROVE  save' = save /\ note' = note
      BY <3>3 DEF Joins, Leaves, Forgets, Serves
    <3> QED BY <1>3, <1>4, <1>7, <2>2, <3>1, <3>2, <3>3 DEF GoesAhead, Served
  <2>4. ASSUME NEW e \in Editor, NEW i \in At(inbox'[e]), inbox'[e][i].type = "state"
        PROVE  inbox'[e][i].text = note'
    <3>1. CASE \E j \in At(inbox[e]) : inbox'[e][i] = inbox[e][j]
      BY <2>1, <2>3, <2>4, <3>1
    <3>2. CASE Arrives(e, inbox'[e][i])
      BY <2>3, <2>4, <3>2 DEF Arrives
    <3>3. CASE Len(inbox'[e]) = 0
      BY <2>4, <3>3 DEF At
    <3> QED BY <1>1, <2>4, <3>1, <3>2, <3>3, Mails DEF Mail, Hands
  <2>5. ASSUME NEW e \in Editor, NEW i \in At(out'[e])
        PROVE  /\ ~IsText(out'[e][i])
               /\ out'[e][i].type = "seed" => \A o \in out'[e][i].ops : o.words = note'
    <3>1. CASE \E j \in At(out[e]) : out'[e][i] = out[e][j]
      BY <2>1, <2>3, <3>1
    <3>2. CASE Adds(e, i, out'[e][i])
      <4>1. ~Reports(e, out'[e][i])
        <5>1. ~timer[e] /\ ~synced[e] /\ \A j \in At(inbox[e]) : inbox[e][j].ops = {}
          BY <1>7, NothingYet
        <5>2. \A r : ~(Hears(e, r) /\ HearsSeeded(e, r))
          BY <5>1 DEF Hears, HearsSeeded, Popped
        <5> QED BY <5>1, <5>2 DEF Reports, Writing
      <4>2. ~IsText(out'[e][i])
        BY <3>2, <4>1 DEF Adds, IsText
      <4>3. ASSUME out'[e][i].type = "seed", NEW o \in out'[e][i].ops PROVE o.words = note'
        <5>1. PICK r : /\ Hears(e, r) /\ Seeds(e, r)
                       /\ \E p : out'[e][i].ops = {p} /\ p.words = r.text
          BY <3>2, <4>3 DEF Adds, IsText
        <5>2. r = inbox[e][1] /\ 1 \in At(inbox[e]) /\ r.type = "state"
          BY <5>1 DEF Hears, Seeds, Popped
        <5> QED BY <2>1, <2>3, <4>3, <5>1, <5>2
      <4> QED BY <4>2, <4>3
    <3> QED BY <1>1, <3>1, <3>2, Queues DEF Queue, Passes
  <2> QED BY <2>1, <2>3, <2>4, <2>5
<1> QED BY <1>2, <1>6, <1>7

-----------------------------------------------------------------------------
(* The state of the document is asked for once, and apart from what comes  *)
(* later; an operation that is sent is not stored, and sent once.          *)

Asking(e) ==
    \A i \in At(inbox[e]) : inbox[e][i].type = "state" =>
      /\ \A j \in At(inbox[e]) : /\ inbox[e][j].type # "seeded"
                                 /\ inbox[e][j].type = "update" =>
                                      inbox[e][i].ops \cap inbox[e][j].ops = {}
      /\ \A j \in At(out[e]) : out[e][j].type # "seed"

Single(e) ==
    \A i \in At(out[e]) : out[e][i].type # "seed" => \A o \in out[e][i].ops :
      /\ o \notin stored
      /\ \A f \in Editor : \A j \in At(out[f]) :
           out[f][j].type # "seed" /\ o \in out[f][j].ops => f = e /\ i = j

\* Once a document is stored: what was sent is not.
LEMMA SentNew ==
    ASSUME \A f \in Editor : Single(f), NEW e \in Editor, NEW o, Sent(e, o)
    PROVE  o \notin stored /\ \A f \in Editor : Sent(f, o) => f = e
<1>1. PICK i \in At(out[e]) : out[e][i].type # "seed" /\ o \in out[e][i].ops
  BY DEF Sent
<1> QED BY <1>1 DEF Single, Sent

\* What is typed is new.
LEMMA TypedNew ==
    ASSUME Typing, NEW e, NEW w, NEW needs, Types(e, w, needs)
    PROVE  ~Known(Typed(e, w, needs))
<1>1. w \in Word \ typed /\ Typed(e, w, needs).words = {w}
  BY DEF Types, Typed
<1>2. w \notin Title \cup typed
  BY <1>1, WordAssumption
<1> QED BY <1>1, <1>2, KnownWords

\* An update that is taken: its operations were not stored.
LEMMA UpdateNew ==
    ASSUME Typing, \A f \in Editor : Single(f), NEW e \in Editor, NEW m, Updates(e, m)
    PROVE  /\ m = out[e][1] /\ 1 \in At(out[e]) /\ m.type # "seed"
           /\ \A o \in m.ops : o \notin stored /\ Sent(e, o)
<1>1. m = out[e][1] /\ 1 \in At(out[e]) /\ m.type # "seed"
  BY DEF Updates, Serves, Takes, Popped
<1>2. \A o \in m.ops : Sent(e, o)
  BY <1>1 DEF Sent
<1> QED BY <1>1, <1>2, SentNew

LEMMA JoinsFirst ==
    ASSUME Inv, NEW e \in Editor, NEW m, Joins(e, m)
    PROVE  /\ Len(inbox[e]) = 0 /\ At(inbox[e]) = {}
           /\ \A i \in At(out[e]) : out[e][i].type # "seed"
<1>1. m = out[e][1] /\ 1 \in At(out[e]) /\ m.type = "join"
  BY DEF Joins, Serves, Takes, Popped
<1>2. Linked(e) /\ Queued(e)
  BY DEF Inv, Connected
<1>3. ~InRoom(e)
  BY <1>1, <1>2 DEF Queued
<1>4. Len(inbox[e]) = 0
  BY <1>2, <1>3 DEF Linked
<1>5. At(inbox[e]) = {}
  BY <1>4 DEF At
<1>6. \A i \in At(out[e]) : out[e][i].type # "seed"
  BY <1>2, <1>3 DEF Queued
<1> QED BY <1>4, <1>5, <1>6

LEMMA AskingStep ==
    ASSUME Inv, Inv', Steadily, Unbroken, Unbroken', GoesAhead, \A f \in Editor : Single(f),
           NEW e \in Editor, Asking(e)
    PROVE  Asking(e)'
<1>1. Typing /\ Typing' /\ Calmly(e) /\ Arrived(e)
  BY DEF Inv, Steadily, Relayed
<1> SUFFICES ASSUME NEW i \in At(inbox'[e]), inbox'[e][i].type = "state"
             PROVE  /\ \A j \in At(inbox'[e]) : /\ inbox'[e][j].type # "seeded"
                                                /\ inbox'[e][j].type = "update" =>
                                                     inbox'[e][i].ops \cap inbox'[e][j].ops = {}
                    /\ \A j \in At(out'[e]) : out'[e][j].type # "seed"
  BY DEF Asking, At
<1>2. Len(inbox[e]) \in Nat
  BY <1>1, TypingFacts
<1>3. Len(inbox'[e]) # 0
  BY DEF At
<1>4. CASE Hands(e, 1)
  <2>1. i + 1 \in At(inbox[e]) /\ inbox'[e][i] = inbox[e][i + 1] /\ i \in Nat
    BY <1>4 DEF Hands, At
  <2>2. i + 1 = 1
    BY <1>1, <2>1 DEF Calmly
  <2> QED BY <2>1, <2>2 DEF At
<1>5. CASE Hands(e, 0) /\ \A m : ~Heard(e, m)
  <2>1. CASE Arrives(e, inbox'[e][i])
    <3>1. PICK m : Joins(e, m)
      BY <2>1 DEF Arrives
    <3>2. Len(inbox[e]) = 0 /\ At(inbox[e]) = {} /\ \A j \in At(out[e]) : out[e][j].type # "seed"
      BY <3>1, JoinsFirst DEF At
    <3>3. \A j \in At(inbox'[e]) : j = Len(inbox[e]) + 1
      BY <1>5, <3>2 DEF Hands
    <3>4. \A j \in At(inbox'[e]) : j = i
      BY <3>3
    <3>5. \A j \in At(out'[e]) : out'[e][j].type # "seed"
      <4>1. Popped(out'[e], out[e])
        BY <3>1 DEF Joins, Serves, Takes
      <4> QED BY <3>2, <4>1 DEF Popped
    <3> QED BY <3>4, <3>5
  <2>2. CASE i \in At(inbox[e]) /\ inbox'[e][i] = inbox[e][i]
    <3>1. /\ \A j \in At(inbox[e]) : /\ inbox[e][j].type # "seeded"
                                     /\ inbox[e][j].type = "update" =>
                                          inbox[e][i].ops \cap inbox[e][j].ops = {}
          /\ \A j \in At(out[e]) : out[e][j].type # "seed"
      BY <2>2 DEF Asking
    <3>2. ASSUME NEW j \in At(inbox'[e]), Arrives(e, inbox'[e][j])
          PROVE  /\ inbox'[e][j].type # "seeded"
                 /\ inbox'[e][j].type = "update" => inbox[e][i].ops \cap inbox'[e][j].ops = {}
      <4>1. inbox[e][i].ops \subseteq stored
        BY <1>1, <2>2 DEF Arrived
      <4>2. \A m : ~Initializes(e, m)
        <5>1. \A m : Initializes(e, m) => m = out[e][1] /\ 1 \in At(out[e]) /\ m.type = "seed"
          BY DEF Initializes, Serves, Takes, Popped
        <5> QED BY <3>1, <5>1
      <4>3. ASSUME NEW g \in Editor, NEW m, Updates(g, m) PROVE m.ops \cap stored = {}
        BY <1>1, <4>3, UpdateNew
      <4> QED BY <3>2, <4>1, <4>2, <4>3 DEF Arrives
    <3>3. \A j \in At(inbox'[e]) : /\ inbox'[e][j].type # "seeded"
                                   /\ inbox'[e][j].type = "update" =>
                                        inbox[e][i].ops \cap inbox'[e][j].ops = {}
      <4>1. \A j \in At(inbox'[e]) : \/ j + 0 \in At(inbox[e]) /\ inbox'[e][j] = inbox[e][j + 0]
                                     \/ Arrives(e, inbox'[e][j])
        BY <1>5 DEF Hands
      <4> QED BY <3>1, <3>2, <4>1
    <3>4. ASSUME NEW j \in At(out'[e]) PROVE out'[e][j].type # "seed"
      <4>1. CASE \E k \in At(out[e]) : out'[e][j] = out[e][k]
        BY <3>1, <4>1
      <4>2. CASE Adds(e, j, out'[e][j])
        <5>1. \A r : ~(Hears(e, r) /\ Seeds(e, r))
          BY <1>5 DEF Heard
        <5> QED BY <4>2, <5>1 DEF Adds, IsText
      <4> QED BY <1>1, <4>1, <4>2, Queues DEF Queue, Passes
    <3> QED BY <2>2, <3>3, <3>4
  <2>3. i \in Nat
    BY DEF At
  <2>4. i + 0 = i
    BY <2>3
  <2> QED BY <1>5, <2>1, <2>2, <2>4 DEF Hands
<1> QED BY <1>1, <1>3, <1>4, <1>5, Mails DEF Mail

\* How many of its messages are taken.
Taken(e) == IF \E m : Served(e, m) THEN 1 ELSE 0

\* What editor e has sent with operation o, it had sent before, or types now.
LEMMA SentBefore ==
    ASSUME Typing, Typing', GoesAhead, NEW e \in Editor, NEW i \in At(out'[e]),
           out'[e][i].type # "seed", NEW o \in out'[e][i].ops
    PROVE  \/ i + Taken(e) \in At(out[e]) /\ out'[e][i] = out[e][i + Taken(e)]
           \/ i = Len(out[e]) + 1 /\ \E w, needs : Writing(e, w, needs) /\ o = Typed(e, w, needs)
<1>1. CASE i \notin At(out[e]) /\ Adds(e, i, out'[e][i])
  BY <1>1 DEF Adds, Reports
<1> QED BY <1>1, Queues DEF Queue, Passes, Taken

LEMMA SingleStep ==
    ASSUME Inv, Inv', Steadily, Unbroken, GoesAhead, \A f \in Editor : Single(f),
           NEW e \in Editor
    PROVE  Single(e)'
<1>1. Typing /\ Typing'
  BY DEF Inv
<1> SUFFICES ASSUME NEW i \in At(out'[e]), out'[e][i].type # "seed", NEW o \in out'[e][i].ops
             PROVE  /\ o \notin stored'
                    /\ \A f \in Editor : \A j \in At(out'[f]) :
                         out'[f][j].type # "seed" /\ o \in out'[f][j].ops => f = e /\ i = j
  BY DEF Single, At
<1>2. CASE i = Len(out[e]) + 1 /\ \E w, needs : Writing(e, w, needs) /\ o = Typed(e, w, needs)
  <2>1. PICK w, needs : Writing(e, w, needs) /\ o = Typed(e, w, needs)
    BY <1>2
  <2>2. ~Known(o)
    BY <1>1, <2>1, TypedNew DEF Writing
  <2>3. o \notin stored'
    BY <2>1, <2>2 DEF Known, Writing, Types, server
  <2>4. ASSUME NEW f \in Editor, NEW j \in At(out'[f]), out'[f][j].type # "seed", o \in out'[f][j].ops
        PROVE  f = e /\ i = j
    <3>1. ASSUME NEW d, j + d \in At(out[f]), out'[f][j] = out[f][j + d] PROVE FALSE
      BY <2>2, <2>4, <3>1 DEF Known, Sent
    <3>2. j = Len(out[f]) + 1
      BY <1>1, <2>4, <3>1, SentBefore
    <3>3. ASSUME f # e PROVE FALSE
      <4>1. out'[f] = out[f]
        BY <2>1, <3>3 DEF Writing, Types, Puts
      <4> QED BY <2>2, <2>4, <4>1 DEF Known, Sent
    <3> QED BY <1>2, <3>2, <3>3
  <2> QED BY <2>3, <2>4
<1>3. ASSUME i + Taken(e) \in At(out[e]), out'[e][i] = out[e][i + Taken(e)]
      PROVE  /\ o \notin stored'
             /\ \A f \in Editor : \A j \in At(out'[f]) :
                  out'[f][j].type # "seed" /\ o \in out'[f][j].ops => f = e /\ i = j
  <2>1. Sent(e, o) /\ Known(o)
    BY <1>3 DEF Sent, Known
  <2>2. /\ o \notin stored
        /\ \A f \in Editor : \A j \in At(out[f]) :
             out[f][j].type # "seed" /\ o \in out[f][j].ops => f = e /\ i + Taken(e) = j
    BY <1>3 DEF Single
  <2>3. i \in Nat /\ i > 0
    BY DEF At
  <2>4. o \notin stored'
    <3>1. ASSUME NEW g \in Editor, NEW m, Updates(g, m), m.type # "resync" PROVE o \notin m.ops
      <4> SUFFICES ASSUME o \in m.ops PROVE FALSE
        OBVIOUS
      <4>1. m = out[g][1] /\ 1 \in At(out[g]) /\ m.type # "seed"
        BY <1>1, <3>1, UpdateNew
      <4>2. g = e /\ i + Taken(e) = 1
        BY <2>2, <4>1
      <4>3. Served(e, m)
        BY <3>1, <4>2 DEF Served
      <4> QED BY <2>3, <4>2, <4>3 DEF Taken
    <3>2. \A g \in Editor : \A m : Updates(g, m) => stored' = stored \cup m.ops
      BY DEF Updates
    <3>3. stored # {}
      BY <2>1, CalmFacts
    <3> QED BY <1>1, <2>2, <3>1, <3>2, <3>3, Server
  <2>5. ASSUME NEW f \in Editor, NEW j \in At(out'[f]), out'[f][j].type # "seed", o \in out'[f][j].ops
        PROVE  f = e /\ i = j
    <3>1. ASSUME NEW w, NEW needs, Writing(f, w, needs), o = Typed(f, w, needs) PROVE FALSE
      BY <1>1, <2>1, <3>1, TypedNew DEF Writing
    <3>2. j + Taken(f) \in At(out[f]) /\ out'[f][j] = out[f][j + Taken(f)]
      BY <1>1, <2>5, <3>1, SentBefore
    <3>3. f = e /\ i + Taken(e) = j + Taken(e)
      BY <2>2, <2>5, <3>2
    <3>4. j \in Nat /\ Taken(e) \in Nat
      BY DEF At, Taken
    <3> QED BY <2>3, <3>3, <3>4
  <2> QED BY <2>4, <2>5
<1> QED BY <1>1, <1>2, <1>3, SentBefore

-----------------------------------------------------------------------------
(* An editor's texts grow, and have the words of what is sent with them.   *)

Grows(e) ==
    \A i \in At(out[e]) : IsText(out[e][i]) =>
      /\ \A o \in out[e][i].ops : o.words \subseteq out[e][i].text
      /\ phase[e] = "open" => out[e][i].text \subseteq Text(doc[e])
      /\ \A j \in At(out[e]) : i < j /\ IsText(out[e][j]) => out[e][i].text \subseteq out[e][j].text

\* A text that is added is the last, and has what the editor has.
LEMMA AddsText ==
    ASSUME Inv, GoesAhead, NEW e \in Editor, NEW i, NEW m, Adds(e, i, m), IsText(m)
    PROVE  /\ i = Len(out[e]) + 1 /\ phase[e] = "open"
           /\ \A o \in m.ops : o.words \subseteq m.text
           /\ Text(doc[e]) \subseteq m.text
           /\ phase'[e] # "closed" => m.text = Text(doc'[e])
<1>1. i = Len(out[e]) + 1 /\ Reports(e, m)
  BY DEF Adds, IsText
<1>5. Shown(doc[e]) = doc[e] /\ Shown(doc'[e]) = doc'[e]
  BY DEF GoesAhead, AllShown
<1>2. CASE m.ops = {} /\ timer[e] /\ m.text = Text(doc[e]) /\ (Snaps(e) \/ Closing(e))
  BY <1>1, <1>2 DEF Snaps, Closing, Closes
<1>3. ASSUME NEW r, Hears(e, r), HearsSeeded(e, r), m.ops = {}, m.text = Text(doc'[e])
      PROVE  phase[e] = "open" /\ Text(doc[e]) \subseteq m.text
  <2>1. Acts(e)
    BY <1>3 DEF Acts, Heard
  <2>2. doc[e] \subseteq doc'[e]
    BY <1>3 DEF HearsSeeded
  <2> QED BY <1>3, <2>1, <2>2, Actors DEF Text
<1>4. ASSUME NEW w, NEW needs, Writing(e, w, needs), m.ops = {Typed(e, w, needs)}, m.text = Text(doc'[e])
      PROVE  /\ phase[e] = "open" /\ Text(doc[e]) \subseteq m.text
             /\ \A o \in m.ops : o.words \subseteq m.text
  <2>1. phase[e] = "open" /\ doc'[e] = doc[e] \cup {Typed(e, w, needs)}
    BY <1>4 DEF Writing, Types
  <2> QED BY <1>4, <2>1 DEF Text
<1> QED BY <1>1, <1>2, <1>3, <1>4, <1>5 DEF Reports

LEMMA GrowsStep ==
    ASSUME Inv, Inv', GoesAhead, NEW e \in Editor, Grows(e)
    PROVE  Grows(e)'
<1>1. Typing /\ Typing' /\ Linked(e) /\ Len(out[e]) \in Nat
  BY TypingFacts DEF Inv, Connected
<1>2. PICK d \in {0, 1} :
        /\ \A i \in At(out'[e]) : \/ i + d \in At(out[e]) /\ out'[e][i] = out[e][i + d]
                                  \/ d = 0 /\ i \notin At(out[e]) /\ Adds(e, i, out'[e][i])
  BY <1>1, Queues DEF Queue, Passes
<1> SUFFICES ASSUME NEW i \in At(out'[e]), IsText(out'[e][i])
             PROVE  /\ \A o \in out'[e][i].ops : o.words \subseteq out'[e][i].text
                    /\ phase'[e] = "open" => out'[e][i].text \subseteq Text(doc'[e])
                    /\ \A j \in At(out'[e]) : i < j /\ IsText(out'[e][j]) =>
                         out'[e][i].text \subseteq out'[e][j].text
  BY DEF Grows, At, IsText
<1>3. i \in Nat
  BY DEF At
<1>4. CASE i + d \in At(out[e]) /\ out'[e][i] = out[e][i + d]
  <2>1. /\ \A o \in out[e][i + d].ops : o.words \subseteq out[e][i + d].text
        /\ phase[e] = "open" => out[e][i + d].text \subseteq Text(doc[e])
        /\ \A j \in At(out[e]) : i + d < j /\ IsText(out[e][j]) =>
             out[e][i + d].text \subseteq out[e][j].text
    BY <1>4 DEF Grows
  <2>2. phase'[e] = "open" => phase[e] = "open" /\ doc[e] \subseteq doc'[e]
    <3>1. phase[e] # "new"
      BY <1>1, <1>4 DEF Linked, At
    <3>2. phase'[e] = "open" => phase[e] # "closed"
      BY Deeds, Actors DEF Stands
    <3> QED BY <1>1, <3>1, <3>2, Actors DEF Typing, Control
  <2>3. phase'[e] = "open" => out'[e][i].text \subseteq Text(doc'[e])
    BY <1>4, <2>1, <2>2 DEF Text
  <2>4. ASSUME NEW j \in At(out'[e]), i < j, IsText(out'[e][j])
        PROVE  out'[e][i].text \subseteq out'[e][j].text
    <3>1. CASE j + d \in At(out[e]) /\ out'[e][j] = out[e][j + d]
      <4>1. i + d < j + d
        BY <1>3, <2>4 DEF At
      <4> QED BY <1>4, <2>1, <2>4, <3>1, <4>1
    <3>2. CASE Adds(e, j, out'[e][j])
      <4>1. phase[e] = "open" /\ Text(doc[e]) \subseteq out'[e][j].text
        BY <2>4, <3>2, AddsText
      <4> QED BY <1>4, <2>1, <4>1
    <3> QED BY <1>2, <3>1, <3>2
  <2> QED BY <1>4, <2>1, <2>3, <2>4
<1>5. CASE d = 0 /\ i \notin At(out[e]) /\ Adds(e, i, out'[e][i])
  <2>1. /\ i = Len(out[e]) + 1
        /\ \A o \in out'[e][i].ops : o.words \subseteq out'[e][i].text
        /\ phase'[e] # "closed" => out'[e][i].text = Text(doc'[e])
    BY <1>5, AddsText
  <2>2. ASSUME NEW j \in At(out'[e]), i < j, IsText(out'[e][j]) PROVE FALSE
    <3>1. CASE j + d \in At(out[e])
      BY <1>1, <1>5, <2>1, <2>2, <3>1 DEF At
    <3>2. CASE Adds(e, j, out'[e][j])
      <4>1. j = Len(out[e]) + 1
        BY <2>2, <3>2, AddsText
      <4> QED BY <1>3, <2>1, <2>2, <4>1
    <3> QED BY <1>2, <3>1, <3>2
  <2> QED BY <2>1, <2>2
<1> QED BY <1>2, <1>4, <1>5

-----------------------------------------------------------------------------
(* The document has a root, the operation of its seed: whoever has any of  *)
(* it has the root, and every text has its words.                          *)

Holds(s, e) ==
    /\ doc[e] # {} => s \in doc[e]
    /\ synced[e] => doc[e] # {}
    /\ \A i \in At(out[e]) : IsText(out[e][i]) => s.words \subseteq out[e][i].text
    /\ \A i \in At(inbox[e]) : inbox[e][i].ops # {} =>
         s \in doc[e] \/ \E j \in At(inbox[e]) : j <= i /\ s \in inbox[e][j].ops
Root(s) ==
    /\ s \in stored
    /\ \A t \in Final : s.words \subseteq t
    /\ \A o : Known(o) /\ o # s => \E w \in typed : o.words = {w}
    /\ \A e \in Editor : Holds(s, e)

LEMMA TypedGrows == GoesAhead => typed \subseteq typed'
<1> SUFFICES ASSUME GoesAhead PROVE typed \subseteq typed'
  OBVIOUS
<1>1. UNCHANGED vars \/ Saves \/ SavesStopped => typed' = typed
  BY DEF vars, Saves, SavesStopped
<1>2. ASSUME NEW e \in Editor, Connects(e) \/ Snaps(e) \/ Closing(e) \/ \E m : Heard(e, m)
      PROVE  typed' = typed
  BY <1>2 DEF Connects, Snaps, Closing, Closes, Heard, Hears
<1>3. ASSUME NEW e \in Editor, NEW w, NEW needs, Writing(e, w, needs) PROVE typed \subseteq typed'
  BY <1>3 DEF Writing, Types
<1>4. ASSUME NEW e \in Editor, NEW m, Served(e, m) PROVE typed' = typed
  BY <1>4 DEF Served, Joins, Initializes, Updates, Leaves, Serves
<1> QED BY <1>1, <1>2, <1>3, <1>4 DEF GoesAhead

LEMMA KnownBefore ==
    ASSUME Typing, Typing', GoesAhead, NEW o, Known(o)'
    PROVE  \/ Known(o) \/ \E e \in Editor : \E w, needs : Writing(e, w, needs) /\ o = Typed(e, w, needs)
           \/ stored = {} /\ o \in stored' /\ \E e \in Editor : \E m : Initializes(e, m)
<1>1. ASSUME NEW e \in Editor, Sent(e, o)'
      PROVE  Sent(e, o) \/ \E w, needs : Writing(e, w, needs) /\ o = Typed(e, w, needs)
  <2>1. PICK i \in At(out'[e]) : out'[e][i].type # "seed" /\ o \in out'[e][i].ops
    BY <1>1 DEF Sent, At
  <2> QED BY <2>1, SentBefore DEF Sent
<1>2. ASSUME NEW e \in Editor, NEW m, Updates(e, m), o \in stored' PROVE Known(o)
  <2>1. stored' = stored \cup m.ops /\ m = out[e][1] /\ 1 \in At(out[e]) /\ m.type # "seed"
    BY <1>2 DEF Updates, Serves, Takes, Popped
  <2> QED BY <1>2, <2>1 DEF Known, Sent
<1>3. ASSUME o \in stored'
      PROVE  Known(o) \/ (stored = {} /\ \E e \in Editor : \E m : Initializes(e, m))
  <2>1. CASE stored' = stored
    BY <1>3, <2>1 DEF Known
  <2> QED BY <1>2, <1>3, <2>1, Server
<1> QED BY <1>1, <1>3 DEF Known

\* With a document, there is one while somebody uses it.
LEMMA StoredStays ==
    ASSUME Typing, GoesAhead, stored # {}, stored' # {}
    PROVE  stored \subseteq stored'
<1>1. \A e \in Editor : \A m : Updates(e, m) => stored' = stored \cup m.ops
  BY DEF Updates
<1> QED BY <1>1, Server

LEMMA HoldsStep ==
    ASSUME Inv, Inv', GoesAhead, stored # {}, stored' # {}, NEW s, Root(s), NEW e \in Editor
    PROVE  Holds(s, e)'
<1>1. Typing /\ Typing' /\ Complete(e) /\ s \in stored /\ s \in stored'
  BY StoredStays DEF Inv, Relayed, Root
<1>2. Holds(s, e)
  BY DEF Root
<1>3. ASSUME NEW m, Heard(e, m), m.ops # {} PROVE s \in doc'[e]
  <2>1. m = inbox[e][1] /\ 1 \in At(inbox[e])
    BY <1>3 DEF Heard, Hears, Popped
  <2>2. s \in doc[e] \/ \E j \in At(inbox[e]) : j <= 1 /\ s \in inbox[e][j].ops
    BY <1>2, <1>3, <2>1 DEF Holds
  <2>3. s \in doc[e] \/ s \in m.ops
    <3>1. \A j \in At(inbox[e]) : j <= 1 => j = 1
      BY <1>1, TypingFacts DEF At
    <3> QED BY <2>1, <2>2, <3>1
  <2>4. doc'[e] = doc[e] \cup m.ops
    BY <1>3 DEF Heard, HearsUpdate, HearsState, Seeds, HearsSeeded
  <2> QED BY <2>3, <2>4
<1>4. ASSUME NEW m, Heard(e, m), m.ops = {}
      PROVE  doc'[e] = doc[e] /\ synced'[e] = synced[e]
  BY <1>4 DEF Heard, HearsUpdate, HearsState, Seeds, HearsSeeded
<1>5. doc'[e] # {} => s \in doc'[e]
  <2>1. CASE Stands(e)
    BY <1>2, <2>1 DEF Stands, Holds
  <2>2. ASSUME NEW w, NEW needs, Writing(e, w, needs) PROVE s \in doc'[e]
    BY <1>2, <2>2 DEF Holds, Writing, Types
  <2>3. CASE Snaps(e) \/ Closing(e)
    BY <1>2, <2>3 DEF Holds, Snaps, Closing, Closes
  <2>4. ASSUME NEW m, Heard(e, m) PROVE doc'[e] # {} => s \in doc'[e]
    BY <1>2, <1>3, <1>4, <2>4 DEF Holds
  <2> QED BY <2>1, <2>2, <2>3, <2>4, Deeds DEF Acts
<1>6. synced'[e] => doc'[e] # {}
  <2>1. CASE Stands(e)
    BY <1>2, <2>1 DEF Stands, Holds
  <2>2. ASSUME NEW w, NEW needs, Writing(e, w, needs) PROVE doc'[e] # {}
    BY <2>2 DEF Writing, Types
  <2>3. CASE Snaps(e) \/ Closing(e)
    BY <1>2, <2>3 DEF Holds, Snaps, Closing, Closes
  <2>4. ASSUME NEW m, Heard(e, m) PROVE synced'[e] => doc'[e] # {}
    BY <1>2, <1>3, <1>4, <2>4 DEF Holds
  <2> QED BY <2>1, <2>2, <2>3, <2>4, Deeds DEF Acts
<1>7. ASSUME NEW i \in At(out'[e]), IsText(out'[e][i]) PROVE s.words \subseteq out'[e][i].text
  <2>1. CASE \E j \in At(out[e]) : out'[e][i] = out[e][j]
    BY <1>2, <1>7, <2>1 DEF Holds
  <2>2. CASE Adds(e, i, out'[e][i])
    <3>1. /\ Reports(e, out'[e][i]) /\ Text(doc[e]) \subseteq out'[e][i].text
          /\ Shown(doc[e]) = doc[e] /\ Shown(doc'[e]) = doc'[e]
      BY <1>7, <2>2, AddsText DEF Adds, IsText, GoesAhead, AllShown
    <3>2. ASSUME s \in doc[e] PROVE s.words \subseteq Text(doc[e])
      BY <3>2 DEF Text
    <3>3. ASSUME s \in doc'[e] PROVE s.words \subseteq Text(doc'[e])
      BY <3>3 DEF Text
    <3>4. timer[e] => s \in doc[e]
      BY <1>1, <1>2, TypingFacts DEF Holds
    <3>5. ASSUME NEW r, Hears(e, r), HearsSeeded(e, r) PROVE s \in doc'[e]
      BY <1>3, <3>5 DEF Heard, HearsSeeded
    <3>6. ASSUME NEW w, NEW needs, Writing(e, w, needs) PROVE s \in doc'[e]
      BY <1>2, <3>6 DEF Holds, Writing, Types
    <3> QED BY <3>1, <3>2, <3>3, <3>4, <3>5, <3>6 DEF Reports
  <2> QED BY <1>1, <2>1, <2>2, Queues DEF Queue, Passes
<1>8. ASSUME NEW i \in At(inbox'[e]), inbox'[e][i].ops # {}
      PROVE  s \in doc'[e] \/ \E j \in At(inbox'[e]) : j <= i /\ s \in inbox'[e][j].ops
  <2>1. i \in Nat /\ Len(inbox[e]) \in Nat /\ Len(inbox'[e]) # 0
    BY <1>1, TypingFacts DEF At
  <2>2. CASE Hands(e, 0)
    <3>1. \A j \in At(inbox[e]) : j \in At(inbox'[e]) /\ inbox'[e][j] = inbox[e][j] /\ j \in Nat
      <4>1. \A j \in At(inbox[e]) : j \in Nat /\ j > 0 /\ j - 0 = j
        BY <2>1 DEF At
      <4> QED BY <2>2, <4>1 DEF Hands
    <3>2. doc[e] \subseteq doc'[e]
      <4>1. ~Closing(e)
        BY <2>1 DEF Closing, Closes
      <4> QED BY <4>1, Actors
    <3>3. CASE i \in At(inbox[e]) /\ inbox'[e][i] = inbox[e][i]
      <4>1. s \in doc[e] \/ \E j \in At(inbox[e]) : j <= i /\ s \in inbox[e][j].ops
        BY <1>2, <1>8, <3>3 DEF Holds
      <4> QED BY <3>1, <3>2, <4>1
    <3>4. CASE i = Len(inbox[e]) + 1 /\ Arrives(e, inbox'[e][i])
      <4>1. CASE s \in inbox'[e][i].ops
        BY <2>1, <4>1
      <4>2. CASE Reaches(e)
        <5>1. s \in doc[e] \/ \E j \in At(inbox[e]) : s \in inbox[e][j].ops
          BY <1>1, <4>2 DEF Complete, Reaches, Coming
        <5>2. \A j \in At(inbox[e]) : j <= i
          BY <2>1, <3>4 DEF At
        <5> QED BY <3>1, <3>2, <5>1, <5>2
      <4> QED BY <1>1, <3>4, <4>1, <4>2 DEF Arrives
    <3>5. i + 0 = i
      BY <2>1
    <3> QED BY <2>2, <3>3, <3>4, <3>5 DEF Hands
  <2>3. CASE Hands(e, 1) /\ Heard(e, inbox[e][1])
    <3>1. i + 1 \in At(inbox[e]) /\ inbox'[e][i] = inbox[e][i + 1]
      BY <2>3 DEF Hands
    <3>2. s \in doc[e] \/ \E j \in At(inbox[e]) : j <= i + 1 /\ s \in inbox[e][j].ops
      BY <1>2, <1>8, <3>1 DEF Holds
    <3>3. doc[e] \subseteq doc'[e]
      BY <2>3 DEF Heard, HearsUpdate, HearsState, Seeds, HearsSeeded
    <3>4. ASSUME NEW j \in At(inbox[e]), j <= i + 1, s \in inbox[e][j].ops
          PROVE  s \in doc'[e] \/ \E k \in At(inbox'[e]) : k <= i /\ s \in inbox'[e][k].ops
      <4>1. CASE j = 1
        BY <1>3, <2>3, <3>4, <4>1
      <4>2. CASE j # 1
        <5>1. j \in Nat /\ j > 1 /\ j - 1 <= i
          BY <2>1, <3>4, <4>2 DEF At
        <5>2. j - 1 \in At(inbox'[e]) /\ inbox'[e][j - 1] = inbox[e][j]
          BY <2>3, <5>1 DEF Hands
        <5> QED BY <3>4, <5>1, <5>2
      <4> QED BY <4>1, <4>2
    <3> QED BY <3>2, <3>3, <3>4
  <2> QED BY <1>1, <2>1, <2>2, <2>3, Mails DEF Mail
<1> QED BY <1>5, <1>6, <1>7, <1>8 DEF Holds, At, IsText

LEMMA RootStep ==
    ASSUME Inv, Inv', GoesAhead, stored # {}, stored' # {}, NEW s, Root(s)
    PROVE  Root(s)'
<1>1. Typing /\ Typing' /\ s \in stored'
  BY StoredStays DEF Inv, Root
<1>2. ASSUME NEW t \in Final' PROVE s.words \subseteq t
  <2>1. CASE Final' = Final
    BY <1>2, <2>1 DEF Root
  <2>2. ASSUME NEW e \in Editor, NEW m, Updates(e, m), m.type # "resync" PROVE s.words \subseteq t
    <3>1. m = out[e][1] /\ 1 \in At(out[e]) /\ IsText(m) /\ save' = {m.text}
      BY <2>2 DEF Updates, Serves, Takes, Popped, IsText
    <3>2. s.words \subseteq m.text
      BY <3>1 DEF Root, Holds
    <3>3. t = m.text
      BY <1>2, <3>1 DEF Final
    <3> QED BY <3>2, <3>3
  <2> QED BY <1>1, <2>1, <2>2, Server
<1>3. ASSUME NEW o, Known(o)', o # s PROVE \E w \in typed' : o.words = {w}
  <2>1. CASE Known(o)
    BY <1>3, <2>1, TypedGrows DEF Root
  <2>2. ASSUME NEW e \in Editor, NEW w, NEW needs, Writing(e, w, needs), o = Typed(e, w, needs) PROVE w \in typed' /\ o.words = {w}
    BY <2>2 DEF Writing, Types, Typed
  <2> QED BY <1>1, <1>3, <2>1, <2>2, KnownBefore
<1>4. \A e \in Editor : Holds(s, e)'
  BY HoldsStep
<1> QED BY <1>1, <1>2, <1>3, <1>4 DEF Root

\* The first seed becomes the root.
LEMMA RootFirst ==
    ASSUME Inv, Inv', Rooted, Steadily, Unbroken, Begun, GoesAhead, stored = {}, stored' # {}
    PROVE  \E s : Root(s)' /\ stored' = {s}
<1>1. Typing /\ Typing'
  BY DEF Inv
<1>2. ASSUME NEW e \in Editor, NEW m, Updates(e, m), m.type # "resync" PROVE FALSE
  <2>1. m = out[e][1] /\ 1 \in At(out[e]) /\ IsText(m)
    BY <1>2 DEF Updates, Serves, Takes, Popped, IsText
  <2> QED BY <2>1 DEF Begun
<1>3. PICK g, m : g \in Editor /\ Initializes(g, m)
  BY <1>1, <1>2, Server
<1>4. /\ m = out[g][1] /\ 1 \in At(out[g]) /\ m.type = "seed" /\ stored' = m.ops
      /\ UNCHANGED <<editor, note, save>> /\ Takes(g)
  BY <1>3 DEF Initializes, Serves, Takes, Popped
<1>5. PICK s : m.ops = {s}
  BY <1>3, <1>4 DEF Rooted
<1>6. s.words = note /\ save = {}
  BY <1>3, <1>4, <1>5 DEF Begun
<1>7. \A t \in Final' : s.words \subseteq t
  BY <1>4, <1>6 DEF Final
<1>8. ASSUME NEW o, Known(o)' PROVE o = s
  <2>1. ~Known(o)
    BY CalmFacts DEF Known
  <2>2. \A e \in Editor : \A w, needs : ~Writing(e, w, needs)
    BY DEF Writing
  <2> QED BY <1>1, <1>4, <1>5, <1>8, <2>1, <2>2, KnownBefore
<1>9. ASSUME NEW e \in Editor PROVE Holds(s, e)'
  <2>1. /\ doc[e] = {} /\ ~timer[e] /\ ~synced[e] /\ doc'[e] = {} /\ ~synced'[e]
        /\ \A i \in At(inbox[e]) : inbox[e][i].ops = {}
    BY <1>4, NothingYet DEF editor
  <2>2. ASSUME NEW i \in At(out'[e]), IsText(out'[e][i]) PROVE FALSE
    <3>1. CASE \E j \in At(out[e]) : out'[e][i] = out[e][j]
      BY <2>2, <3>1 DEF Begun
    <3>2. CASE Adds(e, i, out'[e][i])
      <4>1. Reports(e, out'[e][i])
        BY <2>2, <3>2 DEF Adds, IsText
      <4>2. \A r : Hears(e, r) => ~HearsSeeded(e, r)
        BY <2>1 DEF Hears, HearsSeeded, Popped
      <4> QED BY <2>1, <4>1, <4>2 DEF Reports, Writing
    <3> QED BY <1>1, <3>1, <3>2, Queues DEF Queue, Passes
  <2>3. ASSUME NEW i \in At(inbox'[e]), inbox'[e][i].ops # {} PROVE s \in inbox'[e][i].ops
    <3>1. CASE \E j \in At(inbox[e]) : inbox'[e][i] = inbox[e][j]
      BY <2>1, <2>3, <3>1
    <3>2. CASE Arrives(e, inbox'[e][i])
      <4>1. \A f \in Editor : \A n : Initializes(f, n) => stored' = n.ops
        BY DEF Initializes
      <4>2. inbox'[e][i].ops = stored'
        BY <1>2, <2>3, <3>2, <4>1 DEF Arrives
      <4> QED BY <1>4, <1>5, <4>2
    <3>3. CASE Len(inbox'[e]) = 0
      BY <2>3, <3>3 DEF At
    <3> QED BY <1>1, <2>3, <3>1, <3>2, <3>3, Mails DEF Mail, Hands
  <2>4. \A i \in At(inbox'[e]) : i <= i
    BY DEF At
  <2> QED BY <2>1, <2>2, <2>3, <2>4 DEF Holds, At, IsText
<1>10. Root(s)'
  BY <1>4, <1>5, <1>7, <1>8, <1>9 DEF Root
<1> QED BY <1>4, <1>5, <1>10

-----------------------------------------------------------------------------
(* Who closes the note has all that was typed, and is the last to say so.  *)

Last(e) == phase[e] = "closed" /\ Len(out[e]) # 0 =>
               \A f \in Editor : \A o : Sent(f, o) => f = e

LEMMA ClosesWithAll ==
    ASSUME Inv, Steadily, Unbroken, NEW s, Root(s), NEW e \in Editor, typed \subseteq Text(Shown(doc[e])),
           NEW o, Known(o), o # s
    PROVE  o \in doc[e]
<1>1. PICK w \in typed : o.words = {w}
  BY DEF Root
<1>2. PICK q \in doc[e] : w \in q.words
  BY <1>1 DEF Text, Shown
<1>3. Known(q)
  BY DEF Inv, Relayed, Own, Known, Unbroken
<1> QED BY <1>1, <1>2, <1>3 DEF Steadily, Distinct

LEMMA LastStep ==
    ASSUME Inv, Inv', Steadily, Unbroken, GoesAhead, \A f \in Editor : Single(f),
           stored # {} => \E s : Root(s), NEW e \in Editor, Last(e)
    PROVE  Last(e)'
<1>1. Typing /\ Typing'
  BY DEF Inv
<1> SUFFICES ASSUME phase'[e] = "closed", Len(out'[e]) # 0, NEW f \in Editor, NEW o, Sent(f, o)', f # e
             PROVE  FALSE
  BY DEF Last
<1>2. CASE \E w, needs : Writing(f, w, needs)
  <2>1. phase'[e] = phase[e] /\ out'[e] = out[e] /\ (phase[e] = "closed" => Len(out[e]) = 0)
    BY <1>2 DEF Writing, Types, Others, Puts
  <2> QED BY <2>1
<1>3. CASE \A w, needs : ~Writing(f, w, needs)
  <2>1. PICK i \in At(out'[f]) : out'[f][i].type # "seed" /\ o \in out'[f][i].ops
    BY DEF Sent, At
  <2>2. Sent(f, o)
    BY <1>1, <1>3, <2>1, SentBefore DEF Sent
  <2>3. CASE phase[e] = "closed"
    <3>1. 1 \in At(out'[e])
      <4>1. Len(out'[e]) \in Nat
        BY <1>1, TypingFacts
      <4> QED BY <4>1 DEF At
    <3>2. ASSUME NEW j, j \in At(out[e]) PROVE FALSE
      <4>1. Len(out[e]) # 0
        BY <3>2 DEF At
      <4> QED BY <2>2, <2>3, <4>1 DEF Last
    <3>3. CASE Adds(e, 1, out'[e][1])
      <4>1. \A r : Hears(e, r) => phase[e] = "open"
        <5>1. \A r : Hears(e, r) => Len(inbox[e]) # 0
          BY <1>1, TypingFacts DEF Hears, Popped, At
        <5> QED BY <5>1 DEF Inv, Connected, Linked
      <4> QED BY <2>3, <3>3, <4>1 DEF Adds, Reports, Closing, Closes, Snaps, Writing, Types
    <3> QED BY <1>1, <3>1, <3>2, <3>3, Queues DEF Queue, Passes
  <2>4. CASE phase[e] # "closed"
    <3>1. Closing(e)
      BY <2>4, Actors
    <3>2. typed \subseteq Text(Shown(doc[e]))
      BY <3>1 DEF Closing
    <3>3. Known(o) /\ stored # {}
      BY <2>2, CalmFacts DEF Known
    <3>4. PICK s : Root(s)
      BY <3>3
    <3>5. o \notin stored /\ ~Sent(e, o)
      BY <2>2, SentNew
    <3>6. o # s
      BY <3>4, <3>5 DEF Root
    <3>7. o \in doc[e]
      BY <3>2, <3>3, <3>4, <3>6, ClosesWithAll
    <3> QED BY <3>5, <3>7 DEF Inv, Relayed, Own, Unbroken
  <2> QED BY <2>3, <2>4
<1> QED BY <1>2, <1>3

-----------------------------------------------------------------------------
(* What is stored is saved, or an editor is going to bring it.             *)

\* Editor e is going to send a text that has the words of o.
Brings(e, o) ==
    \/ \E i \in At(out[e]) : IsText(out[e][i]) /\ o.words \subseteq out[e][i].text
    \/ timer[e] /\ o \in doc[e]
    \/ o \notin doc[e] /\ \E i \in At(inbox[e]) : inbox[e][i].type # "state" /\ o \in inbox[e][i].ops

\* No text that is sent would take the words of o away, unless e brings them.
Kept(e, o) == \A i \in At(out[e]) : IsText(out[e][i]) => o.words \subseteq out[e][i].text \/ Brings(e, o)
Safe(o) == /\ (\A t \in Final : o.words \subseteq t) \/ \E e \in Editor : Brings(e, o)
           /\ \A e \in Editor : Kept(e, o)
Covered(s) == \A o \in stored : o # s => Safe(o)

\* Who brings it goes on to, or the text is taken.
Taking(e, o) == \E m : Updates(e, m) /\ m.type # "resync" /\ o.words \subseteq m.text

LEMMA BringsStep ==
    ASSUME Inv, Inv', Steadily, Unbroken, GoesAhead, NEW s, Root(s), NEW e \in Editor, Asking(e),
           NEW o \in stored, o # s, Brings(e, o)
    PROVE  Brings(e, o)' \/ Taking(e, o)
<1>1. Typing /\ Typing' /\ Known(o) /\ Calmly(e)
  BY DEF Inv, Known, Steadily
<1>2. ASSUME NEW i \in At(out'[e]), IsText(out'[e][i]), o.words \subseteq out'[e][i].text
      PROVE  Brings(e, o)'
  BY <1>2 DEF Brings, At, IsText
<1>3. ASSUME timer'[e], o \in doc'[e] PROVE Brings(e, o)'
  BY <1>3 DEF Brings
<1>4. ASSUME NEW i \in At(inbox'[e]), inbox'[e][i].type # "state", o \in inbox'[e][i].ops, o \notin doc'[e]
      PROVE  Brings(e, o)'
  BY <1>4 DEF Brings, At
<1>5. ASSUME o \in doc[e] \cup doc'[e],
             \/ \E w, needs : Writing(e, w, needs)
             \/ Snaps(e) /\ online[e]
             \/ Closing(e) /\ timer[e]
             \/ ~timer[e] /\ \E r : Heard(e, r) /\ HearsSeeded(e, r)
      PROVE  Brings(e, o)'
  BY <1>1, <1>2, <1>5, Speaks
<1>6. ASSUME NEW i \in At(out[e]), IsText(out[e][i]), o.words \subseteq out[e][i].text
      PROVE  Brings(e, o)' \/ Taking(e, o)
  <2>1. i \in Nat /\ i > 0
    BY <1>1, TypingFacts DEF At
  <2>2. CASE Passes(e, 0)
    <3>1. i - 0 = i /\ i - 0 \in At(out'[e]) /\ out'[e][i - 0] = out[e][i]
      BY <2>1, <2>2 DEF Passes
    <3> QED BY <1>2, <1>6, <3>1
  <2>3. CASE Passes(e, 1) /\ Served(e, out[e][1])
    <3>1. CASE i = 1
      <4>1. Updates(e, out[e][1]) /\ out[e][1].type # "resync"
        BY <1>6, <2>3, <3>1 DEF Served, Joins, Initializes, Leaves, IsText
      <4> QED BY <1>6, <3>1, <4>1 DEF Taking
    <3>2. CASE i # 1
      <4>1. i - 1 \in At(out'[e]) /\ out'[e][i - 1] = out[e][i]
        BY <2>1, <2>3, <3>2 DEF Passes
      <4> QED BY <1>2, <1>6, <4>1
    <3> QED BY <3>1, <3>2
  <2> QED BY <1>1, <2>2, <2>3, Queues DEF Queue
<1>7. ASSUME timer[e], o \in doc[e] PROVE Brings(e, o)'
  <2>1. CASE Stands(e)
    BY <1>3, <1>7, <2>1 DEF Stands
  <2>2. ASSUME NEW m, Heard(e, m) PROVE timer'[e] /\ o \in doc'[e]
    BY <1>7, <2>2 DEF Heard, HearsUpdate, HearsState, Seeds, HearsSeeded
  <2> QED BY <1>3, <1>5, <1>7, <2>1, <2>2, Deeds DEF Acts
<1>8. ASSUME o \notin doc[e], NEW i \in At(inbox[e]), inbox[e][i].type # "state", o \in inbox[e][i].ops
      PROVE  Brings(e, o)'
  <2>1. i \in Nat /\ i > 0
    BY <1>1, TypingFacts DEF At
  <2>2. ~Closing(e)
    <3>1. Closing(e) => typed \subseteq Text(Shown(doc[e]))
      BY DEF Closing
    <3> QED BY <1>1, <1>8, <3>1, ClosesWithAll
  <2>3. CASE Hands(e, 0) /\ \A m : ~Heard(e, m)
    <3>1. o \notin doc'[e]
      <4>1. CASE Stands(e) \/ Snaps(e)
        BY <1>8, <4>1 DEF Stands, Snaps
      <4>2. ASSUME NEW w, NEW needs, Writing(e, w, needs) PROVE o \notin doc'[e]
        <5>1. o # Typed(e, w, needs)
          BY <1>1, <4>2, TypedNew DEF Writing
        <5> QED BY <1>8, <4>2, <5>1 DEF Writing, Types
      <4> QED BY <2>2, <2>3, <4>1, <4>2, Deeds DEF Acts
    <3>2. i - 0 = i /\ i - 0 \in At(inbox'[e]) /\ inbox'[e][i - 0] = inbox[e][i]
      BY <2>1, <2>3 DEF Hands
    <3> QED BY <1>4, <1>8, <3>1, <3>2
  <2>4. CASE Hands(e, 1) /\ 1 \in At(inbox[e]) /\ Heard(e, inbox[e][1])
    <3> DEFINE m == inbox[e][1]
    <3>1. CASE o \in doc'[e] /\ HearsUpdate(e, m)
      BY <1>3, <3>1 DEF HearsUpdate
    <3>2. CASE o \in doc'[e] /\ HearsSeeded(e, m)
      <4>1. timer[e] => timer'[e]
        BY <3>2 DEF HearsSeeded
      <4>2. o \in doc[e] \cup doc'[e] /\ Heard(e, m) /\ HearsSeeded(e, m)
        BY <2>4, <3>2
      <4>3. CASE timer[e]
        BY <1>3, <3>2, <4>1, <4>3
      <4>4. CASE ~timer[e]
        BY <1>5, <4>2, <4>4
      <4> QED BY <4>3, <4>4
    <3>3. o \notin doc'[e] \/ ~HearsState(e, m)
      <4> SUFFICES ASSUME o \in doc'[e], HearsState(e, m) PROVE FALSE
        OBVIOUS
      <4>1. o \in m.ops /\ m.type = "state"
        BY <1>8 DEF HearsState
      <4>2. inbox[e][i].type = "update"
        BY <1>1, <1>8, <2>4, <4>1, TypingFacts DEF Asking, FromServer
      <4> QED BY <1>8, <2>4, <4>1, <4>2 DEF Asking
    <3>4. o \notin doc'[e] \/ ~Seeds(e, m)
      BY <1>8 DEF Seeds
    <3>5. CASE o \notin doc'[e]
      <4>1. i # 1
        <5>1. m.type # "state" => doc'[e] = doc[e] \cup m.ops
          BY <2>4 DEF Heard, HearsUpdate, HearsState, Seeds, HearsSeeded
        <5> QED BY <1>8, <3>5, <5>1
      <4>2. i - 1 \in At(inbox'[e]) /\ inbox'[e][i - 1] = inbox[e][i]
        BY <2>1, <2>4, <4>1 DEF Hands
      <4> QED BY <1>4, <1>8, <3>5, <4>2
    <3> QED BY <2>4, <3>1, <3>2, <3>3, <3>4, <3>5 DEF Heard
  <2> QED BY <1>1, <2>2, <2>3, <2>4, Mails DEF Mail
<1> QED BY <1>6, <1>7, <1>8 DEF Brings

\* The first message of e is taken: what it says, those that stay say too.
LEMMA TakenGrows ==
    ASSUME Inv, Inv', GoesAhead, NEW e \in Editor, Grows(e), NEW m, Updates(e, m), m.type # "resync",
           NEW i \in At(out'[e]), IsText(out'[e][i])
    PROVE  m.text \subseteq out'[e][i].text
<1>1. /\ Len(out[e]) \in Nat /\ Len(out'[e]) \in Nat
      /\ m = out[e][1] /\ 1 \in At(out[e]) /\ IsText(m) /\ Popped(out'[e], out[e])
  BY TypingFacts DEF Inv, Updates, Serves, Takes, Popped, IsText
<1>2. i \in Nat /\ i + 1 \in At(out[e]) /\ out'[e][i] = out[e][i + 1] /\ i + 1 # 1
  BY <1>1, PoppedAt
<1>3. 1 < i + 1
  BY <1>2
<1> QED BY <1>1, <1>2, <1>3 DEF Grows

Tidy(e) == Asking(e) /\ Single(e) /\ Grows(e) /\ Last(e)

\* A text that is added has the words of what is stored, or they are coming.
LEMMA AddedKept ==
    ASSUME Inv, Inv', Steadily, Steadily', Unbroken, Unbroken', GoesAhead, NEW s, Root(s), NEW e \in Editor,
           NEW o \in stored, o # s, o \in stored',
           NEW i \in At(out'[e]), IsText(out'[e][i]), Adds(e, i, out'[e][i])
    PROVE  o.words \subseteq out'[e][i].text \/ Brings(e, o)'
<1>1. Typing /\ Typing' /\ Known(o) /\ Calmly(e)' /\ Complete(e)' /\ link'[e] = 1
  BY DEF Inv, Known, Steadily, Relayed, Unbroken
<1>2. /\ Reports(e, out'[e][i]) /\ phase[e] = "open" /\ Text(doc[e]) \subseteq out'[e][i].text
      /\ phase'[e] # "closed" => out'[e][i].text = Text(doc'[e])
  BY AddsText DEF Adds, IsText
<1>3. ASSUME o \in doc[e] PROVE o.words \subseteq out'[e][i].text
  BY <1>2, <1>3 DEF Text
<1>4. CASE Closing(e)
  <2>1. o \in doc[e]
    BY <1>1, <1>4, ClosesWithAll DEF Closing
  <2> QED BY <1>3, <2>1
<1>5. CASE ~Closing(e)
  <2>1. phase'[e] = "open"
    BY <1>2, <1>5, Actors
  <2>2. InRoom(e)'
    BY <1>1 DEF Inv, Connected, Queued, At, IsText
  <2>3. doc'[e] # {}
    <3>1. timer[e] => doc[e] # {}
      BY <1>1, TypingFacts
    <3>2. \A r : HearsSeeded(e, r) => doc'[e] # {}
      BY DEF HearsSeeded
    <3>3. \A w, needs : Writing(e, w, needs) => doc'[e] # {}
      BY DEF Writing, Types
    <3>4. doc[e] \subseteq doc'[e]
      BY <1>5, Actors
    <3> QED BY <1>2, <3>1, <3>2, <3>3, <3>4 DEF Reports
  <2>4. CASE o \in doc'[e]
    BY <1>2, <2>1, <2>4 DEF Text
  <2>5. CASE o \notin doc'[e]
    <3>1. PICK j \in At(inbox'[e]) : o \in inbox'[e][j].ops
      BY <1>1, <2>1, <2>2, <2>5 DEF Complete, Coming, At
    <3>2. inbox'[e][j].type # "state"
      BY <1>1, <2>3, <3>1 DEF Calmly, At
    <3> QED BY <2>5, <3>1, <3>2 DEF Brings, At
  <2> QED BY <2>4, <2>5
<1> QED BY <1>4, <1>5

LEMMA SafeStays ==
    ASSUME Inv, Inv', Steadily, Steadily', Unbroken, Unbroken', GoesAhead, \A e \in Editor : Tidy(e),
           NEW s, Root(s), stored' # {}, NEW o \in stored, o # s, Safe(o)
    PROVE  Safe(o)'
<1>1. Typing /\ Typing' /\ o \in stored'
  BY StoredStays DEF Inv
<1>2. \A e \in Editor : Asking(e) /\ Grows(e)
  BY DEF Tidy
<1>3. \A e \in Editor : Brings(e, o) => Brings(e, o)' \/ Taking(e, o)
  BY <1>2, BringsStep
<1>4. ASSUME NEW e \in Editor, NEW m, Updates(e, m), m.type # "resync"
      PROVE  Final' = {m.text} /\ m = out[e][1] /\ 1 \in At(out[e]) /\ IsText(m)
  BY <1>4 DEF Updates, Serves, Takes, Popped, IsText, Final
<1>5. (\A t \in Final' : o.words \subseteq t) \/ \E e \in Editor : Brings(e, o)'
  <2>1. ASSUME NEW e \in Editor, Taking(e, o) PROVE \A t \in Final' : o.words \subseteq t
    BY <1>4, <2>1 DEF Taking
  <2>2. CASE Final' = Final
    BY <1>3, <2>1, <2>2 DEF Safe
  <2>3. ASSUME NEW e \in Editor, NEW m, Updates(e, m), m.type # "resync"
        PROVE  (\A t \in Final' : o.words \subseteq t) \/ \E f \in Editor : Brings(f, o)'
    <3>1. o.words \subseteq m.text \/ Brings(e, o)
      BY <1>4, <2>3 DEF Safe, Kept
    <3> QED BY <1>3, <1>4, <2>1, <2>3, <3>1
  <2> QED BY <1>1, <2>2, <2>3, Server
<1>6. ASSUME NEW e \in Editor, NEW i \in At(out'[e]), IsText(out'[e][i])
      PROVE  o.words \subseteq out'[e][i].text \/ Brings(e, o)'
  <2>1. CASE \E j \in At(out[e]) : out'[e][i] = out[e][j]
    <3>1. o.words \subseteq out'[e][i].text \/ Brings(e, o)
      BY <1>6, <2>1 DEF Safe, Kept
    <3>2. ASSUME Taking(e, o) PROVE o.words \subseteq out'[e][i].text
      BY <1>2, <1>6, <3>2, TakenGrows DEF Taking
    <3> QED BY <1>3, <3>1, <3>2
  <2>2. CASE Adds(e, i, out'[e][i])
    BY <1>1, <1>6, <2>2, AddedKept
  <2> QED BY <1>1, <2>1, <2>2, Queues DEF Queue, Passes
<1> QED BY <1>5, <1>6 DEF Safe, Kept, At, IsText

\* What an update adds is in its text; the others hear of it.
LEMMA SafeNew ==
    ASSUME Inv, Inv', Steadily, Unbroken, Unbroken', GoesAhead, \A e \in Editor : Tidy(e),
           NEW g \in Editor, NEW m, Updates(g, m), m.type # "resync", NEW o \in m.ops
    PROVE  Safe(o)'
<1>1. Typing /\ Typing' /\ \A e \in Editor : Single(e) /\ Grows(e) /\ Last(e)
  BY DEF Inv, Tidy
<1>2. /\ m = out[g][1] /\ 1 \in At(out[g]) /\ IsText(m) /\ Final' = {m.text} /\ UNCHANGED editor
      /\ \A e \in Editor : e # g => out'[e] = out[e]
  BY DEF Updates, Serves, Takes, Popped, IsText, Final
<1>3. o.words \subseteq m.text
  BY <1>1, <1>2 DEF Grows
<1>4. o \notin stored /\ Sent(g, o)
  BY <1>1, UpdateNew
<1>5. ASSUME NEW i \in At(out'[g]), IsText(out'[g][i]) PROVE o.words \subseteq out'[g][i].text
  BY <1>1, <1>3, <1>5, TakenGrows
<1>6. ASSUME NEW e \in Editor, e # g, NEW i \in At(out[e]), IsText(out[e][i]) PROVE Brings(e, o)'
  <2>1. Linked(e) /\ Queued(e) /\ link[e] = 1 /\ Own(e)
    BY DEF Inv, Connected, Unbroken, Relayed
  <2>2. Len(out[e]) # 0 /\ InRoom(e)
    BY <1>6, <2>1 DEF At, Queued, IsText
  <2>3. phase[e] = "open"
    BY <1>1, <1>4, <1>6, <2>1, <2>2 DEF Last, Linked, Typing, Control
  <2>4. Reaches(e)
    BY <2>1, <2>2, <2>3 DEF Reaches, Linked
  <2>5. PICK r : r.type = "update" /\ r.ops = m.ops /\ Pushed(inbox'[e], inbox[e], r)
    BY <1>6, <2>4 DEF Updates
  <2>6. Len(inbox[e]) \in Nat
    BY <1>1, TypingFacts
  <2>7. Len(inbox[e]) + 1 \in At(inbox'[e]) /\ inbox'[e][Len(inbox[e]) + 1] = r
    BY <2>5, <2>6, PushedAt
  <2>8. o \notin doc'[e]
    <3>1. ~Sent(e, o)
      BY <1>1, <1>4, <1>6, SentNew
    <3> QED BY <1>2, <1>4, <2>1, <3>1 DEF Own, editor
  <2> QED BY <2>5, <2>7, <2>8 DEF Brings, At
<1> QED BY <1>2, <1>3, <1>5, <1>6 DEF Safe, Kept, At, IsText

LEMMA CoveredStep ==
    ASSUME Inv, Inv', Steadily, Steadily', Unbroken, Unbroken', GoesAhead, \A e \in Editor : Tidy(e),
           stored # {}, stored' # {}, NEW s, Root(s), Covered(s)
    PROVE  Covered(s)'
<1> SUFFICES ASSUME NEW o \in stored', o # s PROVE Safe(o)'
  BY DEF Covered
<1>1. CASE o \in stored
  BY <1>1, SafeStays DEF Covered
<1>2. CASE o \notin stored
  <2>1. \A e \in Editor : \A m : Updates(e, m) => stored' = stored \cup m.ops
    BY DEF Updates
  <2>2. PICK g, m : g \in Editor /\ Updates(g, m) /\ m.type # "resync"
    BY <1>2, Server DEF Inv
  <2>3. o \in m.ops
    BY <1>2, <2>1, <2>2
  <2> QED BY <2>2, <2>3, SafeNew
<1> QED BY <1>1, <1>2

-----------------------------------------------------------------------------
(* What is thrown away was saved.                                          *)

Lasts == Lasting => /\ Begun
                    /\ \A e \in Editor : Tidy(e)
                    /\ stored # {} => \E s : Root(s) /\ Covered(s)
Keeping == Inv /\ Rooted /\ Causal /\ Steadily /\ Lasts

LEMMA LastsInit == Init => Lasts
<1> SUFFICES ASSUME Init PROVE Lasts
  OBVIOUS
<1>1. /\ save = {} /\ stored = {}
      /\ \A e \in Editor : At(out[e]) = {} /\ At(inbox[e]) = {} /\ phase[e] = "new"
  BY DEF Init, At
<1>2. Begun
  BY <1>1 DEF Begun
<1>3. \A e \in Editor : Tidy(e)
  BY <1>1 DEF Tidy, Asking, Single, Grows, Last
<1> QED BY <1>1, <1>2, <1>3 DEF Lasts

LEMMA LastsStep ==
    ASSUME Inv, Inv', Rooted, Causal, Causal', Steadily, Steadily', Steps, Lasts
    PROVE  Lasts'
<1> SUFFICES ASSUME Lasting'
             PROVE  /\ Begun' /\ \A e \in Editor : Tidy(e)'
                    /\ stored' # {} => \E s : Root(s)' /\ Covered(s)'
  BY DEF Lasts
<1>1. Lasting /\ GoesAhead /\ Unbroken /\ Unbroken'
  BY GoesOn DEF Lasting, Unbroken
<1>2. Begun /\ (\A e \in Editor : Tidy(e)) /\ (stored # {} => \E s : Root(s) /\ Covered(s))
  BY <1>1 DEF Lasts
<1>3. Begun'
  BY <1>1, <1>2, BegunStep
<1>4. \A e \in Editor : Asking(e) /\ Single(e) /\ Grows(e) /\ Last(e)
  BY <1>2 DEF Tidy
<1>5. ASSUME NEW e \in Editor PROVE Tidy(e)'
  <2>1. Asking(e)'
    BY <1>1, <1>4, AskingStep
  <2>2. Single(e)'
    BY <1>1, <1>4, SingleStep
  <2>3. Grows(e)'
    BY <1>1, <1>4, GrowsStep
  <2>4. Last(e)'
    BY <1>1, <1>2, <1>4, LastStep
  <2> QED BY <2>1, <2>2, <2>3, <2>4 DEF Tidy
<1>6. CASE stored # {} /\ stored' # {}
  <2>1. PICK s : Root(s) /\ Covered(s)
    BY <1>2, <1>6
  <2>2. Root(s)'
    BY <1>1, <1>6, <2>1, RootStep
  <2>3. Covered(s)'
    BY <1>1, <1>2, <1>6, <2>1, CoveredStep
  <2> QED BY <1>3, <1>5, <2>2, <2>3
<1>7. CASE stored = {} /\ stored' # {}
  <2>1. PICK s : Root(s)' /\ stored' = {s}
    BY <1>1, <1>2, <1>7, RootFirst
  <2>2. Covered(s)'
    BY <2>1 DEF Covered
  <2> QED BY <1>3, <1>5, <2>1, <2>2
<1>8. CASE stored' = {}
  BY <1>3, <1>5, <1>8
<1> QED BY <1>6, <1>7, <1>8

\* The document is cleared: nobody is left to bring anything, and the note has
\* the text that counts.
LEMMA Clearing ==
    ASSUME Typing, Typing', GoesAhead, stored # {}, stored' = {}
    PROVE  /\ users' = {} /\ Final = {note'} /\ UNCHANGED <<editor, inbox>>
           /\ \A e \in Editor : \A i \in At(out[e]) :
                IsText(out[e][i]) => \E j \in At(out'[e]) : out'[e][j] = out[e][i]
<1>1. ASSUME NEW e \in Editor,
             Connects(e) \/ (\E w, needs : Writing(e, w, needs)) \/ Snaps(e) \/ Closing(e) \/ (\E m : Heard(e, m))
      PROVE  stored' = stored
  BY <1>1 DEF Connects, Writing, Types, Snaps, Closing, Closes, Heard, Hears, server
<1>2. ASSUME NEW e \in Editor, NEW m, Joins(e, m) \/ Initializes(e, m) PROVE stored' = stored
  BY <1>2 DEF Joins, Initializes
<1>3. ASSUME NEW e \in Editor, NEW m, Updates(e, m) PROVE FALSE
  BY <1>3 DEF Updates
<1>4. UNCHANGED vars => stored' = stored
  BY DEF vars, server
<1>5. ASSUME NEW g \in Editor, NEW m, Leaves(g, m)
      PROVE  /\ users' = {} /\ Final = {note'} /\ UNCHANGED <<editor, inbox>>
             /\ \A e \in Editor : \A i \in At(out[e]) :
                  IsText(out[e][i]) => \E j \in At(out'[e]) : out'[e][j] = out[e][i]
  <2>1. users' = {} /\ save = {} /\ note' = note /\ UNCHANGED <<editor, inbox>>
    BY <1>5 DEF Leaves, Forgets
  <2>2. m = out[g][1] /\ m.type = "leave" /\ Takes(g)
    BY <1>5 DEF Leaves, Serves
  <2>3. ASSUME NEW e \in Editor, NEW i \in At(out[e]), IsText(out[e][i])
        PROVE  \E j \in At(out'[e]) : out'[e][j] = out[e][i]
    <3>1. CASE e # g
      BY <2>2, <2>3, <3>1 DEF Takes
    <3>2. CASE e = g
      <4>1. i # 1
        BY <2>2, <2>3, <3>2 DEF IsText
      <4>2. Len(out[g]) \in Nat /\ i \in Nat
        BY <3>2, TypingFacts
      <4>3. Len(out[g]) = Len(out'[g]) + 1 /\ \A j \in At(out'[g]) : out'[g][j] = out[g][j + 1]
        BY <2>2 DEF Takes, Popped
      <4>4. Len(out'[g]) \in Nat
        BY <4>2, <4>3, TypingFacts
      <4>5. i - 1 \in At(out'[g]) /\ i - 1 + 1 = i
        BY <2>3, <3>2, <4>1, <4>2, <4>3, <4>4 DEF At
      <4> QED BY <3>2, <4>3, <4>5
    <3> QED BY <3>1, <3>2
  <2> QED BY <2>1, <2>3 DEF Final
<1>6. CASE Saves
  <2>1. PICK text : save = {text} /\ note' = text /\ stored' = IF users = {} THEN {} ELSE stored
    BY <1>6 DEF Saves, SavesText
  <2>2. users' = users /\ UNCHANGED <<editor, inbox>> /\ out' = out
    BY <1>6 DEF Saves
  <2> QED BY <2>1, <2>2 DEF Final
<1> QED BY <1>1, <1>2, <1>3, <1>4, <1>5, <1>6 DEF GoesAhead, Served

LEMMA ClearsSaved ==
    ASSUME Inv, Inv', Causal, Causal', Steadily, Steps, Lasts
    PROVE  ThrownAway
<1> SUFFICES ASSUME stored # {}, stored' = {}, Lasting' PROVE Text(stored) \subseteq note'
  BY DEF ThrownAway
<1>1. Lasting /\ GoesAhead /\ Unbroken' /\ Typing /\ Typing' /\ Connected'
  BY GoesOn DEF Lasting, Unbroken, Inv
<1>2. /\ users' = {} /\ Final = {note'} /\ UNCHANGED <<editor, inbox>>
      /\ \A e \in Editor : \A i \in At(out[e]) :
           IsText(out[e][i]) => \E j \in At(out'[e]) : out'[e][j] = out[e][i]
  BY <1>1, Clearing
<1>3. ASSUME NEW e \in Editor, NEW o PROVE ~Brings(e, o)
  <2>1. /\ Len(inbox'[e]) = 0 /\ ~timer'[e]
        /\ \A i \in At(out'[e]) : out'[e][i].type \notin {"seed", "edit", "snapshot"}
    BY <1>1, <1>2, Emptied
  <2>2. ~timer[e] /\ At(inbox[e]) = {}
    BY <1>2, <2>1 DEF editor, At
  <2>3. \A i \in At(out[e]) : ~IsText(out[e][i])
    BY <1>2, <2>1 DEF IsText
  <2> QED BY <2>2, <2>3 DEF Brings
<1>4. PICK s : Root(s) /\ Covered(s)
  BY <1>1 DEF Lasts
<1>5. ASSUME NEW o \in stored PROVE o.words \subseteq note'
  <2>1. \A t \in Final : o.words \subseteq t
    BY <1>3, <1>4, <1>5 DEF Root, Covered, Safe
  <2> QED BY <1>2, <2>1
<1> QED BY <1>5 DEF Text

\* Whoever leaves last, whichever save runs last and whatever was typed meanwhile:
\* if no connection was lost, nobody closed the note while messages were crossing
\* and no stopped save went on, then the log of the document is thrown away only
\* when the note has all its words (yjs_document_leave, debounced_save).
THEOREM ClearedNotesAreSaved == Spec => ClearedIsSaved
<1>1. Init => Keeping
  BY InvInit, RootedInit, CausalInit, SteadilyInit, LastsInit DEF Keeping
<1>2. Keeping /\ [Next]_vars => Keeping' /\ ThrownAway
  <2> SUFFICES ASSUME Keeping, [Next]_vars PROVE Keeping' /\ ThrownAway
    OBVIOUS
  <2>1. Inv' /\ Steps
    BY InvStep, NextSteps DEF Keeping, Inv
  <2>2. Typing /\ Typing'
    BY <2>1 DEF Keeping, Inv
  <2>3. Rooted' /\ Causal' /\ Steadily'
    BY <2>1, <2>2, RootedStep, CausalStep, SteadilyStep DEF Keeping
  <2>4. Lasts' /\ ThrownAway
    BY <2>1, <2>3, LastsStep, ClearsSaved DEF Keeping
  <2> QED BY <2>1, <2>3, <2>4 DEF Keeping
<1>3. Keeping /\ [Next]_vars => [ThrownAway]_vars
  BY <1>2
<1> QED BY <1>1, <1>2, <1>3, PTL DEF Spec, ClearedIsSaved

================================================================================
