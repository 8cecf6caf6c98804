------------------------------ MODULE NoteDocument ------------------------------
(***************************************************************************)
(* A note that several people edit (socket/main.py, socket/utils.py and    *)
(* the client's RichTextInput/Collaboration.ts).                           *)
(*                                                                         *)
(* Every editor has a copy of a Yjs document, the server a log of its      *)
(* updates in Redis, and the database the note's text.  Updates are        *)
(* relayed; the text is saved by a task that an update starts, half a      *)
(* second later, with the text its sender had.  The document lives while   *)
(* somebody edits the note, and is seeded from the note's text when the    *)
(* first editor finds it empty.  Handlers and saves run under a lock of    *)
(* the document, so that each is one step.                                 *)
(*                                                                         *)
(* A document is the set of the operations it was given, and the log their *)
(* union.  An operation inserts words: one that was typed, or all those of *)
(* the note for a seed.  Words are typed once and never deleted.  It needs *)
(* what it was typed next to, and what its editor typed before: Yjs keeps  *)
(* it pending, neither shown nor lost, until the document has all that.    *)
(***************************************************************************)
EXTENDS Naturals, FiniteSets, Sequences

CONSTANTS Editor,  \* editors: each is opened and closed once
          Word,    \* words that may be typed
          Title,   \* the words of the note at the start
          Drops,   \* bound: connections that each loses,
          Losers   \* and editors that lose any

ASSUME WordAssumption == Word \cap Title = {} /\ Title # {}
ASSUME DropsAssumption == Drops \in Nat /\ Losers \in Nat

VARIABLES note,    \* the words of the note in the database
          stored,  \* the operations in the log
          users,   \* connections registered as users of the document
          room,    \* connections in the document's room
          save,    \* the registered save: a set of at most one text
          stopped, \* texts of saves asked to stop, which may still be run
          phase, online, link, synced, timer, doc, \* of each editor
          out, inbox,  \* messages from and to each editor
          seeds,   \* number of seeds made
          typed,   \* words typed so far
          raced    \* an editor was closed while messages were crossing its own,
                   \* or a save that was to stop has cleared the document

server == <<note, stored, users, room, save, stopped>>
editor == <<phase, online, link, synced, timer, doc>>
vars == <<server, editor, out, inbox, seeds, typed, raced>>

-----------------------------------------------------------------------------
(* Operations, texts and messages. *)

Typed(e, w, needs) == [client |-> e, words |-> {w}, needs |-> needs]
Seed(n, text) == [client |-> n, words |-> text, needs |-> {}]
Text(ops) == UNION {o.words : o \in ops}

\* Yjs names an operation by its client and its place among those of the client.
Id(o) == <<o.client, o.words>>
Ids(ops) == {Id(o) : o \in ops}
Shown(ops) == {o \in ops : o.needs \subseteq Ids(ops)}

\* What the next operation of an editor may need of what it shows: something,
\* all that it typed before, and what these need.
Needed(e) == LET shown == Shown(doc[e]) IN
    {needs \in SUBSET Ids(shown) :
        /\ needs = {} => shown = {}
        /\ \A o \in shown : /\ o.client = e => Id(o) \in needs
                           /\ Id(o) \in needs => o.needs \subseteq needs}

Message(type, ops, text) == [type |-> type, ops |-> ops, text |-> text]
Sends(e, messages) == out' = [out EXCEPT ![e] = @ \o messages]
Connection(e) == <<e, link[e]>>
InRoom(e) == Connection(e) \in room

\* The messages of a step: one to e, and one to everybody else in the room.
Delivered(e, own, others) ==
    [f \in Editor |-> IF f = e THEN inbox[f] \o own
                      ELSE IF phase[f] = "open" /\ online[f] /\ InRoom(f) THEN inbox[f] \o others
                      ELSE inbox[f]]

-----------------------------------------------------------------------------
(* The editor. *)

Open(e) ==
    /\ phase[e] = "new"
    /\ phase' = [phase EXCEPT ![e] = "open"]
    /\ online' = [online EXCEPT ![e] = TRUE]
    /\ Sends(e, <<Message("join", {}, {})>>)
    /\ UNCHANGED <<server, link, synced, timer, doc, inbox, seeds, typed, raced>>

\* Typing waits for the document, unless the editor is offline; then nobody
\* is told.  Words are all alike: the next one is any that is left.
Type(e) == LET w == CHOOSE w \in Word : w \notin typed IN
    /\ typed # Word
    /\ phase[e] = "open" /\ (synced[e] \/ ~online[e])
    /\ typed' = typed \cup {w}
    /\ \E needs \in Needed(e) : LET o == Typed(e, w, needs) IN
         /\ doc' = [doc EXCEPT ![e] = @ \cup {o}]
         /\ IF online[e]
              THEN /\ Sends(e, <<Message("edit", {o}, Text(Shown(doc'[e])))>>)
                   /\ timer' = [timer EXCEPT ![e] = FALSE]
              ELSE UNCHANGED <<out, timer>>
    /\ raced' = (raced \/ \E f \in Editor : phase[f] = "closed" /\ out[f] # <<>>)
    /\ UNCHANGED <<server, phase, online, link, synced, inbox, seeds>>

Snapshot(e) == Message("snapshot", {}, Text(Shown(doc[e])))

\* Half a second after the last update from somebody else.
SendSnapshot(e) ==
    /\ phase[e] = "open" /\ timer[e]
    /\ timer' = [timer EXCEPT ![e] = FALSE]
    /\ Sends(e, IF online[e] THEN <<Snapshot(e)>> ELSE <<>>)
    /\ UNCHANGED <<server, phase, online, link, synced, doc, inbox, seeds, typed, raced>>

\* (The timer is cleared only.)
CloseAtOnce(e) ==
    /\ phase[e] = "open"
    /\ phase' = [phase EXCEPT ![e] = "closed"]
    /\ timer' = [timer EXCEPT ![e] = FALSE]
    /\ doc' = [doc EXCEPT ![e] = {}]
    /\ synced' = [synced EXCEPT ![e] = FALSE]
    /\ Sends(e, IF online[e] THEN <<Message("leave", {}, {})>> ELSE <<>>)
    /\ inbox' = [inbox EXCEPT ![e] = <<>>]
    /\ raced' = (raced \/ ~(typed \subseteq Text(Shown(doc[e]))))
    /\ UNCHANGED <<server, online, link, seeds, typed>>

Close(e) ==
    /\ phase[e] = "open"
    /\ phase' = [phase EXCEPT ![e] = "closed"]
    /\ timer' = [timer EXCEPT ![e] = FALSE]
    /\ doc' = [doc EXCEPT ![e] = {}]
    /\ synced' = [synced EXCEPT ![e] = FALSE]
    /\ Sends(e, IF ~online[e] THEN <<>>
                ELSE (IF timer[e] THEN <<Snapshot(e)>> ELSE <<>>) \o <<Message("leave", {}, {})>>)
    /\ inbox' = [inbox EXCEPT ![e] = <<>>]
    /\ raced' = (raced \/ ~(typed \subseteq Text(Shown(doc[e]))))
    /\ UNCHANGED <<server, online, link, seeds, typed>>

\* A message from the server: what it brings may stay pending.
Receive(e) == LET m == Head(inbox[e]) IN
    /\ inbox[e] # <<>>
    /\ inbox' = [inbox EXCEPT ![e] = Tail(@)]
    /\ \/ /\ m.type = "update"
          /\ doc' = [doc EXCEPT ![e] = @ \cup m.ops]
          /\ timer' = [timer EXCEPT ![e] = TRUE]
          /\ UNCHANGED <<synced, out, seeds>>
       \/ /\ m.type = "state" /\ m.ops # {}
          /\ doc' = [doc EXCEPT ![e] = @ \cup m.ops]
          /\ synced' = [synced EXCEPT ![e] = TRUE]
          /\ UNCHANGED <<timer, out, seeds>>
       \* Nobody has the document, nor anything to show: seed it from the note, and wait for the answer.
       \/ /\ m.type = "state" /\ m.ops = {} /\ Shown(doc[e]) = {}
          /\ seeds' = seeds + 1
          /\ Sends(e, <<Message("seed", {Seed(seeds', m.text)}, {})>>)
          /\ UNCHANGED <<synced, timer, doc>>
       \* ... or give it back what this editor has of it.
       \/ /\ m.type = "state" /\ m.ops = {} /\ Shown(doc[e]) # {}
          /\ synced' = [synced EXCEPT ![e] = TRUE]
          /\ Sends(e, <<Message("resync", doc[e], {})>>)
          /\ UNCHANGED <<timer, doc, seeds>>
       \/ /\ m.type = "seeded"
          /\ doc' = [doc EXCEPT ![e] = @ \cup m.ops]
          /\ synced' = [synced EXCEPT ![e] = TRUE]
          /\ Sends(e, IF timer[e] THEN <<>> ELSE <<Message("snapshot", {}, Text(Shown(doc'[e])))>>)
          /\ UNCHANGED <<timer, seeds>>
    /\ UNCHANGED <<server, phase, online, link, typed, raced>>

-----------------------------------------------------------------------------
(* The connection.  What was on its way is lost, and the editor comes back *)
(* with a new one; the server finds out on its own.                        *)

Drop(e) ==
    /\ phase[e] = "open" /\ online[e] /\ link[e] <= Drops
    /\ Cardinality({e} \cup {f \in Editor : link[f] > 1}) <= Losers
    /\ online' = [online EXCEPT ![e] = FALSE]
    /\ synced' = [synced EXCEPT ![e] = FALSE]
    /\ out' = [out EXCEPT ![e] = <<>>]
    /\ inbox' = [inbox EXCEPT ![e] = <<>>]
    /\ link' = [link EXCEPT ![e] = @ + 1]
    /\ UNCHANGED <<server, phase, timer, doc, seeds, typed, raced>>

Reconnect(e) ==
    /\ phase[e] = "open" /\ ~online[e]
    /\ online' = [online EXCEPT ![e] = TRUE]
    /\ Sends(e, <<Message("join", {}, {})>>)
    /\ UNCHANGED <<server, phase, link, synced, timer, doc, inbox, seeds, typed, raced>>

-----------------------------------------------------------------------------
(* The server: handlers, in the order each editor sent its messages.       *)

\* (Saves under way are not looked at.)
ForgetAtOnce(connection) ==
    /\ users' = users \ {connection}
    /\ room' = room \ {connection}
    /\ stored' = IF users' = {} THEN {} ELSE stored

Forget(connection) ==
    /\ users' = users \ {connection}
    /\ room' = room \ {connection}
    /\ stored' = IF users' = {} /\ save = {} THEN {} ELSE stored

Handles(e, type) == /\ out[e] # <<>> /\ Head(out[e]).type = type
                    /\ out' = [out EXCEPT ![e] = Tail(@)]

Join(e) ==
    /\ Handles(e, "join")
    /\ users' = users \cup {Connection(e)}
    /\ room' = room \cup {Connection(e)}
    /\ inbox' = Delivered(e, IF phase[e] = "open" THEN <<Message("state", stored, note)>> ELSE <<>>, <<>>)
    /\ UNCHANGED <<note, stored, save, stopped, editor, seeds, typed, raced>>

\* (Every seed is taken.)
InitializeAlways(e) == LET m == Head(out[e]) IN
    /\ Handles(e, "seed") /\ InRoom(e)
    /\ stored' = stored \cup m.ops
    /\ inbox' = Delivered(e, IF phase[e] = "open" THEN <<Message("seeded", stored', {})>> ELSE <<>>,
                          <<Message("update", m.ops, {})>>)
    /\ UNCHANGED <<note, users, room, save, stopped, editor, seeds, typed, raced>>

\* The first seed wins; everybody gets the stored document.
Initialize(e) == LET m == Head(out[e]) IN
    /\ Handles(e, "seed") /\ InRoom(e)
    /\ stored' = IF stored = {} THEN m.ops ELSE stored
    /\ inbox' = Delivered(e, IF phase[e] = "open" THEN <<Message("seeded", stored', {})>> ELSE <<>>,
                          IF stored = {} THEN <<Message("update", m.ops, {})>> ELSE <<>>)
    /\ UNCHANGED <<note, users, room, save, stopped, editor, seeds, typed, raced>>

\* An update is logged and relayed; one with a text replaces the save.
ReplacedBesides(text) == save' = save \cup {text} /\ UNCHANGED stopped
Replaced(text) == save' = {text} /\ stopped' = stopped \cup save
\* (Nobody else is told.)
UpdateAlone(e) == LET m == Head(out[e]) IN
    /\ \E type \in {"edit", "resync", "snapshot"} : Handles(e, type)
    /\ InRoom(e)
    /\ stored' = stored \cup m.ops
    /\ inbox' = inbox
    /\ IF m.type = "resync" THEN UNCHANGED <<save, stopped>> ELSE Replaced(m.text)
    /\ UNCHANGED <<note, users, room, editor, seeds, typed, raced>>
Update(e) == LET m == Head(out[e]) IN
    /\ \E type \in {"edit", "resync", "snapshot"} : Handles(e, type)
    /\ InRoom(e)
    /\ stored' = stored \cup m.ops
    /\ inbox' = Delivered(e, <<>>, IF m.ops = {} THEN <<>> ELSE <<Message("update", m.ops, {})>>)
    /\ IF m.type = "resync" THEN UNCHANGED <<save, stopped>> ELSE Replaced(m.text)
    /\ UNCHANGED <<note, users, room, editor, seeds, typed, raced>>

Leave(e) ==
    /\ Handles(e, "leave")
    /\ Forget(Connection(e))
    /\ UNCHANGED <<note, save, stopped, editor, inbox, seeds, typed, raced>>

\* remove_user_from_all_documents, for a connection that is gone.
Disconnect(e, n) ==
    /\ <<e, n>> \in users
    /\ n < link[e] \/ ~online[e]
    /\ Forget(<<e, n>>)
    /\ UNCHANGED <<note, save, stopped, editor, out, inbox, seeds, typed, raced>>

\* debounced_save, half a second after it was started: by then the saves it
\* replaced have heard that they are to stop.
Saved(text) == /\ note' = text
               /\ stored' = IF users = {} THEN {} ELSE stored
Save ==
    /\ save # {} /\ stopped = {}
    /\ \E text \in save : Saved(text)
    /\ save' = {}
    /\ UNCHANGED <<users, room, stopped, editor, out, inbox, seeds, typed, raced>>

\* A save that was to stop may take the lock before it hears of it, and clear
\* the document though another save is under way.
SaveStopped ==
    /\ \E text \in stopped : /\ stopped' = stopped \ {text}
                             /\ \/ Saved(text)
                                \/ UNCHANGED <<note, stored>>
    /\ raced' = (raced \/ stored' # stored)
    /\ UNCHANGED <<users, room, save, editor, out, inbox, seeds, typed>>

-----------------------------------------------------------------------------
Init == /\ note = Title
        /\ stored = {} /\ users = {} /\ room = {} /\ save = {} /\ stopped = {}
        /\ phase = [e \in Editor |-> "new"]
        /\ online = [e \in Editor |-> FALSE]
        /\ link = [e \in Editor |-> 1]
        /\ synced = [e \in Editor |-> FALSE]
        /\ timer = [e \in Editor |-> FALSE]
        /\ doc = [e \in Editor |-> {}]
        /\ out = [e \in Editor |-> <<>>]
        /\ inbox = [e \in Editor |-> <<>>]
        /\ seeds = 0
        /\ typed = {}
        /\ raced = FALSE

Serve(e) == Join(e) \/ Initialize(e) \/ Update(e) \/ Leave(e)

Next == \/ \E e \in Editor : \/ Open(e) \/ SendSnapshot(e) \/ Close(e) \/ Receive(e)
                             \/ Type(e) \/ Drop(e) \/ Reconnect(e)
                             \/ Serve(e) \/ \E n \in 1..link[e] : Disconnect(e, n)
        \/ Save \/ SaveStopped

Spec == Init /\ [][Next]_vars

\* Messages arrive, timers fire and saves run; nobody has to type or close.
\* (It is asked of all of them together, and while no connection is lost: that
\* is enough for what is said of them.)
Unbroken == \A e \in Editor : link[e] = 1
Goes == Save \/ SaveStopped \/ \E e \in Editor : Receive(e) \/ Serve(e) \/ SendSnapshot(e)
FairSpec == Spec /\ WF_vars(Unbroken /\ Goes)

-----------------------------------------------------------------------------
(* Properties. *)

Client == Editor \cup Nat
Operations == [client: Client, words: SUBSET (Word \cup Title),
               needs: SUBSET (Client \X SUBSET (Word \cup Title))]
Messages == [type: {"join", "seed", "edit", "resync", "snapshot", "leave", "state", "update", "seeded"},
             ops: SUBSET Operations, text: SUBSET (Word \cup Title)]
TypeOK ==
    /\ note \subseteq Word \cup Title
    /\ stored \subseteq Operations
    /\ users \subseteq Editor \X Nat /\ room \subseteq Editor \X Nat
    /\ save \subseteq SUBSET (Word \cup Title) /\ Cardinality(save) <= 1
    /\ stopped \subseteq SUBSET (Word \cup Title)
    /\ phase \in [Editor -> {"new", "open", "closed"}]
    /\ online \in [Editor -> BOOLEAN] /\ synced \in [Editor -> BOOLEAN] /\ timer \in [Editor -> BOOLEAN]
    /\ link \in [Editor -> Nat]
    /\ \A e \in Editor : doc[e] \subseteq Operations
    /\ \A e \in Editor : out[e] \in Seq(Messages) /\ inbox[e] \in Seq(Messages)
    /\ typed \subseteq Word /\ seeds \in Nat /\ raced \in BOOLEAN

\* No connection was lost, or there is one editor only.
Steady == Unbroken \/ \E e \in Editor : \A f \in Editor \ {e} : phase[f] = "new"

\* An editor never shows a word of the note twice, however many open it at
\* once: the first seed wins (yjs_document_update, initializeContent).
TwiceIn(ops) == \E o, p \in ops : o # p /\ o.words \cap p.words # {}
NeverTwice == \A e \in Editor : ~TwiceIn(Shown(doc[e]))
ShownOnce == Steady => NeverTwice

\* When nothing is on its way, every open editor shows all that the server's
\* document shows, and nothing else if its connection was never lost, whatever
\* happened to the others; and if no connection was lost, that is all that the
\* server was sent: nothing stays pending (ydoc_document_join,
\* yjs_document_update).  What was typed while a connection was lost is not
\* sent; what its editor types then stays pending with the others.
Quiet == \A e \in Editor : out[e] = <<>> /\ inbox[e] = <<>>
Converged == Quiet => \A e \in Editor : phase[e] = "open" /\ synced[e] =>
                          /\ Shown(stored) \subseteq Shown(doc[e])
                          /\ link[e] = 1 => Shown(doc[e]) = Shown(stored)
                          /\ Unbroken => Shown(stored) = stored

\* Whoever throws the document away, the note has its text by then: a user who
\* opens the note next starts from it (yjs_document_leave, disconnect,
\* debounced_save; a stopped save that goes on is excepted, see raced).
Lasting == Unbroken /\ ~raced
ThrownAway == stored # {} /\ stored' = {} /\ Lasting' => Text(stored) \subseteq note'
ClearedIsSaved == [][ThrownAway]_vars

\* If connections last and nobody closes the note while typing is on its way
\* to them, or their last messages cross it, or a stopped save clears the
\* document, then the note gets all that was typed (debounced_save).
SavedInTheEnd == <>[](Lasting => typed \subseteq note)
================================================================================
