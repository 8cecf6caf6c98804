------------------------------- MODULE ChatHistory -------------------------------
(***************************************************************************)
(* The message tree of one chat (models/chats.py, the completion endpoint  *)
(* in main.py, and the chat page of the client).                           *)
(*                                                                         *)
(* The server keeps the tree twice: embedded in the chat's row, with the   *)
(* links to the children and the position in the tree, and as one row per  *)
(* message.  Every operation is one transaction that locks the chat.  Each *)
(* tab has a copy of its own: it hears of new turns and of replies that    *)
(* end, late or never, but not of messages that are deleted or edited, and *)
(* it saves its whole copy when its user edits a message or goes to        *)
(* another branch.                                                         *)
(*                                                                         *)
(* Where the code follows the last child of a message to the end of the    *)
(* branch, the model takes any.                                            *)
(***************************************************************************)
EXTENDS Naturals, FiniteSets

CONSTANTS Prompt,   \* messages of the user
          Reply,    \* messages of the model
          Tab,      \* tabs that show the chat
          None,     \* no message
          MaxSaves  \* bound: whole copies saved

Message == Prompt \cup Reply

ASSUME MessageAssumption == Prompt \cap Reply = {} /\ None \notin Message
ASSUME BoundAssumption == MaxSaves \in Nat

VARIABLES chat,   \* the embedded tree: a record for each message in it,
          kids,   \* its childrenIds, for each message in the tree,
          current,\* and currentId
          rows,   \* the rows of the messages
          view,   \* of each tab: its copy of the records
          here,   \* of each tab: the message its copy is at
          task,   \* of each reply: what became of its task
          prompt, \* of each reply: the message it was asked for with
          deleted,\* messages that were deleted
          torn,   \* messages out of place: replies that lost theirs while they
                  \* were written, and what took the place of one
          saves   \* number of copies saved

tree == <<chat, kids, current, rows>>
tabs == <<view, here>>
vars == <<tree, tabs, task, prompt, deleted, torn, saves>>

-----------------------------------------------------------------------------
(* Trees. *)

Record(parent, text, done) == [parent |-> parent, text |-> text, done |-> done]
With(records, m, record) ==
    [n \in DOMAIN records \cup {m} |-> IF n = m THEN record ELSE records[n]]
Children(records, m) == {n \in DOMAIN records : records[n].parent = m}

LinksOf(records) == [m \in DOMAIN records |-> Children(records, m)]

\* The ends of the branches below a message.
Below(links, m) ==
    LET reach[i \in Nat] ==
            IF i = 0 THEN {m}
            ELSE LET near == reach[i - 1] IN near \cup UNION {links[n] : n \in near \cap DOMAIN links}
    IN  reach[Cardinality(DOMAIN links)]
Leaves(links) == {n \in DOMAIN links : links[n] = {}}
Ends(links, m) == Below(links, m) \cap Leaves(links)

\* _repair_chat_current_id: every message becomes a child of its parent, and
\* the position moves on to the end of its branch.
Repaired(links, records) == [m \in DOMAIN records |-> links[m] \cup Children(records, m)]
Position == LET leaves == Leaves(Repaired(kids, chat)) IN
    IF current \in DOMAIN chat THEN Ends(LinksOf(chat), current)
    ELSE IF leaves = {} THEN {current} ELSE leaves

-----------------------------------------------------------------------------
(* Saving messages.                                                        *)

\* upsert_message_to_history of a message that is there, or is not.
Linked(links, parent, m) ==
    [n \in DOMAIN links |-> IF n = parent THEN links[n] \cup {m} ELSE links[n]]

\* insert_chat_turn: the parent must be there, and the prompt may be.
\* (A turn follows a message that is gone.)
MayInsertAlways(parent) == TRUE
MayInsert(parent) == parent = None \/ parent \in DOMAIN chat
InsertTurn(p, r, message) ==
    LET asked == IF p \in DOMAIN chat THEN chat[p] ELSE message
        reply == Record(p, "empty", FALSE)
        links == With(With(kids, p, IF p \in DOMAIN chat THEN kids[p] ELSE {}), r, {})
    IN  /\ chat' = With(With(chat, p, asked), r, reply)
        /\ kids' = Linked(Linked(links, asked.parent, p), p, r)
        /\ rows' = With(With(rows, p, asked), r, reply)
        /\ current' = r

\* merge_history of the stored tree and a copy.
\* (A copy drops the messages it lacks, but for replies being written.)
MergeUnfinished(old, copy) ==
    [m \in {n \in DOMAIN old : ~old[n].done} \cup DOMAIN copy |-> IF m \in DOMAIN copy THEN copy[m] ELSE old[m]]
Merge(old, copy) ==
    [m \in DOMAIN old \cup DOMAIN copy |-> IF m \in DOMAIN copy THEN copy[m] ELSE old[m]]
\* Replies that are being written, here or in the copy, stay as they are.
\* (The copy decides.)
KeptNever(old, merged) == {}
Kept(old, merged) == {m \in DOMAIN old \cap DOMAIN merged \cap Reply : ~old[m].done \/ ~merged[m].done}
Updated(old, copy) == LET merged == Merge(old, copy) IN
    [m \in DOMAIN merged |-> IF m \in Kept(old, merged) THEN old[m] ELSE merged[m]]
Changed(old, copy) == {m \in DOMAIN copy : m \notin DOMAIN old \/ Updated(old, copy)[m] # old[m]}

\* update_chat_by_id with the whole copy of a tab.
SaveCopy(copy, at) ==
    /\ saves < MaxSaves
    /\ saves' = saves + 1
    /\ chat' = Updated(chat, copy)
    /\ kids' = LinksOf(chat')
    /\ rows' = [m \in DOMAIN rows \cup Changed(chat, copy) |->
                    IF m \in Changed(chat, copy) THEN chat'[m] ELSE rows[m]]
    /\ current' = IF at \in DOMAIN chat' THEN at
                  ELSE IF current \in DOMAIN chat' THEN current ELSE None

-----------------------------------------------------------------------------
(* Tabs. *)

Shows(t, m) == m \in DOMAIN view[t]
Siblings(t, m) == Children(view[t], view[t][m].parent)
Idle(t) == \A r \in DOMAIN view[t] \cap Reply : view[t][r].done

\* A chat is read as it is, at the end of its branch.
Load(t) ==
    /\ view' = [view EXCEPT ![t] = chat]
    /\ \E m \in Position : here' = [here EXCEPT ![t] = m]
    /\ UNCHANGED <<tree, task, prompt, deleted, torn, saves>>

\* A new prompt follows the message the tab is at, or takes the place of
\* another prompt; an old one gets another reply.  The tab shows them before
\* the server has them, which it may refuse.
Places(t, p) ==
    IF Shows(t, p) THEN {view[t][p].parent}
    ELSE ({here[t]} \cup {view[t][q].parent : q \in DOMAIN view[t] \cap Prompt})
         \cap (DOMAIN view[t] \cup {None})
Shown(t, p, r, parent) ==
    With(With(view[t], p, IF Shows(t, p) THEN view[t][p] ELSE Record(parent, "full", TRUE)),
         r, Record(p, "empty", FALSE))
NewPrompt(p) == p \notin DOMAIN chat \cup deleted /\ \A u \in Tab : ~Shows(u, p)
Asked(t, p, r) ==
    /\ Idle(t)
    /\ Shows(t, p) \/ NewPrompt(p)
    /\ prompt[r] = None
    /\ prompt' = [prompt EXCEPT ![r] = p]
    /\ here' = [here EXCEPT ![t] = r]

Submit(t, p, r) ==
    /\ Asked(t, p, r)
    /\ \E parent \in Places(t, p) :
         /\ view' = [view EXCEPT ![t] = Shown(t, p, r, parent)]
         /\ MayInsert(IF p \in DOMAIN chat THEN chat[p].parent ELSE parent)
         /\ InsertTurn(p, r, Shown(t, p, r, parent)[p])
    /\ task' = [task EXCEPT ![r] = "running"]
    /\ UNCHANGED <<deleted, torn, saves>>

SubmitRefused(t, p, r) ==
    /\ Asked(t, p, r)
    /\ \E parent \in Places(t, p) :
         /\ view' = [view EXCEPT ![t] = With(Shown(t, p, r, parent), r, Record(p, "empty", TRUE))]
         /\ ~MayInsert(IF p \in DOMAIN chat THEN chat[p].parent ELSE parent)
    /\ task' = [task EXCEPT ![r] = "over"]
    /\ UNCHANGED <<tree, deleted, torn, saves>>

\* The turn of another tab, with the message before it.
HearTurn(t, r) ==
    /\ r \in DOMAIN chat \cap Reply /\ ~Shows(t, r)
    /\ prompt[r] \in DOMAIN chat /\ chat[r].parent = prompt[r]
    /\ chat[prompt[r]].parent \in DOMAIN view[t] \cup {None}
    /\ view' = [view EXCEPT ![t] = With(With(@, prompt[r], chat[prompt[r]]), r, chat[r])]
    /\ \E m \in {here[t], r} : here' = [here EXCEPT ![t] = m]
    /\ UNCHANGED <<tree, task, prompt, deleted, torn, saves>>

\* A reply that has ended.
HearEnd(t, r) ==
    /\ r \in DOMAIN chat \cap Reply /\ Shows(t, r)
    /\ ~view[t][r].done /\ chat[r].done
    /\ view' = [view EXCEPT ![t][r].done = TRUE, ![t][r].text = chat[r].text]
    /\ UNCHANGED <<tree, here, task, prompt, deleted, torn, saves>>

\* An edit is saved; the copy takes the texts of the answer.
Edit(t, m) == LET copy == [view[t] EXCEPT ![m].text = "edited"] IN
    /\ Shows(t, m) /\ view[t][m].done
    /\ SaveCopy(copy, here[t])
    /\ view' = [view EXCEPT ![t] = [n \in DOMAIN copy |->
                    IF chat'[n].text # "empty" THEN [copy[n] EXCEPT !.text = chat'[n].text] ELSE copy[n]]]
    /\ UNCHANGED <<here, task, prompt, deleted, torn>>

\* The user goes to another branch.
ShowMessage(t, m) ==
    /\ Shows(t, m)
    /\ \E n \in Ends(LinksOf(view[t]), m) : /\ n # here[t]
                                     /\ here' = [here EXCEPT ![t] = n]
                                     /\ SaveCopy(view[t], n)
    /\ UNCHANGED <<view, task, prompt, deleted, torn>>

-----------------------------------------------------------------------------
(* Deleting: a message goes with its children, and its grandchildren take  *)
(* its place.                                                              *)

Gone(links, m) == DOMAIN links \cap ({m} \cup links[m])
Moved(links, m) == LET gone == Gone(links, m) IN
    (DOMAIN links \cap UNION {links[n] : n \in gone \ {m}}) \ gone

\* The rows of all messages that are now children of the parent are written.
\* (Those that move keep their rows.)
RowsLeftAlone(gone, children) == [n \in DOMAIN rows \ gone |-> rows[n]]
RowsLeft(gone, children) ==
    [n \in DOMAIN rows \ gone |-> IF n \in children THEN chat'[n] ELSE rows[n]]

DeleteMessage(m) == LET parent == chat[m].parent
                        links == Repaired(kids, chat)
                        gone == Gone(links, m)
                        moved == Moved(links, m)
                    IN
    /\ chat' = [n \in DOMAIN chat \ gone |->
                    IF n \in moved THEN [chat[n] EXCEPT !.parent = parent] ELSE chat[n]]
    /\ kids' = [n \in DOMAIN chat \ gone |->
                    IF n = parent THEN (links[n] \ {m}) \cup moved ELSE links[n]]
    /\ rows' = RowsLeft(gone, Children(chat', parent))
    /\ deleted' = deleted \cup gone
    /\ torn' = torn \cup {r \in (gone \cup moved) \cap Reply : ~chat[r].done}
                    \cup (IF m \in torn THEN moved ELSE {})

\* On to the end of a branch of the parent, or of a message without one; a
\* link to a message that is gone ends it nowhere.
EndOf(links, m) == Ends(links, m) \cup (IF Below(links, m) \subseteq DOMAIN links THEN {} ELSE {None})
After(parent) ==
    LET roots == IF parent = None THEN Children(chat', None) ELSE {parent}
    IN  IF roots = {} THEN {None} ELSE UNION {EndOf(kids', m) : m \in roots}

\* The button is there while the tab knows of no reply being written, for
\* replies and first prompts that are not the only one.
Deletable(t, m) ==
    /\ Shows(t, m) /\ Idle(t)
    /\ m \in Reply \/ view[t][m].parent = None => Siblings(t, m) # {m}

Delete(t, m) ==
    /\ Deletable(t, m) /\ m \in DOMAIN chat
    /\ DeleteMessage(m)
    /\ \E n \in After(chat[m].parent) :
         /\ current' = n
         /\ here' = [here EXCEPT ![t] = n]
    /\ view' = [view EXCEPT ![t] = chat']
    /\ UNCHANGED <<task, prompt, saves>>

\* The message was gone; the tab gets the tree.
DeleteGone(t, m) ==
    /\ Deletable(t, m) /\ m \notin DOMAIN chat
    /\ view' = [view EXCEPT ![t] = chat]
    /\ kids' = Repaired(kids, chat)
    /\ \E n \in Position : current' = n /\ here' = [here EXCEPT ![t] = n]
    /\ UNCHANGED <<chat, rows, task, prompt, deleted, torn, saves>>

-----------------------------------------------------------------------------
(* Tasks write the end of their reply (upsert_message_to_chat_by_id_and_   *)
(* message_id), which makes the message anew if it is gone.                *)

\* (A message made anew has no list of children.)
UpsertBare(r, record) == LET links == Repaired(kids, chat) IN
    /\ chat' = With(chat, r, record)
    /\ kids' = Linked(links, record.parent, r)
    /\ rows' = With(rows, r, record)
    /\ IF r \in DOMAIN chat THEN current' \in Position ELSE current' = r
Upsert(r, record) == LET links == Repaired(kids, chat) IN
    /\ chat' = With(chat, r, record)
    /\ kids' = Linked(With(links, r, IF r \in DOMAIN chat THEN links[r] ELSE {}), record.parent, r)
    /\ rows' = With(rows, r, record)
    /\ IF r \in DOMAIN chat THEN current' \in Position ELSE current' = r

Ended(r) ==
    /\ task[r] = "running"
    /\ task' = [task EXCEPT ![r] = "over"]
    /\ UNCHANGED <<tabs, prompt, deleted, torn, saves>>

\* The end of a reply names no parent: it keeps the one it has, or takes one
\* that has it as a child.
Parents(r) == LET holders == {m \in DOMAIN chat : r \in kids[m]} IN
    IF r \in DOMAIN chat THEN {chat[r].parent} ELSE IF holders = {} THEN {None} ELSE holders
Finish(r) ==
    /\ Ended(r)
    /\ \E parent \in Parents(r) : Upsert(r, Record(parent, "full", TRUE))

\* An error is saved with the prompt it was for, and leaves the text alone.
Fail(r) ==
    /\ Ended(r)
    /\ Upsert(r, Record(prompt[r], IF r \in DOMAIN chat THEN chat[r].text ELSE "empty", TRUE))

-----------------------------------------------------------------------------
Init == /\ chat = <<>> /\ kids = <<>> /\ rows = <<>> /\ current = None
        /\ view = [t \in Tab |-> <<>>]
        /\ here = [t \in Tab |-> None]
        /\ task = [r \in Reply |-> "none"]
        /\ prompt = [r \in Reply |-> None]
        /\ deleted = {} /\ torn = {} /\ saves = 0

Next == \/ \E t \in Tab : \/ Load(t)
                          \/ \E p \in Prompt, r \in Reply : Submit(t, p, r) \/ SubmitRefused(t, p, r)
                          \/ \E r \in Reply : HearTurn(t, r) \/ HearEnd(t, r)
                          \/ \E m \in Message : \/ Edit(t, m) \/ ShowMessage(t, m)
                                                \/ Delete(t, m) \/ DeleteGone(t, m)
        \/ \E r \in Reply : Finish(r) \/ Fail(r)

Spec == Init /\ [][Next]_vars

-----------------------------------------------------------------------------
(* Properties. *)

Records == [parent: Message \cup {None}, text: {"empty", "full", "edited"}, done: BOOLEAN]
IsRecords(f) == DOMAIN f \subseteq Message /\ \A m \in DOMAIN f : f[m] \in Records
TypeOK == /\ IsRecords(chat) /\ IsRecords(rows)
          /\ DOMAIN kids = DOMAIN chat /\ \A m \in DOMAIN kids : kids[m] \subseteq Message
          /\ current \in Message \cup {None}
          /\ DOMAIN view = Tab /\ DOMAIN here = Tab
          /\ \A t \in Tab : IsRecords(view[t]) /\ here[t] \in Message \cup {None}
          /\ task \in [Reply -> {"none", "running", "over"}]
          /\ prompt \in [Reply -> Prompt \cup {None}]
          /\ deleted \subseteq Message /\ torn \subseteq Message /\ saves \in Nat

\* The rows, which the model is given, and the embedded tree, which the user
\* is shown, tell the same of every message, whatever stale copies are saved
\* and messages deleted (update_chat_by_id, delete_message_from_chat_...).
RowsMatch == rows = chat

\* Every message follows one that is there, its parent knows it as a child,
\* nothing goes round in a circle, and the position is a message; excepted
\* are replies whose place was deleted while they were written, and messages
\* that take the place of one (delete_message_from_history, upsert_message_...).
Circle == \E S \in SUBSET DOMAIN chat : S # {} /\ \A m \in S : chat[m].parent \in S
IsTree == /\ \A m \in DOMAIN chat \ torn :
               /\ chat[m].parent \in DOMAIN chat \cup {None}
               /\ chat[m].parent # None => m \in kids[chat[m].parent]
          /\ \A m \in DOMAIN chat : \A n \in kids[m] \ torn : n \in DOMAIN chat /\ chat[n].parent = m
          /\ ~Circle
          /\ current \in DOMAIN chat \cup {None}

\* A reply that is being written is never shown as finished, nor a finished
\* one as unfinished, by a copy that knows less (update_chat_by_id); excepted
\* are replies that were deleted, and came back with such a copy.
WrittenByTask == \A r \in (DOMAIN chat \cap Reply) \ deleted : chat[r].done <=> task[r] # "running"

\* A save never drops a message: only deleting does, with the children, and
\* with messages out of place (update_chat_by_id: "merged so stale writers
\* don't drop messages").
DropsOnlyDeleted ==
    [][LET lost == DOMAIN chat \ DOMAIN chat' IN
         lost # {} => \E m \in lost : lost \ torn = ({m} \cup Children(chat, m)) \ torn]_vars

\* A deleted message stays deleted, whatever other tabs save.
DeletedStays == deleted \cap DOMAIN chat = {}
================================================================================
