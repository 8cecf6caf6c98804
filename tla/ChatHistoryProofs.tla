-------------------------- MODULE ChatHistoryProofs --------------------------
(* Proofs about ChatHistory, for any messages and tabs.                    *)
EXTENDS ChatHistory, WellFoundedInduction, TLAPS

\* The messages the server has had.
Known == DOMAIN chat \cup deleted

\* A reply is known, or shown, only when it was asked for; while it is being
\* written the server has had it, and its prompt.
Tasks ==
    \A r \in Reply :
      /\ prompt[r] = None <=> task[r] = "none"
      /\ r \in Known \/ (\E t \in Tab : Shows(t, r)) => task[r] # "none"
      /\ task[r] = "running" => r \in Known /\ prompt[r] \in Known

\* A reply that only a tab shows was refused.
Views ==
    \A t \in Tab : \A r \in DOMAIN view[t] \cap Reply :
        r \notin Known => view[t][r].done /\ task[r] # "running"

\* A reply that is being written keeps its place, or is out of place.
Writing ==
    \A r \in Reply : task[r] = "running" =>
      /\ r \in deleted => r \in torn
      /\ r \in DOMAIN chat \ torn => chat[r].parent = prompt[r]

\* A copy holds the messages before those it holds.
Copies ==
    \A t \in Tab : \A m \in DOMAIN view[t] \ torn :
        view[t][m].parent \in DOMAIN view[t] \cup {None}

\* Links lead to messages that are there, or were.
Links ==
    /\ \A m \in DOMAIN chat : chat[m].parent \in Known \cup {None} /\ kids[m] \subseteq Known
    /\ \A t \in Tab : \A m \in DOMAIN view[t] :
           view[t][m].parent \in Known \cup DOMAIN view[t] \cup {None}

\* Numbers of the messages that grow along every link.
Grows(ord, records) ==
    \A m \in DOMAIN records : records[m].parent # None => ord[records[m].parent] < ord[m]
IsOrder(ord) ==
    /\ ord \in [Message -> Nat]
    /\ Grows(ord, chat)
    /\ \A m \in DOMAIN chat : \A n \in kids[m] : ord[m] < ord[n]
    /\ \A t \in Tab : Grows(ord, view[t])
    /\ \A r \in Reply : task[r] = "running" => ord[prompt[r]] < ord[r]
Ordered == \E ord \in [Message -> Nat] : IsOrder(ord)

\* IsTree, but for circles.
Placed ==
    /\ \A m \in DOMAIN chat \ torn :
         /\ chat[m].parent \in DOMAIN chat \cup {None}
         /\ chat[m].parent # None => m \in kids[chat[m].parent]
    /\ \A m \in DOMAIN chat : \A n \in kids[m] \ torn : n \in DOMAIN chat /\ chat[n].parent = m
    /\ current \in DOMAIN chat \cup {None}

Server == RowsMatch /\ WrittenByTask /\ Placed /\ Writing
Clients == Tasks /\ Views /\ Copies /\ Links
IInv == TypeOK /\ Server /\ Clients /\ Ordered

-----------------------------------------------------------------------------
(* What the operators do.                                                  *)

LEMMA WithType ==
    ASSUME NEW records, IsRecords(records), NEW m \in Message, NEW record \in Records
    PROVE  IsRecords(With(records, m, record))
BY DEF IsRecords, With

\* A position is a message of the tree, or none.
LEMMA PositionType ==
    ASSUME TypeOK
    PROVE  /\ Position \subseteq Message \cup {None}
           /\ Placed => Position \subseteq DOMAIN chat \cup {None}
<1>1. Ends(LinksOf(chat), current) \subseteq DOMAIN chat
  BY DEF Ends, Leaves, LinksOf
<1>2. Leaves(Repaired(kids, chat)) \subseteq DOMAIN chat
  BY DEF Leaves, Repaired
<1>3. DOMAIN chat \subseteq Message
  BY DEF TypeOK, IsRecords
<1>4. Position \in {Ends(LinksOf(chat), current), {current}, Leaves(Repaired(kids, chat))}
  BY DEF Position
<1>5. Position = {current} \/ Position \subseteq DOMAIN chat
  BY <1>1, <1>2, <1>4
<1> QED BY <1>3, <1>5 DEF TypeOK, Placed

\* Repairing adds the children that name their parent.
LEMMA RepairedType ==
    ASSUME TypeOK
    PROVE  /\ DOMAIN Repaired(kids, chat) = DOMAIN chat
           /\ \A m \in DOMAIN chat :
                /\ Repaired(kids, chat)[m] = kids[m] \cup Children(chat, m)
                /\ Repaired(kids, chat)[m] \subseteq Message
BY DEF TypeOK, IsRecords, Repaired, Children

-----------------------------------------------------------------------------
(* What the actions do to the tree.                                        *)

Submitted(t, p, r, asked) ==
    /\ r \notin Known /\ \A u \in Tab : ~Shows(u, r)
    /\ p # r /\ prompt[r] = None
    /\ p \in DOMAIN chat => asked = chat[p]
    /\ Shows(t, p) \/ NewPrompt(p)
    /\ asked \in Records /\ asked.parent \in DOMAIN chat \cup {None}
    /\ DOMAIN chat' = DOMAIN chat \cup {p, r}
    /\ chat' = [n \in DOMAIN chat \cup {p, r} |->
                   IF n = r THEN Record(p, "empty", FALSE) ELSE IF n = p THEN asked ELSE chat[n]]
    /\ rows' = chat'
    /\ DOMAIN kids' = DOMAIN chat'
    /\ \A n \in DOMAIN kids' :
         kids'[n] = (IF n \in DOMAIN chat THEN kids[n] ELSE {})
                    \cup (IF n = asked.parent THEN {p} ELSE {}) \cup (IF n = p THEN {r} ELSE {})
    /\ current' = r

\* The tab shows the prompt, after parent if it is new, and its reply.
Asks(t, p, r, parent, done) ==
    /\ parent \in Message \cup {None}
    /\ ~Shows(t, p) => parent \in DOMAIN view[t] \cup {None}
    /\ view' = [view EXCEPT ![t] = [n \in DOMAIN view[t] \cup {p, r} |->
                  IF n = r THEN Record(p, "empty", done)
                  ELSE IF n \in DOMAIN view[t] THEN view[t][n] ELSE Record(parent, "full", TRUE)]]
    /\ here' = [here EXCEPT ![t] = r]
    /\ prompt' = [prompt EXCEPT ![r] = p]

LEMMA AskedView ==
    ASSUME IInv, NEW t \in Tab, NEW p \in Prompt, NEW r \in Reply, Asked(t, p, r)
    PROVE  /\ r \notin Known /\ \A u \in Tab : ~Shows(u, r)
           /\ p # r /\ p \in Message /\ r \in Message
           /\ \A parent \in Places(t, p) :
                /\ parent \in Message \cup {None}
                /\ Shows(t, p) => parent = view[t][p].parent
                /\ ~Shows(t, p) => parent \in DOMAIN view[t] \cup {None}
                /\ view' = [view EXCEPT ![t] = Shown(t, p, r, parent)] => Asks(t, p, r, parent, FALSE)
                /\ view' = [view EXCEPT ![t] = With(Shown(t, p, r, parent), r, Record(p, "empty", TRUE))]
                     => Asks(t, p, r, parent, TRUE)
<1>1. p # r /\ p \in Message /\ r \in Message
  BY MessageAssumption DEF Message
<1>2. r \notin Known /\ (\A u \in Tab : ~Shows(u, r))
  BY DEF IInv, Clients, Tasks, Asked
<1>3. ASSUME NEW parent \in Places(t, p)
      PROVE  /\ parent \in Message \cup {None}
             /\ Shows(t, p) => parent = view[t][p].parent
             /\ ~Shows(t, p) => parent \in DOMAIN view[t] \cup {None}
             /\ Shown(t, p, r, parent) = [n \in DOMAIN view[t] \cup {p, r} |->
                  IF n = r THEN Record(p, "empty", FALSE)
                  ELSE IF n \in DOMAIN view[t] THEN view[t][n] ELSE Record(parent, "full", TRUE)]
             /\ With(Shown(t, p, r, parent), r, Record(p, "empty", TRUE)) =
                  [n \in DOMAIN view[t] \cup {p, r} |->
                     IF n = r THEN Record(p, "empty", TRUE)
                     ELSE IF n \in DOMAIN view[t] THEN view[t][n] ELSE Record(parent, "full", TRUE)]
  <2>1. parent \in Message \cup {None}
    BY DEF Places, IInv, TypeOK, IsRecords, Records, Shows
  <2>2. /\ Shows(t, p) => parent = view[t][p].parent
        /\ ~Shows(t, p) => parent \in DOMAIN view[t] \cup {None}
    BY DEF Places, Shows
  <2>3. Shown(t, p, r, parent) = [n \in DOMAIN view[t] \cup {p, r} |->
                  IF n = r THEN Record(p, "empty", FALSE)
                  ELSE IF n \in DOMAIN view[t] THEN view[t][n] ELSE Record(parent, "full", TRUE)]
    BY <1>1 DEF Shown, With, Shows
  <2>4. With(Shown(t, p, r, parent), r, Record(p, "empty", TRUE)) =
                  [n \in DOMAIN view[t] \cup {p, r} |->
                     IF n = r THEN Record(p, "empty", TRUE)
                     ELSE IF n \in DOMAIN view[t] THEN view[t][n] ELSE Record(parent, "full", TRUE)]
    BY <1>1, <2>3 DEF With
  <2> QED BY <2>1, <2>2, <2>3, <2>4
<1>4. here' = [here EXCEPT ![t] = r] /\ prompt' = [prompt EXCEPT ![r] = p]
  BY DEF Asked
<1> QED BY <1>1, <1>2, <1>3, <1>4 DEF Asks

LEMMA SubmitTree ==
    ASSUME IInv, NEW t \in Tab, NEW p \in Prompt, NEW r \in Reply, Submit(t, p, r)
    PROVE  \E asked, parent :
             /\ Submitted(t, p, r, asked)
             /\ Asks(t, p, r, parent, FALSE)
             /\ p \notin DOMAIN chat =>
                  asked = IF Shows(t, p) THEN view[t][p] ELSE Record(parent, "full", TRUE)
<1>1. PICK parent \in Places(t, p) :
         /\ view' = [view EXCEPT ![t] = Shown(t, p, r, parent)]
         /\ MayInsert(IF p \in DOMAIN chat THEN chat[p].parent ELSE parent)
         /\ InsertTurn(p, r, Shown(t, p, r, parent)[p])
  BY DEF Submit
<1> DEFINE asked == IF p \in DOMAIN chat THEN chat[p] ELSE Shown(t, p, r, parent)[p]
<1>2. p # r /\ p \in Message /\ r \in Message
  BY AskedView DEF Submit
<1>3. r \notin Known /\ (\A u \in Tab : ~Shows(u, r)) /\ prompt[r] = None
  BY AskedView DEF Submit, Asked
<1>4. /\ parent \in Message \cup {None}
      /\ Shows(t, p) => parent = view[t][p].parent
      /\ Asks(t, p, r, parent, FALSE)
  BY <1>1, AskedView DEF Submit
<1>5. Shown(t, p, r, parent)[p] = IF Shows(t, p) THEN view[t][p] ELSE Record(parent, "full", TRUE)
  BY <1>2 DEF Shown, With
<1>6. Shown(t, p, r, parent)[p] \in Records /\ Shown(t, p, r, parent)[p].parent = parent
  BY <1>4, <1>5 DEF IInv, TypeOK, IsRecords, Records, Record, Shows
<1>7. asked \in Records /\ asked.parent \in DOMAIN chat \cup {None}
  <2>1. CASE p \in DOMAIN chat
    BY <1>1, <2>1 DEF IInv, TypeOK, IsRecords, MayInsert
  <2>2. CASE p \notin DOMAIN chat
    BY <1>1, <1>6, <2>2 DEF MayInsert
  <2> QED BY <2>1, <2>2
<1>8. /\ chat' = With(With(chat, p, asked), r, Record(p, "empty", FALSE))
      /\ kids' = Linked(Linked(With(With(kids, p, IF p \in DOMAIN chat THEN kids[p] ELSE {}), r, {}),
                               asked.parent, p), p, r)
      /\ rows' = With(With(rows, p, asked), r, Record(p, "empty", FALSE))
      /\ current' = r
  BY <1>1 DEF InsertTurn
<1> HIDE DEF asked
<1>9. /\ DOMAIN chat' = DOMAIN chat \cup {p, r}
      /\ chat' = [n \in DOMAIN chat \cup {p, r} |->
                   IF n = r THEN Record(p, "empty", FALSE) ELSE IF n = p THEN asked ELSE chat[n]]
  BY <1>2, <1>8 DEF With
<1>10. rows' = chat'
  BY <1>8 DEF IInv, Server, RowsMatch
<1>11. DOMAIN kids = DOMAIN chat
  BY DEF IInv, TypeOK
<1>12. DOMAIN kids' = DOMAIN chat' /\ \A n \in DOMAIN kids' :
         kids'[n] = (IF n \in DOMAIN chat THEN kids[n] ELSE {})
                    \cup (IF n = asked.parent THEN {p} ELSE {}) \cup (IF n = p THEN {r} ELSE {})
  <2> DEFINE links == [n \in DOMAIN chat \cup {p, r} |-> IF n \in DOMAIN chat THEN kids[n] ELSE {}]
  <2>1. With(With(kids, p, IF p \in DOMAIN chat THEN kids[p] ELSE {}), r, {}) = links
    BY <1>2, <1>3, <1>11 DEF With, Known
  <2>2. kids' = Linked(Linked(links, asked.parent, p), p, r)
    BY <1>8, <2>1
  <2>3. Linked(links, asked.parent, p) =
          [n \in DOMAIN links |-> IF n = asked.parent THEN links[n] \cup {p} ELSE links[n]]
    BY DEF Linked
  <2>4. DOMAIN links = DOMAIN chat \cup {p, r}
    OBVIOUS
  <2>5. \A n \in DOMAIN links : links[n] = IF n \in DOMAIN chat THEN kids[n] ELSE {}
    OBVIOUS
  <2> HIDE DEF links
  <2>6. kids' = [n \in DOMAIN links |->
          IF n = p THEN (IF n = asked.parent THEN links[n] \cup {p} ELSE links[n]) \cup {r}
                   ELSE (IF n = asked.parent THEN links[n] \cup {p} ELSE links[n])]
    BY <2>2, <2>3 DEF Linked
  <2> QED BY <1>9, <2>4, <2>5, <2>6
<1>13. Submitted(t, p, r, asked)
  <2>1. p \in DOMAIN chat => asked = chat[p]
    BY DEF asked
  <2>2. Shows(t, p) \/ NewPrompt(p)
    BY DEF Submit, Asked
  <2> QED BY <1>2, <1>3, <1>7, <1>8, <1>9, <1>10, <1>12, <2>1, <2>2 DEF Submitted
<1>14. p \notin DOMAIN chat =>
         asked = IF Shows(t, p) THEN view[t][p] ELSE Record(parent, "full", TRUE)
  BY <1>5 DEF asked
<1> QED BY <1>4, <1>13, <1>14

\* A whole copy of a tab is saved.
Saved(copy, at) ==
    /\ DOMAIN chat' = DOMAIN chat \cup DOMAIN copy
    /\ IsRecords(chat')
    /\ \A n \in DOMAIN chat' : \/ n \in DOMAIN chat /\ chat'[n] = chat[n]
                               \/ n \in DOMAIN copy /\ chat'[n] = copy[n]
    /\ \A n \in DOMAIN chat \cap Reply : /\ chat'[n].done = chat[n].done
                                         /\ ~chat[n].done => chat'[n] = chat[n]
    /\ \A n \in DOMAIN chat' \ DOMAIN chat : chat'[n] = copy[n]
    /\ rows' = chat'
    /\ DOMAIN kids' = DOMAIN chat'
    /\ \A n \in DOMAIN kids' : kids'[n] = Children(chat', n)
    /\ current' \in DOMAIN chat' \cup {None}
    /\ saves' \in Nat

LEMMA SaveTree ==
    ASSUME IInv, NEW copy, IsRecords(copy), NEW at, SaveCopy(copy, at)
    PROVE  Saved(copy, at)
<1>1. IsRecords(chat) /\ DOMAIN chat \subseteq Message /\ DOMAIN copy \subseteq Message
  BY DEF IInv, TypeOK, IsRecords
<1> DEFINE merged == Merge(chat, copy)
<1>2. /\ DOMAIN merged = DOMAIN chat \cup DOMAIN copy
      /\ \A n \in DOMAIN merged : merged[n] = IF n \in DOMAIN copy THEN copy[n] ELSE chat[n]
  BY DEF Merge
<1>3. /\ chat' = [n \in DOMAIN merged |-> IF n \in Kept(chat, merged) THEN chat[n] ELSE merged[n]]
      /\ Updated(chat, copy) = chat'
  BY DEF SaveCopy, Updated
<1>4. Kept(chat, merged) =
        {n \in DOMAIN chat \cap DOMAIN merged \cap Reply : ~chat[n].done \/ ~merged[n].done}
  BY DEF Kept
<1> HIDE DEF merged
<1>5. DOMAIN chat' = DOMAIN chat \cup DOMAIN copy
  BY <1>2, <1>3
<1>6. \A n \in DOMAIN chat' : \/ n \in DOMAIN chat /\ chat'[n] = chat[n]
                              \/ n \in DOMAIN copy /\ chat'[n] = copy[n]
  BY <1>2, <1>3, <1>4
<1>7. IsRecords(chat')
  BY <1>1, <1>5, <1>6 DEF IsRecords
<1>8. \A n \in DOMAIN chat \cap Reply : chat'[n].done = chat[n].done /\ (~chat[n].done => chat'[n] = chat[n])
  <2> SUFFICES ASSUME NEW n \in DOMAIN chat \cap Reply
               PROVE  chat'[n].done = chat[n].done /\ (~chat[n].done => chat'[n] = chat[n])
    OBVIOUS
  <2>1. chat[n].done \in BOOLEAN /\ chat'[n].done \in BOOLEAN
    BY <1>1, <1>5, <1>7 DEF IsRecords, Records
  <2>2. CASE n \in Kept(chat, merged)
    BY <1>2, <1>3, <2>2
  <2>3. CASE n \notin Kept(chat, merged)
    BY <1>2, <1>3, <1>4, <2>1, <2>3
  <2> QED BY <2>2, <2>3
<1>9. \A n \in DOMAIN chat' \ DOMAIN chat : chat'[n] = copy[n]
  BY <1>6
<1>10. rows' = chat'
  <2>1. Changed(chat, copy) = {n \in DOMAIN copy : n \notin DOMAIN chat \/ chat'[n] # chat[n]}
    BY <1>3 DEF Changed
  <2>2. rows = chat
    BY DEF IInv, Server, RowsMatch
  <2>3. rows' = [n \in DOMAIN chat \cup Changed(chat, copy) |->
                   IF n \in Changed(chat, copy) THEN chat'[n] ELSE chat[n]]
    BY <2>2 DEF SaveCopy
  <2>4. DOMAIN chat \cup Changed(chat, copy) = DOMAIN chat'
    BY <1>5, <2>1
  <2>5. \A n \in DOMAIN chat' : n \notin Changed(chat, copy) => chat'[n] = chat[n]
    BY <1>5, <1>6, <2>1
  <2>6. rows' = [n \in DOMAIN chat' |-> chat'[n]]
    BY <2>3, <2>4, <2>5
  <2> QED BY <1>3, <2>6
<1>11. DOMAIN kids' = DOMAIN chat' /\ \A n \in DOMAIN kids' : kids'[n] = Children(chat', n)
  BY DEF SaveCopy, LinksOf
<1>12. current' \in DOMAIN chat' \cup {None}
  BY DEF SaveCopy
<1>13. saves' \in Nat
  BY DEF SaveCopy, IInv, TypeOK
<1> QED BY <1>5, <1>6, <1>7, <1>8, <1>9, <1>10, <1>11, <1>12, <1>13 DEF Saved

\* What a tab saves: its copy, with other texts.
IsCopy(t, copy) ==
    /\ IsRecords(copy) /\ DOMAIN copy = DOMAIN view[t]
    /\ \A n \in DOMAIN copy : copy[n].parent = view[t][n].parent /\ copy[n].done = view[t][n].done
SavesCopy(t) ==
    /\ \E copy : IsCopy(t, copy) /\ Saved(copy, here'[t])
    /\ \A u \in Tab : /\ DOMAIN view'[u] = DOMAIN view[u] /\ IsRecords(view'[u])
                      /\ \A n \in DOMAIN view[u] : /\ view'[u][n].parent = view[u][n].parent
                                                   /\ view'[u][n].done = view[u][n].done
    /\ DOMAIN view' = Tab /\ DOMAIN here' = Tab /\ \A u \in Tab : here'[u] \in Message \cup {None}
    /\ UNCHANGED <<task, prompt, deleted, torn>>

LEMMA EditSaves ==
    ASSUME IInv, NEW t \in Tab, NEW m \in Message, Edit(t, m)
    PROVE  SavesCopy(t)
<1> DEFINE copy == [view[t] EXCEPT ![m].text = "edited"]
<1>1. IsRecords(view[t]) /\ \A u \in Tab : IsRecords(view[u])
  BY DEF IInv, TypeOK
<1>2. m \in DOMAIN view[t] /\ SaveCopy(copy, here[t]) /\ here' = here
  BY DEF Edit, Shows
<1>3. IsCopy(t, copy)
  BY <1>1, <1>2 DEF IsCopy, IsRecords, Records
<1>4. view' = [view EXCEPT ![t] = [n \in DOMAIN copy |->
                  IF chat'[n].text # "empty" THEN [copy[n] EXCEPT !.text = chat'[n].text] ELSE copy[n]]]
  BY DEF Edit
<1> HIDE DEF copy
<1>5. Saved(copy, here[t])
  BY <1>2, <1>3, SaveTree DEF IsCopy
<1>6. IsRecords(chat') /\ DOMAIN copy \subseteq DOMAIN chat'
  BY <1>5 DEF Saved
<1>7. DOMAIN view = Tab /\ DOMAIN here = Tab /\ \A u \in Tab : here[u] \in Message \cup {None}
  BY DEF IInv, TypeOK
<1>8. ASSUME NEW u \in Tab
      PROVE  /\ DOMAIN view'[u] = DOMAIN view[u] /\ IsRecords(view'[u])
             /\ \A n \in DOMAIN view[u] : /\ view'[u][n].parent = view[u][n].parent
                                          /\ view'[u][n].done = view[u][n].done
  <2>1. CASE u = t
    <3>1. view'[u] = [n \in DOMAIN copy |->
                  IF chat'[n].text # "empty" THEN [copy[n] EXCEPT !.text = chat'[n].text] ELSE copy[n]]
      BY <1>4, <1>7, <2>1
    <3>2. \A n \in DOMAIN copy : copy[n] \in Records /\ chat'[n] \in Records /\ n \in Message
      BY <1>3, <1>6 DEF IsCopy, IsRecords
    <3>3. \A n \in DOMAIN copy : /\ view'[u][n] \in Records
                                 /\ view'[u][n].parent = copy[n].parent /\ view'[u][n].done = copy[n].done
      BY <3>1, <3>2 DEF Records
    <3>4. DOMAIN view'[u] = DOMAIN copy /\ DOMAIN copy = DOMAIN view[u]
      BY <1>3, <2>1, <3>1 DEF IsCopy
    <3>5. IsRecords(view'[u])
      BY <3>2, <3>3, <3>4 DEF IsRecords
    <3>6. \A n \in DOMAIN copy : copy[n].parent = view[u][n].parent /\ copy[n].done = view[u][n].done
      BY <1>3, <2>1 DEF IsCopy
    <3> QED BY <3>3, <3>4, <3>5, <3>6
  <2>2. CASE u # t
    BY <1>1, <1>4, <1>7, <2>2
  <2> QED BY <2>1, <2>2
<1>9. UNCHANGED <<task, prompt, deleted, torn>> /\ DOMAIN view' = Tab
  BY <1>4, <1>7 DEF Edit
<1> QED BY <1>2, <1>3, <1>5, <1>7, <1>8, <1>9 DEF SavesCopy

LEMMA ShowSaves ==
    ASSUME IInv, NEW t \in Tab, NEW m \in Message, ShowMessage(t, m)
    PROVE  SavesCopy(t)
<1>1. /\ DOMAIN view = Tab /\ DOMAIN here = Tab
      /\ \A u \in Tab : IsRecords(view[u]) /\ here[u] \in Message \cup {None}
  BY DEF IInv, TypeOK
<1>2. PICK n \in Ends(LinksOf(view[t]), m) :
        here' = [here EXCEPT ![t] = n] /\ SaveCopy(view[t], n)
  BY DEF ShowMessage
<1>3. n \in Message
  BY <1>1 DEF Ends, Leaves, LinksOf, IsRecords
<1>4. IsCopy(t, view[t]) /\ Saved(view[t], here'[t])
  BY <1>1, <1>2, SaveTree DEF IsCopy
<1> QED BY <1>1, <1>2, <1>3, <1>4 DEF SavesCopy, ShowMessage

\* A message is deleted; gone are it and its children, moved what follows those.
Deletes(t, m, gone, moved) ==
    /\ m \in DOMAIN chat /\ m \in gone /\ gone \subseteq DOMAIN chat
    /\ \A n \in DOMAIN chat : n \in gone <=> n = m \/ n \in kids[m] \/ chat[n].parent = m
    /\ moved \subseteq DOMAIN chat \ gone
    /\ \A n \in DOMAIN chat \ gone :
         n \in moved <=> \E x \in gone \ {m} : n \in kids[x] \/ chat[n].parent = x
    /\ chat' = [n \in DOMAIN chat \ gone |->
                  IF n \in moved THEN [chat[n] EXCEPT !.parent = chat[m].parent] ELSE chat[n]]
    /\ rows' = chat'
    /\ DOMAIN kids' = DOMAIN chat'
    /\ \A n \in DOMAIN kids' :
         kids'[n] = IF n = chat[m].parent THEN ((kids[n] \cup Children(chat, n)) \ {m}) \cup moved
                    ELSE kids[n] \cup Children(chat, n)
    /\ deleted' = deleted \cup gone
    /\ torn' = torn \cup {r \in (gone \cup moved) \cap Reply : ~chat[r].done}
                    \cup (IF m \in torn THEN moved ELSE {})
    /\ current' \in DOMAIN kids' \cup {None}
    /\ view' = [view EXCEPT ![t] = chat']
    /\ here' = [here EXCEPT ![t] = current']
    /\ UNCHANGED <<task, prompt, saves>>

LEMMA DeleteTree ==
    ASSUME IInv, NEW t \in Tab, NEW m \in Message, Delete(t, m)
    PROVE  \E gone, moved : Deletes(t, m, gone, moved)
<1> DEFINE links == Repaired(kids, chat)
           gone  == Gone(links, m)
           moved == Moved(links, m)
<1>1. m \in DOMAIN chat /\ DeleteMessage(m)
  BY DEF Delete
<1>2. DOMAIN links = DOMAIN chat /\ \A n \in DOMAIN chat : links[n] = kids[n] \cup Children(chat, n)
  BY RepairedType DEF IInv
<1>3. /\ gone = DOMAIN links \cap ({m} \cup links[m])
      /\ moved = (DOMAIN links \cap UNION {links[n] : n \in gone \ {m}}) \ gone
  BY DEF Gone, Moved
<1>4. /\ chat' = [n \in DOMAIN chat \ gone |->
                    IF n \in moved THEN [chat[n] EXCEPT !.parent = chat[m].parent] ELSE chat[n]]
      /\ kids' = [n \in DOMAIN chat \ gone |->
                    IF n = chat[m].parent THEN (links[n] \ {m}) \cup moved ELSE links[n]]
      /\ rows' = RowsLeft(gone, Children(chat', chat[m].parent))
      /\ deleted' = deleted \cup gone
      /\ torn' = torn \cup {r \in (gone \cup moved) \cap Reply : ~chat[r].done}
                      \cup (IF m \in torn THEN moved ELSE {})
  BY <1>1 DEF DeleteMessage
<1> HIDE DEF links, gone, moved
<1>5. m \in gone /\ gone \subseteq DOMAIN chat
  BY <1>1, <1>2, <1>3
<1>6. \A n \in DOMAIN chat : n \in gone <=> n = m \/ n \in kids[m] \/ chat[n].parent = m
  BY <1>1, <1>2, <1>3 DEF Children
<1>7. moved \subseteq DOMAIN chat \ gone
  BY <1>2, <1>3
<1>8. \A n \in DOMAIN chat \ gone :
        n \in moved <=> \E x \in gone \ {m} : n \in kids[x] \/ chat[n].parent = x
  <2>1. \A x \in gone : links[x] = kids[x] \cup Children(chat, x)
    BY <1>2, <1>5
  <2> QED BY <1>2, <1>3, <2>1 DEF Children
<1>9. rows' = chat'
  <2>1. rows' = [n \in DOMAIN chat \ gone |->
                   IF n \in Children(chat', chat[m].parent) THEN chat'[n] ELSE chat[n]]
    BY <1>4 DEF RowsLeft, IInv, Server, RowsMatch
  <2>2. \A n \in moved : n \in Children(chat', chat[m].parent)
    <3>1. \A n \in DOMAIN chat : chat[n] \in Records
      BY DEF IInv, TypeOK, IsRecords
    <3> QED BY <1>4, <1>7, <3>1 DEF Children, Records
  <2>3. \A n \in DOMAIN chat \ gone : rows'[n] = chat'[n]
    BY <1>4, <2>1, <2>2
  <2>4. /\ rows' = [n \in DOMAIN chat \ gone |-> rows'[n]]
        /\ chat' = [n \in DOMAIN chat \ gone |-> chat'[n]]
    BY <1>4, <2>1
  <2> QED BY <2>3, <2>4
<1>10. DOMAIN kids' = DOMAIN chat' /\ \A n \in DOMAIN kids' :
         kids'[n] = IF n = chat[m].parent THEN ((kids[n] \cup Children(chat, n)) \ {m}) \cup moved
                    ELSE kids[n] \cup Children(chat, n)
  BY <1>2, <1>4
<1>11. PICK n \in After(chat[m].parent) : current' = n /\ here' = [here EXCEPT ![t] = n]
  BY DEF Delete
<1>12. n \in DOMAIN kids' \cup {None}
  <2>1. \A x : EndOf(kids', x) \subseteq DOMAIN kids' \cup {None}
    BY DEF EndOf, Ends, Leaves
  <2> QED BY <1>11, <2>1 DEF After
<1> QED BY <1>1, <1>4, <1>5, <1>6, <1>7, <1>8, <1>9, <1>10, <1>11, <1>12 DEF Deletes, Delete

\* The end of a reply is written.
Upserts(r, record) ==
    /\ task[r] = "running" /\ task' = [task EXCEPT ![r] = "over"]
    /\ record \in Records /\ record.done
    /\ \/ r \in DOMAIN chat /\ record.parent = chat[r].parent
       \/ r \notin DOMAIN chat /\ record.parent \in DOMAIN chat /\ r \in kids[record.parent]
       \/ r \notin DOMAIN chat /\ record.parent = None
       \/ record.parent = prompt[r]
    /\ chat' = [n \in DOMAIN chat \cup {r} |-> IF n = r THEN record ELSE chat[n]]
    /\ rows' = chat'
    /\ DOMAIN kids' = DOMAIN chat'
    /\ \A n \in DOMAIN kids' :
         kids'[n] = (IF n \in DOMAIN chat THEN kids[n] \cup Children(chat, n) ELSE {})
                    \cup (IF n = record.parent THEN {r} ELSE {})
    /\ current' \in DOMAIN chat' \cup {None}
    /\ UNCHANGED <<tabs, prompt, deleted, torn, saves>>

LEMMA UpsertTree ==
    ASSUME IInv, NEW r \in Reply, NEW record \in Records, record.done,
           Ended(r), Upsert(r, record),
           \/ r \in DOMAIN chat /\ record.parent = chat[r].parent
           \/ r \notin DOMAIN chat /\ record.parent \in DOMAIN chat /\ r \in kids[record.parent]
           \/ r \notin DOMAIN chat /\ record.parent = None
           \/ record.parent = prompt[r]
    PROVE  Upserts(r, record)
<1> DEFINE links == Repaired(kids, chat)
           base  == With(links, r, IF r \in DOMAIN chat THEN links[r] ELSE {})
<1>1. DOMAIN links = DOMAIN chat /\ \A n \in DOMAIN chat : links[n] = kids[n] \cup Children(chat, n)
  BY RepairedType DEF IInv
<1>2. /\ chat' = With(chat, r, record)
      /\ kids' = Linked(base, record.parent, r)
      /\ rows' = With(rows, r, record)
      /\ IF r \in DOMAIN chat THEN current' \in Position ELSE current' = r
  BY DEF Upsert
<1> HIDE DEF links
<1>3. /\ DOMAIN base = DOMAIN chat \cup {r}
      /\ \A n \in DOMAIN base : base[n] = IF n \in DOMAIN chat THEN links[n] ELSE {}
  BY <1>1 DEF With
<1> HIDE DEF base
<1>4. chat' = [n \in DOMAIN chat \cup {r} |-> IF n = r THEN record ELSE chat[n]]
  BY <1>2 DEF With
<1>5. rows' = chat'
  BY <1>2 DEF IInv, Server, RowsMatch
<1>6. DOMAIN kids' = DOMAIN chat' /\ \A n \in DOMAIN kids' :
        kids'[n] = (IF n \in DOMAIN chat THEN kids[n] \cup Children(chat, n) ELSE {})
                   \cup (IF n = record.parent THEN {r} ELSE {})
  BY <1>1, <1>2, <1>3, <1>4 DEF Linked
<1>7. current' \in DOMAIN chat' \cup {None}
  BY <1>2, <1>4, PositionType DEF IInv, Server
<1> QED BY <1>4, <1>5, <1>6, <1>7 DEF Upserts, Ended

LEMMA EndTree ==
    ASSUME IInv, NEW r \in Reply, Finish(r) \/ Fail(r)
    PROVE  \E record : Upserts(r, record)
<1>1. IsRecords(chat) /\ prompt[r] \in Prompt \cup {None}
  BY DEF IInv, TypeOK
<1>2. CASE Finish(r)
  <2>1. PICK parent \in Parents(r) : Ended(r) /\ Upsert(r, Record(parent, "full", TRUE))
    BY <1>2 DEF Finish
  <2>2. \/ r \in DOMAIN chat /\ parent = chat[r].parent
        \/ r \notin DOMAIN chat /\ parent \in DOMAIN chat /\ r \in kids[parent]
        \/ r \notin DOMAIN chat /\ parent = None
    BY DEF Parents
  <2>3. parent \in Message \cup {None}
    BY <1>1, <2>2 DEF IsRecords, Records
  <2>4. /\ Record(parent, "full", TRUE) \in Records /\ Record(parent, "full", TRUE).done
        /\ Record(parent, "full", TRUE).parent = parent
    BY <2>3 DEF Record, Records
  <2> QED BY <2>1, <2>2, <2>4, UpsertTree
<1>3. CASE Fail(r)
  <2> DEFINE record == Record(prompt[r], IF r \in DOMAIN chat THEN chat[r].text ELSE "empty", TRUE)
  <2>1. record \in Records /\ record.done /\ record.parent = prompt[r]
    BY <1>1 DEF Record, Records, IsRecords, Message
  <2>2. Ended(r) /\ Upsert(r, record)
    BY <1>3 DEF Fail
  <2> QED BY <2>1, <2>2, UpsertTree
<1> QED BY <1>2, <1>3

-----------------------------------------------------------------------------
(* Every action keeps the invariant.                                       *)

LEMMA SubmitKeeps ==
    ASSUME IInv, NEW t \in Tab, NEW p \in Prompt, NEW r \in Reply, Submit(t, p, r)
    PROVE  IInv'
<1>1. PICK asked, parent :
        /\ Submitted(t, p, r, asked)
        /\ Asks(t, p, r, parent, FALSE)
        /\ p \notin DOMAIN chat =>
             asked = IF Shows(t, p) THEN view[t][p] ELSE Record(parent, "full", TRUE)
  BY SubmitTree
<1>2. task' = [task EXCEPT ![r] = "running"] /\ UNCHANGED <<deleted, torn, saves>>
  BY DEF Submit
<1>3. p \in Message /\ r \in Message /\ p # r /\ p \notin Reply /\ r \notin Prompt
      /\ p # None /\ r # None
  BY MessageAssumption DEF Message
<1>4. /\ Record(p, "empty", FALSE) \in Records /\ ~Record(p, "empty", FALSE).done
      /\ Record(p, "empty", FALSE).parent = p
      /\ Record(parent, "full", TRUE) \in Records /\ Record(parent, "full", TRUE).parent = parent
      /\ Record(parent, "full", TRUE).done
  BY <1>1, <1>3 DEF Record, Records, Asks
<1>5. /\ view' = [view EXCEPT ![t] = [n \in DOMAIN view[t] \cup {p, r} |->
                  IF n = r THEN Record(p, "empty", FALSE)
                  ELSE IF n \in DOMAIN view[t] THEN view[t][n] ELSE Record(parent, "full", TRUE)]]
      /\ here' = [here EXCEPT ![t] = r]
      /\ prompt' = [prompt EXCEPT ![r] = p]
      /\ parent \in Message \cup {None}
      /\ p \notin DOMAIN view[t] => parent \in DOMAIN view[t] \cup {None}
  BY <1>1 DEF Asks, Shows
<1>6. /\ r \notin Known /\ \A u \in Tab : r \notin DOMAIN view[u]
      /\ prompt[r] = None
      /\ p \in DOMAIN chat => asked = chat[p]
      /\ asked \in Records /\ asked.parent \in DOMAIN chat \cup {None}
      /\ chat' = [n \in DOMAIN chat \cup {p, r} |->
                   IF n = r THEN Record(p, "empty", FALSE) ELSE IF n = p THEN asked ELSE chat[n]]
      /\ rows' = chat'
      /\ DOMAIN kids' = DOMAIN chat'
      /\ \A n \in DOMAIN kids' :
         kids'[n] = (IF n \in DOMAIN chat THEN kids[n] ELSE {})
                    \cup (IF n = asked.parent THEN {p} ELSE {}) \cup (IF n = p THEN {r} ELSE {})
      /\ current' = r
  BY <1>1 DEF Submitted, Shows
<1>7. p \notin DOMAIN chat =>
             asked = IF p \in DOMAIN view[t] THEN view[t][p] ELSE Record(parent, "full", TRUE)
  BY <1>1 DEF Shows
<1>8. p \notin DOMAIN view[t] => p \notin Known /\ \A u \in Tab : p \notin DOMAIN view[u]
  BY <1>1 DEF Submitted, NewPrompt, Known, Shows
<1>9. /\ DOMAIN view = Tab /\ DOMAIN here = Tab /\ \A u \in Tab : IsRecords(view[u])
      /\ task \in [Reply -> {"none", "running", "over"}] /\ prompt \in [Reply -> Prompt \cup {None}]
      /\ IsRecords(chat) /\ DOMAIN kids = DOMAIN chat /\ \A m \in DOMAIN kids : kids[m] \subseteq Message
      /\ \A u \in Tab : here[u] \in Message \cup {None}
      /\ deleted \subseteq Message /\ torn \subseteq Message /\ saves \in Nat
  BY DEF IInv, TypeOK
<1>10. /\ \A u \in Tab : u # t => view'[u] = view[u]
       /\ DOMAIN view'[t] = DOMAIN view[t] \cup {p, r}
       /\ view'[t][r] = Record(p, "empty", FALSE)
       /\ \A n \in DOMAIN view'[t] : n # r =>
            view'[t][n] = IF n \in DOMAIN view[t] THEN view[t][n] ELSE Record(parent, "full", TRUE)
  BY <1>3, <1>5, <1>9
<1>11. Known' = Known \cup {p, r} /\ Known \subseteq Message
  BY <1>2, <1>6, <1>9 DEF Known, IsRecords
<1>12. TypeOK'
  <2>1. IsRecords(chat') /\ IsRecords(rows')
    BY <1>3, <1>4, <1>6, <1>9 DEF IsRecords
  <2>2. \A u \in Tab : IsRecords(view'[u])
    <3> SUFFICES ASSUME NEW u \in Tab PROVE IsRecords(view'[u])
      OBVIOUS
    <3>1. CASE u = t
      BY <1>3, <1>4, <1>9, <1>10, <3>1 DEF IsRecords
    <3>2. CASE u # t
      BY <1>9, <1>10, <3>2
    <3> QED BY <3>1, <3>2
  <2>3. \A m \in DOMAIN kids' : kids'[m] \subseteq Message
    BY <1>3, <1>6, <1>9
  <2>4. DOMAIN view' = Tab /\ DOMAIN here' = Tab /\ \A u \in Tab : here'[u] \in Message \cup {None}
    BY <1>3, <1>5, <1>9
  <2>5. task' \in [Reply -> {"none", "running", "over"}] /\ prompt' \in [Reply -> Prompt \cup {None}]
    BY <1>2, <1>5, <1>9
  <2> QED BY <1>2, <1>3, <1>6, <1>9, <2>1, <2>2, <2>3, <2>4, <2>5 DEF TypeOK
<1>13. Server'
  <2>1. WrittenByTask'
    BY <1>2, <1>3, <1>4, <1>6, <1>9, <1>11 DEF WrittenByTask, IInv, Server, Known
  <2>2. Placed'
    <3>1. Placed
      BY DEF IInv, Server
    <3>2. ASSUME NEW m \in DOMAIN chat' \ torn'
          PROVE  /\ chat'[m].parent \in DOMAIN chat' \cup {None}
                 /\ chat'[m].parent # None => m \in kids'[chat'[m].parent]
      <4>1. CASE m = r
        <5>1. chat'[r].parent = p /\ p \in DOMAIN chat'
          BY <1>4, <1>6
        <5>2. r \in kids'[p]
          BY <1>6, <5>1
        <5> QED BY <4>1, <5>1, <5>2
      <4>2. CASE m = p
        <5>1. chat'[p] = asked /\ p \in DOMAIN chat'
          BY <1>3, <1>6
        <5>2. asked.parent \in DOMAIN chat' \cup {None}
          BY <1>6
        <5>3. asked.parent # None => p \in kids'[asked.parent]
          BY <1>6, <5>2
        <5> QED BY <4>2, <5>1, <5>2, <5>3
      <4>3. CASE m \notin {p, r}
        <5>1. m \in DOMAIN chat \ torn /\ chat'[m] = chat[m]
          BY <1>2, <1>6, <3>2, <4>3
        <5>2. /\ chat[m].parent \in DOMAIN chat \cup {None}
              /\ chat[m].parent # None => m \in kids[chat[m].parent]
          BY <3>1, <5>1 DEF Placed
        <5>3. chat[m].parent \in DOMAIN chat =>
                chat[m].parent \in DOMAIN kids' /\ kids[chat[m].parent] \subseteq kids'[chat[m].parent]
          BY <1>6
        <5> QED BY <1>6, <5>1, <5>2, <5>3
      <4> QED BY <4>1, <4>2, <4>3
    <3>3. ASSUME NEW m \in DOMAIN chat', NEW n \in kids'[m] \ torn'
          PROVE  n \in DOMAIN chat' /\ chat'[n].parent = m
      <4>1. CASE m \in DOMAIN chat /\ n \in kids[m]
        <5>1. n \in DOMAIN chat /\ chat[n].parent = m
          BY <1>2, <3>1, <3>3, <4>1 DEF Placed
        <5> QED BY <1>6, <5>1 DEF Known
      <4>2. CASE n = p /\ m = asked.parent
        BY <1>3, <1>6, <4>2
      <4>3. CASE n = r /\ m = p
        BY <1>3, <1>4, <1>6, <4>3
      <4>4. m \in DOMAIN kids' /\ n \in kids'[m]
        BY <1>6, <3>3
      <4>5. \/ m \in DOMAIN chat /\ n \in kids[m]
            \/ n = p /\ m = asked.parent
            \/ n = r /\ m = p
        BY <1>6, <4>4
      <4> QED BY <4>1, <4>2, <4>3, <4>5
    <3> QED BY <1>6, <3>2, <3>3 DEF Placed
  <2>3. Writing'
    BY <1>2, <1>3, <1>4, <1>5, <1>6, <1>9 DEF Writing, IInv, Server, Known
  <2> QED BY <1>6, <2>1, <2>2, <2>3 DEF Server, RowsMatch
<1>14. Clients'
  <2>1. Tasks'
    <3>1. ASSUME NEW q \in Reply
          PROVE  /\ prompt'[q] = None <=> task'[q] = "none"
                 /\ q \in Known' \/ (\E u \in Tab : q \in DOMAIN view'[u]) => task'[q] # "none"
                 /\ task'[q] = "running" => q \in Known' /\ prompt'[q] \in Known'
      <4>1. CASE q = r
        BY <1>2, <1>3, <1>5, <1>9, <1>11, <4>1
      <4>2. CASE q # r
        <5>1. task'[q] = task[q] /\ prompt'[q] = prompt[q] /\ q \notin {p, r}
          BY <1>2, <1>3, <1>5, <1>9, <4>2
        <5>2. q \in Known' <=> q \in Known
          BY <1>11, <5>1
        <5>3. (\E u \in Tab : q \in DOMAIN view'[u]) <=> \E u \in Tab : q \in DOMAIN view[u]
          BY <1>10, <5>1
        <5>4. /\ prompt[q] = None <=> task[q] = "none"
              /\ q \in Known \/ (\E u \in Tab : q \in DOMAIN view[u]) => task[q] # "none"
              /\ task[q] = "running" => q \in Known /\ prompt[q] \in Known
          BY DEF IInv, Clients, Tasks, Shows
        <5>5. prompt[q] \in Known => prompt'[q] \in Known'
          BY <1>11, <5>1
        <5> QED BY <5>1, <5>2, <5>3, <5>4, <5>5
      <4> QED BY <4>1, <4>2
    <3> QED BY <3>1 DEF Tasks, Shows
  <2>2. Views'
    <3>1. Views
      BY DEF IInv, Clients
    <3>2. ASSUME NEW u \in Tab, NEW q \in DOMAIN view'[u] \cap Reply, q \notin Known'
          PROVE  view'[u][q].done /\ task'[q] # "running"
      <4>1. q \notin Known /\ q \notin {p, r}
        BY <1>11, <3>2
      <4>2. q \in DOMAIN view[u] /\ view'[u][q] = view[u][q]
        BY <1>10, <3>2, <4>1
      <4>3. view[u][q].done /\ task[q] # "running"
        BY <3>1, <3>2, <4>1, <4>2 DEF Views
      <4> QED BY <1>2, <1>9, <3>2, <4>1, <4>2, <4>3
    <3> QED BY <3>2 DEF Views
  <2>3. Copies'
    <3>1. ASSUME NEW u \in Tab, NEW m \in DOMAIN view'[u] \ torn'
          PROVE  view'[u][m].parent \in DOMAIN view'[u] \cup {None}
      <4>1. CASE m \in DOMAIN view[u]
        <5>1. view[u][m].parent \in DOMAIN view[u] \cup {None}
          BY <1>2, <3>1, <4>1 DEF IInv, Clients, Copies
        <5>2. DOMAIN view[u] \subseteq DOMAIN view'[u]
          BY <1>10
        <5>3. view'[u][m] = view[u][m]
          BY <1>6, <1>10, <4>1
        <5> QED BY <5>1, <5>2, <5>3
      <4>2. CASE u = t /\ m = r
        BY <1>4, <1>10, <4>2
      <4>3. CASE u = t /\ m = p /\ p \notin DOMAIN view[t]
        <5>1. m \in DOMAIN view'[t] /\ m # r
          BY <1>3, <1>10, <4>3
        <5>2. view'[t][m] = Record(parent, "full", TRUE)
          BY <1>10, <4>3, <5>1
        <5>3. view'[t][m].parent = parent
          BY <1>4, <5>2
        <5>4. parent \in DOMAIN view'[t] \cup {None}
          BY <1>5, <1>10, <4>3
        <5> QED BY <4>3, <5>3, <5>4
      <4>4. m \in DOMAIN view'[u] /\ (u # t => DOMAIN view'[u] = DOMAIN view[u])
            /\ DOMAIN view'[t] = DOMAIN view[t] \cup {p, r}
        BY <1>10, <3>1
      <4> QED BY <4>1, <4>2, <4>3, <4>4
    <3> QED BY <3>1 DEF Copies
  <2>4. Links'
    <3>1. Links
      BY DEF IInv, Clients
    <3>2. \A m \in DOMAIN chat' : chat'[m].parent \in Known' \cup {None} /\ kids'[m] \subseteq Known'
      <4>1. ASSUME NEW m \in DOMAIN chat' PROVE chat'[m].parent \in Known' \cup {None}
        <5>1. CASE m = r
          <6>1. chat'[m].parent = p
            BY <1>4, <1>6, <5>1
          <6> QED BY <1>11, <6>1
        <5>2. CASE m = p
          <6>1. chat'[m].parent = asked.parent
            BY <1>3, <1>6, <5>2
          <6> QED BY <1>6, <1>11, <6>1 DEF Known
        <5>3. CASE m \notin {p, r}
          BY <1>6, <1>11, <3>1, <5>3 DEF Links
        <5> QED BY <5>1, <5>2, <5>3
      <4>2. ASSUME NEW m \in DOMAIN chat' PROVE kids'[m] \subseteq Known'
        <5>1. m \in DOMAIN chat => kids[m] \subseteq Known
          BY <3>1 DEF Links
        <5> QED BY <1>6, <1>11, <5>1
      <4> QED BY <4>1, <4>2
    <3>3. ASSUME NEW u \in Tab, NEW m \in DOMAIN view'[u]
          PROVE  view'[u][m].parent \in Known' \cup DOMAIN view'[u] \cup {None}
      <4>1. DOMAIN view[u] \subseteq DOMAIN view'[u]
        BY <1>10
      <4>2. CASE m \in DOMAIN view[u]
        <5>1. view[u][m].parent \in Known \cup DOMAIN view[u] \cup {None}
          BY <3>1, <4>2 DEF Links
        <5>2. view'[u][m] = view[u][m]
          BY <1>6, <1>10, <4>2
        <5> QED BY <1>11, <4>1, <5>1, <5>2
      <4>3. CASE u = t /\ m = r
        BY <1>4, <1>10, <1>11, <4>3
      <4>4. CASE u = t /\ m = p /\ p \notin DOMAIN view[t]
        <5>1. view'[t][m] = Record(parent, "full", TRUE)
          BY <1>3, <1>10, <4>4
        <5> QED BY <1>4, <1>5, <4>1, <4>4, <5>1
      <4> QED BY <1>10, <3>3, <4>2, <4>3, <4>4
    <3> QED BY <3>2, <3>3 DEF Links
  <2> QED BY <2>1, <2>2, <2>3, <2>4 DEF Clients
<1>15. Ordered'
  <2>1. PICK ord \in [Message -> Nat] : IsOrder(ord)
    BY DEF IInv, Ordered
  <2> DEFINE place == IF p \in DOMAIN view[t] THEN ord[p]
                      ELSE IF parent = None THEN 0 ELSE ord[parent] + 1
             new == [ord EXCEPT ![p] = place, ![r] = place + 1]
  <2>2. place \in Nat /\ (p \in DOMAIN view[t] => place = ord[p])
        /\ (p \notin DOMAIN view[t] /\ parent # None => ord[parent] < place)
    BY <1>3, <1>5, <2>1
  <2> HIDE DEF place
  <2>3. /\ new \in [Message -> Nat] /\ new[p] = place /\ new[r] = place + 1
        /\ \A m \in Message : m \notin {p, r} => new[m] = ord[m]
    BY <1>3, <2>1, <2>2
  <2> HIDE DEF new
  <2>4. Links
    BY DEF IInv, Clients
  <2>5. \A m \in Known : m # r /\ new[m] = ord[m]
    BY <1>6, <1>8, <1>11, <2>2, <2>3
  <2>6. \A u \in Tab : \A m \in DOMAIN view[u] : m # r /\ new[m] = ord[m]
    <3> TAKE u \in Tab
    <3> TAKE m \in DOMAIN view[u]
    <3>1. m \in Message /\ m # r
      BY <1>6, <1>9 DEF IsRecords
    <3>2. m = p => p \in DOMAIN view[t]
      BY <1>8
    <3> QED BY <2>2, <2>3, <3>1, <3>2
  <2>7. new[r] > new[p]
    BY <2>2, <2>3
  <2>8. asked.parent # None => new[asked.parent] < new[p]
    <3> HAVE asked.parent # None
    <3>1. asked.parent \in Known
      BY <1>6 DEF Known
    <3>2. CASE p \in DOMAIN chat
      <4>1. ord[asked.parent] < ord[p] /\ p \in Known
        BY <1>6, <2>1, <3>2 DEF IsOrder, Grows, Known
      <4> QED BY <2>5, <3>1, <4>1
    <3>3. CASE p \notin DOMAIN chat /\ p \in DOMAIN view[t]
      <4>1. ord[asked.parent] < ord[p]
        BY <1>7, <2>1, <3>3 DEF IsOrder, Grows
      <4> QED BY <2>5, <2>6, <3>1, <3>3, <4>1
    <3>4. CASE p \notin DOMAIN chat /\ p \notin DOMAIN view[t]
      <4>1. asked.parent = parent
        BY <1>4, <1>7, <3>4
      <4> QED BY <2>2, <2>3, <2>5, <3>1, <3>4, <4>1
    <3> QED BY <3>2, <3>3, <3>4
  <2>9. Grows(new, chat')
    <3> SUFFICES ASSUME NEW m \in DOMAIN chat', chat'[m].parent # None
                 PROVE  new[chat'[m].parent] < new[m]
      BY DEF Grows
    <3>1. CASE m = r
      BY <1>4, <1>6, <2>7, <3>1
    <3>2. CASE m = p
      BY <1>3, <1>6, <2>8, <3>2
    <3>3. CASE m \notin {p, r}
      <4>1. m \in DOMAIN chat /\ chat'[m] = chat[m]
        BY <1>6, <3>3
      <4>2. chat[m].parent \in Known /\ m \in Known
        BY <2>4, <4>1 DEF Links, Known
      <4> QED BY <2>1, <2>5, <4>1, <4>2 DEF IsOrder, Grows
    <3> QED BY <3>1, <3>2, <3>3
  <2>10. ASSUME NEW m \in DOMAIN chat', NEW n \in kids'[m] PROVE new[m] < new[n]
    <3>1. CASE m \in DOMAIN chat /\ n \in kids[m]
      <4>1. ord[m] < ord[n] /\ m \in Known /\ n \in Known
        BY <2>1, <2>4, <3>1 DEF IsOrder, Links, Known
      <4> QED BY <2>5, <4>1
    <3>2. CASE n = p /\ m = asked.parent
      <4>1. m # None
        BY <1>12, MessageAssumption DEF TypeOK, IsRecords
      <4> QED BY <2>8, <3>2, <4>1
    <3>3. CASE n = r /\ m = p
      BY <2>7, <3>3
    <3> QED BY <1>6, <2>10, <3>1, <3>2, <3>3
  <2>11. ASSUME NEW u \in Tab PROVE Grows(new, view'[u])
    <3> SUFFICES ASSUME NEW m \in DOMAIN view'[u], view'[u][m].parent # None
                 PROVE  new[view'[u][m].parent] < new[m]
      BY DEF Grows
    <3>1. CASE m \in DOMAIN view[u]
      <4>1. view'[u][m] = view[u][m]
        BY <1>6, <1>10, <3>1
      <4>2. ord[view[u][m].parent] < ord[m]
        BY <2>1, <3>1, <4>1 DEF IsOrder, Grows
      <4>3. view[u][m].parent \in Known \cup DOMAIN view[u]
        BY <2>4, <3>1, <4>1 DEF Links
      <4> QED BY <2>5, <2>6, <3>1, <4>1, <4>2, <4>3
    <3>2. CASE m \notin DOMAIN view[u]
      <4>1. u = t /\ m \in {p, r}
        BY <1>10, <3>2
      <4>2. CASE m = r
        BY <1>4, <1>10, <2>7, <4>1, <4>2
      <4>3. CASE m = p
        <5>1. view'[u][m].parent = parent
          BY <1>3, <1>4, <1>10, <3>2, <4>1, <4>3
        <5>2. parent \in DOMAIN view[t]
          BY <1>5, <3>2, <4>1, <4>3, <5>1
        <5> QED BY <2>2, <2>3, <2>6, <3>2, <4>1, <4>3, <5>1, <5>2
      <4> QED BY <4>1, <4>2, <4>3
    <3> QED BY <3>1, <3>2
  <2>12. ASSUME NEW q \in Reply, task'[q] = "running" PROVE new[prompt'[q]] < new[q]
    <3>1. CASE q = r
      BY <1>5, <1>9, <2>7, <3>1
    <3>2. CASE q # r
      <4>1. task[q] = "running" /\ prompt'[q] = prompt[q]
        BY <1>2, <1>5, <1>9, <2>12, <3>2
      <4>2. q \in Known /\ prompt[q] \in Known
        BY <4>1 DEF IInv, Clients, Tasks
      <4> QED BY <2>1, <2>5, <4>1, <4>2 DEF IsOrder
    <3> QED BY <3>1, <3>2
  <2> QED BY <2>3, <2>9, <2>10, <2>11, <2>12 DEF Ordered, IsOrder
<1> QED BY <1>12, <1>13, <1>14, <1>15 DEF IInv

LEMMA SavesKeeps ==
    ASSUME IInv, NEW t \in Tab, SavesCopy(t)
    PROVE  IInv'
<1>1. PICK copy : IsCopy(t, copy) /\ Saved(copy, here'[t])
  BY DEF SavesCopy
<1>2. /\ DOMAIN copy = DOMAIN view[t]
      /\ \A n \in DOMAIN copy : /\ copy[n].parent = view[t][n].parent
                                /\ copy[n].done = view[t][n].done
  BY <1>1 DEF IsCopy
<1>3. /\ DOMAIN chat' = DOMAIN chat \cup DOMAIN view[t]
      /\ IsRecords(chat')
      /\ \A n \in DOMAIN chat' : \/ n \in DOMAIN chat /\ chat'[n] = chat[n]
                                 \/ n \in DOMAIN view[t] /\ chat'[n].parent = view[t][n].parent
      /\ \A n \in DOMAIN chat \cap Reply : /\ chat'[n].done = chat[n].done
                                           /\ ~chat[n].done => chat'[n] = chat[n]
      /\ \A n \in DOMAIN chat' \ DOMAIN chat :
           n \in DOMAIN view[t] /\ chat'[n].parent = view[t][n].parent /\ chat'[n].done = view[t][n].done
      /\ rows' = chat'
      /\ DOMAIN kids' = DOMAIN chat'
      /\ \A n \in DOMAIN kids' : kids'[n] = Children(chat', n)
      /\ current' \in DOMAIN chat' \cup {None}
      /\ saves' \in Nat
  BY <1>1, <1>2 DEF Saved
<1>4. /\ \A u \in Tab : /\ DOMAIN view'[u] = DOMAIN view[u] /\ IsRecords(view'[u])
                        /\ \A n \in DOMAIN view[u] : /\ view'[u][n].parent = view[u][n].parent
                                                     /\ view'[u][n].done = view[u][n].done
      /\ DOMAIN view' = Tab /\ DOMAIN here' = Tab /\ \A u \in Tab : here'[u] \in Message \cup {None}
      /\ UNCHANGED <<task, prompt, deleted, torn>>
  BY DEF SavesCopy
<1>5. IsRecords(chat) /\ \A u \in Tab : IsRecords(view[u])
  BY DEF IInv, TypeOK
<1>6. Known' = Known \cup DOMAIN view[t]
  BY <1>3, <1>4 DEF Known
<1>7. \A n \in DOMAIN kids' : \A x : x \in kids'[n] <=> x \in DOMAIN chat' /\ chat'[x].parent = n
  BY <1>3 DEF Children
<1>8. TypeOK'
  <2>1. \A n \in DOMAIN kids' : kids'[n] \subseteq Message
    BY <1>3, <1>7 DEF IsRecords
  <2>2. /\ task' \in [Reply -> {"none", "running", "over"}]
        /\ prompt' \in [Reply -> Prompt \cup {None}]
        /\ deleted' \subseteq Message /\ torn' \subseteq Message
    BY <1>4 DEF IInv, TypeOK
  <2>3. current' \in Message \cup {None}
    BY <1>3 DEF IsRecords
  <2> QED BY <1>3, <1>4, <2>1, <2>2, <2>3 DEF TypeOK
<1>9. Server'
  <2>1. WrittenByTask'
    <3> SUFFICES ASSUME NEW r \in (DOMAIN chat' \cap Reply) \ deleted'
                 PROVE  chat'[r].done <=> task'[r] # "running"
      BY DEF WrittenByTask
    <3>1. CASE r \in DOMAIN chat
      BY <1>3, <1>4, <3>1 DEF IInv, Server, WrittenByTask
    <3>2. CASE r \notin DOMAIN chat
      <4>1. r \in DOMAIN view[t] \cap Reply /\ r \notin Known /\ chat'[r].done = view[t][r].done
        BY <1>3, <1>4, <3>2 DEF Known
      <4> QED BY <1>4, <4>1 DEF IInv, Clients, Views
    <3> QED BY <3>1, <3>2
  <2>2. Placed'
    <3>1. ASSUME NEW m \in DOMAIN chat' \ torn'
          PROVE  chat'[m].parent \in DOMAIN chat' \cup {None}
      <4>1. CASE m \in DOMAIN chat /\ chat'[m] = chat[m]
        BY <1>3, <1>4, <3>1, <4>1 DEF IInv, Server, Placed
      <4>2. CASE m \in DOMAIN view[t] /\ chat'[m].parent = view[t][m].parent
        BY <1>3, <1>4, <3>1, <4>2 DEF IInv, Clients, Copies
      <4> QED BY <1>3, <3>1, <4>1, <4>2
    <3> QED BY <1>3, <1>7, <3>1 DEF Placed
  <2>3. Writing'
    <3> SUFFICES ASSUME NEW r \in Reply, task[r] = "running"
                 PROVE  /\ r \in deleted => r \in torn
                        /\ r \in DOMAIN chat' \ torn => chat'[r].parent = prompt[r]
      BY <1>4 DEF Writing
    <3>1. /\ r \in deleted => r \in torn
          /\ r \in DOMAIN chat \ torn => chat[r].parent = prompt[r]
          /\ r \in Known
      BY DEF IInv, Server, Writing, Clients, Tasks
    <3>2. ASSUME r \in DOMAIN chat' \ torn PROVE chat'[r].parent = prompt[r]
      <4>1. r \in DOMAIN chat /\ r \notin deleted
        BY <3>1, <3>2 DEF Known
      <4>2. chat[r].done <=> task[r] # "running"
        BY <4>1 DEF IInv, Server, WrittenByTask
      <4>3. chat'[r] = chat[r]
        BY <1>3, <4>1, <4>2
      <4> QED BY <3>1, <3>2, <4>1, <4>3
    <3> QED BY <3>1, <3>2
  <2> QED BY <1>3, <2>1, <2>2, <2>3 DEF Server, RowsMatch
<1>10. Clients'
  <2>1. Tasks'
    BY <1>4, <1>6 DEF IInv, Clients, Tasks, Shows
  <2>2. Views'
    BY <1>4, <1>6 DEF IInv, Clients, Views
  <2>3. Copies'
    BY <1>4 DEF IInv, Clients, Copies
  <2>4. Links'
    <3>1. Links
      BY DEF IInv, Clients
    <3>2. ASSUME NEW m \in DOMAIN chat' PROVE chat'[m].parent \in Known' \cup {None}
      BY <1>3, <1>6, <3>1, <3>2 DEF Links
    <3>3. ASSUME NEW m \in DOMAIN chat' PROVE kids'[m] \subseteq Known'
      BY <1>3, <1>7 DEF Known
    <3>4. ASSUME NEW u \in Tab, NEW m \in DOMAIN view'[u]
          PROVE  view'[u][m].parent \in Known' \cup DOMAIN view'[u] \cup {None}
      BY <1>4, <1>6, <3>1 DEF Links
    <3> QED BY <3>2, <3>3, <3>4 DEF Links
  <2> QED BY <2>1, <2>2, <2>3, <2>4 DEF Clients
<1>11. Ordered'
  <2>1. PICK ord \in [Message -> Nat] : IsOrder(ord)
    BY DEF IInv, Ordered
  <2>2. Grows(ord, chat')
    BY <1>3, <2>1 DEF IsOrder, Grows
  <2>3. \A m \in DOMAIN chat' : \A n \in kids'[m] : ord[m] < ord[n]
    <3>1. \A m \in DOMAIN chat' : m # None
      BY <1>3, MessageAssumption DEF IsRecords
    <3> QED BY <1>3, <1>7, <2>2, <3>1 DEF Grows
  <2>4. \A u \in Tab : Grows(ord, view'[u])
    BY <1>4, <2>1 DEF IsOrder, Grows
  <2>5. \A r \in Reply : task'[r] = "running" => ord[prompt'[r]] < ord[r]
    BY <1>4, <2>1 DEF IsOrder
  <2> QED BY <2>1, <2>2, <2>3, <2>4, <2>5 DEF Ordered, IsOrder
<1> QED BY <1>8, <1>9, <1>10, <1>11 DEF IInv

LEMMA DeleteKeeps ==
    ASSUME IInv, NEW t \in Tab, NEW m \in Message, Delete(t, m)
    PROVE  IInv'
<1>1. PICK gone, moved : Deletes(t, m, gone, moved)
  BY DeleteTree
<1>2. /\ m \in DOMAIN chat /\ m \in gone /\ gone \subseteq DOMAIN chat
      /\ \A n \in DOMAIN chat : n \in gone <=> n = m \/ n \in kids[m] \/ chat[n].parent = m
      /\ moved \subseteq DOMAIN chat \ gone
      /\ \A n \in DOMAIN chat \ gone :
           n \in moved <=> \E x \in gone \ {m} : n \in kids[x] \/ chat[n].parent = x
      /\ chat' = [n \in DOMAIN chat \ gone |->
                    IF n \in moved THEN [chat[n] EXCEPT !.parent = chat[m].parent] ELSE chat[n]]
      /\ rows' = chat'
      /\ DOMAIN kids' = DOMAIN chat'
      /\ \A n \in DOMAIN kids' :
           kids'[n] = IF n = chat[m].parent THEN ((kids[n] \cup Children(chat, n)) \ {m}) \cup moved
                      ELSE kids[n] \cup Children(chat, n)
      /\ deleted' = deleted \cup gone
      /\ torn' = torn \cup {r \in (gone \cup moved) \cap Reply : ~chat[r].done}
                      \cup (IF m \in torn THEN moved ELSE {})
      /\ current' \in DOMAIN kids' \cup {None}
      /\ view' = [view EXCEPT ![t] = chat']
      /\ here' = [here EXCEPT ![t] = current']
      /\ UNCHANGED <<task, prompt, saves>>
  BY <1>1 DEF Deletes
<1>3. /\ IsRecords(chat) /\ DOMAIN view = Tab /\ DOMAIN here = Tab
      /\ \A u \in Tab : IsRecords(view[u]) /\ here[u] \in Message \cup {None}
      /\ DOMAIN kids = DOMAIN chat /\ \A n \in DOMAIN kids : kids[n] \subseteq Message
      /\ deleted \subseteq Message /\ torn \subseteq Message
  BY DEF IInv, TypeOK
<1>4. /\ DOMAIN chat' = DOMAIN chat \ gone
      /\ \A n \in DOMAIN chat' :
           /\ n \in moved => chat'[n].parent = chat[m].parent
           /\ n \notin moved => chat'[n].parent = chat[n].parent
           /\ chat'[n].done = chat[n].done
           /\ chat'[n] \in Records
  <2>1. \A n \in DOMAIN chat : chat[n] \in Records
    BY <1>3 DEF IsRecords
  <2> QED BY <1>2, <2>1 DEF Records
<1>5. Known' = Known /\ torn \subseteq torn' /\ deleted \subseteq deleted'
  BY <1>2, <1>4 DEF Known
<1>6. \A n \in DOMAIN kids' : \A x : x \in kids'[n] =>
        \/ x \in moved /\ n = chat[m].parent
        \/ x \in kids[n] /\ (x = m => n # chat[m].parent)
        \/ x \in DOMAIN chat /\ chat[x].parent = n /\ x # m
  <2> SUFFICES ASSUME NEW n \in DOMAIN kids', NEW x, x \in kids'[n]
               PROVE  \/ x \in moved /\ n = chat[m].parent
                      \/ x \in kids[n] /\ (x = m => n # chat[m].parent)
                      \/ x \in DOMAIN chat /\ chat[x].parent = n /\ x # m
    OBVIOUS
  <2>1. CASE n = chat[m].parent
    BY <1>2, <2>1 DEF Children
  <2>2. CASE n # chat[m].parent
    <3>1. x \in kids[n] \cup Children(chat, n)
      BY <1>2, <2>2
    <3>2. x = m => x \notin Children(chat, n)
      BY <2>2 DEF Children
    <3> QED BY <2>2, <3>1, <3>2 DEF Children
  <2> QED BY <2>1, <2>2
<1>7. PICK ord \in [Message -> Nat] : IsOrder(ord)
  BY DEF IInv, Ordered
<1>8. /\ \A n \in DOMAIN chat : ord[n] \in Nat /\ n # None
      /\ \A n \in DOMAIN chat : chat[n].parent # None =>
           ord[chat[n].parent] < ord[n] /\ ord[chat[n].parent] \in Nat
      /\ \A n \in DOMAIN chat : \A x \in kids[n] : ord[n] < ord[x] /\ ord[x] \in Nat
  BY <1>3, <1>7, MessageAssumption DEF IsOrder, Grows, IsRecords, Records
<1>9. \A n \in gone \ {m} : ord[m] < ord[n]
  BY <1>2, <1>8
<1>10. \A n \in moved : ord[m] < ord[n]
  <2> SUFFICES ASSUME NEW n \in moved PROVE ord[m] < ord[n]
    OBVIOUS
  <2>1. PICK y \in gone \ {m} : n \in kids[y] \/ chat[n].parent = y
    BY <1>2
  <2>2. ord[y] < ord[n]
    BY <1>2, <1>8, <2>1
  <2> QED BY <1>2, <1>8, <1>9, <2>1, <2>2
<1>11. chat[m].parent # None => chat[m].parent \notin gone
  BY <1>2, <1>8, <1>9
<1>12. Placed
  BY DEF IInv, Server
<1>13. Placed'
  <2>1. ASSUME NEW x \in DOMAIN chat' \ torn'
        PROVE  /\ chat'[x].parent \in DOMAIN chat' \cup {None}
               /\ chat'[x].parent # None => x \in kids'[chat'[x].parent]
    <3>1. x \in DOMAIN chat \ torn /\ x \notin gone
      BY <1>4, <1>5, <2>1
    <3>2. CASE x \in moved
      <4>1. m \notin torn /\ chat'[x].parent = chat[m].parent
        BY <1>2, <1>4, <2>1, <3>2
      <4>2. chat[m].parent \in DOMAIN chat' \cup {None}
        BY <1>2, <1>4, <1>11, <1>12, <4>1 DEF Placed
      <4> QED BY <1>2, <3>2, <4>1, <4>2
    <3>3. CASE x \notin moved
      <4>1. chat'[x].parent = chat[x].parent
        BY <1>4, <2>1, <3>3
      <4>2. /\ chat[x].parent \in DOMAIN chat \cup {None}
            /\ chat[x].parent # None => x \in kids[chat[x].parent]
        BY <1>12, <3>1 DEF Placed
      <4>3. chat[x].parent \notin gone
        BY <1>2, <3>1, <3>3
      <4>4. chat[x].parent # None => x \in kids'[chat[x].parent]
        BY <1>2, <1>4, <3>1, <4>2, <4>3
      <4> QED BY <1>4, <4>1, <4>2, <4>3, <4>4
    <3> QED BY <3>2, <3>3
  <2>2. ASSUME NEW n \in DOMAIN chat', NEW x \in kids'[n] \ torn'
        PROVE  x \in DOMAIN chat' /\ chat'[x].parent = n
    <3>1. n \in DOMAIN chat /\ n \notin gone /\ n \in DOMAIN kids' /\ x \in kids'[n] /\ x \notin torn
      BY <1>2, <1>4, <1>5, <2>2
    <3>2. CASE x \in moved /\ n = chat[m].parent
      BY <1>2, <1>4, <3>2
    <3>3. CASE ~(x \in moved /\ n = chat[m].parent)
      <4>1. \A y \in DOMAIN chat : x \in kids[y] => x \in DOMAIN chat /\ chat[x].parent = y
        BY <1>12, <3>1 DEF Placed
      <4>2. x \in DOMAIN chat /\ chat[x].parent = n /\ x # m
        BY <1>6, <3>1, <3>3, <4>1
      <4>3. x \notin gone
        BY <1>2, <3>1, <4>1, <4>2
      <4>4. x \notin moved
        BY <1>2, <3>1, <4>1, <4>2, <4>3
      <4> QED BY <1>4, <4>2, <4>3, <4>4
    <3> QED BY <3>2, <3>3
  <2> QED BY <1>2, <2>1, <2>2 DEF Placed
<1>14. IsOrder(ord)'
  <2>1. Grows(ord, chat')
    <3> SUFFICES ASSUME NEW n \in DOMAIN chat', chat'[n].parent # None
                 PROVE  ord[chat'[n].parent] < ord[n]
      BY DEF Grows
    <3>1. n \in DOMAIN chat
      BY <1>4
    <3>2. CASE n \in moved
      <4>1. chat'[n].parent = chat[m].parent
        BY <1>4, <3>2
      <4>2. ord[chat[m].parent] < ord[m] /\ ord[m] < ord[n]
        BY <1>2, <1>8, <1>10, <3>2, <4>1
      <4> QED BY <1>2, <1>8, <3>1, <4>1, <4>2
    <3>3. CASE n \notin moved
      BY <1>4, <1>8, <3>1, <3>3
    <3> QED BY <3>2, <3>3
  <2>2. ASSUME NEW n \in DOMAIN chat', NEW x \in kids'[n] PROVE ord[n] < ord[x]
    <3>1. n \in DOMAIN chat /\ n \in DOMAIN kids'
      BY <1>2, <1>4
    <3>2. CASE x \in moved /\ n = chat[m].parent
      <4>1. ord[chat[m].parent] < ord[m] /\ ord[m] < ord[x] /\ x \in DOMAIN chat
        BY <1>2, <1>8, <1>10, <3>1, <3>2
      <4> QED BY <1>2, <1>8, <3>1, <3>2, <4>1
    <3>3. CASE x \in kids[n]
      BY <1>8, <3>1, <3>3
    <3>4. CASE x \in DOMAIN chat /\ chat[x].parent = n
      BY <1>8, <3>1, <3>4
    <3> QED BY <1>6, <2>2, <3>1, <3>2, <3>3, <3>4
  <2>3. \A u \in Tab : Grows(ord, view'[u])
    <3>1. \A u \in Tab : view'[u] = chat' \/ view'[u] = view[u]
      BY <1>2, <1>3
    <3> QED BY <1>7, <2>1, <3>1 DEF IsOrder
  <2>4. \A r \in Reply : task'[r] = "running" => ord[prompt'[r]] < ord[r]
    BY <1>2, <1>7 DEF IsOrder
  <2> QED BY <1>7, <2>1, <2>2, <2>3, <2>4 DEF IsOrder
<1>15. TypeOK'
  <2>1. IsRecords(chat') /\ IsRecords(rows')
    BY <1>2, <1>3, <1>4 DEF IsRecords
  <2>2. /\ current' \in Message \cup {None}
        /\ DOMAIN view' = Tab /\ DOMAIN here' = Tab
        /\ \A u \in Tab : IsRecords(view'[u]) /\ here'[u] \in Message \cup {None}
    <3>1. current' \in Message \cup {None}
      BY <1>2, <2>1 DEF IsRecords
    <3> QED BY <1>2, <1>3, <2>1, <3>1
  <2>3. \A n \in DOMAIN kids' : kids'[n] \subseteq Message
    <3> SUFFICES ASSUME NEW n \in DOMAIN kids', NEW x \in kids'[n] PROVE x \in Message
      OBVIOUS
    <3>1. n \in DOMAIN chat
      BY <1>2, <1>4
    <3>2. \/ x \in moved
          \/ x \in kids[n]
          \/ x \in DOMAIN chat
      BY <1>6
    <3> QED BY <1>2, <1>3, <3>1, <3>2 DEF IsRecords
  <2>4. deleted' \subseteq Message /\ torn' \subseteq Message
    BY <1>2, <1>3 DEF IsRecords
  <2>5. /\ task' \in [Reply -> {"none", "running", "over"}]
        /\ prompt' \in [Reply -> Prompt \cup {None}] /\ saves' \in Nat
    BY <1>2 DEF IInv, TypeOK
  <2> QED BY <1>2, <2>1, <2>2, <2>3, <2>4, <2>5 DEF TypeOK
<1>16. Server'
  <2>1. WrittenByTask'
    BY <1>2, <1>4 DEF IInv, Server, WrittenByTask
  <2>2. Writing'
    <3> SUFFICES ASSUME NEW r \in Reply, task[r] = "running"
                 PROVE  /\ r \in deleted' => r \in torn'
                        /\ r \in DOMAIN chat' \ torn' => chat'[r].parent = prompt[r]
      BY <1>2 DEF Writing
    <3>1. /\ r \in deleted => r \in torn
          /\ r \in DOMAIN chat \ torn => chat[r].parent = prompt[r]
          /\ r \in DOMAIN chat \ deleted => ~chat[r].done
      BY DEF IInv, Server, Writing, WrittenByTask
    <3>2. r \in gone \cup moved => r \in torn'
      BY <1>2, <1>5, <3>1
    <3> QED BY <1>2, <1>4, <1>5, <3>1, <3>2
  <2> QED BY <1>2, <1>13, <2>1, <2>2 DEF Server, RowsMatch
<1>17. Clients'
  <2>1. ASSUME NEW u \in Tab PROVE view'[u] = view[u] \/ view'[u] = chat'
    BY <1>2, <1>3
  <2>2. DOMAIN chat' \subseteq Known
    BY <1>4 DEF Known
  <2>3. Tasks'
    BY <1>2, <1>5, <2>1, <2>2 DEF IInv, Clients, Tasks, Shows
  <2>4. Views'
    BY <1>2, <1>5, <2>1, <2>2 DEF IInv, Clients, Views
  <2>5. Copies'
    <3> SUFFICES ASSUME NEW u \in Tab, NEW n \in DOMAIN view'[u] \ torn'
                 PROVE  view'[u][n].parent \in DOMAIN view'[u] \cup {None}
      BY DEF Copies
    <3>1. CASE view'[u] = view[u]
      BY <1>5, <3>1 DEF IInv, Clients, Copies
    <3>2. CASE view'[u] = chat'
      BY <1>13, <3>2 DEF Placed
    <3> QED BY <2>1, <3>1, <3>2
  <2>6. Links'
    <3>1. Links /\ DOMAIN chat \subseteq Known
      BY DEF IInv, Clients, Known
    <3>2. \A n \in DOMAIN chat' : chat'[n].parent \in Known \cup {None}
      BY <1>2, <1>4, <3>1 DEF Links
    <3>3. ASSUME NEW n \in DOMAIN chat' PROVE kids'[n] \subseteq Known
      <4>1. n \in DOMAIN kids' /\ n \in DOMAIN chat
        BY <1>2, <1>4
      <4>2. kids[n] \subseteq Known /\ moved \subseteq Known
        BY <1>2, <3>1, <4>1 DEF Links
      <4> QED BY <1>6, <3>1, <4>1, <4>2
    <3>4. ASSUME NEW u \in Tab, NEW n \in DOMAIN view'[u]
          PROVE  view'[u][n].parent \in Known \cup DOMAIN view'[u] \cup {None}
      BY <2>1, <3>1, <3>2 DEF Links
    <3> QED BY <1>5, <3>2, <3>3, <3>4 DEF Links
  <2> QED BY <2>3, <2>4, <2>5, <2>6 DEF Clients
<1>18. Ordered'
  BY <1>7, <1>14 DEF Ordered
<1> QED BY <1>15, <1>16, <1>17, <1>18 DEF IInv

LEMMA EndKeeps ==
    ASSUME IInv, NEW r \in Reply, Finish(r) \/ Fail(r)
    PROVE  IInv'
<1>1. PICK record : Upserts(r, record)
  BY EndTree
<1>2. /\ task[r] = "running" /\ task' = [task EXCEPT ![r] = "over"]
      /\ record \in Records /\ record.done
      /\ chat' = [n \in DOMAIN chat \cup {r} |-> IF n = r THEN record ELSE chat[n]]
      /\ rows' = chat'
      /\ DOMAIN kids' = DOMAIN chat'
      /\ \A n \in DOMAIN kids' :
           kids'[n] = (IF n \in DOMAIN chat THEN kids[n] \cup Children(chat, n) ELSE {})
                      \cup (IF n = record.parent THEN {r} ELSE {})
      /\ current' \in DOMAIN chat' \cup {None}
      /\ UNCHANGED <<view, here, prompt, deleted, torn, saves>>
  BY <1>1 DEF Upserts, tabs
<1>3. /\ IsRecords(chat) /\ \A u \in Tab : IsRecords(view[u])
      /\ DOMAIN kids = DOMAIN chat /\ \A n \in DOMAIN kids : kids[n] \subseteq Message
      /\ task \in [Reply -> {"none", "running", "over"}]
      /\ r \in Message /\ None \notin Message
  BY MessageAssumption DEF IInv, TypeOK, Message
<1>4. /\ r \in Known /\ prompt[r] \in Known
      /\ r \notin DOMAIN chat => r \in torn
      /\ r \in DOMAIN chat \ torn => record.parent = chat[r].parent
  <2>1. r \in Known /\ prompt[r] \in Known
    BY <1>2 DEF IInv, Clients, Tasks
  <2>2. /\ r \in deleted => r \in torn
        /\ r \in DOMAIN chat \ torn => chat[r].parent = prompt[r]
    BY <1>2 DEF IInv, Server, Writing
  <2> QED BY <1>1, <2>1, <2>2 DEF Known, Upserts
<1>5. Known' = Known
  BY <1>2, <1>4 DEF Known
<1>6. PICK ord \in [Message -> Nat] : IsOrder(ord)
  BY DEF IInv, Ordered
<1>7. record.parent # None => record.parent \in Known /\ ord[record.parent] < ord[r]
  <2>1. Links
    BY DEF IInv, Clients
  <2>2. CASE r \in DOMAIN chat /\ record.parent = chat[r].parent
    BY <1>6, <2>1, <2>2 DEF Links, IsOrder, Grows
  <2>3. CASE record.parent \in DOMAIN chat /\ r \in kids[record.parent]
    BY <1>6, <2>3 DEF IsOrder, Known
  <2>4. CASE record.parent = prompt[r]
    BY <1>2, <1>4, <1>6, <2>4 DEF IsOrder
  <2> QED BY <1>1, <2>2, <2>3, <2>4 DEF Upserts
<1>8. /\ DOMAIN chat' = DOMAIN chat \cup {r} /\ chat'[r] = record
      /\ \A n \in DOMAIN chat : n # r => chat'[n] = chat[n]
  BY <1>2
<1>9. \A n \in DOMAIN kids' : \A x : x \in kids'[n] =>
        \/ x = r /\ n = record.parent
        \/ n \in DOMAIN chat /\ x \in kids[n]
        \/ n \in DOMAIN chat /\ x \in DOMAIN chat /\ chat[x].parent = n
  <2> SUFFICES ASSUME NEW n \in DOMAIN kids', NEW x, x \in kids'[n]
               PROVE  \/ x = r /\ n = record.parent
                      \/ n \in DOMAIN chat /\ x \in kids[n]
                      \/ n \in DOMAIN chat /\ x \in DOMAIN chat /\ chat[x].parent = n
    OBVIOUS
  <2>1. \/ n \in DOMAIN chat /\ x \in kids[n] \cup Children(chat, n)
        \/ n = record.parent /\ x = r
    BY <1>2
  <2> QED BY <2>1 DEF Children
<1>10. \A n \in DOMAIN chat : kids[n] \subseteq kids'[n]
  BY <1>2, <1>8
<1>11. TypeOK'
  <2>1. IsRecords(chat') /\ IsRecords(rows')
    BY <1>2, <1>3, <1>8 DEF IsRecords
  <2>2. \A n \in DOMAIN kids' : kids'[n] \subseteq Message
    BY <1>3, <1>9 DEF IsRecords
  <2>3. current' \in Message \cup {None}
    BY <1>2, <2>1 DEF IsRecords
  <2>4. task' \in [Reply -> {"none", "running", "over"}]
    BY <1>2, <1>3
  <2> QED BY <1>2, <2>1, <2>2, <2>3, <2>4 DEF IInv, TypeOK
<1>12. Server'
  <2>1. WrittenByTask'
    BY <1>2, <1>3, <1>8 DEF IInv, Server, WrittenByTask
  <2>2. Placed'
    <3>1. Placed
      BY DEF IInv, Server
    <3>2. ASSUME NEW m \in DOMAIN chat' \ torn'
          PROVE  /\ chat'[m].parent \in DOMAIN chat' \cup {None}
                 /\ chat'[m].parent # None => m \in kids'[chat'[m].parent]
      <4>1. m \in DOMAIN chat \ torn /\ chat'[m].parent = chat[m].parent
        BY <1>2, <1>4, <1>8, <3>2
      <4>2. /\ chat[m].parent \in DOMAIN chat \cup {None}
            /\ chat[m].parent # None => m \in kids[chat[m].parent]
        BY <3>1, <4>1 DEF Placed
      <4> QED BY <1>8, <1>10, <4>1, <4>2
    <3>3. ASSUME NEW m \in DOMAIN chat', NEW n \in kids'[m] \ torn'
          PROVE  n \in DOMAIN chat' /\ chat'[n].parent = m
      <4>1. CASE n = r /\ m = record.parent
        BY <1>8, <4>1
      <4>2. CASE m \in DOMAIN chat /\ n \in kids[m]
        <5>1. n \in DOMAIN chat \ torn /\ chat[n].parent = m
          BY <1>2, <3>1, <3>3, <4>2 DEF Placed
        <5> QED BY <1>4, <1>8, <5>1
      <4>3. CASE n \in DOMAIN chat /\ chat[n].parent = m
        BY <1>2, <1>4, <1>8, <3>3, <4>3
      <4>4. m \in DOMAIN kids' /\ n \in kids'[m]
        BY <1>2, <3>3
      <4> QED BY <1>9, <4>1, <4>2, <4>3, <4>4
    <3> QED BY <1>2, <3>2, <3>3 DEF Placed
  <2>3. Writing'
    BY <1>2, <1>3, <1>8 DEF IInv, Server, Writing
  <2> QED BY <1>2, <2>1, <2>2, <2>3 DEF Server, RowsMatch
<1>13. Clients'
  <2>1. Tasks'
    BY <1>2, <1>3, <1>5 DEF IInv, Clients, Tasks, Shows
  <2>2. Views'
    BY <1>2, <1>3, <1>5 DEF IInv, Clients, Views
  <2>3. Copies'
    BY <1>2 DEF IInv, Clients, Copies
  <2>4. Links'
    <3>1. Links /\ DOMAIN chat \subseteq Known
      BY DEF IInv, Clients, Known
    <3>2. \A n \in DOMAIN chat' : chat'[n].parent \in Known \cup {None}
      BY <1>7, <1>8, <3>1 DEF Links
    <3>3. ASSUME NEW n \in DOMAIN chat' PROVE kids'[n] \subseteq Known
      <4>1. n \in DOMAIN kids'
        BY <1>2
      <4> QED BY <1>4, <1>9, <3>1, <4>1 DEF Links
    <3> QED BY <1>2, <1>5, <3>1, <3>2, <3>3 DEF Links
  <2> QED BY <2>1, <2>2, <2>3, <2>4 DEF Clients
<1>14. Ordered'
  <2>1. Grows(ord, chat')
    BY <1>6, <1>7, <1>8 DEF IsOrder, Grows
  <2>2. ASSUME NEW n \in DOMAIN chat', NEW x \in kids'[n] PROVE ord[n] < ord[x]
    <3>1. n \in DOMAIN kids' /\ n # None
      BY <1>2, <1>3, <1>8 DEF IsRecords
    <3> QED BY <1>6, <1>7, <1>9, <2>2, <3>1 DEF IsOrder, Grows
  <2>3. \A u \in Tab : Grows(ord, view'[u])
    BY <1>2, <1>6 DEF IsOrder
  <2>4. \A q \in Reply : task'[q] = "running" => ord[prompt'[q]] < ord[q]
    BY <1>2, <1>3, <1>6 DEF IsOrder
  <2> QED BY <1>6, <2>1, <2>2, <2>3, <2>4 DEF Ordered, IsOrder
<1> QED BY <1>11, <1>12, <1>13, <1>14 DEF IInv

LEMMA DeleteGoneKeeps ==
    ASSUME IInv, NEW t \in Tab, NEW m \in Message, DeleteGone(t, m)
    PROVE  IInv'
<1>1. /\ UNCHANGED <<chat, rows, task, prompt, deleted, torn, saves>>
      /\ view' = [view EXCEPT ![t] = chat]
      /\ kids' = Repaired(kids, chat)
  BY DEF DeleteGone
<1>2. PICK n \in Position : current' = n /\ here' = [here EXCEPT ![t] = n]
  BY DEF DeleteGone
<1>3. TypeOK /\ Placed /\ Links /\ None \notin Message
  BY MessageAssumption DEF IInv, Server, Clients
<1>4. n \in Message \cup {None} /\ n \in DOMAIN chat \cup {None}
  BY <1>3, PositionType
<1>5. DOMAIN kids' = DOMAIN chat /\ \A x \in DOMAIN chat : /\ kids'[x] = kids[x] \cup Children(chat, x)
                                                          /\ kids'[x] \subseteq Message
  BY <1>1, <1>3, RepairedType
<1>6. \A x \in DOMAIN chat : \A y : y \in kids'[x] <=>
         y \in kids[x] \/ (y \in DOMAIN chat /\ chat[y].parent = x)
  BY <1>5 DEF Children
<1>7. \A u \in Tab : view'[u] = view[u] \/ view'[u] = chat
  BY <1>1, <1>3 DEF TypeOK
<1>8. Known' = Known /\ DOMAIN chat \subseteq Known
  BY <1>1 DEF Known
<1>9. TypeOK'
  BY <1>1, <1>2, <1>3, <1>4, <1>5 DEF TypeOK
<1>10. Server'
  <2>1. Placed'
    BY <1>1, <1>2, <1>3, <1>4, <1>5, <1>6 DEF Placed
  <2>2. WrittenByTask' /\ Writing' /\ RowsMatch'
    BY <1>1 DEF IInv, Server, WrittenByTask, Writing, RowsMatch
  <2> QED BY <2>1, <2>2 DEF Server
<1>11. Clients'
  <2>1. Tasks'
    BY <1>1, <1>7, <1>8 DEF IInv, Clients, Tasks, Shows
  <2>2. Views'
    BY <1>1, <1>7, <1>8 DEF IInv, Clients, Views
  <2>3. Copies'
    BY <1>1, <1>3, <1>7 DEF IInv, Clients, Copies, Placed
  <2>4. Links'
    <3>1. \A x \in DOMAIN chat : chat[x].parent \in Known \cup {None} /\ kids'[x] \subseteq Known
      BY <1>3, <1>6, <1>8 DEF Links
    <3>2. ASSUME NEW u \in Tab, NEW x \in DOMAIN view'[u]
          PROVE  view'[u][x].parent \in Known \cup DOMAIN view'[u] \cup {None}
      BY <1>3, <1>7, <3>1 DEF Links
    <3> QED BY <1>1, <1>8, <3>1, <3>2 DEF Links
  <2> QED BY <2>1, <2>2, <2>3, <2>4 DEF Clients
<1>12. Ordered'
  <2>1. PICK ord \in [Message -> Nat] : IsOrder(ord)
    BY DEF IInv, Ordered
  <2>2. \A x \in DOMAIN chat : x # None
    BY <1>3 DEF TypeOK, IsRecords
  <2>3. Grows(ord, chat') /\ \A x \in DOMAIN chat' : \A y \in kids'[x] : ord[x] < ord[y]
    BY <1>1, <1>6, <2>1, <2>2 DEF IsOrder, Grows
  <2>4. \A u \in Tab : Grows(ord, view'[u])
    BY <1>1, <1>7, <2>1 DEF IsOrder, Grows
  <2>5. \A r \in Reply : task'[r] = "running" => ord[prompt'[r]] < ord[r]
    BY <1>1, <2>1 DEF IsOrder
  <2> QED BY <2>1, <2>3, <2>4, <2>5 DEF Ordered, IsOrder
<1> QED BY <1>9, <1>10, <1>11, <1>12 DEF IInv

\* A tab takes records of the tree, or changes texts.
Reads ==
    /\ DOMAIN view' = Tab /\ DOMAIN here' = Tab
    /\ \A u \in Tab : IsRecords(view'[u]) /\ here'[u] \in Message \cup {None}
    /\ \A u \in Tab : view'[u] = chat \/ DOMAIN view[u] \subseteq DOMAIN view'[u]
    /\ \A u \in Tab : \A n \in DOMAIN view'[u] :
         \/ n \in DOMAIN chat /\ view'[u][n].parent = chat[n].parent
         \/ n \in DOMAIN chat \cap DOMAIN view[u] /\ view'[u][n].parent = view[u][n].parent
         \/ n \in DOMAIN view[u] /\ view'[u][n] = view[u][n]
    /\ UNCHANGED <<tree, task, prompt, deleted, torn, saves>>

LEMMA ReadsKeeps ==
    ASSUME IInv, Reads, Copies'
    PROVE  IInv'
<1>1. UNCHANGED <<chat, kids, current, rows, task, prompt, deleted, torn, saves>>
  BY DEF Reads, tree
<1>2. Known' = Known /\ DOMAIN chat \subseteq Known
  BY <1>1 DEF Known
<1>3. TypeOK'
  BY <1>1 DEF Reads, IInv, TypeOK
<1>4. Server'
  BY <1>1 DEF IInv, Server, RowsMatch, WrittenByTask, Placed, Writing
<1>5. Clients'
  <2>1. Tasks'
    BY <1>1, <1>2 DEF IInv, Clients, Tasks, Shows, Reads
  <2>2. Views'
    BY <1>1, <1>2 DEF IInv, Clients, Views, Reads
  <2>3. Links'
    <3>1. Links
      BY DEF IInv, Clients
    <3>2. ASSUME NEW u \in Tab, NEW n \in DOMAIN view'[u]
          PROVE  view'[u][n].parent \in Known \cup DOMAIN view'[u] \cup {None}
      <4>1. CASE n \in DOMAIN chat /\ view'[u][n].parent = chat[n].parent
        BY <3>1, <4>1 DEF Links
      <4>2. CASE n \in DOMAIN view[u] /\ view'[u][n].parent = view[u][n].parent
        <5>1. view[u][n].parent \in Known \cup DOMAIN view[u] \cup {None}
          BY <3>1, <4>2 DEF Links
        <5> QED BY <1>2, <4>2, <5>1, <3>1 DEF Reads, Links
      <4> QED BY <3>2, <4>1, <4>2 DEF Reads
    <3> QED BY <1>1, <1>2, <3>1, <3>2 DEF Links
  <2> QED BY <2>1, <2>2, <2>3 DEF Clients
<1>6. Ordered'
  <2>1. PICK ord \in [Message -> Nat] : IsOrder(ord)
    BY DEF IInv, Ordered
  <2>2. \A u \in Tab : Grows(ord, view'[u])
    BY <2>1 DEF IsOrder, Grows, Reads
  <2> QED BY <1>1, <2>1, <2>2 DEF Ordered, IsOrder, Grows
<1> QED BY <1>3, <1>4, <1>5, <1>6 DEF IInv

LEMMA LoadKeeps ==
    ASSUME IInv, NEW t \in Tab, Load(t)
    PROVE  IInv'
<1>1. TypeOK /\ Placed /\ Copies
  BY DEF IInv, Server, Clients
<1>2. UNCHANGED <<tree, task, prompt, deleted, torn, saves>> /\ view' = [view EXCEPT ![t] = chat]
  BY DEF Load
<1>3. PICK m \in Position : here' = [here EXCEPT ![t] = m]
  BY DEF Load
<1>4. m \in Message \cup {None}
  BY <1>1, PositionType
<1>5. \A u \in Tab : view'[u] = view[u] \/ view'[u] = chat
  BY <1>1, <1>2 DEF TypeOK
<1>6. Reads
  <2>1. DOMAIN view' = Tab /\ DOMAIN here' = Tab
    BY <1>1, <1>2, <1>3 DEF TypeOK
  <2>2. \A u \in Tab : IsRecords(view'[u]) /\ here'[u] \in Message \cup {None}
    BY <1>1, <1>3, <1>4, <1>5 DEF TypeOK
  <2> QED BY <1>2, <1>5, <2>1, <2>2 DEF Reads
<1>7. Copies'
  BY <1>1, <1>2, <1>5 DEF Copies, Placed
<1> QED BY <1>6, <1>7, ReadsKeeps

LEMMA HearTurnKeeps ==
    ASSUME IInv, NEW t \in Tab, NEW r \in Reply, HearTurn(t, r)
    PROVE  IInv'
<1>1. TypeOK /\ Copies
  BY DEF IInv, Clients
<1> DEFINE p == prompt[r]
<1>2. /\ UNCHANGED <<tree, task, prompt, deleted, torn, saves>>
      /\ r \in DOMAIN chat /\ p \in DOMAIN chat /\ chat[r].parent = p
      /\ chat[p].parent \in DOMAIN view[t] \cup {None}
      /\ view' = [view EXCEPT ![t] = With(With(view[t], p, chat[p]), r, chat[r])]
      /\ \E m \in {here[t], r} : here' = [here EXCEPT ![t] = m]
  BY <1>1 DEF HearTurn, TypeOK
<1> HIDE DEF p
<1>3. /\ \A u \in Tab : u # t => view'[u] = view[u]
      /\ DOMAIN view'[t] = DOMAIN view[t] \cup {p, r}
      /\ \A n \in DOMAIN view'[t] : view'[t][n] = IF n \in {p, r} THEN chat[n] ELSE view[t][n]
  BY <1>1, <1>2 DEF TypeOK, With
<1>4. /\ DOMAIN view' = Tab /\ DOMAIN here' = Tab
      /\ \A u \in Tab : here'[u] \in Message \cup {None}
  BY <1>1, <1>2 DEF TypeOK, Message
<1>5. ASSUME NEW u \in Tab PROVE IsRecords(view'[u])
  <2>1. CASE u = t
    BY <1>1, <1>2, <1>3, <2>1 DEF TypeOK, IsRecords
  <2>2. CASE u # t
    BY <1>1, <1>3, <2>2 DEF TypeOK
  <2> QED BY <2>1, <2>2
<1>6. Reads
  BY <1>2, <1>3, <1>4, <1>5 DEF Reads
<1>7. Copies'
  <2> SUFFICES ASSUME NEW u \in Tab, NEW n \in DOMAIN view'[u] \ torn'
               PROVE  view'[u][n].parent \in DOMAIN view'[u] \cup {None}
    BY DEF Copies
  <2>1. CASE u # t
    BY <1>1, <1>2, <1>3, <2>1 DEF Copies
  <2>2. CASE u = t /\ n \in {p, r}
    BY <1>2, <1>3, <2>2
  <2>3. CASE u = t /\ n \notin {p, r}
    BY <1>1, <1>2, <1>3, <2>3 DEF Copies
  <2> QED BY <2>1, <2>2, <2>3
<1> QED BY <1>6, <1>7, ReadsKeeps

LEMMA HearEndKeeps ==
    ASSUME IInv, NEW t \in Tab, NEW r \in Reply, HearEnd(t, r)
    PROVE  IInv'
<1>1. TypeOK /\ Copies
  BY DEF IInv, Clients
<1>2. /\ UNCHANGED <<tree, here, task, prompt, deleted, torn, saves>>
      /\ r \in DOMAIN chat /\ r \in DOMAIN view[t]
      /\ view' = [view EXCEPT ![t] = [view[t] EXCEPT ![r] =
                    [view[t][r] EXCEPT !.done = TRUE, !.text = chat[r].text]]]
  <2>1. /\ UNCHANGED <<tree, here, task, prompt, deleted, torn, saves>>
        /\ r \in DOMAIN chat /\ r \in DOMAIN view[t]
        /\ view' = [view EXCEPT ![t][r].done = TRUE, ![t][r].text = chat[r].text]
    BY DEF HearEnd, Shows
  <2>2. DOMAIN view = Tab
    BY <1>1 DEF TypeOK
  <2>3. IsRecords(view[t])
    BY <1>1 DEF TypeOK
  <2>4. view[t][r] \in Records
    BY <2>1, <2>3 DEF IsRecords
  <2>5. [view EXCEPT ![t][r].done = TRUE, ![t][r].text = chat[r].text]
          = [view EXCEPT ![t] = [view[t] EXCEPT ![r] =
                    [view[t][r] EXCEPT !.done = TRUE, !.text = chat[r].text]]]
    BY <2>1, <2>2, <2>4 DEF Records
  <2> QED BY <2>1, <2>5
<1>3. chat[r] \in Records /\ view[t][r] \in Records
  BY <1>1, <1>2 DEF TypeOK, IsRecords
<1>4. /\ [view[t][r] EXCEPT !.done = TRUE, !.text = chat[r].text] \in Records
      /\ [view[t][r] EXCEPT !.done = TRUE, !.text = chat[r].text].parent = view[t][r].parent
  BY <1>3 DEF Records
<1>5. \A u \in Tab : /\ DOMAIN view'[u] = DOMAIN view[u]
                     /\ \A n \in DOMAIN view[u] : ~(u = t /\ n = r) => view'[u][n] = view[u][n]
  BY <1>1, <1>2 DEF TypeOK
<1>6. view'[t][r] \in Records /\ view'[t][r].parent = view[t][r].parent
  BY <1>1, <1>2, <1>4 DEF TypeOK
<1>7. \A u \in Tab : IsRecords(view'[u])
  BY <1>1, <1>5, <1>6 DEF TypeOK, IsRecords
<1>8. Reads
  <2>1. DOMAIN view' = Tab /\ DOMAIN here' = Tab /\ \A u \in Tab : here'[u] \in Message \cup {None}
    BY <1>1, <1>2 DEF TypeOK
  <2> QED BY <1>2, <1>5, <1>6, <1>7, <2>1 DEF Reads
<1>9. Copies'
  BY <1>1, <1>2, <1>5, <1>6 DEF Copies
<1> QED BY <1>8, <1>9, ReadsKeeps

LEMMA RefusedKeeps ==
    ASSUME IInv, NEW t \in Tab, NEW p \in Prompt, NEW r \in Reply, SubmitRefused(t, p, r)
    PROVE  IInv'
<1>1. /\ Asked(t, p, r) /\ task' = [task EXCEPT ![r] = "over"]
      /\ UNCHANGED <<chat, kids, current, rows, deleted, torn, saves>>
  BY DEF SubmitRefused, tree
<1>2. PICK parent \in Places(t, p) :
        view' = [view EXCEPT ![t] = With(Shown(t, p, r, parent), r, Record(p, "empty", TRUE))]
  BY DEF SubmitRefused
<1>3. /\ r \notin Known /\ \A u \in Tab : r \notin DOMAIN view[u]
      /\ p # r /\ p \in Message /\ r \in Message /\ p \notin Reply
      /\ Asks(t, p, r, parent, TRUE)
      /\ prompt[r] = None
      /\ p \in DOMAIN view[t] \/ (p \notin Known /\ \A u \in Tab : p \notin DOMAIN view[u])
  BY <1>1, <1>2, AskedView, MessageAssumption DEF Shows, Asked, NewPrompt, Known
<1>4. TypeOK /\ None \notin Message
  BY MessageAssumption DEF IInv
<1>5. /\ \A u \in Tab : u # t => view'[u] = view[u]
      /\ DOMAIN view' = Tab
      /\ DOMAIN view'[t] = DOMAIN view[t] \cup {p, r}
      /\ view'[t][r] = Record(p, "empty", TRUE)
      /\ \A n \in DOMAIN view'[t] : n # r =>
            view'[t][n] = IF n \in DOMAIN view[t] THEN view[t][n] ELSE Record(parent, "full", TRUE)
      /\ here' = [here EXCEPT ![t] = r]
      /\ prompt' = [prompt EXCEPT ![r] = p]
      /\ parent \in Message \cup {None}
      /\ p \notin DOMAIN view[t] => parent \in DOMAIN view[t] \cup {None}
  BY <1>3, <1>4 DEF Asks, TypeOK, Shows
<1>6. /\ Record(p, "empty", TRUE) \in Records /\ Record(p, "empty", TRUE).done
      /\ Record(p, "empty", TRUE).parent = p
      /\ Record(parent, "full", TRUE) \in Records /\ Record(parent, "full", TRUE).parent = parent
  BY <1>3, <1>5 DEF Record, Records
<1>7. Known' = Known
  BY <1>1 DEF Known
<1>8. /\ task[r] = "none" /\ task' \in [Reply -> {"none", "running", "over"}] /\ task'[r] = "over"
      /\ \A q \in Reply : q # r => task'[q] = task[q] /\ prompt'[q] = prompt[q]
      /\ prompt' \in [Reply -> Prompt \cup {None}] /\ prompt'[r] = p
  BY <1>1, <1>3, <1>4, <1>5 DEF TypeOK, IInv, Clients, Tasks
<1>9. TypeOK'
  <2>1. ASSUME NEW u \in Tab PROVE IsRecords(view'[u])
    <3>1. IsRecords(view[u])
      BY <1>4 DEF TypeOK
    <3>2. CASE u = t
      BY <1>3, <1>4, <1>5, <1>6, <3>1, <3>2 DEF IsRecords
    <3>3. CASE u # t
      BY <1>4, <1>5, <3>1, <3>3
    <3> QED BY <3>2, <3>3
  <2>2. DOMAIN here' = Tab /\ \A u \in Tab : here'[u] \in Message \cup {None}
    BY <1>3, <1>4, <1>5 DEF TypeOK
  <2> QED BY <1>1, <1>4, <1>5, <1>8, <2>1, <2>2 DEF TypeOK
<1>10. Server'
  <2>1. WrittenByTask' /\ Writing'
    BY <1>1, <1>3, <1>8 DEF IInv, Server, WrittenByTask, Writing, Known
  <2>2. RowsMatch' /\ Placed'
    BY <1>1 DEF IInv, Server, RowsMatch, Placed
  <2> QED BY <2>1, <2>2 DEF Server
<1>11. Clients'
  <2>1. Tasks'
    <3>1. ASSUME NEW q \in Reply
          PROVE  /\ prompt'[q] = None <=> task'[q] = "none"
                 /\ q \in Known' \/ (\E u \in Tab : q \in DOMAIN view'[u]) => task'[q] # "none"
                 /\ task'[q] = "running" => q \in Known' /\ prompt'[q] \in Known'
      <4>1. CASE q = r
        BY <1>3, <1>4, <1>8, <4>1
      <4>2. CASE q # r
        BY <1>3, <1>5, <1>7, <1>8, <4>2 DEF IInv, Clients, Tasks, Shows
      <4> QED BY <4>1, <4>2
    <3> QED BY <3>1 DEF Tasks, Shows
  <2>2. Views'
    <3> SUFFICES ASSUME NEW u \in Tab, NEW q \in DOMAIN view'[u] \cap Reply, q \notin Known
                 PROVE  view'[u][q].done /\ task'[q] # "running"
      BY <1>7 DEF Views
    <3>1. CASE q \in DOMAIN view[u]
      <4>1. view[u][q].done /\ task[q] # "running"
        BY <3>1 DEF IInv, Clients, Views
      <4>2. q # r /\ view'[u][q] = view[u][q]
        BY <1>3, <1>5, <3>1
      <4> QED BY <1>8, <4>1, <4>2
    <3>2. CASE q \notin DOMAIN view[u]
      <4>1. u = t /\ q = r
        BY <1>3, <1>5, <3>2
      <4> QED BY <1>5, <1>6, <1>8, <4>1
    <3> QED BY <3>1, <3>2
  <2>3. ASSUME NEW u \in Tab, NEW m \in DOMAIN view'[u], m \notin DOMAIN view[u]
        PROVE  u = t /\ view'[u][m].parent \in DOMAIN view'[u] \cup {None}
    <3>1. u = t /\ (m = r \/ (m = p /\ m # r))
      BY <1>3, <1>5, <2>3
    <3>2. CASE m = r
      BY <1>5, <1>6, <3>1, <3>2
    <3>3. CASE m = p /\ m # r
      <4>1. view'[t][m].parent = parent
        BY <1>5, <1>6, <2>3, <3>1, <3>3
      <4>2. parent \in DOMAIN view'[t] \cup {None}
        BY <1>5, <2>3, <3>1, <3>3
      <4> QED BY <3>1, <4>1, <4>2
    <3> QED BY <3>1, <3>2, <3>3
  <2>4. ASSUME NEW u \in Tab
        PROVE  /\ DOMAIN view[u] \subseteq DOMAIN view'[u]
               /\ \A m \in DOMAIN view[u] : view'[u][m] = view[u][m]
    BY <1>3, <1>5
  <2>5. Copies'
    BY <1>1, <2>3, <2>4 DEF IInv, Clients, Copies
  <2>6. Links'
    <3>1. Links
      BY DEF IInv, Clients
    <3>2. ASSUME NEW u \in Tab, NEW m \in DOMAIN view'[u]
          PROVE  view'[u][m].parent \in Known \cup DOMAIN view'[u] \cup {None}
      BY <2>3, <2>4, <3>1, <3>2 DEF Links
    <3> QED BY <1>1, <1>7, <3>1, <3>2 DEF Links
  <2> QED BY <2>1, <2>2, <2>5, <2>6 DEF Clients
<1>12. Ordered'
  <2>1. PICK ord \in [Message -> Nat] : IsOrder(ord)
    BY DEF IInv, Ordered
  <2> DEFINE place == IF p \in DOMAIN view[t] THEN ord[p]
                      ELSE IF parent = None THEN 0 ELSE ord[parent] + 1
             new == [ord EXCEPT ![p] = place, ![r] = place + 1]
  <2>2. place \in Nat /\ (p \in DOMAIN view[t] => place = ord[p])
        /\ (p \notin DOMAIN view[t] /\ parent # None => ord[parent] < place)
    BY <1>3, <1>5, <2>1
  <2> HIDE DEF place
  <2>3. /\ new \in [Message -> Nat] /\ new[p] = place /\ new[r] = place + 1
        /\ \A m \in Message : m \notin {p, r} => new[m] = ord[m]
    BY <1>3, <2>1, <2>2
  <2> HIDE DEF new
  <2>4. Links
    BY DEF IInv, Clients
  <2>5. \A m \in Known : new[m] = ord[m]
    BY <1>3, <1>4, <2>2, <2>3 DEF TypeOK, IsRecords, Known
  <2>6. \A u \in Tab : \A m \in DOMAIN view[u] : new[m] = ord[m]
    <3> TAKE u \in Tab
    <3> TAKE m \in DOMAIN view[u]
    <3>1. m \in Message /\ m # r
      BY <1>3, <1>4 DEF TypeOK, IsRecords
    <3>2. m = p => p \in DOMAIN view[t]
      BY <1>3
    <3> QED BY <2>2, <2>3, <3>1, <3>2
  <2>7. new[p] < new[r]
    BY <2>2, <2>3
  <2>8. Grows(new, chat')
    BY <1>1, <2>1, <2>4, <2>5 DEF IsOrder, Grows, Links, Known
  <2>9. ASSUME NEW m \in DOMAIN chat', NEW n \in kids'[m] PROVE new[m] < new[n]
    <3>1. m \in Known /\ n \in Known
      BY <1>1, <2>4, <2>9 DEF Links, Known
    <3> QED BY <1>1, <2>1, <2>5, <2>9, <3>1 DEF IsOrder
  <2>10. ASSUME NEW u \in Tab PROVE Grows(new, view'[u])
    <3> SUFFICES ASSUME NEW m \in DOMAIN view'[u], view'[u][m].parent # None
                 PROVE  new[view'[u][m].parent] < new[m]
      BY DEF Grows
    <3>1. CASE m \in DOMAIN view[u]
      <4>1. view'[u][m] = view[u][m]
        BY <1>3, <1>5, <3>1
      <4>2. ord[view[u][m].parent] < ord[m]
        BY <2>1, <3>1, <4>1 DEF IsOrder, Grows
      <4>3. view[u][m].parent \in Known \cup DOMAIN view[u]
        BY <2>4, <3>1, <4>1 DEF Links
      <4> QED BY <2>5, <2>6, <3>1, <4>1, <4>2, <4>3
    <3>2. CASE m \notin DOMAIN view[u]
      <4>1. u = t /\ m \in {p, r}
        BY <1>5, <3>2
      <4>2. CASE m = r
        BY <1>5, <1>6, <2>7, <4>1, <4>2
      <4>3. CASE m = p
        <5>1. view'[u][m].parent = parent
          BY <1>3, <1>5, <1>6, <3>2, <4>1, <4>3
        <5>2. parent \in DOMAIN view[t]
          BY <1>5, <3>2, <4>1, <4>3, <5>1
        <5> QED BY <2>2, <2>3, <2>6, <3>2, <4>1, <4>3, <5>1, <5>2
      <4> QED BY <4>1, <4>2, <4>3
    <3> QED BY <3>1, <3>2
  <2>11. ASSUME NEW q \in Reply, task'[q] = "running" PROVE new[prompt'[q]] < new[q]
    <3>1. q # r /\ task[q] = "running" /\ prompt'[q] = prompt[q]
      BY <1>8, <2>11
    <3>2. q \in Known /\ prompt[q] \in Known
      BY <3>1 DEF IInv, Clients, Tasks
    <3> QED BY <2>1, <2>5, <3>1, <3>2 DEF IsOrder
  <2> QED BY <2>3, <2>8, <2>9, <2>10, <2>11 DEF Ordered, IsOrder
<1> QED BY <1>9, <1>10, <1>11, <1>12 DEF IInv

-----------------------------------------------------------------------------
(* Theorems.                                                               *)

LEMMA InitHolds == Init => IInv
<1> SUFFICES ASSUME Init PROVE IInv
  OBVIOUS
<1>1. /\ chat = <<>> /\ kids = <<>> /\ rows = <<>> /\ current = None
      /\ DOMAIN chat = {} /\ DOMAIN kids = {} /\ DOMAIN rows = {}
      /\ view = [t \in Tab |-> <<>>] /\ here = [t \in Tab |-> None]
      /\ \A t \in Tab : DOMAIN view[t] = {}
      /\ task = [r \in Reply |-> "none"] /\ prompt = [r \in Reply |-> None]
      /\ deleted = {} /\ torn = {} /\ saves = 0
  BY DEF Init
<1>2. TypeOK
  BY <1>1 DEF TypeOK, IsRecords
<1>3. Server
  BY <1>1 DEF Server, RowsMatch, WrittenByTask, Placed, Writing
<1>4. Clients
  BY <1>1 DEF Clients, Tasks, Views, Copies, Links, Known, Shows
<1>5. IsOrder([m \in Message |-> 0])
  BY <1>1 DEF IsOrder, Grows
<1> QED BY <1>2, <1>3, <1>4, <1>5 DEF IInv, Ordered

LEMMA StutterHolds == ASSUME IInv, UNCHANGED vars PROVE IInv'
<1>1. /\ UNCHANGED <<chat, kids, current, rows, view, here, task, prompt, deleted, torn, saves>>
  BY DEF vars, tree, tabs
<1>2. TypeOK' /\ Server'
  BY <1>1 DEF IInv, TypeOK, Server, RowsMatch, WrittenByTask, Placed, Writing
<1>3. Clients'
  BY <1>1 DEF IInv, Clients, Tasks, Views, Copies, Links, Known, Shows
<1>4. Ordered'
  BY <1>1 DEF IInv, Ordered, IsOrder, Grows
<1> QED BY <1>2, <1>3, <1>4 DEF IInv

LEMMA StepHolds == IInv /\ [Next]_vars => IInv'
<1> SUFFICES ASSUME IInv, [Next]_vars PROVE IInv'
  OBVIOUS
<1>1. ASSUME NEW t \in Tab, Load(t) PROVE IInv'
  BY <1>1, LoadKeeps
<1>2. ASSUME NEW t \in Tab, NEW p \in Prompt, NEW r \in Reply, Submit(t, p, r) PROVE IInv'
  BY <1>2, SubmitKeeps
<1>3. ASSUME NEW t \in Tab, NEW p \in Prompt, NEW r \in Reply, SubmitRefused(t, p, r) PROVE IInv'
  BY <1>3, RefusedKeeps
<1>4. ASSUME NEW t \in Tab, NEW r \in Reply, HearTurn(t, r) PROVE IInv'
  BY <1>4, HearTurnKeeps
<1>5. ASSUME NEW t \in Tab, NEW r \in Reply, HearEnd(t, r) PROVE IInv'
  BY <1>5, HearEndKeeps
<1>6. ASSUME NEW t \in Tab, NEW m \in Message, Edit(t, m) \/ ShowMessage(t, m) PROVE IInv'
  BY <1>6, EditSaves, ShowSaves, SavesKeeps
<1>7. ASSUME NEW t \in Tab, NEW m \in Message, Delete(t, m) PROVE IInv'
  BY <1>7, DeleteKeeps
<1>8. ASSUME NEW t \in Tab, NEW m \in Message, DeleteGone(t, m) PROVE IInv'
  BY <1>8, DeleteGoneKeeps
<1>9. ASSUME NEW r \in Reply, Finish(r) \/ Fail(r) PROVE IInv'
  BY <1>9, EndKeeps
<1>10. CASE UNCHANGED vars
  BY <1>10, StutterHolds
<1> QED BY <1>1, <1>2, <1>3, <1>4, <1>5, <1>6, <1>7, <1>8, <1>9, <1>10 DEF Next

\* The tree, the rows and the copies of the tabs stay consistent, whatever is
\* sent, edited, deleted, saved and written.
THEOREM Invariance == Spec => []IInv
BY InitHolds, StepHolds, PTL DEF Spec

\* The state is well typed.
THEOREM TypeCorrect == Spec => []TypeOK
<1>1. IInv => TypeOK
  BY DEF IInv
<1> QED BY <1>1, Invariance, PTL

\* The rows of the messages and the embedded tree tell the same, after any
\* sequence of turns, deletions and saves of stale copies.
THEOREM RowsAgree == Spec => []RowsMatch
<1>1. IInv => RowsMatch
  BY DEF IInv, Server
<1> QED BY <1>1, Invariance, PTL

\* No copy makes a reply finished that is being written, or the other way
\* round, for any number of tabs and replies.
THEOREM OnlyTaskWrites == Spec => []WrittenByTask
<1>1. IInv => WrittenByTask
  BY DEF IInv, Server
<1> QED BY <1>1, Invariance, PTL

LEMMA LeastNatural ==
    ASSUME NEW N, N \subseteq Nat, N # {}
    PROVE  \E k \in N : \A n \in N : k <= n
<1> DEFINE R == {ss \in Nat \X Nat : ss[1] < ss[2]}
<1>1. IsWellFoundedOn(R, Nat)
  BY NatLessThanWellFounded DEF OpToRel
<1>2. \A m, n \in Nat : m < n => <<m, n>> \in R
  OBVIOUS
<1> HIDE DEF R
<1>3. PICK k \in N : \A n \in N : ~(<<n, k>> \in R)
  BY <1>1, WFMin
<1>4. ASSUME NEW n \in N PROVE k <= n
  <2>1. k \in Nat /\ n \in Nat /\ ~(n < k)
    BY <1>2, <1>3
  <2> QED BY <2>1
<1> QED BY <1>3, <1>4

\* A set of messages that follow one another would have no first.
LEMMA NoCircle == ASSUME IInv PROVE ~Circle
<1> SUFFICES ASSUME NEW S \in SUBSET DOMAIN chat, S # {}, \A m \in S : chat[m].parent \in S
             PROVE  FALSE
  BY DEF Circle
<1>1. PICK ord \in [Message -> Nat] : IsOrder(ord)
  BY DEF IInv, Ordered
<1>2. S \subseteq Message /\ None \notin Message
  BY MessageAssumption DEF IInv, TypeOK, IsRecords
<1> DEFINE N == {ord[m] : m \in S}
<1>3. N \in SUBSET Nat /\ N # {} /\ (\A k \in N : \E m \in S : k = ord[m]) /\ \A m \in S : ord[m] \in N
  BY <1>1, <1>2
<1> HIDE DEF N
<1>4. PICK k \in N : \A n \in N : k <= n
  BY <1>3, LeastNatural
<1>5. PICK m \in S : k = ord[m]
  BY <1>3
<1>6. ord[chat[m].parent] \in N /\ ord[chat[m].parent] < ord[m]
  BY <1>1, <1>2, <1>3 DEF IsOrder, Grows
<1>7. k <= ord[chat[m].parent] /\ k \in Nat /\ ord[chat[m].parent] \in Nat
  BY <1>3, <1>4, <1>6
<1> QED BY <1>5, <1>6, <1>7

\* The messages form a tree, but for those whose place was deleted while they
\* were written.
THEOREM StaysTree == Spec => []IsTree
<1>1. IInv => IsTree
  BY NoCircle DEF IInv, Server, Placed, IsTree
<1> QED BY <1>1, Invariance, PTL

\* A save drops nothing: what a step drops is one message with its children,
\* and perhaps messages out of place.
THEOREM OnlyDeletingDrops == Spec => DropsOnlyDeleted
<1> DEFINE Lost == DOMAIN chat \ DOMAIN chat'
           Dropped == Lost # {} => \E m \in Lost : Lost \ torn = ({m} \cup Children(chat, m)) \ torn
<1>1. ASSUME IInv, [Next]_vars PROVE [Dropped]_vars
  <2>1. ASSUME NEW t \in Tab, NEW m \in Message, Delete(t, m) PROVE Dropped
    <3>1. PICK gone, moved : Deletes(t, m, gone, moved)
      BY <1>1, <2>1, DeleteTree
    <3>2. /\ m \in DOMAIN chat /\ m \in gone /\ gone \subseteq DOMAIN chat
          /\ \A n \in DOMAIN chat : n \in gone <=> n = m \/ n \in kids[m] \/ chat[n].parent = m
          /\ DOMAIN chat' = DOMAIN chat \ gone
      BY <3>1 DEF Deletes
    <3>3. \A n \in kids[m] \ torn : n \in DOMAIN chat /\ chat[n].parent = m
      BY <1>1, <3>2 DEF IInv, Server, Placed
    <3>4. Lost = gone
      BY <3>2
    <3>5. Lost \ torn = ({m} \cup Children(chat, m)) \ torn
      BY <3>2, <3>3, <3>4 DEF Children
    <3> QED BY <3>2, <3>4, <3>5
  <2>2. ASSUME NEW t \in Tab, NEW p \in Prompt, NEW r \in Reply, Submit(t, p, r) PROVE Lost = {}
    BY <1>1, <2>2, SubmitTree DEF Submitted
  <2>3. ASSUME NEW t \in Tab, NEW m \in Message, Edit(t, m) \/ ShowMessage(t, m) PROVE Lost = {}
    <3>1. SavesCopy(t)
      BY <1>1, <2>3, EditSaves, ShowSaves
    <3> QED BY <3>1 DEF SavesCopy, Saved
  <2>4. ASSUME NEW r \in Reply, Finish(r) \/ Fail(r) PROVE Lost = {}
    <3>1. PICK record : Upserts(r, record)
      BY <1>1, <2>4, EndTree
    <3> QED BY <3>1 DEF Upserts
  <2>5. ASSUME NEW t \in Tab,
               \/ Load(t)
               \/ \E p \in Prompt, r \in Reply : SubmitRefused(t, p, r)
               \/ \E r \in Reply : HearTurn(t, r) \/ HearEnd(t, r)
               \/ \E m \in Message : DeleteGone(t, m)
        PROVE  Lost = {}
    BY <2>5 DEF Load, SubmitRefused, HearTurn, HearEnd, DeleteGone, tree
  <2>6. CASE UNCHANGED vars
    BY <2>6
  <2>7. CASE Next
    BY <2>1, <2>2, <2>3, <2>4, <2>5, <2>7 DEF Next
  <2> QED BY <1>1, <2>6, <2>7
<1> QED BY <1>1, Invariance, PTL DEF Spec, DropsOnlyDeleted
==============================================================================
