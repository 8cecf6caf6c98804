-------------------------- MODULE TaskRegistryProofs --------------------------
(* Proofs about TaskRegistry, for any tasks, requests, instances and stop  *)
(* requests; what depends on the order in which a record is made holds for *)
(* one Redis, not for a cluster.                                           *)
EXTENDS TaskRegistry, TLAPS

\* A cancellation of a task is on its way; or none is, and none was lost.
Handled(t) == t \in asked \/ t \in inbox[HomeOf(t)]
Untouched(t) == Running(t) /\ (t \notin targeted \/ (~missed /\ ~Handled(t)))

\* A task that runs is in the table of an instance that is alive.
Homes == \A t \in Task : Running(t) => Alive(t) /\ t \in local

\* Only listed tasks are stopped.
Targeting ==
    /\ asked \subseteq targeted
    /\ \A i \in Instance : inbox[i] \subseteq targeted
    /\ \A s \in Stopper : todo[s] \subseteq targeted

\* The records of an announced request were made while its tasks ran, and are
\* gone when they have closed, if nobody stopped them.
Passed == {"closed", "checking", "emitting", "over", "gone"}
Closing ==
    /\ \A t \in Task : t \in marker \/ save[t] # {} => Begun(t)
    /\ \A t \in Task : RequestOf(t) \in announced => Registered(t)
    /\ \A t \in Task : RequestOf(t) \in announced /\ ~early /\ targeted = {} =>
         (body[t] \in Passed => t \notin marker)

\* When all requests are announced, one of the tasks has yet to look whether it
\* is the last, or has found that it is.
Undisturbed == announced = Request /\ ~early /\ targeted = {} /\ \A t \in Task : body[t] # "dead"
Looking == {"created", "running", "closing", "closed", "checking", "emitting"}
Idling == Undisturbed /\ shown => \E t \in Task : body[t] \in Looking

\* On one Redis, the membership is the last part of a record: who finds a task
\* in the set finds its marker, unless it is stopped.
Finding ==
    /\ \A t \in Task : "members" \notin save[t] => save[t] = {}
    /\ \A t \in members \cup targeted : Registered(t)
    /\ \A l \in Lister : \A t \in seen[l] : Registered(t)

Keeping ==
    \A t \in Task : Untouched(t) =>
        /\ "marker" \notin save[t] => t \in marker
        /\ "index" \notin save[t] => t \in index
        /\ "members" \notin save[t] => t \in members

\* A stop request has every task it is to stop on one of its lists, until its
\* cancellation is on the way; it only deletes records of such tasks.
Stopping ==
    /\ \A s \in Stopper : (spc[s] = "idle" => due[s] = {}) /\ \A t \in due[s] : Begun(t)
    /\ \A s \in Stopper : \A t \in due[s] : ~missed /\ Running(t) =>
         \/ Handled(t)
         \/ spc[s] = "listing" /\ t \in seen[s]
         \/ spc[s] \in {"stopping", "published"} /\ t \in todo[s]
    /\ \A s \in Stopper : spc[s] = "published" => \A t \in seen[s] :
         t \in targeted /\ (~missed /\ Running(t) => Handled(t))

IInv ==
    /\ TypeOK /\ Homes /\ Targeting /\ Closing /\ Idling
    /\ ~Clustered => Finding /\ Keeping /\ Stopping

-----------------------------------------------------------------------------
(* Every task has a request and a home.                                    *)

LEMMA RequestExists == ASSUME NEW t \in Task PROVE RequestOf(t) \in Request /\ t \in RequestOf(t)
<1>1. \E q \in Request : t \in q
  BY RequestAssumption
<1> QED BY <1>1 DEF RequestOf

\* A task is in no request but its own.
LEMMA RequestUnique ==
    ASSUME NEW q \in Request, NEW t \in q PROVE t \in Task /\ RequestOf(t) = q
<1>1. t \in Task
  BY RequestAssumption
<1>2. RequestOf(t) \in Request /\ t \in RequestOf(t)
  BY <1>1, RequestExists
<1> QED BY <1>1, <1>2, RequestAssumption

LEMMA HomeExists == ASSUME TypeOK, NEW t \in Task PROVE HomeOf(t) \in Instance
BY RequestExists DEF TypeOK, HomeOf

-----------------------------------------------------------------------------
(* Every action keeps the invariant.                                       *)

LEMMA CreateKeeps == ASSUME IInv, NEW t \in Task, Create(t) PROVE IInv'
<1>1. /\ ~Begun(t) /\ RequestOf(t) \notin announced /\ home[RequestOf(t)] \in up
      /\ body' = [body EXCEPT ![t] = "created"]
      /\ local' = local \cup {t}
      /\ save' = [save EXCEPT ![t] = Command]
      /\ UNCHANGED <<marker, index, members, asked, home, announced, shown,
                     up, hears, inbox, spc, todo, seen, due, targeted, missed,
                     early>>
  BY DEF Create, record, worker, client, cluster, stopper, past
<1>2. TypeOK'
  BY <1>1 DEF IInv, TypeOK, Body, Command
<1>3. Homes'
  BY <1>1 DEF IInv, Homes, Running, Alive, HomeOf, TypeOK
<1>4. Closing'
  BY <1>1 DEF IInv, Closing, Registered, Begun, TypeOK, Passed
<1>5. Idling'
  BY <1>1, RequestExists DEF IInv, Idling, Undisturbed, TypeOK
<1>6. ~Clustered => Finding'
  BY <1>1 DEF IInv, Finding, Registered, Begun, TypeOK, Command
<1>7. ~Clustered => Keeping'
  BY <1>1 DEF IInv, Keeping, Untouched, Handled, Running, HomeOf, TypeOK, Command
<1>8. ~Clustered => Stopping'
  BY <1>1 DEF IInv, Stopping, Handled, Running, Begun, HomeOf, TypeOK,
           Finding, Registered, Lister
<1>9. Targeting'
  BY <1>1 DEF IInv, Targeting
<1> QED BY <1>2, <1>3, <1>4, <1>5, <1>6, <1>7, <1>8, <1>9 DEF IInv

LEMMA BeginKeeps == ASSUME IInv, NEW t \in Task, Begin(t) PROVE IInv'
<1>1. /\ body[t] = "created" /\ Alive(t) /\ t \notin asked
      /\ body' = [body EXCEPT ![t] = "running"]
      /\ UNCHANGED <<marker, index, members, local, save, asked, home,
                     announced, shown, up, hears, inbox, spc, todo, seen, due,
                     targeted, missed, early>>
  BY DEF Begin, Become, record, worker, client, cluster, stopper, past
<1>2. TypeOK'
  BY <1>1 DEF IInv, TypeOK, Body
<1>3. Homes'
  BY <1>1 DEF IInv, Homes, Running, Alive, HomeOf, TypeOK
<1>4. Closing'
  BY <1>1 DEF IInv, Closing, Registered, Begun, TypeOK, Passed
<1>5. Idling'
  BY <1>1 DEF IInv, Idling, Undisturbed, TypeOK, Looking
<1>6. ~Clustered => Finding'
  BY <1>1 DEF IInv, Finding, Registered, Begun, TypeOK
<1>7. ~Clustered => Keeping'
  BY <1>1 DEF IInv, Keeping, Untouched, Handled, Running, HomeOf, TypeOK
<1>8. ~Clustered => Stopping'
  BY <1>1 DEF IInv, Stopping, Handled, Running, Begun, HomeOf, TypeOK
<1>9. Targeting'
  BY <1>1 DEF IInv, Targeting
<1> QED BY <1>2, <1>3, <1>4, <1>5, <1>6, <1>7, <1>8, <1>9 DEF IInv

LEMMA EndKeeps == ASSUME IInv, NEW t \in Task, End(t) PROVE IInv'
<1>1. /\ body[t] = "running" /\ Alive(t)
      /\ body' = [body EXCEPT ![t] = "closing"]
      /\ asked' = asked \ {t}
      /\ UNCHANGED <<marker, index, members, local, save, home, announced,
                     shown, up, hears, inbox, spc, todo, seen, due, targeted,
                     missed, early>>
  BY DEF End, Become, record, worker, client, cluster, stopper, past
<1>2. TypeOK'
  BY <1>1 DEF IInv, TypeOK, Body
<1>3. Homes'
  BY <1>1 DEF IInv, Homes, Running, Alive, HomeOf, TypeOK
<1>4. Targeting'
  BY <1>1 DEF IInv, Targeting, TypeOK
<1>5. Closing'
  BY <1>1 DEF IInv, Closing, Registered, Begun, TypeOK, Passed
<1>6. Idling'
  BY <1>1 DEF IInv, Idling, Undisturbed, TypeOK, Looking
<1>7. ~Clustered => Finding'
  BY <1>1 DEF IInv, Finding, Registered, Begun, TypeOK
<1>8. ~Clustered => Keeping'
  BY <1>1 DEF IInv, Keeping, Untouched, Handled, Running, HomeOf, TypeOK
<1>9. ~Clustered => Stopping'
  BY <1>1 DEF IInv, Stopping, Handled, Running, Begun, HomeOf, TypeOK
<1> QED BY <1>2, <1>3, <1>4, <1>5, <1>6, <1>7, <1>8, <1>9 DEF IInv

LEMMA CancelKeeps == ASSUME IInv, NEW t \in Task, Cancel(t) PROVE IInv'
<1>1. /\ t \in asked /\ body[t] \in {"created", "closing", "closed", "checking", "emitting"}
      /\ body' = [body EXCEPT ![t] = "over"]
      /\ asked' = asked \ {t}
      /\ UNCHANGED <<marker, index, members, local, save, home, announced,
                     shown, up, hears, inbox, spc, todo, seen, due, targeted,
                     missed, early>>
  BY DEF Cancel, Become, record, worker, client, cluster, stopper, past
<1>2. TypeOK'
  BY <1>1 DEF IInv, TypeOK, Body
<1>3. Homes'
  BY <1>1 DEF IInv, Homes, Running, Alive, HomeOf, TypeOK
<1>4. Targeting'
  BY <1>1 DEF IInv, Targeting, TypeOK
<1>5. Closing'
  BY <1>1 DEF IInv, Closing, Registered, Begun, TypeOK, Passed, Targeting
<1>6. Idling'
  BY <1>1 DEF IInv, Idling, Undisturbed, Targeting
<1>7. ~Clustered => Finding'
  BY <1>1 DEF IInv, Finding, Registered, Begun, TypeOK
<1>8. ~Clustered => Keeping'
  BY <1>1 DEF IInv, Keeping, Untouched, Handled, Running, HomeOf, TypeOK
<1>9. ~Clustered => Stopping'
  BY <1>1 DEF IInv, Stopping, Handled, Running, Begun, HomeOf, TypeOK
<1> QED BY <1>2, <1>3, <1>4, <1>5, <1>6, <1>7, <1>8, <1>9 DEF IInv

LEMMA CloseKeeps == ASSUME IInv, NEW t \in Task, Close(t) PROVE IInv'
<1>1. /\ body[t] = "closing" /\ Alive(t)
      /\ body' = [body EXCEPT ![t] = "closed"]
      /\ marker' = marker \ {t} /\ index' = index \ {t} /\ members' = members \ {t}
      /\ UNCHANGED <<local, save, asked, home, announced, shown, up, hears,
                     inbox, spc, todo, seen, due, targeted, missed, early>>
  BY DEF Close, Become, Deregister, worker, client, cluster, stopper, past
<1>2. TypeOK'
  BY <1>1 DEF IInv, TypeOK, Body
<1>3. Homes'
  BY <1>1 DEF IInv, Homes, Running, Alive, HomeOf, TypeOK
<1>4. Closing'
  BY <1>1 DEF IInv, Closing, Registered, Begun, TypeOK, Passed
<1>5. Idling'
  BY <1>1 DEF IInv, Idling, Undisturbed, TypeOK, Looking
<1>6. ~Clustered => Finding'
  BY <1>1 DEF IInv, Finding, Registered, Begun, TypeOK
<1>7. ~Clustered => Keeping'
  BY <1>1 DEF IInv, Keeping, Untouched, Handled, Running, HomeOf, TypeOK
<1>8. ~Clustered => Stopping'
  BY <1>1 DEF IInv, Stopping, Handled, Running, Begun, HomeOf, TypeOK
<1>9. Targeting'
  BY <1>1 DEF IInv, Targeting
<1> QED BY <1>2, <1>3, <1>4, <1>5, <1>6, <1>7, <1>8, <1>9 DEF IInv

LEMMA CheckMembersKeeps == ASSUME IInv, NEW t \in Task, CheckMembers(t) PROVE IInv'
<1>1. /\ body[t] = "closed" /\ Alive(t)
      /\ local' = local \ {t}
      /\ seen' = [seen EXCEPT ![t] = members]
      /\ body' = [body EXCEPT ![t] = "checking"]
      /\ UNCHANGED <<marker, index, members, save, asked, home, announced,
                     shown, up, hears, inbox, spc, todo, due, targeted,
                     missed, early>>
  BY DEF CheckMembers, Become, record, worker, client, cluster, stopper, past
<1>2. TypeOK'
  BY <1>1 DEF IInv, TypeOK, Body, Lister
<1>3. Homes'
  BY <1>1 DEF IInv, Homes, Running, Alive, HomeOf, TypeOK
<1>4. Closing'
  BY <1>1 DEF IInv, Closing, Registered, Begun, TypeOK, Passed
<1>5. Idling'
  BY <1>1 DEF IInv, Idling, Undisturbed, TypeOK, Looking
<1>6. ~Clustered => Finding'
  BY <1>1 DEF IInv, Finding, Registered, Begun, TypeOK, Lister
<1>7. ~Clustered => Keeping'
  BY <1>1 DEF IInv, Keeping, Untouched, Handled, Running, HomeOf, TypeOK
<1>8. ~Clustered => Stopping'
  BY <1>1, ListerAssumption DEF IInv, Stopping, Handled, Running, Begun, HomeOf, TypeOK, Lister
<1>9. Targeting'
  BY <1>1 DEF IInv, Targeting
<1> QED BY <1>2, <1>3, <1>4, <1>5, <1>6, <1>7, <1>8, <1>9 DEF IInv

LEMMA CheckMarkersKeeps == ASSUME IInv, NEW t \in Task, CheckMarkers(t) PROVE IInv'
<1>1. /\ body[t] = "checking" /\ Alive(t)
      /\ marker' = marker \ (seen[t] \ marker) /\ index' = index \ (seen[t] \ marker) /\ members' = members \ (seen[t] \ marker)
      /\ body' = [body EXCEPT ![t] = IF seen[t] \cap marker = {} THEN "emitting" ELSE "over"]
      /\ seen' = [seen EXCEPT ![t] = {}]
      /\ UNCHANGED <<local, save, asked, home, announced, shown, up, hears,
                     inbox, spc, todo, due, targeted, missed, early>>
  BY DEF CheckMarkers, Become, Deregister, worker, client, cluster, stopper, past
<1>2. t \in Task /\ t \in Lister
  BY DEF Lister
<1>3. TypeOK'
  BY <1>1 DEF IInv, TypeOK, Body, Lister
<1>4. Homes'
  BY <1>1 DEF IInv, Homes, Running, Alive, HomeOf, TypeOK
<1>5. Closing'
  BY <1>1 DEF IInv, Closing, Registered, Begun, TypeOK, Passed
<1>6. Idling'
  <2>1. CASE seen[t] \cap marker = {}
    BY <1>1, <2>1 DEF IInv, Undisturbed, Idling, Looking, TypeOK
  <2>2. ASSUME seen[t] \cap marker # {}, Undisturbed' PROVE \E u \in Task : body'[u] \in Looking
    <3>1. PICK u \in Task : u \in marker /\ RequestOf(u) \in announced
      BY <1>1, <2>2, RequestExists DEF IInv, TypeOK, Undisturbed
    <3>2. body[u] \notin Passed /\ body[u] # "none"
      BY <1>1, <2>2, <3>1 DEF IInv, Closing, Undisturbed, Begun
    <3>3. u # t /\ body'[u] = body[u] /\ body[u] # "dead" /\ body[u] \in Body
      BY <1>1, <2>2, <3>1, <3>2 DEF IInv, TypeOK, Passed, Undisturbed
    <3> QED BY <3>2, <3>3 DEF Body, Passed, Looking
  <2> QED BY <2>1, <2>2 DEF Idling
<1>7. ~Clustered => Finding'
  BY <1>1 DEF IInv, Finding, Registered, Begun, TypeOK, Lister
<1>8. ~Clustered => Keeping'
  BY <1>1, <1>2 DEF IInv, Finding, Registered, Keeping, Untouched, Handled, Running, HomeOf, TypeOK
<1>9. ~Clustered => Stopping'
  BY <1>1, ListerAssumption DEF IInv, Stopping, Handled, Running, Begun, HomeOf, TypeOK, Lister
<1>10. Targeting'
  BY <1>1 DEF IInv, Targeting
<1> QED BY <1>3, <1>4, <1>5, <1>6, <1>7, <1>8, <1>9, <1>10 DEF IInv

LEMMA EmitKeeps == ASSUME IInv, NEW t \in Task, Emit(t) PROVE IInv'
<1>1. /\ body[t] = "emitting" /\ Alive(t)
      /\ shown' = FALSE
      /\ body' = [body EXCEPT ![t] = "over"]
      /\ UNCHANGED <<marker, index, members, local, save, asked, home,
                     announced, up, hears, inbox, spc, todo, seen, due,
                     targeted, missed, early>>
  BY DEF Emit, Become, record, worker, client, cluster, stopper, past
<1>2. TypeOK'
  BY <1>1 DEF IInv, TypeOK, Body
<1>3. Homes'
  BY <1>1 DEF IInv, Homes, Running, Alive, HomeOf, TypeOK
<1>4. Closing'
  BY <1>1 DEF IInv, Closing, Registered, Begun, TypeOK, Passed
<1>5. Idling'
  BY <1>1 DEF IInv, Idling, Undisturbed, TypeOK, Looking
<1>6. ~Clustered => Finding'
  BY <1>1 DEF IInv, Finding, Registered, Begun, TypeOK
<1>7. ~Clustered => Keeping'
  BY <1>1 DEF IInv, Keeping, Untouched, Handled, Running, HomeOf, TypeOK
<1>8. ~Clustered => Stopping'
  BY <1>1 DEF IInv, Stopping, Handled, Running, Begun, HomeOf, TypeOK
<1>9. Targeting'
  BY <1>1 DEF IInv, Targeting
<1> QED BY <1>2, <1>3, <1>4, <1>5, <1>6, <1>7, <1>8, <1>9 DEF IInv

LEMMA CallbackKeeps == ASSUME IInv, NEW t \in Task, Callback(t) PROVE IInv'
<1>1. /\ body[t] = "over" /\ Alive(t)
      /\ marker' = marker \ {t} /\ index' = index \ {t} /\ members' = members \ {t}
      /\ local' = local \ {t}
      /\ body' = [body EXCEPT ![t] = "gone"]
      /\ UNCHANGED <<save, asked, home, announced, shown, up, hears, inbox,
                     spc, todo, seen, due, targeted, missed, early>>
  BY DEF Callback, Become, Deregister, worker, client, cluster, stopper, past
<1>2. TypeOK'
  BY <1>1 DEF IInv, TypeOK, Body
<1>3. Homes'
  BY <1>1 DEF IInv, Homes, Running, Alive, HomeOf, TypeOK
<1>4. Closing'
  BY <1>1 DEF IInv, Closing, Registered, Begun, TypeOK, Passed
<1>5. Idling'
  BY <1>1 DEF IInv, Idling, Undisturbed, TypeOK, Looking
<1>6. ~Clustered => Finding'
  BY <1>1 DEF IInv, Finding, Registered, Begun, TypeOK
<1>7. ~Clustered => Keeping'
  BY <1>1 DEF IInv, Keeping, Untouched, Handled, Running, HomeOf, TypeOK
<1>8. ~Clustered => Stopping'
  BY <1>1 DEF IInv, Stopping, Handled, Running, Begun, HomeOf, TypeOK
<1>9. Targeting'
  BY <1>1 DEF IInv, Targeting
<1> QED BY <1>2, <1>3, <1>4, <1>5, <1>6, <1>7, <1>8, <1>9 DEF IInv

LEMMA ExpireKeeps == ASSUME IInv, NEW t \in Task, Expire(t) PROVE IInv'
<1>1. /\ t \in marker /\ ~Refreshed(t) /\ marker' = marker \ {t}
      /\ UNCHANGED <<index, members, local, save, body, asked, home,
                     announced, shown, up, hears, inbox, spc, todo, seen, due,
                     targeted, missed, early>>
  BY DEF Expire, record, worker, client, cluster, stopper, past
<1>2. TypeOK'
  BY <1>1 DEF IInv, TypeOK
<1>3. Closing'
  BY <1>1 DEF IInv, Closing, Registered, Begun, TypeOK
<1>4. ~Clustered => Keeping'
  BY <1>1 DEF IInv, Homes, Refreshed, Keeping, Untouched, Handled, Running, HomeOf, TypeOK
<1>5. Homes' /\ Targeting' /\ Idling' /\ (~Clustered => Finding' /\ Stopping')
  BY <1>1 DEF IInv, Homes, Running, Alive, HomeOf, Targeting, Idling,
              Undisturbed, Finding, Registered, Begun, Stopping, Handled
<1> QED BY <1>2, <1>3, <1>4, <1>5 DEF IInv

LEMMA StopMembersKeeps == ASSUME IInv, NEW s \in Stopper, StopMembers(s) PROVE IInv'
<1>1. /\ spc[s] = "idle"
      /\ seen' = [seen EXCEPT ![s] = members]
      /\ spc' = [spc EXCEPT ![s] = "listing"]
      /\ due' = [due EXCEPT ![s] = {t \in Task : Running(t) /\ Registered(t) /\ Alive(t)}]
      /\ UNCHANGED <<marker, index, members, local, save, body, asked, home,
                     announced, shown, up, hears, inbox, todo, targeted,
                     missed, early>>
  BY DEF StopMembers, record, worker, client, cluster, stopper, past
<1>2. TypeOK'
  BY <1>1 DEF IInv, TypeOK, Lister
<1>3. ~Clustered => Finding'
  BY <1>1 DEF IInv, Finding, Registered, Begun, TypeOK, Lister
<1>4. ASSUME ~Clustered PROVE Stopping'
  <2>1. Finding /\ Keeping /\ Stopping /\ s \in Lister
    BY <1>4 DEF IInv, Lister
  <2> QED BY <1>1, <2>1 DEF IInv, TypeOK, Lister, Stopping, Keeping, Untouched, Registered,
                            Handled, Running, Begun, HomeOf
<1>5. Homes' /\ Targeting' /\ Closing' /\ Idling' /\ (~Clustered => Keeping')
  BY <1>1 DEF IInv, Homes, Running, Alive, HomeOf, Targeting, Closing,
              Registered, Begun, Idling, Undisturbed, Keeping, Untouched,
              Handled
<1> QED BY <1>2, <1>3, <1>4, <1>5 DEF IInv

LEMMA StopMarkersKeeps == ASSUME IInv, NEW s \in Stopper, StopMarkers(s) PROVE IInv'
<1>1. /\ spc[s] = "listing"
      /\ todo' = [todo EXCEPT ![s] = seen[s] \cap marker]
      /\ targeted' = targeted \cup (seen[s] \cap marker)
      /\ marker' = marker \ (seen[s] \ marker) /\ index' = index \ (seen[s] \ marker) /\ members' = members \ (seen[s] \ marker)
      /\ seen' = [seen EXCEPT ![s] = {}]
      /\ spc' = [spc EXCEPT ![s] = "stopping"]
      /\ UNCHANGED <<local, save, body, asked, home, announced, shown, up,
                     hears, inbox, due, missed, early>>
  BY DEF StopMarkers, Deregister, worker, client, cluster, past
<1>2. s \in Lister
  BY DEF Lister
<1>3. TypeOK'
  BY <1>1, <1>2 DEF IInv, TypeOK
<1>4. Targeting'
  BY <1>1 DEF IInv, Targeting, TypeOK
<1>5. Closing'
  BY <1>1 DEF IInv, Closing, Registered, Begun, TypeOK
<1>6. Idling'
  BY <1>1 DEF IInv, Idling, Undisturbed, TypeOK
<1>7. ~Clustered => Finding'
  BY <1>1, <1>2 DEF IInv, Finding, Registered, Begun, TypeOK, Lister
<1>8. ~Clustered => Keeping'
  BY <1>1, <1>2 DEF IInv, Finding, Registered, Keeping, Untouched, Handled, Running, HomeOf, TypeOK
<1>9. ~Clustered => Stopping'
  BY <1>1, <1>2 DEF IInv, Finding, Keeping, Untouched, Registered, Stopping, Handled, Running, Begun, HomeOf, TypeOK
<1>10. Homes'
  BY <1>1 DEF IInv, Homes, Running, Alive, HomeOf
<1> QED BY <1>3, <1>4, <1>5, <1>6, <1>7, <1>8, <1>9, <1>10 DEF IInv

LEMMA StopPublishKeeps == ASSUME IInv, NEW s \in Stopper, NEW t \in Task, StopPublish(s, t) PROVE IInv'
<1>1. /\ spc[s] = "stopping" /\ t \in todo[s]
      /\ inbox' = [i \in Instance |-> IF i \in hears THEN inbox[i] \cup {t} ELSE inbox[i]]
      /\ missed' = (missed \/ ~(up \subseteq hears))
      /\ spc' = [spc EXCEPT ![s] = "published"]
      /\ todo' = [todo EXCEPT ![s] = @ \ {t}]
      /\ seen' = [seen EXCEPT ![s] = {t}]
      /\ UNCHANGED <<marker, index, members, local, save, body, asked, home,
                     announced, shown, up, hears, due, targeted, early>>
  BY DEF StopPublish, Publish, record, worker, client, cluster, past
<1>2. s \in Lister
  BY DEF Lister
<1>3. \A u \in Task : HomeOf(u) \in Instance /\ HomeOf(u)' = HomeOf(u)
  BY <1>1, HomeExists DEF IInv, HomeOf
<1>4. \A u \in Task : Handled(u) => Handled(u)'
  BY <1>1, <1>3 DEF IInv, TypeOK, Handled
<1>5. missed' \in BOOLEAN /\ (~missed' => ~missed /\ (Running(t) => Handled(t)'))
  BY <1>1, <1>3 DEF IInv, TypeOK, Handled, Homes, Alive
<1>6. TypeOK'
  BY <1>1, <1>2, <1>5 DEF IInv, TypeOK
<1>7. Targeting'
  BY <1>1 DEF IInv, Targeting, TypeOK
<1>8. ~Clustered => Finding'
  BY <1>1, <1>2 DEF IInv, Finding, Targeting, Registered, Begun, TypeOK, Lister
<1>9. ~Clustered => Keeping'
  BY <1>1, <1>4, <1>5 DEF IInv, Keeping, Untouched, Running, TypeOK
<1>10. ~Clustered => Stopping'
  BY <1>1, <1>2, <1>4, <1>5 DEF IInv, Stopping, Targeting, Running, Begun, TypeOK
<1>11. Homes' /\ Closing' /\ Idling'
  BY <1>1 DEF IInv, Homes, Running, Alive, HomeOf, Closing, Registered, Begun,
              Idling, Undisturbed
<1> QED BY <1>6, <1>7, <1>8, <1>9, <1>10, <1>11 DEF IInv

LEMMA StopDeregisterKeeps == ASSUME IInv, NEW s \in Stopper, StopDeregister(s) PROVE IInv'
<1>1. /\ spc[s] = "published"
      /\ marker' = marker \ seen[s] /\ index' = index \ seen[s] /\ members' = members \ seen[s]
      /\ spc' = [spc EXCEPT ![s] = IF todo[s] = {} THEN "over" ELSE "stopping"]
      /\ seen' = [seen EXCEPT ![s] = {}]
      /\ UNCHANGED <<local, save, body, asked, home, announced, shown, up,
                     hears, inbox, todo, due, targeted, missed, early>>
  BY DEF StopDeregister, Deregister, AfterStopped, worker, client, cluster, stopper, past
<1>2. s \in Lister
  BY DEF Lister
<1>3. TypeOK'
  BY <1>1, <1>2 DEF IInv, TypeOK
<1>4. Closing'
  BY <1>1 DEF IInv, Closing, Registered, Begun, TypeOK
<1>5. ~Clustered => Finding'
  BY <1>1, <1>2 DEF IInv, Finding, Registered, Begun, TypeOK, Lister
<1>6. ~Clustered => Keeping'
  BY <1>1 DEF IInv, Stopping, Keeping, Untouched, Handled, Running, HomeOf, TypeOK
<1>7. ~Clustered => Stopping'
  BY <1>1 DEF IInv, Stopping, Handled, Running, Begun, HomeOf, TypeOK
<1>8. Homes' /\ Targeting' /\ Idling'
  BY <1>1 DEF IInv, Homes, Running, Alive, HomeOf, Targeting, Idling,
              Undisturbed
<1> QED BY <1>3, <1>4, <1>5, <1>6, <1>7, <1>8 DEF IInv

LEMMA StopNoneKeeps == ASSUME IInv, NEW s \in Stopper, StopNone(s) PROVE IInv'
<1>1. /\ spc[s] = "stopping" /\ todo[s] = {}
      /\ spc' = [spc EXCEPT ![s] = "over"]
      /\ UNCHANGED <<marker, index, members, local, save, body, asked, home,
                     announced, shown, up, hears, inbox, todo, seen, due,
                     targeted, missed, early>>
  BY DEF StopNone, record, worker, client, cluster, stopper, past
<1>2. TypeOK'
  BY <1>1 DEF IInv, TypeOK
<1>3. ~Clustered => Stopping'
  BY <1>1 DEF IInv, Stopping, Handled, Running, Begun, HomeOf, TypeOK
<1>4. Homes' /\ Targeting' /\ Closing' /\ Idling' /\ (~Clustered => Finding' /\ Keeping')
  BY <1>1 DEF IInv, Homes, Running, Alive, HomeOf, Targeting, Closing,
              Registered, Begun, Idling, Undisturbed, Finding, Keeping,
              Untouched, Handled
<1> QED BY <1>2, <1>3, <1>4 DEF IInv

LEMMA ListenKeeps == ASSUME IInv, NEW i \in Instance, NEW t \in Task, Listen(i, t) PROVE IInv'
<1>1. /\ i \in hears /\ t \in inbox[i]
      /\ inbox' = [inbox EXCEPT ![i] = @ \ {t}]
      /\ asked' = IF t \in local /\ HomeOf(t) = i /\ ~Ended(t) THEN asked \cup {t} ELSE asked
      /\ UNCHANGED <<marker, index, members, local, save, body, home,
                     announced, shown, up, hears, spc, todo, seen, due,
                     targeted, missed, early>>
  BY DEF Listen, record, worker, client, cluster, stopper, past
<1>2. \A u \in Task : Running(u) /\ Handled(u) => Handled(u)'
  BY <1>1 DEF IInv, TypeOK, Homes, Handled, HomeOf, Running, Ended
<1>3. TypeOK'
  BY <1>1 DEF IInv, TypeOK
<1>4. Targeting'
  BY <1>1 DEF IInv, Targeting, TypeOK
<1>5. ~Clustered => Keeping'
  BY <1>1, <1>2 DEF IInv, Keeping, Untouched, Running, TypeOK
<1>6. ~Clustered => Stopping'
  BY <1>1, <1>2 DEF IInv, Stopping, Running, Begun, TypeOK
<1>7. Homes' /\ Closing' /\ Idling' /\ (~Clustered => Finding')
  BY <1>1 DEF IInv, Homes, Running, Alive, HomeOf, Closing, Registered, Begun,
              Idling, Undisturbed, Finding
<1> QED BY <1>3, <1>4, <1>5, <1>6, <1>7 DEF IInv

LEMMA DisconnectKeeps == ASSUME IInv, NEW i \in Instance, Disconnect(i) PROVE IInv'
<1>1. /\ i \in hears
      /\ hears' = hears \ {i}
      /\ missed' = (missed \/ inbox[i] # {})
      /\ inbox' = [inbox EXCEPT ![i] = {}]
      /\ UNCHANGED <<marker, index, members, local, save, body, asked, home,
                     announced, shown, up, spc, todo, seen, due, targeted,
                     early>>
  BY DEF Disconnect, record, worker, client, cluster, stopper, past
<1>2. ~missed' => ~missed /\ \A u \in Task : Handled(u) => Handled(u)'
  BY <1>1 DEF IInv, TypeOK, Handled, HomeOf
<1>3. TypeOK'
  BY <1>1 DEF IInv, TypeOK
<1>4. Targeting'
  BY <1>1 DEF IInv, Targeting, TypeOK
<1>5. ~Clustered => Keeping'
  BY <1>1, <1>2 DEF IInv, Keeping, Untouched, Running, TypeOK
<1>6. ~Clustered => Stopping'
  BY <1>1, <1>2 DEF IInv, Stopping, Running, Begun, TypeOK
<1>7. Homes' /\ Closing' /\ Idling' /\ (~Clustered => Finding')
  BY <1>1 DEF IInv, Homes, Running, Alive, HomeOf, Closing, Registered, Begun,
              Idling, Undisturbed, Finding
<1> QED BY <1>3, <1>4, <1>5, <1>6, <1>7 DEF IInv

LEMMA ReconnectKeeps == ASSUME IInv, NEW i \in Instance, Reconnect(i) PROVE IInv'
<1>1. /\ i \in up \ hears
      /\ hears' = hears \cup {i}
      /\ UNCHANGED <<marker, index, members, local, save, body, asked, home,
                     announced, shown, up, inbox, spc, todo, seen, due,
                     targeted, missed, early>>
  BY DEF Reconnect, record, worker, client, cluster, stopper, past
<1>2. TypeOK'
  BY <1>1 DEF IInv, TypeOK
<1>3. Homes' /\ Targeting' /\ Closing' /\ Idling' /\ (~Clustered => Finding' /\ Keeping' /\ Stopping')
  BY <1>1 DEF IInv, Homes, Running, Alive, HomeOf, Targeting, Closing,
              Registered, Begun, Idling, Undisturbed, Finding, Keeping,
              Untouched, Handled, Stopping
<1> QED BY <1>2, <1>3 DEF IInv

LEMMA AnnounceKeeps == ASSUME IInv, NEW q \in Request, Announce(q) PROVE IInv'
<1>1. /\ \A t \in q : Registered(t)
      /\ announced' = announced \cup {q}
      /\ shown' = TRUE
      /\ early' = (early \/ \E t \in q : ~Running(t))
      /\ UNCHANGED <<marker, index, members, local, save, body, asked, home,
                     up, hears, inbox, spc, todo, seen, due, targeted,
                     missed>>
  BY DEF Announce, record, worker, cluster, stopper, past
<1>2. \A t \in Task : RequestOf(t) \in announced' => RequestOf(t) \in announced \/ t \in q
  BY <1>1, RequestExists
<1>3. early' \in BOOLEAN /\ (~early' => ~early /\ \A t \in q : Running(t))
  BY <1>1 DEF IInv, TypeOK
<1>4. TypeOK'
  BY <1>1, <1>3 DEF IInv, TypeOK
<1>5. Closing'
  BY <1>1, <1>2, <1>3 DEF IInv, Closing, Registered, Begun, Running, Passed
<1>6. Idling'
  <2>1. PICK t \in Task : t \in q
    BY RequestAssumption
  <2> QED BY <1>1, <1>3, <2>1 DEF Idling, Undisturbed, Looking, Running
<1>7. Homes' /\ Targeting' /\ (~Clustered => Finding' /\ Keeping' /\ Stopping')
  BY <1>1 DEF IInv, Homes, Running, Alive, HomeOf, Targeting, Finding,
              Registered, Begun, Keeping, Untouched, Handled, Stopping
<1> QED BY <1>4, <1>5, <1>6, <1>7 DEF IInv

LEMMA CrashKeeps == ASSUME IInv, NEW i \in Instance, Crash(i) PROVE IInv'
<1>1. /\ i \in up
      /\ up' = up \ {i}
      /\ hears' = hears \ {i}
      /\ inbox' = [inbox EXCEPT ![i] = {}]
      /\ local' = local \ {t \in Task : HomeOf(t) = i}
      /\ body' = [t \in Task |-> IF HomeOf(t) = i /\ Begun(t) THEN "dead" ELSE body[t]]
      /\ save' = [t \in Task |-> IF HomeOf(t) = i THEN {} ELSE save[t]]
      /\ asked' = asked \ {t \in Task : HomeOf(t) = i}
      /\ seen' = [l \in Lister |-> IF l \in Task /\ HomeOf(l) = i THEN {} ELSE seen[l]]
      /\ UNCHANGED <<marker, index, members, home, announced, shown, spc,
                     todo, due, targeted, missed, early>>
  BY DEF Crash, record, client, cluster, stopper, past
<1>2. TypeOK /\ \A t \in Task : home[RequestOf(t)] \in Instance
  BY HomeExists DEF IInv, HomeOf
<1>3. ASSUME NEW t \in Task
      PROVE  /\ home[RequestOf(t)] = i => body'[t] \in {"none", "dead"} /\ save'[t] = {} /\ seen'[t] = {}
             /\ home[RequestOf(t)] # i =>
                  /\ body'[t] = body[t] /\ save'[t] = save[t] /\ (t \in local => t \in local')
                  /\ t \in asked => t \in asked'
                  /\ inbox'[home[RequestOf(t)]] = inbox[home[RequestOf(t)]]
             /\ body'[t] = "none" <=> body[t] = "none"
             /\ seen'[t] \subseteq seen[t]
  BY <1>1, <1>2 DEF TypeOK, HomeOf, Begun, Body, Lister
<1>4. \A s \in Stopper : seen'[s] = seen[s]
  BY <1>1, ListerAssumption DEF Lister
<1>5. TypeOK'
  BY <1>1 DEF IInv, TypeOK, Body
<1>6. Homes'
  BY <1>1, <1>3 DEF IInv, Homes, Alive, Running, HomeOf
<1>7. Targeting'
  BY <1>1 DEF IInv, Targeting, TypeOK
<1>8. Closing'
  BY <1>1, <1>2, <1>3 DEF IInv, Closing, Registered, Begun, TypeOK, Passed
<1>9. Idling'
  BY <1>1 DEF IInv, Idling, Undisturbed, TypeOK, Looking
<1>10. ~Clustered => Finding'
  BY <1>1, <1>2, <1>3, <1>4 DEF IInv, Finding, Registered, Begun, TypeOK, Lister
<1>11. ~Clustered => Keeping'
  BY <1>1, <1>3 DEF IInv, Keeping, Untouched, Handled, HomeOf, Running
<1>12. ASSUME ~Clustered PROVE Stopping'
  <2>1. Stopping /\ \A s \in Stopper : due[s] \subseteq Task /\ seen[s] \subseteq Task
    BY <1>12, <1>2 DEF IInv, TypeOK, Lister
  <2>2. ASSUME NEW t \in Task
        PROVE  /\ Running(t)' => Running(t)
               /\ Running(t)' /\ Handled(t) => Handled(t)'
               /\ Begun(t) => Begun(t)'
    BY <1>1, <1>2, <1>3 DEF Handled, HomeOf, Running, Begun
  <2>3. ASSUME NEW s \in Stopper, spc[s] = "published", NEW t \in seen[s]
        PROVE  t \in targeted /\ (~missed /\ Running(t)' => Handled(t)')
    BY <2>1, <2>2, <2>3 DEF Stopping
  <2>4. ASSUME NEW s \in Stopper, NEW t \in due[s], ~missed, Running(t)'
        PROVE  \/ Handled(t)'
               \/ spc[s] = "listing" /\ t \in seen[s]
               \/ spc[s] \in {"stopping", "published"} /\ t \in todo[s]
    BY <2>1, <2>2, <2>4 DEF Stopping
  <2>5. \A s \in Stopper : \A t \in due[s] : Begun(t)'
    BY <2>1, <2>2 DEF Stopping
  <2> QED BY <1>1, <1>4, <2>1, <2>3, <2>4, <2>5 DEF Stopping
<1> QED BY <1>5, <1>6, <1>7, <1>8, <1>9, <1>10, <1>11, <1>12 DEF IInv

LEMMA SaveKeeps == ASSUME IInv, NEW t \in Task, Save(t) PROVE IInv'
<1>1. PICK c \in NextCommands(save[t]) :
        /\ save' = [save EXCEPT ![t] = @ \ {c}]
        /\ marker'  = IF c = "marker"  THEN marker \cup {t}  ELSE marker
        /\ index'   = IF c = "index"   THEN index \cup {t}   ELSE index
        /\ members' = IF c = "members" THEN members \cup {t} ELSE members
        /\ UNCHANGED <<local, body, asked, home, announced, shown, up, hears, inbox, spc,
                       todo, seen, due, targeted, missed, early>>
  BY DEF Save, client, cluster, stopper, past
<1>2. TypeOK /\ save[t] \subseteq Command
  BY DEF IInv, TypeOK
<1>3. c \in save[t] /\ (~Clustered /\ c = "members" => save[t] = {"members"})
  BY <1>2, ClusterAssumption DEF NextCommands, InOrder, AnyOrder, Command
<1>4. Begun(t) /\ RequestOf(t) \notin announced
  BY <1>3 DEF IInv, Closing, Registered
<1>5. TypeOK'
  BY <1>1, <1>2 DEF TypeOK
<1>6. Closing'
  BY <1>1, <1>2, <1>4 DEF IInv, Closing, Registered, Begun, TypeOK
<1>7. ~Clustered => Finding'
  BY <1>1, <1>2, <1>3, <1>4 DEF IInv, Finding, Registered, Begun, TypeOK
<1>8. ~Clustered => Keeping'
  BY <1>1, <1>2 DEF IInv, Keeping, Untouched, Handled, Running, HomeOf, TypeOK
<1>9. Homes' /\ Targeting' /\ Idling' /\ (~Clustered => Stopping')
  BY <1>1 DEF IInv, Homes, Running, Alive, HomeOf, Targeting, Idling, Undisturbed, Stopping,
              Handled, Begun
<1> QED BY <1>5, <1>6, <1>7, <1>8, <1>9 DEF IInv

-----------------------------------------------------------------------------
(* The theorems. *)

\* No task has begun.
LEMMA InitHolds == Init => IInv
<1> SUFFICES ASSUME Init PROVE IInv
  OBVIOUS
<1>1. TypeOK /\ Homes /\ Targeting /\ Closing /\ Idling
  BY DEF Init, TypeOK, Body, Homes, Running, Targeting, Closing, Registered, Begun, Passed, Idling
<1>2. Finding /\ Keeping /\ Stopping
  BY DEF Init, Finding, Keeping, Untouched, Running, Stopping, Registered, Lister
<1> QED BY <1>1, <1>2 DEF IInv

LEMMA StutterHolds == ASSUME IInv, UNCHANGED vars PROVE IInv'
<1>1. UNCHANGED <<marker, index, members, local, save, body, asked, home, announced, shown, up,
                  hears, inbox, spc, todo, seen, due, targeted, missed, early>>
  BY DEF vars, record, worker, client, cluster, stopper, past
<1>2. TypeOK' /\ Homes' /\ Targeting'
  BY <1>1 DEF IInv, TypeOK, Homes, Running, Alive, HomeOf, Targeting
<1>3. Closing' /\ Idling'
  BY <1>1 DEF IInv, Closing, Registered, Begun, Idling, Undisturbed
<1>4. ~Clustered => Finding' /\ Keeping' /\ Stopping'
  BY <1>1 DEF IInv, Finding, Registered, Begun, Keeping, Untouched, Running, Handled, HomeOf, Stopping
<1> QED BY <1>2, <1>3, <1>4 DEF IInv

LEMMA StepHolds == IInv /\ [Next]_vars => IInv'
<1> SUFFICES ASSUME IInv, [Next]_vars PROVE IInv'
  OBVIOUS
<1>1. ASSUME NEW t \in Task, Create(t) \/ Save(t) \/ Worker(t) \/ Expire(t) PROVE IInv'
  <2>1. CASE Create(t) \/ Save(t) \/ Expire(t)
    BY <2>1, CreateKeeps, SaveKeeps, ExpireKeeps
  <2>2. CASE Worker(t)
    BY <2>2, BeginKeeps, EndKeeps, CancelKeeps, CloseKeeps, CheckMembersKeeps, CheckMarkersKeeps,
       EmitKeeps, CallbackKeeps DEF Worker
  <2> QED BY <1>1, <2>1, <2>2
<1>2. ASSUME NEW q \in Request, Announce(q) PROVE IInv'
  BY <1>2, AnnounceKeeps
<1>3. ASSUME NEW s \in Stopper, Stop(s) PROVE IInv'
  BY <1>3, StopMembersKeeps, StopMarkersKeeps, StopPublishKeeps, StopDeregisterKeeps, StopNoneKeeps
     DEF Stop
<1>4. ASSUME NEW i \in Instance,
             (\E t \in Task : Listen(i, t)) \/ Disconnect(i) \/ Reconnect(i) \/ Crash(i)
      PROVE  IInv'
  BY <1>4, ListenKeeps, DisconnectKeeps, ReconnectKeeps, CrashKeeps
<1>5. CASE UNCHANGED vars
  BY <1>5, StutterHolds
<1> QED BY <1>1, <1>2, <1>3, <1>4, <1>5 DEF Next

\* The invariant of tasks, records, stop requests and announcements.
THEOREM Invariance == Spec => []IInv
<1> QED BY InitHolds, StepHolds, PTL DEF Spec

\* The variables keep their types.
THEOREM TypeCorrect == Spec => []TypeOK
<1>1. IInv => TypeOK
  BY DEF IInv
<1> QED BY <1>1, Invariance, PTL

\* On one Redis, every listing finds a task that runs and that nobody stopped,
\* whoever deregisters tasks and prunes the records of others meanwhile.
THEOREM ListsRunning == ASSUME ~Clustered PROVE Spec => []RunningIsListed
<1>1. IInv => RunningIsListed
  <2> SUFFICES ASSUME IInv, NEW t \in Task, Running(t), Registered(t), t \notin targeted
               PROVE  Listed(t) /\ t \in index
    BY DEF RunningIsListed
  <2> QED BY DEF IInv, Keeping, Untouched, Registered, Listed
<1> QED BY <1>1, Invariance, PTL

\* On one Redis, a stop request that is over has cancelled every task that was
\* registered and ran when it began, also where several requests stop the same
\* tasks, if the instances were listening.
THEOREM StopsAll == ASSUME ~Clustered PROVE Spec => []StopTakesEffect
<1>1. IInv => StopTakesEffect
  <2> SUFFICES ASSUME IInv, ~missed, NEW s \in Stopper, spc[s] = "over", NEW t \in due[s], Running(t)
               PROVE  Handled(t)
    BY DEF StopTakesEffect, Handled
  <2> QED BY DEF IInv, Stopping
<1> QED BY <1>1, Invariance, PTL

\* The last of several tasks to end tells the clients that the chat is idle,
\* in whatever order they deregister themselves and look at the others.
THEOREM ShowsIdle == Spec => []IdleIsShown
<1>1. IInv => IdleIsShown
  BY DEF IInv, IdleIsShown, Quiet, Idling, Undisturbed, Looking
<1> QED BY <1>1, Invariance, PTL
===============================================================================
