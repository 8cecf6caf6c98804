---------------------------- MODULE TaskRegistry ----------------------------
(***************************************************************************)
(* The registry of a chat's response tasks, shared through Redis.          *)
(*                                                                         *)
(* A chat completion request starts one asyncio task per model.  A task is *)
(* in the local table of its instance, and has a record in Redis: a marker *)
(* that expires unless the instance refreshes it, an entry in the index of *)
(* all tasks, and a membership in the set of its chat.  A stop request     *)
(* lists the chat's tasks, publishes one command per task to all instances *)
(* and deletes the records.  A task that ends deregisters itself and tells *)
(* the clients that the chat is idle if no task of it is left.             *)
(*                                                                         *)
(* All tasks here belong to one chat.                                      *)
(***************************************************************************)
CONSTANTS
    Task,       \* the response tasks
    Request,    \* the completion requests: each one is the set of its tasks
    Instance,   \* the server instances
    Stopper,    \* the stop requests
    Clustered   \* Redis is a cluster: a pipeline's commands go to several nodes

ASSUME RequestAssumption ==
    /\ Request \subseteq SUBSET Task /\ {} \notin Request
    /\ \A t \in Task : \E q \in Request : t \in q
    /\ \A p, q \in Request : p # q => p \cap q = {}
ASSUME ListerAssumption  == Task \cap Stopper = {}
ASSUME ClusterAssumption == Clustered \in BOOLEAN

VARIABLES
    marker, index, members,  \* the three parts of the records in Redis
    local,      \* the tasks in the local table of their instance
    save,       \* the commands of a record's creation that Redis has yet to run
    body,       \* how far each task's coroutine is
    asked,      \* the tasks for which cancel() was called, not yet delivered
    home,       \* the instance that serves a request
    announced,  \* the requests that told the clients the chat is active
    shown,      \* what the last chat:active event told the clients
    up,         \* the instances that are alive
    hears,      \* the instances whose command listener is subscribed
    inbox,      \* the commands an instance has received and not handled
    spc,        \* where each stop request is
    todo,       \* the tasks a stop request has yet to stop
    seen,       \* the set members that a listing has fetched
    due,        \* history: the tasks a stop request was to stop
    targeted,   \* history: the tasks that some stop request has listed
    missed,     \* history: a command was published that an instance did not hear
    early       \* history: a task had ended before its request announced it

record  == <<marker, index, members>>
worker  == <<local, save, body, asked>>
client  == <<announced, shown>>
cluster == <<home, up, hears, inbox>>
stopper == <<spc, todo>>
past    == <<due, targeted, missed, early>>
vars    == <<record, worker, client, cluster, stopper, seen, past>>

-----------------------------------------------------------------------------
Command == {"marker", "index", "members"}
Lister  == Task \cup Stopper

RequestOf(t) == CHOOSE q \in Request : t \in q
HomeOf(t)    == home[RequestOf(t)]
Alive(t)     == HomeOf(t) \in up

Begun(t)   == body[t] # "none"
Running(t) == body[t] \in {"created", "running"}
Ended(t)   == body[t] \in {"over", "gone", "dead"}
Listed(t)  == t \in marker /\ t \in members
Registered(t) == Begun(t) /\ save[t] = {}

\* redis_cleanup_task: the records of the tasks in S are deleted.
Deregister(S) ==
    /\ marker' = marker \ S
    /\ index' = index \ S
    /\ members' = members \ S

-----------------------------------------------------------------------------
(* create_task and the request that calls it once per model.               *)

Create(t) ==
    LET q == RequestOf(t) IN
    /\ ~Begun(t)
    /\ q \notin announced
    /\ home[q] \in up
    /\ \A o \in q : save[o] = {}
    /\ body' = [body EXCEPT ![t] = "created"]
    /\ local' = local \cup {t}
    /\ save' = [save EXCEPT ![t] = Command]
    /\ UNCHANGED <<record, asked, client, cluster, stopper, seen, past>>

\* redis_save_task's pipeline: one Redis runs it in order; the nodes of a
\* cluster each run their own part of it.
AnyOrder(left) == left
InOrder(left) ==
    IF "marker" \in left THEN {"marker"}
    ELSE IF "index" \in left THEN {"index"} ELSE left
NextCommands(left) == IF Clustered THEN AnyOrder(left) ELSE InOrder(left)

Save(t) ==
    \E c \in NextCommands(save[t]) :
        /\ save' = [save EXCEPT ![t] = @ \ {c}]
        /\ marker'  = IF c = "marker"  THEN marker \cup {t}  ELSE marker
        /\ index'   = IF c = "index"   THEN index \cup {t}   ELSE index
        /\ members' = IF c = "members" THEN members \cup {t} ELSE members
        /\ UNCHANGED <<local, body, asked, client, cluster, stopper, seen, past>>

\* chat:active = true, once all tasks of the request are created.
Announce(q) ==
    /\ q \notin announced
    /\ home[q] \in up
    /\ \A t \in q : Registered(t)
    /\ announced' = announced \cup {q}
    /\ shown' = TRUE
    /\ early' = (early \/ \E t \in q : ~Running(t))
    /\ UNCHANGED <<record, worker, cluster, stopper, seen, due, targeted, missed>>

-----------------------------------------------------------------------------
(* A response task: process_chat, and the cleanup when it is done.         *)

Become(t, b) == body' = [body EXCEPT ![t] = b]

Begin(t) ==
    /\ body[t] = "created" /\ Alive(t)
    /\ t \notin asked
    /\ Become(t, "running")
    /\ UNCHANGED <<record, local, save, asked, client, cluster, stopper, seen, past>>

\* The response ends, with success, with an error or cancelled.
End(t) ==
    /\ body[t] = "running" /\ Alive(t)
    /\ Become(t, "closing")
    /\ asked' = asked \ {t}
    /\ UNCHANGED <<record, local, save, client, cluster, stopper, seen, past>>

\* A cancellation that reaches the coroutine before its first step, or
\* while it deregisters itself, ends it at once.
Cancel(t) ==
    /\ t \in asked /\ Alive(t)
    /\ body[t] \in {"created", "closing", "closed", "checking", "emitting"}
    /\ Become(t, "over")
    /\ asked' = asked \ {t}
    /\ UNCHANGED <<record, local, save, client, cluster, stopper, seen, past>>

CloseLater(t) ==
    /\ body[t] = "closing" /\ Alive(t)
    /\ Become(t, "closed")
    /\ UNCHANGED <<record, local, save, asked, client, cluster, stopper, seen, past>>

\* cleanup_task: the record goes first, then the entry in the local table.
Close(t) ==
    /\ body[t] = "closing" /\ Alive(t)
    /\ Become(t, "closed")
    /\ Deregister({t})
    /\ UNCHANGED <<local, save, asked, client, cluster, stopper, seen, past>>

\* ... and the last task to go lists the members of the chat's set.
CheckMembers(t) ==
    /\ body[t] = "closed" /\ Alive(t)
    /\ local' = local \ {t}
    /\ seen' = [seen EXCEPT ![t] = members]
    /\ Become(t, "checking")
    /\ UNCHANGED <<record, save, asked, client, cluster, stopper, past>>

\* Expired tasks are removed by whoever lists them.
CheckMarkers(t) ==
    /\ body[t] = "checking" /\ Alive(t)
    /\ Deregister(seen[t] \ marker)
    /\ Become(t, IF seen[t] \cap marker = {} THEN "emitting" ELSE "over")
    /\ seen' = [seen EXCEPT ![t] = {}]
    /\ UNCHANGED <<local, save, asked, client, cluster, stopper, past>>

\* chat:active = false.
Emit(t) ==
    /\ body[t] = "emitting" /\ Alive(t)
    /\ shown' = FALSE
    /\ Become(t, "over")
    /\ UNCHANGED <<record, local, save, asked, announced, cluster, stopper, seen, past>>

\* The done callback runs cleanup_task once more.
Callback(t) ==
    /\ body[t] = "over" /\ Alive(t)
    /\ Deregister({t})
    /\ local' = local \ {t}
    /\ Become(t, "gone")
    /\ UNCHANGED <<save, asked, client, cluster, stopper, seen, past>>

-----------------------------------------------------------------------------
(* Stopping a chat from any instance.                                      *)

StopMembers(s) ==
    /\ spc[s] = "idle"
    /\ seen' = [seen EXCEPT ![s] = members]
    /\ spc' = [spc EXCEPT ![s] = "listing"]
    /\ due' = [due EXCEPT ![s] = {t \in Task : Running(t) /\ Registered(t) /\ Alive(t)}]
    /\ UNCHANGED <<record, worker, client, cluster, todo, targeted, missed, early>>

StopMarkers(s) ==
    /\ spc[s] = "listing"
    /\ todo' = [todo EXCEPT ![s] = seen[s] \cap marker]
    /\ targeted' = targeted \cup (seen[s] \cap marker)
    /\ Deregister(seen[s] \ marker)
    /\ seen' = [seen EXCEPT ![s] = {}]
    /\ spc' = [spc EXCEPT ![s] = "stopping"]
    /\ UNCHANGED <<worker, client, cluster, due, missed, early>>

\* redis_send_command: every subscribed instance receives the id of the task.
\* (The id that was asked to stop.)
PublishAsked(s, t) == inbox' = [i \in Instance |-> IF i \in hears THEN inbox[i] \cup {s} ELSE inbox[i]]
Publish(s, t) == inbox' = [i \in Instance |-> IF i \in hears THEN inbox[i] \cup {t} ELSE inbox[i]]
StopPublish(s, t) ==
    /\ spc[s] = "stopping"
    /\ t \in todo[s]
    /\ Publish(s, t)
    /\ missed' = (missed \/ ~(up \subseteq hears))
    /\ spc' = [spc EXCEPT ![s] = "published"]
    /\ todo' = [todo EXCEPT ![s] = @ \ {t}]
    /\ seen' = [seen EXCEPT ![s] = {t}]
    /\ UNCHANGED <<record, worker, client, home, up, hears, due, targeted, early>>

\* It deletes the record in any case; then comes the next task, if any.
AfterFirst(s) == "over"
AfterStopped(s) == IF todo[s] = {} THEN "over" ELSE "stopping"
StopDeregister(s) ==
    /\ spc[s] = "published"
    /\ Deregister(seen[s])
    /\ spc' = [spc EXCEPT ![s] = AfterStopped(s)]
    /\ seen' = [seen EXCEPT ![s] = {}]
    /\ UNCHANGED <<worker, client, cluster, todo, past>>

StopNone(s) ==
    /\ spc[s] = "stopping"
    /\ todo[s] = {}
    /\ spc' = [spc EXCEPT ![s] = "over"]
    /\ UNCHANGED <<record, worker, client, cluster, todo, seen, past>>

-----------------------------------------------------------------------------
(* The instances: command listener, heartbeat, crash.                      *)

Listen(i, t) ==
    /\ i \in hears
    /\ t \in inbox[i]
    /\ inbox' = [inbox EXCEPT ![i] = @ \ {t}]
    /\ asked' = IF t \in local /\ HomeOf(t) = i /\ ~Ended(t) THEN asked \cup {t} ELSE asked
    /\ UNCHANGED <<record, local, save, body, client, home, up, hears, stopper, seen, past>>

\* The connection to Redis drops: what was not handled is lost.
Disconnect(i) ==
    /\ i \in hears
    /\ hears' = hears \ {i}
    /\ missed' = (missed \/ inbox[i] # {})
    /\ inbox' = [inbox EXCEPT ![i] = {}]
    /\ UNCHANGED <<record, worker, client, home, up, stopper, seen, due, targeted, early>>

Reconnect(i) ==
    /\ i \in up \ hears
    /\ hears' = hears \cup {i}
    /\ UNCHANGED <<record, worker, client, home, up, inbox, stopper, seen, past>>

\* A marker expires unless a live instance has the task in its local table:
\* the heartbeat comes four times within the time to live.
RefreshedByAll(t) == t \in index /\ up # {}
Refreshed(t) == t \in local /\ Alive(t)
Expire(t) ==
    /\ t \in marker
    /\ ~Refreshed(t)
    /\ marker' = marker \ {t}
    /\ UNCHANGED <<index, members, worker, client, cluster, stopper, seen, past>>

Crash(i) ==
    /\ i \in up
    /\ up' = up \ {i}
    /\ hears' = hears \ {i}
    /\ inbox' = [inbox EXCEPT ![i] = {}]
    /\ LET lost == {t \in Task : HomeOf(t) = i} IN
         /\ local' = local \ lost
         /\ body' = [t \in Task |-> IF t \in lost /\ Begun(t) THEN "dead" ELSE body[t]]
         /\ save' = [t \in Task |-> IF t \in lost THEN {} ELSE save[t]]
         /\ asked' = asked \ lost
         /\ seen' = [l \in Lister |-> IF l \in lost THEN {} ELSE seen[l]]
    /\ UNCHANGED <<record, client, home, stopper, past>>

-----------------------------------------------------------------------------
Init ==
    /\ marker = {} /\ index = {} /\ members = {}
    /\ local = {}
    /\ save = [t \in Task |-> {}]
    /\ body = [t \in Task |-> "none"]
    /\ asked = {}
    /\ home \in [Request -> Instance]
    /\ announced = {}
    /\ shown = FALSE
    /\ up = Instance
    /\ hears = Instance
    /\ inbox = [i \in Instance |-> {}]
    /\ spc = [s \in Stopper |-> "idle"]
    /\ todo = [s \in Stopper |-> {}]
    /\ seen = [l \in Lister |-> {}]
    /\ due = [s \in Stopper |-> {}]
    /\ targeted = {}
    /\ missed = FALSE
    /\ early = FALSE

Worker(t) ==
    \/ Begin(t) \/ End(t) \/ Cancel(t)
    \/ Close(t) \/ CheckMembers(t) \/ CheckMarkers(t) \/ Emit(t) \/ Callback(t)

Stop(s) ==
    \/ StopMembers(s) \/ StopMarkers(s)
    \/ \E t \in Task : StopPublish(s, t)
    \/ StopDeregister(s) \/ StopNone(s)

Next ==
    \/ \E t \in Task : Create(t) \/ Save(t) \/ Worker(t) \/ Expire(t)
    \/ \E q \in Request : Announce(q)
    \/ \E s \in Stopper : Stop(s)
    \/ \E i \in Instance :
         \/ \E t \in Task : Listen(i, t)
         \/ Disconnect(i) \/ Reconnect(i) \/ Crash(i)

Spec == Init /\ [][Next]_vars

\* Redis runs the commands it was sent and expires keys; event loops keep
\* running; nobody has to stop a chat, and tasks may stream for ever.
FairSpec ==
    /\ Spec
    /\ \A t \in Task :
         /\ WF_vars(Save(t)) /\ WF_vars(Expire(t)) /\ WF_vars(Cancel(t))
         /\ WF_vars(Close(t) \/ CheckMembers(t) \/ CheckMarkers(t) \/ Emit(t) \/ Callback(t))

-----------------------------------------------------------------------------
(* Properties.                                                             *)

Body == {"none", "created", "running", "closing", "closed", "checking",
         "emitting", "over", "gone", "dead"}

TypeOK ==
    /\ marker \subseteq Task /\ index \subseteq Task /\ members \subseteq Task
    /\ local \subseteq Task
    /\ save \in [Task -> SUBSET Command]
    /\ body \in [Task -> Body]
    /\ asked \subseteq Task
    /\ home \in [Request -> Instance]
    /\ announced \subseteq Request
    /\ shown \in BOOLEAN
    /\ up \subseteq Instance /\ hears \subseteq up
    /\ inbox \in [Instance -> SUBSET Task]
    /\ spc \in [Stopper -> {"idle", "listing", "stopping", "published", "over"}]
    /\ todo \in [Stopper -> SUBSET Task]
    /\ seen \in [Lister -> SUBSET Task]
    /\ due \in [Stopper -> SUBSET Task]
    /\ targeted \subseteq Task
    /\ missed \in BOOLEAN
    /\ early \in BOOLEAN

\* A task that runs and that nobody has stopped is found by every listing,
\* although other tasks deregister themselves, listings prune what looks
\* expired and a cancelled or finished task deletes its record twice.
RunningIsListed ==
    \A t \in Task :
        Running(t) /\ Registered(t) /\ Alive(t) /\ t \notin targeted
        => Listed(t) /\ t \in index

\* A stop request reaches every task that was registered and running when
\* it began: once it is over, each of them has ended or is about to get its
\* cancellation (unless an instance was not listening).
StopTakesEffect ==
    ~missed => \A s \in Stopper : spc[s] = "over" => \A t \in due[s] :
        Running(t) => t \in asked \/ t \in inbox[HomeOf(t)]

\* When every request is answered and every task is gone, the last event
\* told the clients that the chat is idle, unless a task was stopped, died
\* or ended before its own request announced it.
Quiet == announced = Request /\ \A t \in Task : body[t] = "gone"
IdleIsShown == (Quiet /\ ~early /\ targeted = {}) => ~shown

\* The chat's indicator stays on while an announced task is running.  Not
\* so: the event of a task that found no other may come after the event of
\* the next request.
SpinnerWhileRunning ==
    \A t \in Task : Running(t) /\ RequestOf(t) \in announced => shown

\* The record of a task that has ended, in whatever way, does not keep the
\* chat active for ever.
EndedIsForgotten == \A t \in Task : Ended(t) ~> [](~Listed(t))
=============================================================================
