------------------------------ MODULE Subagents ------------------------------
(***************************************************************************)
(* Sub-agents that the model starts from one chat (utils/subagents.py).    *)
(*                                                                         *)
(* A delegation takes one of its process's slots, creates a hidden chat,   *)
(* and runs in a task of its own, which gives the slot back.  The model    *)
(* waits for a foreground agent.  A background agent stores its result in  *)
(* the chat; whoever next finds the chat idle (that agent, or a response   *)
(* task at its end) claims waiting results and starts a response to them.  *)
(* A lock per process, held from the check that the chat is idle until the *)
(* response is registered, keeps two couriers of one process apart; the    *)
(* chat's row is locked while results are stored or claimed.               *)
(*                                                                         *)
(* The chat, its owner and the owner's role stay as they are.              *)
(***************************************************************************)
EXTENDS Integers, FiniteSets

CONSTANTS
    Agent,          \* the delegations of the chat
    Background,     \* those in background mode
    Response,       \* the response tasks of the chat
    Instance,       \* the server processes
    MaxAsync,       \* subagents.max_async, when there is a limit
    MaxConcurrent,  \* subagents.max_concurrent, the same
    None            \* nobody

ASSUME AgentAssumption      == Background \subseteq Agent /\ IsFiniteSet(Agent)
ASSUME InstanceAssumption   == Instance # {}
ASSUME CapacityAssumption   == MaxAsync \in Nat \ {0} /\ MaxConcurrent \in Nat \ {0}
ASSUME CourierAssumption    == Agent \cap Response = {} /\ None \notin Agent \cup Response

VARIABLES
    pc,       \* where each delegation and each response task is
    home,     \* the process it runs in
    by,       \* the response that waits for a delegation
    active,   \* _background_active of each process
    free,     \* the permits left in the foreground semaphore of each process
    lock,     \* who holds the chat's lock in each process
    result,   \* a background agent's result: none, waiting in the chat, claimed
    batch,    \* the results a courier has claimed and not yet handed over
    given,    \* history: how often a result was given to the model (2: or more)
    auto,     \* history: the responses that couriers have started
    stray,    \* history: the delegations that were stopped while being created,
              \* or that run although their registration failed
    failed    \* history: a process died, or a courier was stopped or failed

slots == <<active, free>>
past  == <<given, auto, stray, failed>>
vars  == <<pc, home, by, slots, lock, result, batch, past>>

Courier == Agent \cup Response

-----------------------------------------------------------------------------
Goto(c, l) == pc' = [pc EXCEPT ![c] = l]

\* has_active_tasks: a response task of the chat is registered.
Busy == \E r \in Response : pc[r] = "answering"
Fresh == {r \in Response : pc[r] = "none"}

Unlocked(i) == lock[i] = None
Unlock(c) == lock' = [lock EXCEPT ![home[c]] = None]
LeaveLock(c) ==
    lock' = [i \in Instance |-> IF lock[i] = c THEN None ELSE lock[i]]

\* Results that hang under the same answer are claimed together; which ones do
\* is left open.
Waiting == {a \in Background : result[a] = "waiting"}
Batches == SUBSET Waiting \ {{}}

-----------------------------------------------------------------------------
(* Response tasks.                                                         *)

\* The user writes to the chat.  Bound: enough responses are left for results.
Ask(r) ==
    /\ r \in Fresh
    /\ Cardinality(Fresh) > Cardinality({a \in Background : given[a] = 0})
    /\ Goto(r, "answering")
    /\ \E i \in Instance : home' = [home EXCEPT ![r] = i]
    /\ UNCHANGED <<by, slots, lock, result, batch, past>>

\* The response is over, the task is deregistered and becomes a courier.
JustOver == "over"
AfterAnswer == "looking"
EndAnswer(r) ==
    /\ pc[r] = "answering"
    /\ \A a \in Agent : by[a] # r
    /\ Goto(r, AfterAnswer)
    /\ UNCHANGED <<home, by, slots, lock, result, batch, past>>

-----------------------------------------------------------------------------
(* Slots.  A semaphore counts permits, the set of active agents names them. *)

AnySlot(a, i) == a \in Background \/ free[i] > 0
HasSlot(a, i) ==
    IF a \in Background THEN Cardinality(active[i]) < MaxAsync ELSE free[i] > 0
Take(a, i) ==
    IF a \in Background
    THEN active' = [active EXCEPT ![i] = @ \cup {a}] /\ free' = free
    ELSE free' = [free EXCEPT ![i] = @ - 1] /\ active' = active
GiveBack(a) ==
    IF a \in Background
    THEN active' = [active EXCEPT ![home[a]] = @ \ {a}] /\ free' = free
    ELSE free' = [free EXCEPT ![home[a]] = @ + 1] /\ active' = active

\* A tool call of a response delegates, if its process has a slot left.
Delegate(a, r) ==
    /\ pc[a] = "none"
    /\ pc[r] = "answering"
    /\ HasSlot(a, home[r])
    /\ Take(a, home[r])
    /\ Goto(a, "creating")
    /\ home' = [home EXCEPT ![a] = home[r]]
    /\ by' = [by EXCEPT ![a] = r]
    /\ UNCHANGED <<lock, result, batch, past>>

\* The hidden chat cannot be created.
KeepSlot(a) == UNCHANGED slots
ReleaseUncreated(a) == GiveBack(a)
CreateFails(a) ==
    /\ pc[a] = "creating"
    /\ ReleaseUncreated(a)
    /\ Goto(a, "over")
    /\ by' = [by EXCEPT ![a] = None]
    /\ UNCHANGED <<home, lock, result, batch, past>>

\* The agent's task starts.  The model does not wait for a background agent.
Launch(a) ==
    /\ pc[a] = "creating"
    /\ Goto(a, "working")
    /\ by' = IF a \in Background THEN [by EXCEPT ![a] = None] ELSE by
    /\ UNCHANGED <<home, slots, lock, result, batch, past>>

\* create_task starts it, but cannot save its record: delegate gives the slot
\* back and returns an error, while the agent goes on.
LaunchFails(a) ==
    /\ pc[a] = "creating"
    /\ GiveBack(a)
    /\ Goto(a, "working")
    /\ by' = [by EXCEPT ![a] = None]
    /\ stray' = stray \cup {a}
    /\ UNCHANGED <<home, lock, result, batch, given, auto, failed>>

\* run_reserved ends, in whatever way, and gives the slot back.
Finish(a) ==
    /\ pc[a] = "working"
    /\ GiveBack(a)
    /\ Goto(a, IF a \in Background THEN "reporting" ELSE "over")
    /\ by' = [by EXCEPT ![a] = None]
    /\ UNCHANGED <<home, lock, result, batch, past>>

\* A response is stopped.  The cancellation passes by the handlers of delegate:
\* a delegation that is being created is abandoned with its slot.  Agents that
\* the response waits for are cancelled as well, and finish when they notice.
Stop(r) ==
    LET creating == {a \in Agent : by[a] = r /\ pc[a] = "creating"} IN
    /\ pc[r] = "answering"
    /\ pc' = [c \in Courier |-> IF c = r THEN AfterAnswer
                               ELSE IF c \in creating THEN "over" ELSE pc[c]]
    /\ by' = [a \in Agent |-> IF by[a] = r THEN None ELSE by[a]]
    /\ stray' = stray \cup creating
    /\ UNCHANGED <<home, slots, lock, result, batch, given, auto, failed>>

-----------------------------------------------------------------------------
(* The result of a background agent.                                       *)

LockToStore(a) ==
    /\ pc[a] = "reporting"
    /\ Unlocked(home[a])
    /\ lock' = [lock EXCEPT ![home[a]] = a]
    /\ Goto(a, "storing")
    /\ UNCHANGED <<home, by, slots, result, batch, past>>

\* The result becomes a message of the chat; then the agent looks at the chat.
Store(a) ==
    /\ pc[a] = "storing"
    /\ result' = [result EXCEPT ![a] = "waiting"]
    /\ Unlock(a)
    /\ Goto(a, "looking")
    /\ UNCHANGED <<home, by, slots, batch, past>>

-----------------------------------------------------------------------------
(* process_pending_internal_messages, and the check before it.             *)

Look(c) ==
    /\ pc[c] = "looking"
    /\ Goto(c, IF Busy THEN "over" ELSE "polling")
    /\ UNCHANGED <<home, by, slots, lock, result, batch, past>>

\* The loop that sleeps while the chat is busy.
Poll(c) ==
    /\ pc[c] = "polling"
    /\ ~Busy
    /\ Goto(c, "entering")
    /\ UNCHANGED <<home, by, slots, lock, result, batch, past>>

LockToClaim(c) ==
    /\ pc[c] = "entering"
    /\ Unlocked(home[c])
    /\ lock' = [lock EXCEPT ![home[c]] = c]
    /\ Goto(c, "inside")
    /\ UNCHANGED <<home, by, slots, result, batch, past>>

\* With the lock the courier looks again, and leaves a busy chat alone.
GoOnAlways == TRUE
GoOn == ~Busy
LookAgain(c) ==
    /\ pc[c] = "inside"
    /\ IF GoOn THEN Goto(c, "claiming") /\ lock' = lock
               ELSE Goto(c, "over") /\ Unlock(c)
    /\ UNCHANGED <<home, by, slots, result, batch, past>>

StillWaiting(a) == "waiting"
Taken(a) == "claimed"
Claim(c) ==
    /\ pc[c] = "claiming"
    /\ \/ /\ Waiting = {}
          /\ Goto(c, "over") /\ Unlock(c)
          /\ UNCHANGED <<result, batch>>
       \/ \E B \in Batches :
            /\ batch' = [batch EXCEPT ![c] = B]
            /\ result' = [a \in Agent |-> IF a \in B THEN Taken(a) ELSE result[a]]
            /\ Goto(c, "starting") /\ lock' = lock
    /\ UNCHANGED <<home, by, slots, past>>

\* The completion request registers a response task to the claimed results.
Respond(c, r) ==
    /\ pc[c] = "starting"
    /\ r \in Fresh
    /\ pc' = [pc EXCEPT ![c] = "over", ![r] = "answering"]
    /\ home' = [home EXCEPT ![r] = home[c]]
    /\ given' = [a \in Agent |-> IF a \notin batch[c] THEN given[a]
                                 ELSE IF given[a] = 0 THEN 1 ELSE 2]
    /\ auto' = auto \cup {r}
    /\ batch' = [batch EXCEPT ![c] = {}]
    /\ Unlock(c)
    /\ UNCHANGED <<by, slots, result, stray, failed>>

\* It fails; the exception ends the courier.
RespondFails(c) ==
    /\ pc[c] = "starting"
    /\ Goto(c, "over")
    /\ batch' = [batch EXCEPT ![c] = {}]
    /\ failed' = TRUE
    /\ Unlock(c)
    /\ UNCHANGED <<home, by, slots, result, given, auto, stray>>

\* A courier is cancelled: a background agent when it no longer works, or a
\* response task that a stop request had found before it was deregistered.
Delivering == {"reporting", "storing", "looking", "polling", "entering",
               "inside", "claiming", "starting"}
Cancel(c) ==
    /\ pc[c] \in Delivering
    /\ Goto(c, "over")
    /\ batch' = [batch EXCEPT ![c] = {}]
    /\ failed' = TRUE
    /\ LeaveLock(c)
    /\ UNCHANGED <<home, by, slots, result, given, auto, stray>>

\* A process dies with all that runs in it, and comes back.
Crash(i) ==
    LET dead == {c \in Courier : home[c] = i /\ pc[c] \notin {"none", "over"}} IN
    /\ dead # {}
    /\ pc' = [c \in Courier |-> IF c \in dead THEN "over" ELSE pc[c]]
    /\ by' = [a \in Agent |-> IF a \in dead THEN None ELSE by[a]]
    /\ active' = [active EXCEPT ![i] = {}]
    /\ free' = [free EXCEPT ![i] = MaxConcurrent]
    /\ lock' = [lock EXCEPT ![i] = None]
    /\ batch' = [c \in Courier |-> IF c \in dead THEN {} ELSE batch[c]]
    /\ failed' = TRUE
    /\ UNCHANGED <<home, result, given, auto, stray>>

-----------------------------------------------------------------------------
Init ==
    /\ pc = [c \in Courier |-> "none"]
    /\ home = [c \in Courier |-> CHOOSE i \in Instance : TRUE]
    /\ by = [a \in Agent |-> None]
    /\ active = [i \in Instance |-> {}]
    /\ free = [i \in Instance |-> MaxConcurrent]
    /\ lock = [i \in Instance |-> None]
    /\ result = [a \in Agent |-> "none"]
    /\ batch = [c \in Courier |-> {}]
    /\ given = [a \in Agent |-> 0]
    /\ auto = {}
    /\ stray = {}
    /\ failed = FALSE

Work(a) == CreateFails(a) \/ Launch(a) \/ LaunchFails(a) \/ Finish(a)

Deliver(c) ==
    \/ Look(c) \/ Poll(c) \/ LockToClaim(c) \/ LookAgain(c) \/ Claim(c)
    \/ RespondFails(c)
    \/ \E r \in Response : Respond(c, r)

Next ==
    \/ \E r \in Response :
         \/ Ask(r) \/ EndAnswer(r) \/ Stop(r)
         \/ \E a \in Agent : Delegate(a, r)
    \/ \E a \in Agent : Work(a) \/ LockToStore(a) \/ Store(a)
    \/ \E c \in Courier : Deliver(c) \/ Cancel(c)
    \/ \E i \in Instance : Crash(i)

Spec == Init /\ [][Next]_vars

\* Agents finish, responses end and couriers go on; nobody has to write,
\* delegate or stop.
FairSpec ==
    /\ Spec
    /\ \A a \in Agent : WF_vars(Work(a)) /\ WF_vars(LockToStore(a)) /\ WF_vars(Store(a))
    /\ \A r \in Response : WF_vars(EndAnswer(r))
    /\ \A c \in Courier : WF_vars(Deliver(c))

-----------------------------------------------------------------------------
(* Properties.                                                             *)

\* Every variable has its type, and max_async is kept by every process.
Place == {"none", "creating", "working", "answering", "over"} \cup Delivering

TypeOK ==
    /\ pc \in [Courier -> Place]
    /\ home \in [Courier -> Instance]
    /\ by \in [Agent -> Response \cup {None}]
    /\ active \in [Instance -> {S \in SUBSET Background : Cardinality(S) <= MaxAsync}]
    /\ free \in [Instance -> Nat]
    /\ lock \in [Instance -> Courier \cup {None}]
    /\ result \in [Agent -> {"none", "waiting", "claimed"}]
    /\ batch \in [Courier -> SUBSET Background]
    /\ given \in [Agent -> 0..2]
    /\ auto \subseteq Response
    /\ stray \subseteq Agent
    /\ failed \in BOOLEAN

\* Slots and agents at work always agree in each process, so that capacity is
\* neither exceeded nor lost, through failed creations, cancelled agents and
\* stopped responses; the two ways in which they part are excepted (stray).
AtWork(i) == {a \in Agent : home[a] = i /\ pc[a] \in {"creating", "working"}}
SlotsMatchWork ==
    \A i \in Instance : (\A a \in stray : home[a] # i) =>
        /\ active[i] = AtWork(i) \cap Background
        /\ free[i] = MaxConcurrent - Cardinality(AtWork(i) \ Background)

\* What delegate says when it refuses ("capacity reached (... running)").  Not
\* so once a response was stopped while it created a sub-agent: the slot of
\* an agent that does not run stays taken.
SlotsAreRunning == \A i \in Instance : active[i] \subseteq AtWork(i)

\* A result is given to the model at most once, although several couriers in
\* several processes look for results of the same chat.
GivenOnce == \A a \in Agent : given[a] <= 1

\* What couriers do with results, seen from the chat: see Mailbox.
InHand(a) == \E c \in Courier : a \in batch[c]
BoxOf(a) ==
    IF given[a] = 1 THEN "given"
    ELSE IF given[a] > 1 THEN "twice"
    ELSE IF result[a] = "none" THEN "none"
    ELSE IF result[a] = "waiting" \/ InHand(a) THEN "waiting" ELSE "lost"
Mail == INSTANCE Mailbox WITH Result <- Agent, box <- [a \in Agent |-> BoxOf(a)]

\* Whatever couriers of several processes claim, hand over, drop or leave
\* behind, the chat is a mailbox: a result is put there once and given once,
\* and one that a courier failed with stays lost.
IsMailbox == Mail!Spec

\* A process does not start a response to results while another one that it
\* has started still runs.
OneFollowUp ==
    \A r, q \in auto :
        (pc[r] = "answering" /\ pc[q] = "answering" /\ home[r] = home[q]) => r = q

\* A result that waits in the chat is given to the model, unless a courier
\* fails: whoever leaves it to another one leaves it to one who will look.
ResultIsGiven ==
    \A a \in Background : result[a] = "waiting" ~> (given[a] > 0 \/ failed)
=============================================================================
