--------------------------- MODULE TimerLifecycle ---------------------------
(***************************************************************************)
(* The one-shot timers of a chat (utils/timers.py).                        *)
(*                                                                         *)
(* Every instance polls for due timers and claims them, one transaction    *)
(* moving the rows from pending to running under a fresh claim; an         *)
(* execution started for the claim checks that it still holds it and then, *)
(* under a lock on the parent chat, either fires the timer by appending    *)
(* its prompt to the chat, or puts it back because a reply is under way.   *)
(* Reading the chat and writing to it cancel the timers that ask for it.   *)
(*                                                                         *)
(* Row locks are those of PostgreSQL.  All timers here share one chat, and *)
(* that a timer waits (timer_at is set) is the same as being pending.      *)
(***************************************************************************)
EXTENDS Integers

CONSTANTS
    Timer,      \* the timers set in the chat
    Listening,  \* those that the visits of Visitor cancel
    Visitor,    \* the times that the user reads the chat or writes to it
    Slot        \* how many executions of one timer may exist at a time

ASSUME ListeningAssumption == Listening \subseteq Timer
ASSUME SlotAssumption      == Slot \in Nat \ {0}

VARIABLES
    status,  \* a timer's status
    claim,   \* its timer_claim_id
    due,     \* the timers whose time has come
    exec,    \* how far the execution of each claim of a timer is
    replies, \* how many tasks of the chat are active
    vpc,     \* how far each visit is
    read,    \* the timers a visit has found pending
    fired,   \* history: how often a timer's prompt was appended (2: or more)
    told,    \* history: the timers a visit was to cancel before they fired
    lost     \* history: the timers an execution of which died

row   == <<status, claim>>
visit == <<vpc, read>>
past  == <<fired, told, lost>>
vars  == <<row, due, exec, replies, visit, past>>

Claim   == 1..Slot
NoClaim == 0

-----------------------------------------------------------------------------
(* The scheduler of some instance.                                         *)

BecomeDue(t) ==
    /\ t \notin due
    /\ due' = due \cup {t}
    /\ UNCHANGED <<row, exec, replies, visit, past>>

\* The row is locked and its status looked at again, so no two polls take it.
ClaimableTwice(t) == status[t] \in {"pending", "running"}
Claimable(t) == status[t] = "pending"

ClaimDue(t) ==
    /\ t \in due
    /\ Claimable(t)
    /\ \E k \in Claim :
         /\ exec[t][k] = "none"
         /\ exec' = [exec EXCEPT ![t][k] = "started"]
         /\ status' = [status EXCEPT ![t] = "running"]
         /\ claim' = [claim EXCEPT ![t] = k]
    /\ UNCHANGED <<due, replies, visit, past>>

-----------------------------------------------------------------------------
(* execute_due_timer.                                                      *)

Goto(t, k, l) == exec' = [exec EXCEPT ![t][k] = l]

\* The timer must be running under this very claim.
HoldsAny(t, k) == TRUE
Holds(t, k) == status[t] = "running" /\ claim[t] = k

Verify(t, k) ==
    /\ exec[t][k] = "started"
    /\ Goto(t, k, IF Holds(t, k) THEN "verified" ELSE "none")
    /\ UNCHANGED <<row, due, replies, visit, past>>

\* The chat, the prompt, the owner or the model is gone, or the owner may
\* not run timers any more.
Refuse(t, k) ==
    /\ exec[t][k] = "verified"
    /\ status' = [status EXCEPT ![t] = "error"]
    /\ Goto(t, k, "none")
    /\ UNCHANGED <<claim, due, replies, visit, past>>

\* With the parent chat locked, the execution asks whether a task is active.
Locked == \E t \in Timer, k \in Claim : exec[t][k] \in {"busy", "free"}
CheckBusy(t, k) ==
    /\ exec[t][k] = "verified"
    /\ ~Locked
    /\ Goto(t, k, IF replies > 0 THEN "busy" ELSE "free")
    /\ UNCHANGED <<row, due, replies, visit, past>>

PutBackCleared(t) == "none"
PutBackNever(t) == "running"
PutBack(t) == "pending"
Requeue(t, k) ==
    /\ exec[t][k] = "busy"
    /\ status' = [status EXCEPT ![t] = PutBack(t)]
    /\ claim' = [claim EXCEPT ![t] = NoClaim]
    /\ Goto(t, k, "none")
    /\ UNCHANGED <<due, replies, visit, past>>

\* Prompt and empty reply are appended to the chat, the timer is completed.
Fire(t, k) ==
    /\ exec[t][k] = "free"
    /\ status' = [status EXCEPT ![t] = "completed"]
    /\ Goto(t, k, "fired")
    /\ fired' = [fired EXCEPT ![t] = IF @ = 0 THEN 1 ELSE 2]
    /\ UNCHANGED <<claim, due, replies, visit, told, lost>>

\* The completion request starts a task of the chat ...
Respond(t, k) ==
    /\ exec[t][k] = "fired"
    /\ replies' = replies + 1
    /\ Goto(t, k, "none")
    /\ UNCHANGED <<row, due, visit, past>>

\* ... or fails, and the timer with it.
RespondFails(t, k) ==
    /\ exec[t][k] = "fired"
    /\ status' = [status EXCEPT ![t] = "error"]
    /\ Goto(t, k, "none")
    /\ UNCHANGED <<claim, due, replies, visit, past>>

\* The process of an execution dies, or the database or Redis fails in it.
Die(t, k) ==
    /\ exec[t][k] # "none"
    /\ Goto(t, k, "none")
    /\ lost' = lost \cup {t}
    /\ UNCHANGED <<row, due, replies, visit, fired, told>>

-----------------------------------------------------------------------------
(* The user: cancel_timers_for_chat reads without a lock and writes the    *)
(* rows back whole; after a message of the user comes a reply.             *)

VisitRead(v) ==
    /\ vpc[v] = "idle"
    /\ vpc' = [vpc EXCEPT ![v] = "read"]
    /\ read' = [read EXCEPT ![v] = {t \in Listening : status[t] = "pending"}]
    /\ UNCHANGED <<row, due, exec, replies, past>>

VisitWrite(v) ==
    /\ vpc[v] = "read"
    /\ status' = [t \in Timer |-> IF t \in read[v] THEN "cancelled" ELSE status[t]]
    /\ claim' = [t \in Timer |-> IF t \in read[v] THEN NoClaim ELSE claim[t]]
    /\ read' = [read EXCEPT ![v] = {}]
    /\ told' = told \cup {t \in Listening : fired[t] = 0}
    /\ \E l \in {"writes", "over"} : vpc' = [vpc EXCEPT ![v] = l]
    /\ UNCHANGED <<due, exec, replies, fired, lost>>

Ask(v) ==
    /\ vpc[v] = "writes"
    /\ vpc' = [vpc EXCEPT ![v] = "over"]
    /\ replies' = replies + 1
    /\ UNCHANGED <<row, due, exec, read, past>>

EndReply ==
    /\ replies > 0
    /\ replies' = replies - 1
    /\ UNCHANGED <<row, due, exec, visit, past>>

-----------------------------------------------------------------------------
Init ==
    /\ status = [t \in Timer |-> "pending"]
    /\ claim = [t \in Timer |-> NoClaim]
    /\ due = {}
    /\ exec = [t \in Timer |-> [k \in Claim |-> "none"]]
    /\ replies = 0
    /\ vpc = [v \in Visitor |-> "idle"]
    /\ read = [v \in Visitor |-> {}]
    /\ fired = [t \in Timer |-> 0]
    /\ told = {}
    /\ lost = {}

Execute(t, k) ==
    \/ Verify(t, k) \/ Refuse(t, k)
    \/ CheckBusy(t, k) \/ Requeue(t, k)
    \/ Fire(t, k) \/ Respond(t, k) \/ RespondFails(t, k)

Visit(v) == VisitRead(v) \/ VisitWrite(v) \/ Ask(v)

Next ==
    \/ \E t \in Timer : BecomeDue(t) \/ ClaimDue(t)
    \/ \E t \in Timer, k \in Claim : Execute(t, k) \/ Die(t, k)
    \/ \E v \in Visitor : Visit(v)
    \/ EndReply

Spec == Init /\ [][Next]_vars

\* Time passes, an instance polls, executions go on and replies end.
FairSpec ==
    /\ Spec
    /\ WF_vars(EndReply)
    /\ \A t \in Timer :
         /\ WF_vars(BecomeDue(t)) /\ WF_vars(ClaimDue(t))
         /\ \A k \in Claim : WF_vars(Execute(t, k))

-----------------------------------------------------------------------------
(* Properties.                                                             *)

TypeOK ==
    /\ status \in [Timer -> {"pending", "running", "cancelled", "completed", "error"}]
    /\ claim \in [Timer -> Claim \cup {NoClaim}]
    /\ due \subseteq Timer
    /\ exec \in [Timer -> [Claim -> {"none", "started", "verified", "busy", "free", "fired"}]]
    /\ replies \in Nat
    /\ vpc \in [Visitor -> {"idle", "read", "writes", "over"}]
    /\ read \in [Visitor -> SUBSET Timer]
    /\ fired \in [Timer -> 0..2]
    /\ told \subseteq Timer
    /\ lost \subseteq Timer

\* A timer goes off at most once, although polls, re-queueing, crashes and
\* cancellations that write back an old row interleave.
FiresOnce == \A t \in Timer : fired[t] <= 1

\* A timer that has gone off is never armed again by anyone.
StaysFired ==
    [][\A t \in Timer : fired[t] > 0 => status'[t] \notin {"pending", "running"}]_vars

\* Every timer goes off in the end, or is on record as cancelled or failed:
\* re-queueing it while the chat is busy, or cancelling it meanwhile, does not
\* lose it.  Only a process that dies does, for nothing takes its claim back.
IsSettled ==
    \A t \in Timer : <>(fired[t] > 0 \/ status[t] \in {"cancelled", "error"} \/ t \in lost)

\* A visit before the timer goes off drops it: the timer is not taken up
\* again.  Not so: a visit looks for pending timers only, and while the chat
\* is busy a timer that is due is claimed and put back every second.  A visit
\* that finds it claimed leaves it alone, and one that found it pending is
\* undone when the execution puts it back.
VisitDrops == [][\A t \in told : claim'[t] \in {claim[t], NoClaim}]_vars
=============================================================================
