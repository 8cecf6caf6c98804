---------------------------- MODULE ToolApproval ----------------------------
(***************************************************************************)
(* Tool calls of one assistant message that wait for a user's consent.     *)
(*                                                                         *)
(* A model turn that asks for tools in approval mode saves the calls in    *)
(* the message's output and ends (pause_for_tool_approval).  The resolve   *)
(* endpoint approves, rejects or answers one call per request; a request   *)
(* task then runs the approved calls (resume_tool_calls) and at most one   *)
(* of the tasks continues the model.  All of them meet in the saved        *)
(* output, which edit_message_output reads and writes in one transaction,  *)
(* whereas a model turn and the stop endpoint write the whole output from  *)
(* a copy they took earlier.                                               *)
(***************************************************************************)
EXTENDS Integers

CONSTANTS
    NumCalls,   \* how many calls the model may issue in all its turns
    AskUser,    \* the calls that are ask_user questions
    Runner,     \* the request tasks that may exist at the same time
    Stopper     \* the stop requests the user may send

Call == 1..NumCalls

ASSUME NumCallsAssumption == NumCalls \in Nat
ASSUME AskUserAssumption  == AskUser \subseteq Call

VARIABLES
    out,          \* the saved output, seen as one record per function call
    open,         \* its last item is a continuation no model turn has replaced
    done,         \* the message's done flag
    pc,           \* where each request task is
    kind,         \* what the request was started for
    mode,         \* the tool_approval_mode the request runs with
    cur,          \* the call a task executes
    view,         \* the output a model turn has loaded
    spc,          \* where each stop request is
    snap,         \* the message a stop request has read
    runs,         \* history: how often a loop started each call (2: twice or more)
    interrupted,  \* history: a task was cancelled, failed or died
    lostUpdate,   \* history: a stop request wrote a copy that was out of date,
                  \* or wrote while a task it had not seen was at work
    twoTurns      \* history: a continuation started the model beside a turn

task  == <<pc, kind, mode, cur, view>>
stop  == <<spc, snap>>
past  == <<runs, interrupted, lostUpdate, twoTurns>>
vars  == <<out, open, done, task, stop, past>>

-----------------------------------------------------------------------------
PendingStatus == {"pending", "queued", "in_progress"}
Status        == PendingStatus \cup
                 {"absent", "completed", "failed", "rejected", "incomplete"}
CallRecord    == [status : Status, approved : BOOLEAN, results : Nat]
Output        == [Call -> CallRecord]
Message       == [out : Output, open : BOOLEAN]
NoCall        == 0

\* pending_tool_calls: calls without a result that still await something.
Pending(o) == {c \in Call : o[c].results = 0 /\ o[c].status \in PendingStatus}

\* Outputs list the calls in the order they were issued.
First(S) == CHOOSE c \in S : \A d \in S : c <= d

\* A call with another status.
As(k, st) == [status |-> st, approved |-> k.approved, results |-> k.results]
WithStatus(o, c, st) == [o EXCEPT ![c] = As(o[c], st)]

\* Mark one of the calls in S, the first, as the one the user is asked about.
Prompt(o, S) == IF S = {} THEN o ELSE WithStatus(o, First(S), "pending")

\* A call's function_call_output is appended and its status set.
Settled(o, c, st) ==
    [o EXCEPT ![c] =
        [status |-> st, approved |-> o[c].approved, results |-> o[c].results + 1]]

\* pause_for_tool_approval: every call without a result waits again.
Unresolved(o) ==
    {c \in Call : o[c].results = 0 /\ o[c].status \notin {"absent", "rejected"}}
Queue(o, c) ==
    IF c \in Unresolved(o) /\ o[c].status \in {"in_progress", "completed"}
    THEN As(o[c], "queued") ELSE o[c]
Paused(o) == Prompt([c \in Call |-> Queue(o, c)], Unresolved(o))

\* The stop endpoint rejects what waits for the user, without a result.
RefusedAsCancelled(o) ==
    [c \in Call |-> IF o[c].status \in {"pending", "queued"}
                    THEN As(o[c], "cancelled") ELSE o[c]]
Refused(o) ==
    [c \in Call |->
        IF o[c].status \in {"pending", "queued"}
        THEN [status |-> "rejected", approved |-> FALSE, results |-> o[c].results]
        ELSE o[c]]

\* save_cancelled_state: whatever was under way is incomplete.
Cancelled(o) ==
    [c \in Call |->
        IF \/ o[c].status = "in_progress"
           \/ (o[c].status = "completed" /\ o[c].results = 0)
        THEN As(o[c], "incomplete") ELSE o[c]]

\* The handler's end: whatever is still in progress is completed.
Finished(o) ==
    [c \in Call |-> IF o[c].status = "in_progress"
                    THEN As(o[c], "completed") ELSE o[c]]

\* The calls a model turn adds to the output o: up to number n, in order.
New(o, n) == {c \in 1..n : o[c].status = "absent"}
Issued(o, new) ==
    [c \in Call |->
        IF c \in new THEN [status |-> "in_progress", approved |-> FALSE, results |-> 0]
        ELSE o[c]]

\* stage_ask_user_tool_calls: an ask_user call must be the only one of its
\* turn; otherwise it gets an error as its result.
Staged(o, new) ==
    [c \in Call |->
        IF c \in new \cap AskUser /\ new # {c}
        THEN [status |-> "completed", approved |-> FALSE, results |-> 1]
        ELSE Issued(o, new)[c]]

NoOutput == [c \in Call |-> [status |-> "absent", approved |-> FALSE, results |-> 0]]

-----------------------------------------------------------------------------
(* The resolve endpoint.                                                   *)

Resolvable(c) ==
    /\ out[c].results = 0
    /\ out[c].status \in {"pending", "queued"}
    /\ ~out[c].approved

\* Some task is, or will be, executing calls of this output.
Active == \E d \in Pending(out) : out[d].approved \/ out[d].status = "in_progress"

\* The request goes on to chat_completion; bounded by the number of tasks.
Start(r, k) ==
    /\ pc[r] = "idle"
    /\ pc' = [pc EXCEPT ![r] = "starting"]
    /\ kind' = [kind EXCEPT ![r] = k]
    /\ \E m \in {"ask", "full"} : mode' = [mode EXCEPT ![r] = m]
    /\ UNCHANGED <<cur, view>>

HandOverForgotten(k) == UNCHANGED task
HandOver(k) == \E r \in Runner : Start(r, k)

Approve(c) ==
    /\ Resolvable(c)
    /\ c \notin AskUser
    /\ out' = [out EXCEPT ![c] =
            [status |-> "queued", approved |-> TRUE, results |-> out[c].results]]
    /\ done' = FALSE
    /\ IF Active THEN UNCHANGED task ELSE HandOver("tools")
    /\ UNCHANGED <<open, stop, past>>

\* A rejection, or the answer to (or the timeout of) a question.
Settle(c, st) ==
    /\ Resolvable(c)
    /\ st = "completed" => c \in AskUser
    /\ done' = FALSE
    /\ LET o == Settled(out, c, st) IN
         IF Active
         THEN out' = o /\ UNCHANGED <<open, task>>
         ELSE IF Pending(o) = {}
         THEN /\ out' = o
              /\ open' = TRUE
              /\ HandOver("model")
         ELSE out' = Prompt(o, Pending(o)) /\ UNCHANGED <<open, task>>
    /\ UNCHANGED <<stop, past>>

\* A client asks to continue the message while no response is in progress.
Continue(r) ==
    /\ \A q \in Runner : pc[q] = "idle"
    /\ Start(r, "continue")
    /\ UNCHANGED <<out, open, done, stop, past>>

-----------------------------------------------------------------------------
(* A request task: process_chat_payload and resume_tool_calls.             *)

\* A task executes, or is about to record the outcome of, a call.
Executing(r) == pc[r] \in {"running", "failing"}
\* A task runs the model, or is the one that will.
Turn(r) ==
    \/ pc[r] \in {"resuming", "modelling"}
    \/ pc[r] = "starting" /\ kind[r] = "model"

Goto(r, l) == pc' = [pc EXCEPT ![r] = l] /\ UNCHANGED <<kind, mode>>

\* The payload is prepared from the message as it is now.  A continuation
\* that another task is to take up ends the request.
Taken == ~done /\ open /\ Pending(out) = {}
Resumes(k) == k = "tools" \/ Pending(out) # {}
EnterAs(r, l) ==
    /\ pc[r] = "starting"
    /\ Goto(r, l)
    /\ twoTurns' = (\/ twoTurns
                    \/ l = "resuming" /\ \E q \in Runner \ {r} : Turn(q))
    /\ UNCHANGED <<out, open, done, cur, view, stop, runs, interrupted, lostUpdate>>
EnterUnchecked(r) == EnterAs(r, IF Resumes(kind[r]) THEN "loop" ELSE "resuming")
Enter(r) ==
    EnterAs(r, IF kind[r] # "model" /\ Taken THEN "idle"
               ELSE IF Resumes(kind[r]) THEN "loop" ELSE "resuming")

\* One round of the loop chooses a call in a transaction.
Eligible(r) ==
    {c \in Pending(out) : c \notin AskUser /\ (out[c].approved \/ mode[r] = "full")}
RunningUnchecked == {}
Running == {c \in Pending(out) : out[c].status = "in_progress"}

Claim(r) ==
    /\ pc[r] = "loop"
    /\ Running = {}
    /\ Eligible(r) # {}
    /\ LET c == First(Eligible(r)) IN
         /\ out' = WithStatus(out, c, "in_progress")
         /\ cur' = [cur EXCEPT ![r] = c]
         /\ runs' = [runs EXCEPT ![c] = IF @ = 0 THEN 1 ELSE 2]
    /\ done' = FALSE
    /\ Goto(r, "running")
    /\ UNCHANGED <<open, view, stop, interrupted, lostUpdate, twoTurns>>

\* A stale continuation must not start another model response.
LeaveLoopResuming(r) ==
    /\ pc[r] = "loop"
    /\ Running = {} /\ Eligible(r) = {}
    /\ Goto(r, IF Pending(out) = {} THEN "resuming" ELSE "idle")
    /\ UNCHANGED <<out, open, done, cur, view, stop, past>>
LeaveLoop(r) ==
    /\ pc[r] = "loop"
    /\ \/ Running # {} /\ out' = out
       \/ Running = {} /\ Eligible(r) = {} /\ out' = Prompt(out, Pending(out))
    /\ Goto(r, "idle")
    /\ UNCHANGED <<open, done, cur, view, stop, past>>

\* complete_tool_call refuses a call that is no longer running.
StillRunning(c) == c \in Running

\* The next call to ask the user about, once another one is completed.
PromptNone(o) == o
PromptNext(o) == Prompt(o, {c \in Pending(o) : ~o[c].approved})

\* The task goes on to the model only if its call was the last one.
AfterOneCall(r, o) == IF Pending(o) = {} THEN "resuming" ELSE "idle"
AfterCall(r, o) ==
    IF Pending(o) = {} THEN "resuming"
    ELSE IF mode[r] = "full" \/ \E c \in Pending(o) : o[c].approved
    THEN "loop" ELSE "idle"

Complete(r, st) ==
    /\ pc[r] = "running"
    /\ StillRunning(cur[r])
    /\ LET o == Settled(out, cur[r], st) IN
         /\ out' = PromptNext(o)
         /\ open' = (open \/ Pending(o) = {})
         /\ Goto(r, AfterCall(r, o))
    /\ cur' = [cur EXCEPT ![r] = NoCall]
    /\ UNCHANGED <<done, view, stop, past>>

\* The tool raises, the task is cancelled, or its call was taken away.
Interrupt(r) ==
    /\ pc[r] = "running"
    /\ Goto(r, "failing")
    /\ interrupted' = TRUE
    /\ UNCHANGED <<out, open, done, cur, view, stop, runs, lostUpdate, twoTurns>>

\* The shielded completion; an error, unlike a cancellation, is saved next.
Fail(r) ==
    /\ pc[r] = "failing"
    /\ IF StillRunning(cur[r])
       THEN /\ out' = Settled(out, cur[r], "incomplete")
            /\ done' = TRUE
            /\ \E l \in {"raising", "idle"} : Goto(r, l)
       ELSE Goto(r, "raising") /\ UNCHANGED <<out, done>>
    /\ cur' = [cur EXCEPT ![r] = NoCall]
    /\ UNCHANGED <<open, view, stop, past>>

\* process_chat saves the error and ends the message.
Raise(r) ==
    /\ pc[r] = "raising"
    /\ done' = TRUE
    /\ Goto(r, "idle")
    /\ UNCHANGED <<out, open, cur, view, stop, past>>

-----------------------------------------------------------------------------
(* A model turn: build_chat_response_context and the response handler.     *)

Load(r) ==
    /\ pc[r] = "resuming"
    /\ view' = [view EXCEPT ![r] = out]
    /\ Goto(r, "modelling")
    /\ UNCHANGED <<out, open, done, cur, stop, past>>

EndTurn(r, o, d) ==
    /\ pc[r] = "modelling"
    /\ out' = o
    /\ open' = FALSE
    /\ done' = d
    /\ Goto(r, "idle")
    /\ view' = [view EXCEPT ![r] = NoOutput]
    /\ UNCHANGED <<cur, stop, runs, lostUpdate, twoTurns>>

TurnFinish(r) == EndTurn(r, Finished(view[r]), TRUE) /\ UNCHANGED interrupted

\* The response asks for calls: approval mode pauses for all of them, a
\* lone ask_user pauses in every mode.
TurnPause(r, n) ==
    LET new == New(view[r], n) IN
    /\ new # {}
    /\ \/ mode[r] = "ask" /\ ~(new \subseteq AskUser)
       \/ new \subseteq AskUser /\ \E c \in Call : new = {c}
    /\ EndTurn(r, Paused(Staged(view[r], new)), FALSE)
    /\ UNCHANGED interrupted

\* The response is cancelled, maybe after it has asked for calls.
TurnCancel(r, n) ==
    /\ EndTurn(r, Cancelled(Issued(view[r], New(view[r], n))), TRUE)
    /\ interrupted' = TRUE

\* The model request fails before or while the response is processed.
TurnFail(r) ==
    /\ pc[r] \in {"resuming", "modelling"}
    /\ Goto(r, "raising")
    /\ view' = [view EXCEPT ![r] = NoOutput]
    /\ interrupted' = TRUE
    /\ UNCHANGED <<out, open, done, cur, stop, runs, lostUpdate, twoTurns>>

\* A task that has saved nothing yet is cancelled, or its process dies.
Drop(r) ==
    /\ pc[r] # "idle"
    /\ Goto(r, "idle")
    /\ cur' = [cur EXCEPT ![r] = NoCall]
    /\ view' = [view EXCEPT ![r] = NoOutput]
    /\ interrupted' = TRUE
    /\ UNCHANGED <<out, open, done, stop, runs, lostUpdate, twoTurns>>

-----------------------------------------------------------------------------
(* The stop endpoint when it found no task of the chat: it reads the       *)
(* message, and writes the whole output back in a later transaction.       *)

StopList(s) ==
    /\ spc[s] = "idle"
    /\ \A r \in Runner : pc[r] \in {"idle", "starting"}
    /\ spc' = [spc EXCEPT ![s] = "listed"]
    /\ UNCHANGED <<out, open, done, task, snap, past>>

StopRead(s) ==
    /\ spc[s] = "listed"
    /\ IF done
       THEN spc' = [spc EXCEPT ![s] = "over"] /\ snap' = snap
       ELSE /\ spc' = [spc EXCEPT ![s] = "read"]
            /\ snap' = [snap EXCEPT ![s] = [out |-> out, open |-> open]]
    /\ UNCHANGED <<out, open, done, task, past>>

StopWrite(s) ==
    /\ spc[s] = "read"
    /\ out' = Refused(snap[s].out)
    /\ open' = snap[s].open
    /\ done' = TRUE
    /\ spc' = [spc EXCEPT ![s] = "over"]
    /\ lostUpdate' = (\/ lostUpdate
                      \/ snap[s] # [out |-> out, open |-> open]
                      \/ \E r \in Runner : pc[r] # "idle")
    /\ snap' = [snap EXCEPT ![s] = [out |-> NoOutput, open |-> FALSE]]
    /\ UNCHANGED <<task, runs, interrupted, twoTurns>>

-----------------------------------------------------------------------------
Init ==
    /\ out = NoOutput
    /\ open = FALSE
    /\ done = FALSE
    /\ \E first \in Runner :
         pc = [r \in Runner |-> IF r = first THEN "resuming" ELSE "idle"]
    /\ kind = [r \in Runner |-> "model"]
    /\ mode \in [Runner -> {"ask", "full"}]
    /\ cur = [r \in Runner |-> NoCall]
    /\ view = [r \in Runner |-> NoOutput]
    /\ spc = [s \in Stopper |-> "idle"]
    /\ snap = [s \in Stopper |-> [out |-> NoOutput, open |-> FALSE]]
    /\ runs = [c \in Call |-> 0]
    /\ interrupted = FALSE
    /\ lostUpdate = FALSE
    /\ twoTurns = FALSE

User ==
    \/ \E c \in Call : Approve(c) \/ \E st \in {"rejected", "completed"} : Settle(c, st)
    \/ \E r \in Runner : Continue(r)
    \/ \E s \in Stopper : StopList(s) \/ StopRead(s) \/ StopWrite(s)

Work(r) ==
    \/ Enter(r) \/ Claim(r) \/ LeaveLoop(r)
    \/ \E st \in {"completed", "failed"} : Complete(r, st)
    \/ Fail(r) \/ Raise(r) \/ Load(r)
    \/ TurnFinish(r) \/ \E n \in Call : TurnPause(r, n)

Fault(r) == Interrupt(r) \/ TurnFail(r) \/ Drop(r) \/ \E n \in 0..NumCalls : TurnCancel(r, n)

Next == User \/ \E r \in Runner : Work(r) \/ Fault(r)

Spec == Init /\ [][Next]_vars

\* The event loop keeps running every task; users promise nothing.
FairSpec == Spec /\ \A r \in Runner : WF_vars(Work(r))

-----------------------------------------------------------------------------
(* Properties.  Calm says that neither of the two races happened that the  *)
(* code leaves open.  They violate NeverRunAgain and OnlyOneTurn, which    *)
(* are stated for the record.                                              *)
(***************************************************************************)
Calm == ~lostUpdate /\ ~twoTurns

TypeOK ==
    /\ out \in Output
    /\ open \in BOOLEAN
    /\ done \in BOOLEAN
    /\ pc \in [Runner -> {"idle", "starting", "loop", "running", "failing",
                          "raising", "resuming", "modelling"}]
    /\ kind \in [Runner -> {"tools", "model", "continue"}]
    /\ mode \in [Runner -> {"ask", "full"}]
    /\ cur \in [Runner -> Call \cup {NoCall}]
    /\ view \in [Runner -> Output]
    /\ spc \in [Stopper -> {"idle", "listed", "read", "over"}]
    /\ snap \in [Stopper -> Message]
    /\ runs \in [Call -> 0..2]
    /\ interrupted \in BOOLEAN
    /\ lostUpdate \in BOOLEAN
    /\ twoTurns \in BOOLEAN

\* However approvals, loops, continuations and crashes interleave, no tool
\* call is started twice and none that the user rejected is ever started.
AtMostOneRun ==
    Calm => \A c \in Call :
        /\ runs[c] <= 1
        /\ out[c].status = "rejected" => runs[c] = 0

\* Tools of one message never execute side by side, and never beside a
\* model turn of that message.
ExclusiveExecution ==
    Calm => \A r, q \in Runner :
        (Executing(r) /\ (Executing(q) \/ Turn(q))) => r = q

\* Only one task may start the model again, and only after every call of
\* the previous turn has been settled (complete_tool_call's comment).
ExclusiveTurn ==
    ~lostUpdate /\ ~interrupted => \A r \in Runner : Turn(r) =>
        /\ Pending(out) = {}
        /\ \A q \in Runner : Turn(q) => q = r

\* Writing a whole output from a copy never undoes a result recorded
\* meanwhile (the model turn's writes; the stop endpoint's are excepted).
ResultsKept ==
    [][Calm' => \A c \in Call : out'[c].results >= out[c].results]_vars

\* What the release notes promise without any exception: an approved call is
\* not sent back to waiting for approval and run again.  Not so when a stop
\* request writes back a copy of the output that is out of date.
NeverRunAgain == \A c \in Call : runs[c] <= 1

\* What a comment of resume_tool_calls promises: a stale continuation does
\* not start another model response.  Not so when the error of a call that
\* failed is saved late and marks the message as done meanwhile.
OnlyOneTurn == \A r, q \in Runner : Turn(r) /\ Turn(q) => r = q

\* When no task is left to go on and nothing went wrong, one of the waiting
\* calls is shown to the user as the one to decide on.
UserIsAsked ==
    (/\ ~interrupted /\ ~lostUpdate
     /\ Pending(out) # {}
     /\ \A r \in Runner : pc[r] = "idle")
    => \E c \in Pending(out) : out[c].status = "pending" /\ ~out[c].approved

\* An approved call is eventually executed, unless a task failed or the
\* user stopped the chat.
ApprovedIsRun ==
    \A c \in Call : out[c].approved ~>
        (out[c].results > 0 \/ out[c].status = "rejected" \/ interrupted \/ lostUpdate)

\* Once the last call is settled the model's turn comes, unless a task
\* failed.
ModelContinues == open ~> (~open \/ interrupted \/ lostUpdate)
=============================================================================
