------------------------- MODULE ToolApprovalProofs -------------------------
(***************************************************************************)
(* Theorems about ToolApproval, for any number of calls, request tasks and *)
(* stop requests.                                                          *)
(***************************************************************************)
EXTENDS ToolApproval, WellFoundedInduction, TLAPS

Final == {"completed", "failed", "rejected", "incomplete"}

(* The parts of the inductive invariant. *)

\* A call with a result has come to an end.
ResultsFinal == \A c \in Call : out[c].results > 0 => out[c].status \in Final

\* A call that was started is running or has its result.
StartedOnce ==
    \A c \in Call :
        /\ runs[c] <= 1
        /\ runs[c] = 1 => out[c].status = "in_progress" \/ out[c].results > 0
        /\ out[c].status = "rejected" => runs[c] = 0

\* One call is in progress at a time, and a task that executes one has it.
OneRunning == \A c, d \in Running : c = d
ExecutorRuns == \A r \in Runner : Executing(r) => cur[r] \in Running
OneExecutor == \A r, q \in Runner : Executing(r) /\ Executing(q) => r = q

\* A model turn is alone, nothing is pending beside it, and the output it
\* has loaded is the saved one.
OneTurn == \A r, q \in Runner : Turn(r) /\ Turn(q) => r = q
TurnSettled == \A r \in Runner : Turn(r) => Pending(out) = {}
ViewCurrent == \A r \in Runner : pc[r] = "modelling" => view[r] = out

Clean ==
    /\ ResultsFinal /\ StartedOnce
    /\ OneRunning /\ ExecutorRuns /\ OneExecutor
    /\ OneTurn /\ TurnSettled /\ ViewCurrent

\* Unless something fails, a stale continuation finds that the message is
\* open while another task runs the model.
Continuing(r) == pc[r] = "starting" /\ kind[r] = "continue"
NothingFails == \A r \in Runner : pc[r] \notin {"failing", "raising"}
OneContinue == \A r, q \in Runner : Continuing(r) /\ Continuing(q) => r = q
RunningNotDone == \A r \in Runner : pc[r] = "running" => ~done
StaleIsTaken ==
    \A r, q \in Runner : Turn(q) /\ Continuing(r) => ~done /\ open

Orderly ==
    ~twoTurns /\ NothingFails /\ OneContinue /\ RunningNotDone /\ StaleIsTaken

IInv ==
    /\ TypeOK
    /\ Calm => Clean
    /\ ~lostUpdate /\ ~interrupted => Orderly
-----------------------------------------------------------------------------
(* Lemmas about the operators. *)

\* The first call of a set of calls is one of them.
LEMMA FirstIn ==
    ASSUME NEW S, S \subseteq Call, S # {}
    PROVE  First(S) \in S
<1> DEFINE R == {ss \in Nat \X Nat : ss[1] < ss[2]}
<1>0. S \subseteq Nat
  BY DEF Call
<1>1. IsWellFoundedOn(R, Nat)
  BY NatLessThanWellFounded, Zenon DEF OpToRel
<1>2. PICK x \in S : \A y \in S : <<y, x>> \notin R
  <2> HIDE DEF R
  <2> QED BY <1>0, <1>1, WFMin
<1>3. ASSUME NEW y \in S PROVE x <= y
  <2>1. <<y, x>> \notin R
    BY <1>2
  <2>2. x \in Nat /\ y \in Nat
    BY <1>0
  <2>3. ~(y < x)
    BY <2>1, <2>2
  <2> QED BY <2>2, <2>3
<1> QED BY <1>3 DEF First

\* Writing one call's status, and appending its result, keeps the type.
LEMMA OneCallTyped ==
    ASSUME NEW o \in Output, NEW c \in Call, NEW st \in Status
    PROVE  WithStatus(o, c, st) \in Output /\ Settled(o, c, st) \in Output
BY DEF WithStatus, As, Settled, Output, CallRecord

\* Prompting keeps the type.
LEMMA PromptTyped ==
    ASSUME NEW o \in Output, NEW S, S \subseteq Call
    PROVE  Prompt(o, S) \in Output
<1>1. CASE S = {}
  BY <1>1 DEF Prompt
<1>2. CASE S # {}
  <2>1. First(S) \in Call
    BY <1>2, FirstIn
  <2>2. "pending" \in Status
    BY DEF Status, PendingStatus
  <2> QED BY <1>2, <2>1, <2>2, OneCallTyped DEF Prompt
<1> QED BY <1>1, <1>2

\* What a turn adds, and how its end rewrites the output, keeps the type.
LEMMA WholeOutputTyped ==
    ASSUME NEW o \in Output, NEW new
    PROVE  /\ Issued(o, new) \in Output
           /\ Staged(o, new) \in Output
           /\ Finished(o) \in Output
           /\ Cancelled(o) \in Output
           /\ Refused(o) \in Output
           /\ NoOutput \in Output
<1>1. Issued(o, new) \in Output
  BY DEF Issued, Output, CallRecord, Status, PendingStatus
<1>2. Staged(o, new) \in Output
  BY <1>1 DEF Staged, Output, CallRecord, Status, PendingStatus
<1>3. Finished(o) \in Output
  BY DEF Finished, As, Output, CallRecord, Status, PendingStatus
<1>4. Cancelled(o) \in Output
  BY DEF Cancelled, As, Output, CallRecord, Status, PendingStatus
<1>5. Refused(o) \in Output
  BY DEF Refused, As, Output, CallRecord, Status, PendingStatus
<1>6. NoOutput \in Output
  BY DEF NoOutput, Output, CallRecord, Status, PendingStatus
<1> QED BY <1>1, <1>2, <1>3, <1>4, <1>5, <1>6

\* A pause, which queues calls and prompts for one, keeps the type.
LEMMA PausedTyped ==
    ASSUME NEW o \in Output
    PROVE  Paused(o) \in Output
<1>1. [c \in Call |-> Queue(o, c)] \in Output
  BY DEF Queue, As, Output, CallRecord, Status, PendingStatus
<1>2. Unresolved(o) \subseteq Call
  BY DEF Unresolved
<1> QED BY <1>1, <1>2, PromptTyped DEF Paused
-----------------------------------------------------------------------------
(* Type correctness. *)

\* Pending calls, and those the loop may run or is running, are calls.
LEMMA PendingAreCalls ==
    /\ \A o : Pending(o) \subseteq Call
    /\ \A r : Eligible(r) \subseteq Pending(out)
    /\ Running \subseteq Pending(out)
BY DEF Pending, Eligible, Running

\* The user's steps keep the types.
LEMMA UserTyped ==
    ASSUME TypeOK, User
    PROVE  TypeOK'
<1> USE DEF TypeOK
<1>1. ASSUME NEW k \in {"tools", "model", "continue"}, NEW r \in Runner, Start(r, k)
      PROVE  /\ pc' \in [Runner -> {"idle", "starting", "loop", "running", "failing",
                                    "raising", "resuming", "modelling"}]
             /\ kind' \in [Runner -> {"tools", "model", "continue"}]
             /\ mode' \in [Runner -> {"ask", "full"}]
             /\ cur' \in [Runner -> Call \cup {NoCall}]
             /\ view' \in [Runner -> Output]
  BY <1>1 DEF Start
<1>2. ASSUME NEW c \in Call, Approve(c) PROVE TypeOK'
  <2>1. out' \in Output
    BY <1>2 DEF Approve, Output, CallRecord, Status, PendingStatus
  <2> QED BY <1>1, <1>2, <2>1 DEF Approve, HandOver, past, stop, task
<1>3. ASSUME NEW c \in Call, NEW st \in {"rejected", "completed"}, Settle(c, st)
      PROVE  TypeOK'
  <2> DEFINE o == Settled(out, c, st)
  <2>1. o \in Output
    BY OneCallTyped DEF Status, PendingStatus
  <2>2. Prompt(o, Pending(o)) \in Output
    BY <2>1, PromptTyped, PendingAreCalls
  <2> HIDE DEF o
  <2>3. out' \in Output
    BY <1>3, <2>1, <2>2 DEF Settle, o
  <2> QED BY <1>1, <1>3, <2>3 DEF Settle, HandOver, past, stop, task
<1>4. ASSUME NEW r \in Runner, Continue(r) PROVE TypeOK'
  BY <1>1, <1>4 DEF Continue, past, stop
<1>5. ASSUME NEW s \in Stopper, StopList(s) PROVE TypeOK'
  BY <1>5 DEF StopList, past, task
<1>6. ASSUME NEW s \in Stopper, StopRead(s) PROVE TypeOK'
  <2>1. spc' \in [Stopper -> {"idle", "listed", "read", "over"}]
    BY <1>6 DEF StopRead
  <2>2. snap' \in [Stopper -> Message]
    <3>1. [out |-> out, open |-> open] \in Message
      BY DEF Message
    <3> QED BY <1>6, <3>1 DEF StopRead
  <2> QED BY <1>6, <2>1, <2>2 DEF StopRead, past, task
<1>7. ASSUME NEW s \in Stopper, StopWrite(s) PROVE TypeOK'
  <2>1. snap[s].out \in Output /\ snap[s].open \in BOOLEAN
    BY DEF Message
  <2>2. out' \in Output /\ NoOutput \in Output
    BY <1>7, <2>1, WholeOutputTyped DEF StopWrite
  <2>3. snap' \in [Stopper -> Message]
    BY <1>7, <2>2 DEF StopWrite, Message
  <2> QED BY <1>7, <2>1, <2>2, <2>3 DEF StopWrite, task
<1> QED BY <1>2, <1>3, <1>4, <1>5, <1>6, <1>7 DEF User

\* The steps of a task that is neither cancelled nor fails keep the types.
LEMMA WorkTyped ==
    ASSUME TypeOK, NEW r \in Runner, Work(r)
    PROVE  TypeOK'
<1> USE DEF TypeOK
<1>1. CASE Enter(r)
  BY <1>1 DEF Enter, EnterAs, Goto, stop
<1>2. CASE Claim(r)
  <2> DEFINE c == First(Eligible(r))
  <2>1. c \in Call
    BY <1>2, FirstIn, PendingAreCalls DEF Claim
  <2>2. WithStatus(out, c, "in_progress") \in Output
    BY <2>1, OneCallTyped DEF Status, PendingStatus
  <2>3. out' \in Output
    BY <1>2, <2>2 DEF Claim
  <2>4. cur' \in [Runner -> Call \cup {NoCall}]
    BY <1>2, <2>1 DEF Claim
  <2>5. runs' \in [Call -> 0..2]
    BY <1>2, <2>1 DEF Claim
  <2> QED BY <1>2, <2>3, <2>4, <2>5 DEF Claim, Goto, stop
<1>3. CASE LeaveLoop(r)
  <2>1. Prompt(out, Pending(out)) \in Output
    BY PromptTyped, PendingAreCalls
  <2> QED BY <1>3, <2>1 DEF LeaveLoop, Goto, stop, past
<1>4. ASSUME NEW st \in {"completed", "failed"}, Complete(r, st) PROVE TypeOK'
  <2> DEFINE o == Settled(out, cur[r], st)
  <2>1. cur[r] \in Call
    BY <1>4 DEF Complete, StillRunning, Running, Pending
  <2>2. o \in Output
    BY <2>1, OneCallTyped DEF Status, PendingStatus
  <2> HIDE DEF o
  <2>3. PromptNext(o) \in Output
    BY <2>2, PromptTyped, PendingAreCalls DEF PromptNext
  <2>4. AfterCall(r, o) \in {"resuming", "loop", "idle"}
    BY DEF AfterCall
  <2>5. out' \in Output /\ open' \in BOOLEAN /\ Goto(r, AfterCall(r, o))
    BY <1>4, <2>3 DEF Complete, o
  <2> QED BY <1>4, <2>4, <2>5 DEF Complete, Goto, stop, past
<1>5. CASE Fail(r)
  <2>1. CASE StillRunning(cur[r])
    <3>1. cur[r] \in Call
      BY <2>1 DEF StillRunning, Running, Pending
    <3>2. Settled(out, cur[r], "incomplete") \in Output
      BY <3>1, OneCallTyped DEF Status
    <3> QED BY <1>5, <2>1, <3>2 DEF Fail, Goto, stop, past
  <2>2. CASE ~StillRunning(cur[r])
    BY <1>5, <2>2 DEF Fail, Goto, stop, past
  <2> QED BY <2>1, <2>2
<1>6. CASE Raise(r)
  BY <1>6 DEF Raise, Goto, stop, past
<1>7. CASE Load(r)
  BY <1>7 DEF Load, Goto, stop, past
<1>8. CASE TurnFinish(r)
  <2>1. Finished(view[r]) \in Output /\ NoOutput \in Output
    BY WholeOutputTyped
  <2> QED BY <1>8, <2>1 DEF TurnFinish, EndTurn, Goto, stop
<1>9. ASSUME NEW n \in Call, TurnPause(r, n) PROVE TypeOK'
  <2>1. Paused(Staged(view[r], New(view[r], n))) \in Output /\ NoOutput \in Output
    BY WholeOutputTyped, PausedTyped
  <2> QED BY <1>9, <2>1 DEF TurnPause, EndTurn, Goto, stop
<1> QED BY <1>1, <1>2, <1>3, <1>4, <1>5, <1>6, <1>7, <1>8, <1>9 DEF Work

\* Cancellations, failures and crashes keep the types.
LEMMA FaultTyped ==
    ASSUME TypeOK, NEW r \in Runner, Fault(r)
    PROVE  TypeOK'
<1> USE DEF TypeOK
<1>0. NoOutput \in Output
  BY WholeOutputTyped
<1>1. CASE Interrupt(r)
  BY <1>1 DEF Interrupt, Goto, stop
<1>2. CASE TurnFail(r)
  BY <1>0, <1>2 DEF TurnFail, Goto, stop
<1>3. CASE Drop(r)
  BY <1>0, <1>3 DEF Drop, Goto, stop
<1>4. ASSUME NEW n \in 0..NumCalls, TurnCancel(r, n) PROVE TypeOK'
  <2>1. Cancelled(Issued(view[r], New(view[r], n))) \in Output
    BY WholeOutputTyped
  <2> QED BY <1>0, <1>4, <2>1 DEF TurnCancel, EndTurn, Goto, stop
<1> QED BY <1>1, <1>2, <1>3, <1>4 DEF Fault

\* The message starts with an empty output and one model turn.
LEMMA InitTyped == Init => TypeOK
<1> SUFFICES ASSUME Init PROVE TypeOK
  OBVIOUS
<1>1. NoOutput \in Output
  BY DEF NoOutput, Output, CallRecord, Status, PendingStatus
<1>2. pc \in [Runner -> {"idle", "starting", "loop", "running", "failing",
                         "raising", "resuming", "modelling"}]
  BY DEF Init
<1>3. snap \in [Stopper -> Message]
  BY <1>1 DEF Init, Message
<1>4. cur \in [Runner -> Call \cup {NoCall}] /\ view \in [Runner -> Output]
  BY <1>1 DEF Init
<1>5. /\ kind \in [Runner -> {"tools", "model", "continue"}]
      /\ mode \in [Runner -> {"ask", "full"}]
      /\ spc \in [Stopper -> {"idle", "listed", "read", "over"}]
      /\ runs \in [Call -> 0..2]
  BY DEF Init
<1>6. /\ out \in Output /\ open \in BOOLEAN /\ done \in BOOLEAN
      /\ interrupted \in BOOLEAN /\ lostUpdate \in BOOLEAN /\ twoTurns \in BOOLEAN
  BY <1>1 DEF Init
<1> QED BY <1>2, <1>3, <1>4, <1>5, <1>6 DEF TypeOK

\* Every step of the program keeps the types.
LEMMA NextTyped ==
    ASSUME TypeOK, [Next]_vars
    PROVE  TypeOK'
<1>1. CASE User
  BY <1>1, UserTyped
<1>2. ASSUME NEW r \in Runner, Work(r) PROVE TypeOK'
  BY <1>2, WorkTyped
<1>3. ASSUME NEW r \in Runner, Fault(r) PROVE TypeOK'
  BY <1>3, FaultTyped
<1>4. CASE UNCHANGED vars
  BY <1>4 DEF TypeOK, vars, task, stop, past
<1> QED BY <1>1, <1>2, <1>3, <1>4 DEF Next

\* The variables always hold values of their types.
THEOREM TypeCorrect == Spec => []TypeOK
BY InitTyped, NextTyped, PTL DEF Spec

-----------------------------------------------------------------------------
(* The safety of the steps: what each does to the calls in progress, to    *)
(* the tasks that execute one, and to the model turns.                     *)

\* Prompting changes at most the status of one of the calls prompted for.
LEMMA PromptEffect ==
    ASSUME NEW o \in Output, NEW S, S \subseteq Call, NEW c \in Call
    PROVE  \/ Prompt(o, S)[c] = o[c]
           \/ c \in S /\ Prompt(o, S)[c] = As(o[c], "pending")
<1>1. CASE S = {}
  BY <1>1 DEF Prompt
<1>2. CASE S # {}
  <2>1. First(S) \in S
    BY <1>2, FirstIn
  <2> QED BY <1>2, <2>1 DEF Prompt, WithStatus, Output
<1> QED BY <1>1, <1>2

\* A pause only touches calls without a result, and none stays in progress.
LEMMA PauseEffect ==
    ASSUME NEW o \in Output, NEW c \in Call
    PROVE  /\ Paused(o)[c].results = o[c].results
           /\ c \notin Unresolved(o) => Paused(o)[c] = o[c]
           /\ c \in Unresolved(o) =>
                Paused(o)[c].status \notin {"absent", "in_progress", "rejected"}
<1> DEFINE p == [d \in Call |-> Queue(o, d)]
<1>1. p \in Output
  BY DEF Queue, As, Output, CallRecord, Status, PendingStatus
<1>2. /\ p[c].results = o[c].results
      /\ c \notin Unresolved(o) => p[c] = o[c]
      /\ c \in Unresolved(o) => p[c].status \notin {"absent", "in_progress", "rejected"}
  BY DEF Queue, As, Unresolved
<1> HIDE DEF p
<1>3. Unresolved(o) \subseteq Call
  BY DEF Unresolved
<1>4. \/ Prompt(p, Unresolved(o))[c] = p[c]
      \/ /\ c \in Unresolved(o)
         /\ Prompt(p, Unresolved(o))[c] = As(p[c], "pending")
  BY <1>1, <1>3, PromptEffect
<1>5. Paused(o) = Prompt(p, Unresolved(o))
  BY DEF Paused, p
<1> QED BY <1>2, <1>4, <1>5 DEF As

\* A step that leaves the output alone and starts no call keeps the parts of
\* the invariant that are about the calls.
LEMMA CallsKept ==
    ASSUME TypeOK, Clean, out' = out, runs' = runs
    PROVE  /\ ResultsFinal' /\ StartedOnce' /\ OneRunning'
           /\ Running' = Running /\ Pending(out)' = Pending(out)
BY DEF Clean, ResultsFinal, StartedOnce, OneRunning, Running, Pending

\* A step that does not bring about another executor or another turn.
LEMMA TasksKept ==
    ASSUME TypeOK, Clean,
           \A q \in Runner : Executing(q)' => Executing(q) /\ cur'[q] = cur[q],
           \A q \in Runner : Turn(q)' => Turn(q),
           \A q \in Runner : Executing(q)' => cur[q] \in Running',
           \A q \in Runner : Turn(q)' => Pending(out)' = {},
           \A q \in Runner : pc'[q] = "modelling" => view'[q] = out'
    PROVE  ExecutorRuns' /\ OneExecutor' /\ OneTurn' /\ TurnSettled' /\ ViewCurrent'
BY DEF Clean, ExecutorRuns, OneExecutor, OneTurn, TurnSettled, ViewCurrent

\* Handing over to an idle task makes no executor, and a turn only if the
\* task is to run the model.
LEMMA StartEffect ==
    ASSUME TypeOK, NEW r \in Runner, NEW k \in {"tools", "model", "continue"}, Start(r, k)
    PROVE  /\ cur' = cur /\ view' = view
           /\ \A q \in Runner : Executing(q)' <=> Executing(q)
           /\ \A q \in Runner : Turn(q)' <=> Turn(q) \/ (q = r /\ k = "model")
           /\ \A q \in Runner : pc'[q] = "modelling" <=> pc[q] = "modelling"
BY DEF TypeOK, Start, Executing, Turn

\* An approval only queues a call that never ran, and starts a loop only
\* if no other task is executing calls.
LEMMA ApproveClean ==
    ASSUME TypeOK, Clean, NEW c \in Call, Approve(c)
    PROVE  Clean'
<1>1. /\ c \in Pending(out) /\ c \notin Running /\ runs[c] = 0
      /\ out' = [out EXCEPT ![c] = [status |-> "queued", approved |-> TRUE, results |-> 0]]
      /\ runs' = runs
  BY DEF Approve, Resolvable, Pending, PendingStatus, Running, TypeOK, Clean,
         StartedOnce, past
<1>2. Running' = Running
  BY <1>1 DEF Running, Pending, TypeOK, Output, PendingStatus
<1>3. ResultsFinal' /\ StartedOnce' /\ OneRunning'
  BY <1>1, <1>2 DEF TypeOK, Output, Clean, ResultsFinal, StartedOnce, OneRunning
<1>4. \A q \in Runner : ~Turn(q)
  BY <1>1 DEF Clean, TurnSettled
<1>5. /\ \A q \in Runner : Executing(q)' => Executing(q) /\ cur'[q] = cur[q]
      /\ \A q \in Runner : ~Turn(q)'
  <2>1. CASE Active
    BY <1>4, <2>1 DEF Approve, task, Executing, Turn
  <2>2. CASE ~Active
    <3>1. PICK r \in Runner : Start(r, "tools")
      BY <2>2 DEF Approve, HandOver
    <3> QED BY <1>4, <3>1, StartEffect
  <2> QED BY <2>1, <2>2
<1>6. \A q \in Runner : pc'[q] # "modelling"
  BY <1>5 DEF Turn
<1>7. \A q \in Runner : Executing(q)' => cur[q] \in Running'
  BY <1>2, <1>5 DEF Clean, ExecutorRuns
<1>8. ExecutorRuns' /\ OneExecutor' /\ OneTurn' /\ TurnSettled' /\ ViewCurrent'
  BY <1>5, <1>6, <1>7, TasksKept
<1> QED BY <1>3, <1>8 DEF Clean

\* Settling a pending call gives it a result and touches no other call.
LEMMA SettledEffect ==
    ASSUME TypeOK, NEW c \in Pending(out), NEW st \in Final
    PROVE  /\ Settled(out, c, st) \in Output
           /\ Settled(out, c, st)[c].status = st
           /\ Settled(out, c, st)[c].results = 1
           /\ \A d \in Call \ {c} : Settled(out, c, st)[d] = out[d]
           /\ Pending(Settled(out, c, st)) = Pending(out) \ {c}
<1> DEFINE o == Settled(out, c, st)
<1>1. c \in Call /\ out[c].results = 0 /\ out \in Output
  BY DEF Pending, TypeOK
<1>2. o \in Output
  BY <1>1, OneCallTyped DEF Final, Status, PendingStatus
<1>3. o[c] = [status |-> st, approved |-> out[c].approved, results |-> 1]
  BY <1>1 DEF Settled, Output
<1>4. \A d \in Call \ {c} : o[d] = out[d]
  BY <1>1 DEF Settled, Output
<1> HIDE DEF o
<1>5. o[c].status = st /\ o[c].results = 1
  BY <1>3
<1>6. Pending(o) = Pending(out) \ {c}
  BY <1>1, <1>4, <1>5 DEF Pending
<1> QED BY <1>2, <1>4, <1>5, <1>6 DEF o

\* Prompting for a pending call that nobody runs changes its status only.
LEMMA PromptAfterSettle ==
    ASSUME TypeOK, NEW c \in Pending(out), NEW st \in Final,
           NEW S, S \subseteq Pending(Settled(out, c, st)), S \cap Running = {}
    PROVE  LET p == Prompt(Settled(out, c, st), S) IN
           /\ p[c] = Settled(out, c, st)[c]
           /\ \A d \in Call \ {c} :
                \/ p[d] = out[d]
                \/ /\ d \in Pending(out) /\ d \notin Running
                   /\ p[d].status = "pending" /\ p[d].results = 0
<1> DEFINE o == Settled(out, c, st)
           p == Prompt(o, S)
<1>1. /\ o \in Output /\ \A d \in Call \ {c} : o[d] = out[d]
      /\ S \subseteq Pending(out) \ {c} /\ c \in Call
  BY SettledEffect DEF Pending
<1> HIDE DEF o
<1>2. \A d \in Call : p[d] = o[d] \/ (d \in S /\ p[d] = As(o[d], "pending"))
  BY <1>1, PromptEffect, PendingAreCalls
<1> HIDE DEF p
<1>3. p[c] = o[c]
  BY <1>1, <1>2
<1>4. ASSUME NEW d \in Call \ {c}, p[d] # out[d]
      PROVE  /\ d \in Pending(out) /\ d \notin Running
             /\ p[d].status = "pending" /\ p[d].results = 0
  <2>1. d \in S /\ p[d] = As(out[d], "pending")
    BY <1>1, <1>2, <1>4
  <2>2. out[d].results = 0
    BY <1>1, <2>1 DEF Pending
  <2> QED BY <1>1, <2>1, <2>2 DEF As
<1> QED BY <1>3, <1>4 DEF o, p

\* What settling a call, and perhaps prompting for another, leaves in place.
LEMMA CallsSettled ==
    ASSUME TypeOK, Clean, runs' = runs,
           NEW c \in Pending(out), NEW st \in Final,
           st = "rejected" => runs[c] = 0,
           out'[c] = Settled(out, c, st)[c],
           \A d \in Call \ {c} :
                \/ out'[d] = out[d]
                \/ /\ d \in Pending(out) /\ d \notin Running
                   /\ out'[d].status = "pending" /\ out'[d].results = 0
    PROVE  /\ ResultsFinal' /\ StartedOnce' /\ OneRunning'
           /\ Running' = Running \ {c}
<1>1. c \in Call /\ out'[c].status = st /\ out'[c].results = 1
  BY SettledEffect DEF Pending
<1>2. ResultsFinal'
  <2>1. ASSUME NEW d \in Call, out'[d].results > 0 PROVE out'[d].status \in Final
    BY <1>1, <2>1 DEF Clean, ResultsFinal
  <2> QED BY <2>1 DEF ResultsFinal
<1>3. StartedOnce'
  <2>1. ASSUME NEW d \in Call
        PROVE  /\ runs[d] <= 1
               /\ runs[d] = 1 => out'[d].status = "in_progress" \/ out'[d].results > 0
               /\ out'[d].status = "rejected" => runs[d] = 0
    <3>1. CASE d = c
      BY <1>1, <3>1 DEF Clean, StartedOnce
    <3>2. CASE d # c
      BY <3>2 DEF Clean, StartedOnce, Running, Pending, TypeOK
    <3> QED BY <3>1, <3>2
  <2> QED BY <2>1 DEF StartedOnce
<1>4. Running' = Running \ {c}
  <2>1. ASSUME NEW d \in Call PROVE d \in Running' <=> d \in Running \ {c}
    <3>1. CASE d = c
      BY <1>1, <3>1 DEF Running, Pending
    <3>2. CASE d # c
      BY <3>2 DEF Running, Pending
    <3> QED BY <3>1, <3>2
  <2> QED BY <2>1 DEF Running, Pending
<1>5. OneRunning'
  BY <1>4 DEF Clean, OneRunning
<1> QED BY <1>2, <1>3, <1>4, <1>5

\* A rejection or an answer gives a waiting call its result; it starts the
\* model only when that leaves nothing pending and nobody executing.
LEMMA SettleClean ==
    ASSUME TypeOK, Clean, NEW c \in Call, NEW st \in {"rejected", "completed"},
           Settle(c, st)
    PROVE  Clean'
<1> DEFINE o == Settled(out, c, st)
<1>1. /\ c \in Pending(out) /\ c \notin Running /\ runs[c] = 0 /\ runs' = runs
      /\ out[c].results = 0 /\ st \in Final
  BY DEF Settle, Resolvable, Pending, PendingStatus, Running, TypeOK, Clean,
         StartedOnce, past, Final
<1>2. \/ out' = o
      \/ ~Active /\ out' = Prompt(o, Pending(o))
  BY DEF Settle
<1>3. \A q \in Runner : ~Turn(q)
  BY <1>1 DEF Clean, TurnSettled
<1>4. /\ out'[c] = o[c]
      /\ \A d \in Call \ {c} :
            \/ out'[d] = out[d]
            \/ /\ d \in Pending(out) /\ d \notin Running
               /\ out'[d].status = "pending" /\ out'[d].results = 0
  <2>1. CASE out' = o
    BY <1>1, <2>1, SettledEffect
  <2>2. CASE ~Active /\ out' = Prompt(o, Pending(o))
    <3>1. Running = {}
      BY <2>2 DEF Active, Running
    <3> QED BY <1>1, <2>2, <3>1, PromptAfterSettle
  <2> QED BY <1>2, <2>1, <2>2
<1>5. Running' = Running
  BY <1>1, <1>4, CallsSettled
<1>6. ResultsFinal' /\ StartedOnce' /\ OneRunning'
  BY <1>1, <1>4, CallsSettled
<1>7. Pending(out)' = {} \/ UNCHANGED task
  <2>1. CASE Active \/ Pending(o) # {}
    BY <2>1 DEF Settle, task, o
  <2>2. CASE ~Active /\ Pending(o) = {}
    BY <2>2 DEF Settle, Pending, o
  <2> QED BY <2>1, <2>2
<1>8. CASE UNCHANGED task
  <2>1. /\ \A q \in Runner : Executing(q)' => Executing(q) /\ cur'[q] = cur[q]
        /\ \A q \in Runner : ~Turn(q)'
    BY <1>3, <1>8 DEF task, Executing, Turn
  <2>2. \A q \in Runner : pc'[q] # "modelling"
    BY <2>1 DEF Turn
  <2>3. \A q \in Runner : Executing(q)' => cur[q] \in Running'
    BY <1>5, <2>1 DEF Clean, ExecutorRuns
  <2> QED BY <1>6, <2>1, <2>2, <2>3, TasksKept DEF Clean
<1>9. CASE ~UNCHANGED task
  <2>1. PICK r \in Runner : Start(r, "model")
    BY <1>9 DEF Settle, HandOver, task, o
  <2>2. /\ \A q \in Runner : Executing(q)' => Executing(q) /\ cur'[q] = cur[q]
        /\ \A q \in Runner : Turn(q)' => q = r
        /\ \A q \in Runner : pc'[q] # "modelling"
    BY <1>3, <2>1, StartEffect DEF Turn
  <2>3. Pending(out)' = {}
    BY <1>7, <1>9
  <2>4. ExecutorRuns' /\ OneExecutor'
    BY <1>5, <2>2 DEF Clean, ExecutorRuns, OneExecutor
  <2>5. OneTurn' /\ TurnSettled' /\ ViewCurrent'
    BY <2>2, <2>3 DEF OneTurn, TurnSettled, ViewCurrent
  <2> QED BY <1>6, <2>4, <2>5 DEF Clean
<1> QED BY <1>8, <1>9

\* A step that neither writes the output nor starts a call, and brings about
\* no executor and no turn.
LEMMA QuietClean ==
    ASSUME TypeOK, Clean, out' = out, runs' = runs,
           \A q \in Runner : Executing(q)' => Executing(q) /\ cur'[q] = cur[q],
           \A q \in Runner : Turn(q)' => Turn(q),
           \A q \in Runner : pc'[q] = "modelling" =>
                view'[q] = out \/ (pc[q] = "modelling" /\ view'[q] = view[q])
    PROVE  Clean'
<1>1. /\ ResultsFinal' /\ StartedOnce' /\ OneRunning'
      /\ Running' = Running /\ Pending(out)' = Pending(out)
  BY CallsKept
<1>2. \A q \in Runner : Executing(q)' => cur[q] \in Running'
  BY <1>1 DEF Clean, ExecutorRuns
<1>3. \A q \in Runner : Turn(q)' => Pending(out)' = {}
  BY <1>1 DEF Clean, TurnSettled
<1>4. \A q \in Runner : pc'[q] = "modelling" => view'[q] = out'
  BY DEF Clean, ViewCurrent
<1> QED BY <1>1, <1>2, <1>3, <1>4, TasksKept DEF Clean

\* A client's Continue, and a stop request while it only reads.
LEMMA QuietUserClean ==
    ASSUME TypeOK, Clean,
           \/ \E r \in Runner : Continue(r)
           \/ \E s \in Stopper : StopList(s) \/ StopRead(s)
    PROVE  Clean'
<1>1. ASSUME NEW r \in Runner, Continue(r) PROVE Clean'
  <2>1. out' = out /\ runs' = runs /\ Start(r, "continue")
    BY <1>1 DEF Continue, past
  <2> QED BY <2>1, StartEffect, QuietClean
<1>2. ASSUME NEW s \in Stopper, StopList(s) \/ StopRead(s) PROVE Clean'
  <2>1. out' = out /\ runs' = runs /\ UNCHANGED task
    BY <1>2 DEF StopList, StopRead, past
  <2>2. \A q \in Runner : (Executing(q)' <=> Executing(q)) /\ (Turn(q)' <=> Turn(q))
    BY <2>1 DEF Executing, Turn, task
  <2> QED BY <2>1, <2>2, QuietClean DEF task
<1> QED BY <1>1, <1>2

\* A stop request that writes what it read while no task was at work.
LEMMA StopWriteClean ==
    ASSUME TypeOK, Clean, NEW s \in Stopper, StopWrite(s), ~lostUpdate'
    PROVE  Clean'
<1>1. /\ out' = Refused(out) /\ runs' = runs
      /\ \A q \in Runner : pc'[q] = "idle"
  BY DEF StopWrite, task, TypeOK
<1>2. \A c \in Call :
        IF out[c].status \in {"pending", "queued"}
        THEN out'[c].status = "rejected" /\ out'[c].results = out[c].results
        ELSE out'[c] = out[c]
  BY <1>1 DEF Refused, TypeOK, Output
<1>3. Running' = Running
  BY <1>2 DEF Running, Pending, PendingStatus
<1>4. ResultsFinal' /\ StartedOnce' /\ OneRunning'
  <2>1. ResultsFinal'
    BY <1>2 DEF Clean, ResultsFinal, Final
  <2>2. StartedOnce'
    <3>1. ASSUME NEW c \in Call
          PROVE  /\ runs[c] <= 1
                 /\ runs[c] = 1 => out'[c].status = "in_progress" \/ out'[c].results > 0
                 /\ out'[c].status = "rejected" => runs[c] = 0
      <4>1. CASE out[c].status \in {"pending", "queued"}
        <5>1. out[c].results = 0
          <6>1. out[c].results \in Nat
            BY DEF TypeOK, Output, CallRecord
          <6>2. ~(out[c].results > 0)
            BY <4>1 DEF Clean, ResultsFinal, Final
          <6> QED BY <6>1, <6>2
        <5> QED BY <1>2, <4>1, <5>1 DEF Clean, StartedOnce, TypeOK
      <4>2. CASE out[c].status \notin {"pending", "queued"}
        BY <1>2, <4>2 DEF Clean, StartedOnce
      <4> QED BY <4>1, <4>2
    <3> QED BY <1>1, <3>1 DEF StartedOnce
  <2>3. OneRunning'
    BY <1>3 DEF Clean, OneRunning
  <2> QED BY <2>1, <2>2, <2>3
<1>5. \A q \in Runner : ~Executing(q)' /\ ~Turn(q)' /\ pc'[q] # "modelling"
  BY <1>1 DEF Executing, Turn
<1>6. ExecutorRuns' /\ OneExecutor' /\ OneTurn' /\ TurnSettled' /\ ViewCurrent'
  BY <1>5, TasksKept
<1> QED BY <1>4, <1>6 DEF Clean

\* Whatever the user does, in any order, keeps Clean.
LEMMA UserClean ==
    ASSUME TypeOK, Clean, User, ~lostUpdate'
    PROVE  Clean'
BY ApproveClean, SettleClean, QuietUserClean, StopWriteClean DEF User

\* A stale continuation that starts the model beside a turn is excluded here.
LEMMA EnterClean ==
    ASSUME TypeOK, Clean, NEW r \in Runner, Enter(r), ~twoTurns'
    PROVE  Clean'
<1> DEFINE l == IF kind[r] # "model" /\ Taken THEN "idle"
                ELSE IF Resumes(kind[r]) THEN "loop" ELSE "resuming"
<1>1. /\ out' = out /\ runs' = runs /\ cur' = cur /\ view' = view /\ kind' = kind
      /\ pc[r] = "starting" /\ pc' = [pc EXCEPT ![r] = l]
      /\ l = "resuming" => \A q \in Runner \ {r} : ~Turn(q)
  BY DEF Enter, EnterAs, Goto
<1>2. l = "resuming" => Pending(out) = {}
  BY DEF Resumes
<1>3. l \in {"idle", "loop", "resuming"}
  OBVIOUS
<1> HIDE DEF l
<1>4. /\ \A q \in Runner : Executing(q)' => Executing(q)
      /\ \A q \in Runner : pc'[q] = "modelling" => pc[q] = "modelling"
      /\ \A q \in Runner : Turn(q)' => Turn(q) \/ (q = r /\ l = "resuming")
  BY <1>1, <1>3 DEF TypeOK, Executing, Turn
<1>5. CASE l # "resuming"
  BY <1>1, <1>4, <1>5, QuietClean
<1>6. CASE l = "resuming"
  <2>1. /\ ResultsFinal' /\ StartedOnce' /\ OneRunning'
        /\ Running' = Running /\ Pending(out)' = Pending(out)
    BY <1>1, CallsKept
  <2>2. ExecutorRuns' /\ OneExecutor'
    BY <1>1, <1>4, <2>1 DEF Clean, ExecutorRuns, OneExecutor
  <2>3. \A q \in Runner : Turn(q)' => q = r
    BY <1>1, <1>4, <1>6
  <2>4. OneTurn' /\ TurnSettled' /\ ViewCurrent'
    BY <1>1, <1>2, <1>4, <1>6, <2>1, <2>3
       DEF Clean, OneTurn, TurnSettled, ViewCurrent
  <2> QED BY <2>1, <2>2, <2>4 DEF Clean
<1> QED BY <1>5, <1>6

\* Choosing a call in the loop's transaction: nothing is in progress then, so
\* the task that claims it becomes the only executor.
LEMMA ClaimClean ==
    ASSUME TypeOK, Clean, NEW r \in Runner, Claim(r)
    PROVE  Clean'
<1> DEFINE c == First(Eligible(r))
<1>1. c \in Eligible(r)
  BY FirstIn, PendingAreCalls DEF Claim
<1> HIDE DEF c
<1>2. /\ c \in Call /\ c \in Pending(out) /\ out[c].results = 0 /\ Running = {}
      /\ out[c].status # "in_progress"
  BY <1>1, PendingAreCalls DEF Claim, Running, Pending
<1>3. runs[c] = 0
  BY <1>2 DEF Clean, StartedOnce, TypeOK
<1>4. /\ out' = [out EXCEPT ![c] = As(out[c], "in_progress")]
      /\ cur' = [cur EXCEPT ![r] = c]
      /\ runs' = [runs EXCEPT ![c] = 1]
      /\ pc' = [pc EXCEPT ![r] = "running"]
      /\ view' = view /\ kind' = kind
  BY <1>3 DEF Claim, WithStatus, Goto, c, TypeOK
<1>5. /\ out'[c].status = "in_progress" /\ out'[c].results = 0
      /\ runs'[c] = 1
      /\ \A d \in Call \ {c} : out'[d] = out[d] /\ runs'[d] = runs[d]
  BY <1>2, <1>4 DEF As, TypeOK, Output
<1>6. Running' = {c}
  BY <1>2, <1>5 DEF Running, Pending, PendingStatus
<1>7. ResultsFinal' /\ StartedOnce' /\ OneRunning'
  <2>1. ResultsFinal'
    BY <1>5 DEF Clean, ResultsFinal
  <2>2. StartedOnce'
    BY <1>2, <1>5 DEF Clean, StartedOnce
  <2>3. OneRunning'
    BY <1>6 DEF OneRunning
  <2> QED BY <2>1, <2>2, <2>3
<1>8. \A q \in Runner : ~Executing(q) /\ ~Turn(q)
  BY <1>2 DEF Clean, ExecutorRuns, TurnSettled
<1>9. /\ \A q \in Runner : Executing(q)' => q = r
      /\ \A q \in Runner : ~Turn(q)'
  BY <1>4, <1>8 DEF Executing, Turn, TypeOK
<1>10. ExecutorRuns' /\ OneExecutor'
  BY <1>4, <1>6, <1>9 DEF ExecutorRuns, OneExecutor, TypeOK
<1>11. OneTurn' /\ TurnSettled' /\ ViewCurrent'
  BY <1>9 DEF OneTurn, TurnSettled, ViewCurrent, Turn
<1> QED BY <1>7, <1>10, <1>11 DEF Clean

\* A task that leaves the loop at most prompts for a call.
LEMMA LeaveLoopClean ==
    ASSUME TypeOK, Clean, NEW r \in Runner, LeaveLoop(r)
    PROVE  Clean'
<1>1. /\ pc[r] = "loop" /\ pc' = [pc EXCEPT ![r] = "idle"]
      /\ kind' = kind /\ cur' = cur /\ view' = view /\ runs' = runs
  BY DEF LeaveLoop, Goto, past
<1>2. /\ \A q \in Runner : Executing(q)' => Executing(q)
      /\ \A q \in Runner : Turn(q)' => Turn(q)
      /\ \A q \in Runner : pc'[q] = "modelling" => pc[q] = "modelling"
  BY <1>1 DEF TypeOK, Executing, Turn
<1>3. CASE out' = out
  BY <1>1, <1>2, <1>3, QuietClean
<1>4. CASE Running = {} /\ out' = Prompt(out, Pending(out)) /\ Pending(out) # {}
  <2>1. \A d \in Call : \/ out'[d] = out[d]
                        \/ d \in Pending(out) /\ out'[d] = As(out[d], "pending")
    BY <1>4, PromptEffect, PendingAreCalls DEF TypeOK
  <2>2. \A d \in Call : \/ out'[d] = out[d]
                        \/ /\ d \in Pending(out) /\ d \notin Running
                           /\ out'[d].status = "pending" /\ out'[d].results = 0
    <3>1. ASSUME NEW d \in Call, out'[d] # out[d]
          PROVE  /\ d \in Pending(out) /\ d \notin Running
                 /\ out'[d].status = "pending" /\ out'[d].results = 0
      <4>1. d \in Pending(out) /\ out'[d] = As(out[d], "pending")
        BY <2>1, <3>1
      <4>2. out[d].results = 0
        BY <4>1 DEF Pending
      <4> QED BY <1>4, <4>1, <4>2 DEF As
    <3> QED BY <3>1
  <2>3. Running' = {}
    BY <1>4, <2>2 DEF Running, Pending
  <2>4. ResultsFinal'
    BY <2>2 DEF Clean, ResultsFinal
  <2>5. StartedOnce'
    BY <1>1, <2>2 DEF Clean, StartedOnce, Running, Pending, TypeOK
  <2>6. OneRunning'
    BY <2>3 DEF OneRunning
  <2>7. \A q \in Runner : ~Executing(q)' /\ ~Turn(q)'
    BY <1>2, <1>4 DEF Clean, ExecutorRuns, TurnSettled
  <2>8. ExecutorRuns' /\ OneExecutor' /\ OneTurn' /\ TurnSettled' /\ ViewCurrent'
    BY <2>7, TasksKept DEF Turn
  <2> QED BY <2>4, <2>5, <2>6, <2>8 DEF Clean
<1> QED BY <1>3, <1>4 DEF LeaveLoop, Prompt

\* The executor's end, with or without success: it leaves its call settled.
LEMMA ExecutorDone ==
    ASSUME TypeOK, Clean, NEW r \in Runner, Executing(r), NEW l,
           l \in {"resuming", "loop", "idle", "raising"},
           pc' = [pc EXCEPT ![r] = l], kind' = kind, view' = view,
           cur' = [cur EXCEPT ![r] = NoCall], runs' = runs,
           NEW st \in {"completed", "failed", "incomplete"},
           NEW S, S \subseteq Pending(Settled(out, cur[r], st)),
           out' = Prompt(Settled(out, cur[r], st), S),
           l = "resuming" => Pending(Settled(out, cur[r], st)) = {}
    PROVE  Clean'
<1> DEFINE c == cur[r]
           o == Settled(out, c, st)
<1>1. /\ c \in Running /\ c \in Pending(out) /\ Running = {c} /\ st \in Final
  BY DEF Clean, ExecutorRuns, OneRunning, Running, Final
<1>2. S \cap Running = {}
  BY <1>1, SettledEffect
<1>3. /\ out'[c] = o[c]
      /\ \A d \in Call \ {c} :
            \/ out'[d] = out[d]
            \/ /\ d \in Pending(out) /\ d \notin Running
               /\ out'[d].status = "pending" /\ out'[d].results = 0
  <2> HIDE DEF c
  <2> QED BY <1>1, <1>2, PromptAfterSettle DEF c
<1>4. ResultsFinal' /\ StartedOnce' /\ OneRunning'
  <2> HIDE DEF c, o
  <2> QED BY <1>1, <1>3, CallsSettled DEF o
<1>5. /\ \A q \in Runner : ~Executing(q)'
      /\ \A q \in Runner : Turn(q)' => q = r /\ l = "resuming"
      /\ \A q \in Runner : pc'[q] # "modelling"
  <2>1. \A q \in Runner : ~Turn(q)
    BY <1>1 DEF Clean, TurnSettled
  <2>2. \A q \in Runner : Executing(q) => q = r
    BY DEF Clean, OneExecutor
  <2> QED BY <2>1, <2>2 DEF Executing, Turn, TypeOK
<1>6. l = "resuming" => Pending(out)' = {}
  BY DEF Prompt
<1>7. ExecutorRuns' /\ OneExecutor' /\ OneTurn' /\ TurnSettled' /\ ViewCurrent'
  BY <1>5, <1>6 DEF ExecutorRuns, OneExecutor, OneTurn, TurnSettled, ViewCurrent
<1> QED BY <1>4, <1>7 DEF Clean

\* The executor records its result and may go on to the model.
LEMMA CompleteClean ==
    ASSUME TypeOK, Clean, NEW r \in Runner, NEW st \in {"completed", "failed"},
           Complete(r, st)
    PROVE  Clean'
<1> DEFINE o == Settled(out, cur[r], st)
           S == {c \in Pending(o) : ~o[c].approved}
           l == AfterCall(r, o)
<1>1. /\ Executing(r) /\ pc' = [pc EXCEPT ![r] = l] /\ kind' = kind /\ view' = view
      /\ cur' = [cur EXCEPT ![r] = NoCall] /\ runs' = runs
      /\ out' = Prompt(o, S)
  BY DEF Complete, Goto, Executing, past, PromptNext
<1>2. l \in {"resuming", "loop", "idle", "raising"}
  BY DEF AfterCall
<1>3. l = "resuming" => Pending(o) = {}
  BY DEF AfterCall
<1>4. S \subseteq Pending(o)
  OBVIOUS
<1> HIDE DEF l, S
<1> QED BY <1>1, <1>2, <1>3, <1>4, ExecutorDone

\* A failed or cancelled executor leaves its call incomplete.
LEMMA FailClean ==
    ASSUME TypeOK, Clean, NEW r \in Runner, Fail(r)
    PROVE  Clean'
<1>1. Executing(r) /\ StillRunning(cur[r])
  BY DEF Fail, Executing, Clean, ExecutorRuns, StillRunning
<1>2. PICK l \in {"raising", "idle"} : Goto(r, l)
  BY <1>1 DEF Fail
<1>3. PICK S : /\ S \subseteq Pending(Settled(out, cur[r], "incomplete"))
               /\ out' = Prompt(Settled(out, cur[r], "incomplete"), S)
  <2>1. out' = Prompt(Settled(out, cur[r], "incomplete"), {})
    BY <1>1 DEF Fail, Prompt
  <2> QED BY <2>1
<1>4. /\ pc' = [pc EXCEPT ![r] = l] /\ kind' = kind /\ view' = view
      /\ cur' = [cur EXCEPT ![r] = NoCall] /\ runs' = runs
  BY <1>2 DEF Fail, Goto, past
<1>5. l \in {"resuming", "loop", "idle", "raising"} /\ l # "resuming"
  OBVIOUS
<1> QED BY <1>1, <1>3, <1>4, <1>5, ExecutorDone

\* The other steps of a task that do not write the output.
LEMMA QuietTaskClean ==
    ASSUME TypeOK, Clean, NEW r \in Runner,
           Raise(r) \/ Load(r) \/ Interrupt(r) \/ TurnFail(r) \/ Drop(r)
    PROVE  Clean'
<1>1. /\ out' = out /\ runs' = runs /\ kind' = kind
      /\ \A q \in Runner \ {r} : pc'[q] = pc[q] /\ cur'[q] = cur[q] /\ view'[q] = view[q]
  BY DEF Raise, Load, Interrupt, TurnFail, Drop, Goto, past, TypeOK
<1>2. /\ Executing(r)' => Executing(r) /\ cur'[r] = cur[r]
      /\ Turn(r)' => Turn(r)
      /\ pc'[r] = "modelling" => view'[r] = out
  BY DEF Raise, Load, Interrupt, TurnFail, Drop, Goto, TypeOK, Executing, Turn
<1>3. \A q \in Runner \ {r} :
        (Executing(q)' <=> Executing(q)) /\ (Turn(q)' <=> Turn(q))
  BY <1>1 DEF Executing, Turn
<1>4. /\ \A q \in Runner : Executing(q)' => Executing(q) /\ cur'[q] = cur[q]
      /\ \A q \in Runner : Turn(q)' => Turn(q)
      /\ \A q \in Runner : pc'[q] = "modelling" =>
            view'[q] = out \/ (pc[q] = "modelling" /\ view'[q] = view[q])
  BY <1>1, <1>2, <1>3
<1> QED BY <1>1, <1>4, QuietClean

\* A model turn's end keeps every result, and leaves no call in progress.
LEMMA TurnDone ==
    ASSUME TypeOK, Clean, NEW r \in Runner, NEW o \in Output, NEW d, EndTurn(r, o, d),
           \A c \in Call :
              IF out[c].results > 0
              THEN o[c].results > 0 /\ o[c].status = out[c].status
              ELSE /\ o[c].status # "in_progress"
                   /\ o[c].results > 0 => o[c].status \in Final
                   /\ o[c].status = "rejected" => out[c].status = "rejected"
    PROVE  /\ Clean'
           /\ \A q \in Runner : ~Executing(q)' /\ ~Turn(q)'
<1>1. /\ out' = o /\ runs' = runs /\ cur' = cur /\ kind' = kind
      /\ pc[r] = "modelling" /\ pc' = [pc EXCEPT ![r] = "idle"]
  BY DEF EndTurn, Goto
<1>2. Turn(r) /\ Pending(out) = {}
  BY <1>1 DEF Turn, Clean, TurnSettled
<1>3. Running' = {}
  BY <1>1 DEF Running, Pending, Output, CallRecord
<1>4. ResultsFinal'
  <2>1. ASSUME NEW c \in Call, o[c].results > 0 PROVE o[c].status \in Final
    BY <2>1 DEF Clean, ResultsFinal
  <2> QED BY <1>1, <2>1 DEF ResultsFinal
<1>5. StartedOnce'
  <2>1. ASSUME NEW c \in Call
        PROVE  /\ runs[c] <= 1
               /\ runs[c] = 1 => o[c].status = "in_progress" \/ o[c].results > 0
               /\ o[c].status = "rejected" => runs[c] = 0
    <3>1. CASE out[c].results > 0
      BY <3>1 DEF Clean, StartedOnce
    <3>2. CASE ~(out[c].results > 0)
      <4>1. out[c].results = 0
        <5>1. out[c].results \in Nat
          BY DEF TypeOK, Output, CallRecord
        <5> QED BY <3>2, <5>1
      <4>2. out[c].status # "in_progress"
        BY <1>2, <4>1 DEF Pending, PendingStatus
      <4>3. runs[c] = 0
        BY <4>1, <4>2 DEF Clean, StartedOnce, TypeOK
      <4> QED BY <4>3
    <3> QED BY <3>1, <3>2
  <2> QED BY <1>1, <2>1 DEF StartedOnce
<1>6. OneRunning'
  BY <1>3 DEF OneRunning
<1>7. \A q \in Runner : ~Executing(q)' /\ ~Turn(q)'
  <2>1. \A q \in Runner : ~Executing(q)
    BY <1>2 DEF Clean, ExecutorRuns, Running
  <2>2. \A q \in Runner : Turn(q) => q = r
    BY <1>2 DEF Clean, OneTurn
  <2> QED BY <1>1, <2>1, <2>2 DEF Executing, Turn, TypeOK
<1>8. ExecutorRuns' /\ OneExecutor' /\ OneTurn' /\ TurnSettled' /\ ViewCurrent'
  BY <1>7, TasksKept DEF Turn
<1> QED BY <1>4, <1>5, <1>6, <1>7, <1>8 DEF Clean

\* What is known where a turn ends: its view is the output, all is settled.
LEMMA TurnKnows ==
    ASSUME TypeOK, Clean, NEW r \in Runner, pc[r] = "modelling"
    PROVE  /\ view[r] = out
           /\ \A c \in Call : out[c].results > 0 => out[c].status \in Final
           /\ \A c \in Call : out[c].results = 0 => out[c].status \notin PendingStatus
           /\ \A c \in Call : out[c].results \in Nat
<1>1. view[r] = out /\ Pending(out) = {}
  BY DEF Clean, ViewCurrent, TurnSettled, Turn
<1>2. \A c \in Call : out[c].results > 0 => out[c].status \in Final
  BY DEF Clean, ResultsFinal
<1>3. \A c \in Call : out[c].results = 0 => out[c].status \notin PendingStatus
  BY <1>1 DEF Pending
<1>4. \A c \in Call : out[c].results \in Nat
  BY DEF TypeOK, Output, CallRecord
<1> QED BY <1>1, <1>2, <1>3, <1>4

\* A turn that issues no calls writes back what it loaded, finished.
LEMMA TurnFinishClean ==
    ASSUME TypeOK, Clean, NEW r \in Runner, TurnFinish(r)
    PROVE  Clean' /\ \A q \in Runner : ~Executing(q)' /\ ~Turn(q)'
<1> DEFINE o == Finished(out)
<1>1. pc[r] = "modelling"
  BY DEF TurnFinish, EndTurn
<1>2. EndTurn(r, o, TRUE)
  BY <1>1, TurnKnows DEF TurnFinish
<1>3. o \in Output
  BY WholeOutputTyped DEF TypeOK
<1>4. \A c \in Call : o[c] = out[c]
  BY <1>1, TurnKnows DEF Finished, PendingStatus, Final
<1> HIDE DEF o
<1>5. \A c \in Call : out[c].results > 0 \/ out[c].results = 0
  BY <1>1, TurnKnows
<1>6. \A c \in Call : out[c].results = 0 => out[c].status # "in_progress"
  BY <1>1, TurnKnows DEF PendingStatus
<1> QED BY <1>2, <1>3, <1>4, <1>5, <1>6, TurnDone

\* A cancelled turn may leave new calls incomplete, never an old one pending.
LEMMA TurnCancelClean ==
    ASSUME TypeOK, Clean, NEW r \in Runner, NEW n \in 0..NumCalls, TurnCancel(r, n)
    PROVE  Clean'
<1> DEFINE new == New(out, n)
           o == Cancelled(Issued(out, new))
<1>1. pc[r] = "modelling"
  BY DEF TurnCancel, EndTurn
<1>2. EndTurn(r, o, TRUE)
  BY <1>1, TurnKnows DEF TurnCancel
<1>3. o \in Output
  BY WholeOutputTyped DEF TypeOK
<1>4. \A c \in new : out[c].status = "absent"
  BY DEF New
<1> HIDE DEF new
<1>5. ASSUME NEW c \in Call
      PROVE  IF out[c].results > 0
             THEN o[c].results > 0 /\ o[c].status = out[c].status
             ELSE /\ o[c].status # "in_progress"
                  /\ o[c].results > 0 => o[c].status \in Final
                  /\ o[c].status = "rejected" => out[c].status = "rejected"
  <2>1. CASE c \in new
    <3>1. ~(out[c].results > 0)
      BY <1>1, <1>4, <2>1, TurnKnows DEF Final
    <3>2. o[c].status = "incomplete" /\ o[c].results = 0
      BY <2>1 DEF Cancelled, Issued, As
    <3> QED BY <3>1, <3>2
  <2>2. CASE c \notin new
    <3>1. Issued(out, new)[c] = out[c]
      BY <2>2 DEF Issued
    <3>2. CASE out[c].results > 0
      BY <1>1, <3>1, <3>2, TurnKnows DEF Cancelled, Final
    <3>3. CASE out[c].results = 0
      BY <1>1, <3>1, <3>3, TurnKnows DEF Cancelled, As, PendingStatus
    <3> QED BY <1>1, <3>2, <3>3, TurnKnows
  <2> QED BY <2>1, <2>2
<1> HIDE DEF o
<1> QED BY <1>2, <1>3, <1>5, TurnDone

\* A turn that pauses adds calls that never ran, and puts only those up for
\* approval that have no result.
LEMMA TurnPauseClean ==
    ASSUME TypeOK, Clean, NEW r \in Runner, NEW n \in Call, TurnPause(r, n)
    PROVE  Clean' /\ \A q \in Runner : ~Executing(q)' /\ ~Turn(q)'
<1> DEFINE new == New(out, n)
           t == Staged(out, new)
           o == Paused(t)
<1>1. pc[r] = "modelling"
  BY DEF TurnPause, EndTurn
<1>2. EndTurn(r, o, FALSE)
  BY <1>1, TurnKnows DEF TurnPause
<1>3. t \in Output /\ o \in Output
  BY WholeOutputTyped, PausedTyped DEF TypeOK
<1>4. \A c \in new : out[c].status = "absent"
  BY DEF New
<1> HIDE DEF new
<1>5. ASSUME NEW c \in Call
      PROVE  /\ c \notin new => t[c] = out[c]
             /\ c \in new => \/ t[c].status = "completed" /\ t[c].results = 1
                             \/ t[c].status = "in_progress" /\ t[c].results = 0
  BY DEF Staged, Issued
<1> HIDE DEF t
<1>6. ASSUME NEW c \in Call
      PROVE  /\ o[c].results = t[c].results
             /\ c \notin Unresolved(t) => o[c] = t[c]
             /\ c \in Unresolved(t) =>
                  o[c].status \notin {"absent", "in_progress", "rejected"}
  BY <1>3, PauseEffect
<1> HIDE DEF o
<1>7. ASSUME NEW c \in Call
      PROVE  IF out[c].results > 0
             THEN o[c].results > 0 /\ o[c].status = out[c].status
             ELSE /\ o[c].status # "in_progress"
                  /\ o[c].results > 0 => o[c].status \in Final
                  /\ o[c].status = "rejected" => out[c].status = "rejected"
  <2>1. CASE c \in new
    <3>1. ~(out[c].results > 0)
      BY <1>1, <1>4, <2>1, TurnKnows DEF Final
    <3>2. o[c].status \notin {"in_progress", "rejected"}
      BY <1>5, <1>6, <2>1 DEF Unresolved
    <3>3. o[c].results > 0 => o[c].status \in Final
      BY <1>5, <1>6, <2>1 DEF Unresolved, Final
    <3> QED BY <3>1, <3>2, <3>3
  <2>2. CASE c \notin new
    <3>1. CASE out[c].results > 0
      BY <1>5, <1>6, <2>2, <3>1 DEF Unresolved
    <3>2. CASE out[c].results = 0
      BY <1>1, <1>5, <1>6, <2>2, <3>2, TurnKnows DEF Unresolved, PendingStatus
    <3> QED BY <1>1, <3>1, <3>2, TurnKnows
  <2> QED BY <2>1, <2>2
<1> QED BY <1>2, <1>3, <1>7, TurnDone

\* Every step of the program keeps Clean, as long as neither race happens.
LEMMA NextClean ==
    ASSUME TypeOK, Clean, Next, Calm'
    PROVE  Clean'
<1>0. ~lostUpdate' /\ ~twoTurns'
  BY DEF Calm
<1>1. CASE User
  BY <1>0, <1>1, UserClean
<1>2. ASSUME NEW r \in Runner, Work(r) PROVE Clean'
  BY <1>0, <1>2, EnterClean, ClaimClean, LeaveLoopClean, CompleteClean, FailClean,
     QuietTaskClean, TurnFinishClean, TurnPauseClean DEF Work
<1>3. ASSUME NEW r \in Runner, Fault(r) PROVE Clean'
  BY <1>3, QuietTaskClean, TurnCancelClean DEF Fault
<1> QED BY <1>1, <1>2, <1>3 DEF Next

-----------------------------------------------------------------------------
(* Without failures and lost updates, stale continuations are recognised.  *)

\* Where all tasks are idle, or only reads happen, nothing can go wrong.
LEMMA UserOrderly ==
    ASSUME TypeOK, Clean, Orderly, User, ~lostUpdate'
    PROVE  Orderly'
<1> USE DEF Orderly, NothingFails, OneContinue, RunningNotDone, StaleIsTaken
<1>1. ASSUME NEW c \in Call, Approve(c) PROVE Orderly'
  <2>1. c \in Pending(out) /\ done' = FALSE /\ twoTurns' = twoTurns
    BY <1>1 DEF Approve, Resolvable, Pending, PendingStatus, past
  <2>2. \A q \in Runner : ~Turn(q)
    BY <2>1 DEF Clean, TurnSettled
  <2>3. /\ \A q \in Runner : ~Turn(q)'
        /\ \A q \in Runner : Continuing(q)' => Continuing(q)
        /\ \A q \in Runner : pc'[q] \in {"failing", "raising"} => pc'[q] = pc[q]
    <3>1. CASE Active
      BY <1>1, <2>2, <3>1 DEF Approve, task, Turn, Continuing
    <3>2. CASE ~Active
      <4>1. PICK r \in Runner : Start(r, "tools")
        BY <1>1, <3>2 DEF Approve, HandOver
      <4> QED BY <2>2, <4>1, StartEffect DEF Start, TypeOK, Continuing
    <3> QED BY <3>1, <3>2
  <2> QED BY <2>1, <2>3
<1>2. ASSUME NEW c \in Call, NEW st \in {"rejected", "completed"}, Settle(c, st)
      PROVE  Orderly'
  <2>1. c \in Pending(out) /\ done' = FALSE /\ twoTurns' = twoTurns
    BY <1>2 DEF Settle, Resolvable, Pending, PendingStatus, past
  <2>2. \A q \in Runner : ~Turn(q)
    BY <2>1 DEF Clean, TurnSettled
  <2>3. CASE UNCHANGED task
    BY <2>1, <2>2, <2>3 DEF task, Turn, Continuing
  <2>4. CASE ~UNCHANGED task
    <3>1. PICK r \in Runner : Start(r, "model")
      BY <1>2, <2>4 DEF Settle, HandOver, task
    <3>2. open' = TRUE
      BY <1>2, <2>4 DEF Settle, task
    <3>3. /\ \A q \in Runner : Continuing(q)' => Continuing(q)
          /\ \A q \in Runner : pc'[q] \in {"failing", "raising"} => pc'[q] = pc[q]
      BY <3>1 DEF Start, TypeOK, Continuing
    <3> QED BY <2>1, <3>2, <3>3
  <2> QED BY <2>3, <2>4
<1>3. ASSUME NEW r \in Runner, Continue(r) PROVE Orderly'
  <2>1. /\ \A q \in Runner : pc'[q] = (IF q = r THEN "starting" ELSE "idle")
        /\ kind'[r] = "continue" /\ twoTurns' = twoTurns
    BY <1>3 DEF Continue, Start, TypeOK, past
  <2> QED BY <2>1 DEF Turn, Continuing
<1>4. ASSUME NEW s \in Stopper, StopList(s) \/ StopRead(s) PROVE Orderly'
  BY <1>4 DEF StopList, StopRead, past, task, Turn, Continuing
<1>5. ASSUME NEW s \in Stopper, StopWrite(s) PROVE Orderly'
  BY <1>5 DEF StopWrite, task, Turn, Continuing
<1> QED BY <1>1, <1>2, <1>3, <1>4, <1>5 DEF User

\* A stale Continue finds the message open, and ends; so no second turn starts.
LEMMA EnterOrderly ==
    ASSUME TypeOK, Clean, Orderly, NEW r \in Runner, Enter(r)
    PROVE  Orderly'
<1> USE DEF Orderly, NothingFails, OneContinue, RunningNotDone, StaleIsTaken
<1>1. /\ pc[r] = "starting" /\ kind' = kind /\ done' = done /\ open' = open
      /\ pc' = [pc EXCEPT ![r] = pc'[r]] /\ pc'[r] \in {"idle", "loop", "resuming"}
      /\ twoTurns' = (twoTurns \/ (pc'[r] = "resuming" /\ \E q \in Runner \ {r} : Turn(q)))
  BY DEF Enter, EnterAs, Goto, TypeOK
<1>2. ASSUME pc'[r] = "resuming", NEW q \in Runner \ {r} PROVE ~Turn(q)
  <2>1. CASE kind[r] = "model"
    BY <1>1, <2>1 DEF Clean, OneTurn, Turn
  <2>2. CASE kind[r] = "continue"
    BY <1>1, <1>2, <2>2
       DEF Enter, EnterAs, Goto, Resumes, Taken, Continuing, TypeOK
  <2>3. CASE kind[r] = "tools"
    BY <1>2, <2>3 DEF Enter, EnterAs, Goto, Resumes, TypeOK
  <2> QED BY <2>1, <2>2, <2>3 DEF TypeOK
<1>3. ~twoTurns'
  BY <1>1, <1>2
<1>4. /\ \A q \in Runner : Continuing(q)' => Continuing(q) /\ q # r
      /\ \A q \in Runner : pc'[q] \in {"failing", "raising", "running"} => pc'[q] = pc[q]
      /\ \A q \in Runner : Turn(q)' => Turn(q) \/ q = r
  BY <1>1 DEF Continuing, Turn, TypeOK
<1>5. ASSUME NEW x \in Runner, NEW q \in Runner, Turn(q)', Continuing(x)'
      PROVE  ~done /\ open
  <2>1. CASE Turn(q)
    BY <1>4, <1>5, <2>1
  <2>2. CASE ~Turn(q)
    <3>1. q = r /\ kind[r] # "model" /\ pc'[r] = "resuming"
      BY <1>1, <1>4, <1>5, <2>2 DEF Turn, TypeOK
    <3>2. kind[r] = "continue"
      BY <3>1 DEF Enter, EnterAs, Goto, Resumes, TypeOK
    <3> QED BY <1>1, <1>4, <1>5, <3>2 DEF Continuing
  <2> QED BY <2>1, <2>2
<1> QED BY <1>1, <1>3, <1>4, <1>5

\* The other steps of a task, as long as nothing fails.
LEMMA WorkOrderly ==
    ASSUME TypeOK, Clean, Clean', Orderly, NEW r \in Runner, Work(r)
    PROVE  Orderly'
<1> USE DEF Orderly, NothingFails, OneContinue, RunningNotDone, StaleIsTaken
<1>1. CASE Enter(r)
  BY <1>1, EnterOrderly
<1>2. CASE Claim(r)
  <2>1. /\ done' = FALSE /\ twoTurns' = twoTurns /\ kind' = kind
        /\ pc[r] = "loop" /\ pc' = [pc EXCEPT ![r] = "running"]
    BY <1>2 DEF Claim, Goto
  <2>2. \A q \in Runner : ~Turn(q)'
    <3>1. Executing(r)'
      BY <2>1 DEF Executing, TypeOK
    <3> QED BY <3>1 DEF Clean, ExecutorRuns, TurnSettled, Running
  <2> QED BY <2>1, <2>2 DEF Continuing, TypeOK
<1>3. CASE LeaveLoop(r)
  BY <1>3 DEF LeaveLoop, Goto, past, Continuing, Turn, TypeOK
<1>4. ASSUME NEW st \in {"completed", "failed"}, Complete(r, st) PROVE Orderly'
  <2> DEFINE o == Settled(out, cur[r], st)
  <2>1. /\ done' = done /\ twoTurns' = twoTurns /\ kind' = kind /\ ~done
        /\ pc[r] = "running" /\ pc' = [pc EXCEPT ![r] = AfterCall(r, o)]
        /\ open' = (open \/ Pending(o) = {})
    BY <1>4 DEF Complete, Goto, past
  <2>2. AfterCall(r, o) \in {"resuming", "loop", "idle"}
    BY DEF AfterCall
  <2>3. AfterCall(r, o) = "resuming" => Pending(o) = {}
    BY DEF AfterCall
  <2> HIDE DEF o
  <2>4. /\ \A q \in Runner : Continuing(q)' => Continuing(q)
        /\ \A q \in Runner : pc'[q] \in {"failing", "raising", "running"} => pc'[q] = pc[q]
        /\ \A q \in Runner : Turn(q)' => Turn(q) \/ pc'[r] = "resuming"
        /\ pc'[r] = AfterCall(r, o)
    BY <2>1, <2>2 DEF Continuing, Turn, TypeOK
  <2> QED BY <2>1, <2>3, <2>4
<1>5. CASE Fail(r)
  BY <1>5 DEF Fail
<1>6. CASE Raise(r)
  BY <1>6 DEF Raise
<1>7. CASE Load(r)
  BY <1>7 DEF Load, Goto, past, Continuing, Turn, TypeOK
<1>8. ASSUME TurnFinish(r) \/ \E n \in Call : TurnPause(r, n) PROVE Orderly'
  <2>1. \A q \in Runner : ~Executing(q)' /\ ~Turn(q)'
    BY <1>8, TurnFinishClean, TurnPauseClean
  <2>2. /\ twoTurns' = twoTurns /\ kind' = kind /\ pc' = [pc EXCEPT ![r] = "idle"]
    BY <1>8 DEF TurnFinish, TurnPause, EndTurn, Goto
  <2> QED BY <2>1, <2>2 DEF Continuing, Executing, TypeOK
<1> QED BY <1>1, <1>2, <1>3, <1>4, <1>5, <1>6, <1>7, <1>8 DEF Work

-----------------------------------------------------------------------------
(* The theorems. *)

\* Nothing is under way at first but one model turn.
LEMMA InitIInv == Init => Clean /\ Orderly
<1> SUFFICES ASSUME Init PROVE Clean /\ Orderly
  OBVIOUS
<1>1. /\ \A c \in Call : out[c].results = 0 /\ out[c].status = "absent" /\ runs[c] = 0
      /\ Pending(out) = {}
  BY DEF Init, NoOutput, Pending, PendingStatus
<1>2. PICK f \in Runner : pc = [r \in Runner |-> IF r = f THEN "resuming" ELSE "idle"]
  BY DEF Init
<1>3. \A r \in Runner : /\ ~Executing(r) /\ ~Continuing(r)
                        /\ Turn(r) => r = f
                        /\ pc[r] \notin {"modelling", "running", "failing", "raising"}
  BY <1>2 DEF Executing, Continuing, Turn
<1>4. Clean
  BY <1>1, <1>3 DEF Clean, ResultsFinal, StartedOnce, OneRunning, ExecutorRuns,
     OneExecutor, OneTurn, TurnSettled, ViewCurrent, Running
<1>5. Orderly
  BY <1>3 DEF Init, Orderly, NothingFails, OneContinue, RunningNotDone, StaleIsTaken
<1> QED BY <1>4, <1>5

\* Of a task's own steps only Enter touches a history of what went wrong.
LEMMA OnlyEnterRaces ==
    ASSUME NEW r \in Runner, Work(r), ~Enter(r)
    PROVE  UNCHANGED <<interrupted, lostUpdate, twoTurns>>
<1>1. ASSUME Claim(r) \/ LeaveLoop(r) \/ Fail(r) \/ Raise(r) \/ Load(r)
      PROVE  UNCHANGED <<interrupted, lostUpdate, twoTurns>>
  BY <1>1 DEF Claim, LeaveLoop, Fail, Raise, Load, past
<1>2. ASSUME NEW st \in {"completed", "failed"}, Complete(r, st)
      PROVE  UNCHANGED <<interrupted, lostUpdate, twoTurns>>
  BY <1>2 DEF Complete, past
<1>3. ASSUME TurnFinish(r) \/ \E n \in Call : TurnPause(r, n)
      PROVE  UNCHANGED <<interrupted, lostUpdate, twoTurns>>
  BY <1>3 DEF TurnFinish, TurnPause, EndTurn
<1> QED BY <1>1, <1>2, <1>3 DEF Work

\* The history variables never fall back.
LEMMA HistoryStays ==
    ASSUME Next
    PROVE  /\ lostUpdate => lostUpdate'
           /\ twoTurns => twoTurns'
           /\ interrupted => interrupted'
<1>1. ASSUME NEW c \in Call, Approve(c) \/ \E st \in {"rejected", "completed"} : Settle(c, st)
      PROVE  UNCHANGED past
  BY <1>1 DEF Approve, Settle
<1>2. ASSUME NEW r \in Runner, Continue(r) PROVE UNCHANGED past
  BY <1>2 DEF Continue
<1>3. ASSUME NEW s \in Stopper, StopList(s) \/ StopRead(s) PROVE UNCHANGED past
  BY <1>3 DEF StopList, StopRead
<1>4. ASSUME NEW s \in Stopper, StopWrite(s)
      PROVE  (lostUpdate => lostUpdate') /\ UNCHANGED <<interrupted, twoTurns>>
  BY <1>4 DEF StopWrite
<1>5. ASSUME NEW r \in Runner, Enter(r)
      PROVE  (twoTurns => twoTurns') /\ UNCHANGED <<interrupted, lostUpdate>>
  BY <1>5 DEF Enter, EnterAs
<1>6. ASSUME NEW r \in Runner, Work(r), ~Enter(r)
      PROVE  UNCHANGED <<interrupted, lostUpdate, twoTurns>>
  BY <1>6, OnlyEnterRaces
<1>7. ASSUME NEW r \in Runner, Fault(r)
      PROVE  interrupted' /\ UNCHANGED <<lostUpdate, twoTurns>>
  BY <1>7 DEF Fault, Interrupt, TurnFail, Drop, TurnCancel, EndTurn
<1> QED BY <1>1, <1>2, <1>3, <1>4, <1>5, <1>6, <1>7, Zenon DEF Next, User, past

\* The inductive invariant holds in every reachable state.
THEOREM Invariance == Spec => []IInv
<1>1. Init => IInv
  <2>1. Init => TypeOK
    BY InitTyped
  <2> QED BY <2>1, InitIInv DEF IInv
<1>2. IInv /\ [Next]_vars => IInv'
  <2> SUFFICES ASSUME IInv, [Next]_vars PROVE IInv'
    OBVIOUS
  <2>1. CASE Next
    <3>1. TypeOK /\ TypeOK'
      BY NextTyped DEF IInv
    <3>2. ASSUME Calm' PROVE Clean'
      <4>1. Calm
        BY <2>1, <3>2, HistoryStays DEF Calm
      <4> QED BY <2>1, <3>1, <3>2, <4>1, NextClean DEF IInv
    <3>3. ASSUME ~lostUpdate', ~interrupted' PROVE Orderly'
      <4>1. ~lostUpdate /\ ~interrupted /\ Orderly
        BY <2>1, <3>3, HistoryStays DEF IInv
      <4>2. Clean
        BY <4>1 DEF IInv, Orderly, Calm
      <4>3. CASE User
        BY <3>1, <3>3, <4>1, <4>2, <4>3, UserOrderly
      <4>4. ASSUME NEW r \in Runner, Work(r) PROVE Orderly'
        <5>1. CASE twoTurns'
          <6>1. Enter(r)
            BY <4>1, <4>4, <5>1, OnlyEnterRaces DEF Orderly
          <6> QED BY <3>1, <4>1, <4>2, <6>1, EnterOrderly
        <5>2. CASE ~twoTurns'
          <6>1. Clean'
            BY <3>2, <3>3, <5>2 DEF Calm
          <6> QED BY <3>1, <4>1, <4>2, <4>4, <6>1, WorkOrderly
        <5> QED BY <5>1, <5>2
      <4>5. ASSUME NEW r \in Runner, Fault(r) PROVE FALSE
        BY <3>3, <4>5 DEF Fault, Interrupt, TurnFail, Drop, TurnCancel
      <4> QED BY <2>1, <4>3, <4>4, <4>5 DEF Next
    <3> QED BY <3>1, <3>2, <3>3 DEF IInv
  <2>2. CASE UNCHANGED vars
    BY <2>2 DEF IInv, TypeOK, Calm, Clean, ResultsFinal, StartedOnce, OneRunning,
       ExecutorRuns, OneExecutor, OneTurn, TurnSettled, ViewCurrent, Orderly,
       NothingFails, OneContinue, RunningNotDone, StaleIsTaken, Continuing, Turn,
       Executing, Running, Pending, vars, task, stop, past
  <2> QED BY <2>1, <2>2
<1> QED BY <1>1, <1>2, PTL DEF Spec

\* No call is started twice, and no rejected call is ever started.
THEOREM RunsOnce == Spec => []AtMostOneRun
<1>1. IInv => AtMostOneRun
  BY DEF IInv, AtMostOneRun, Clean, StartedOnce
<1> QED BY <1>1, Invariance, PTL

\* Tools of a message execute one at a time and never beside a model turn.
THEOREM ExecutesAlone == Spec => []ExclusiveExecution
<1>1. IInv => ExclusiveExecution
  BY DEF IInv, ExclusiveExecution, Clean, OneExecutor, ExecutorRuns, TurnSettled, Running
<1> QED BY <1>1, Invariance, PTL

\* As long as nothing fails, one task at a time runs the model.
THEOREM TurnsAlone == Spec => []ExclusiveTurn
<1>1. IInv => ExclusiveTurn
  BY DEF IInv, ExclusiveTurn, Calm, Orderly, Clean, OneTurn, TurnSettled
<1> QED BY <1>1, Invariance, PTL

-----------------------------------------------------------------------------
(* Whether the user is asked. *)

\* Somebody looks after a call that waits: unless something failed, the task
\* that executes it, a task that comes to the loop if it is approved, and else
\* such a task or the user who is asked.
Comes(r) == pc[r] \in {"starting", "loop", "running"}
RunningHasTask == \A c \in Running : \E r \in Runner : pc[r] = "running" /\ cur[r] = c
ApprovedHasTask == (\E c \in Pending(out) : out[c].approved) => \E r \in Runner : Comes(r)
ApprovedWaits ==
    \A c \in Call : out[c].approved => c \notin AskUser /\ (out[c].results = 0 => c \in Pending(out))
Asked(o) == \E c \in Pending(o) : o[c].status = "pending" /\ ~o[c].approved
WaitingHasSomebody == Pending(out) # {} => Asked(out) \/ \E r \in Runner : Comes(r)

CaredFor == RunningHasTask /\ ApprovedHasTask /\ ApprovedWaits /\ WaitingHasSomebody
Cared == ~interrupted /\ ~lostUpdate => CaredFor

\* Prompting for one of several calls that wait leaves them waiting, and asks.
LEMMA PromptAsks ==
    ASSUME NEW o \in Output, NEW S, S \subseteq Pending(o)
    PROVE  /\ Pending(Prompt(o, S)) = Pending(o)
           /\ \A c \in Call : /\ Prompt(o, S)[c].approved = o[c].approved
                              /\ Prompt(o, S)[c].results = o[c].results
                              /\ Prompt(o, S)[c].status = "in_progress" => o[c].status = "in_progress"
           /\ S # {} /\ (\A c \in S : ~o[c].approved) => Asked(Prompt(o, S))
<1>1. CASE S = {}
  BY <1>1 DEF Prompt
<1>2. CASE S # {}
  <2>1. PICK c : c = First(S)
    OBVIOUS
  <2>2. c \in S /\ c \in Pending(o) /\ c \in Call
    BY <1>2, <2>1, FirstIn DEF Pending
  <2>3. Prompt(o, S) = [o EXCEPT ![c] = As(o[c], "pending")]
    BY <1>2, <2>1 DEF Prompt, WithStatus
  <2>4. /\ Prompt(o, S)[c] = As(o[c], "pending")
        /\ \A d \in Call \ {c} : Prompt(o, S)[d] = o[d]
    BY <2>2, <2>3 DEF Output
  <2>5. As(o[c], "pending").status = "pending" /\ As(o[c], "pending").results = o[c].results
        /\ As(o[c], "pending").approved = o[c].approved
    BY DEF As
  <2>6. o[c].results = 0 /\ o[c].status \in PendingStatus
    BY <2>2 DEF Pending
  <2>7. Pending(Prompt(o, S)) = Pending(o)
    BY <2>2, <2>4, <2>5, <2>6 DEF Pending, PendingStatus
  <2>8. \A d \in Call : /\ Prompt(o, S)[d].approved = o[d].approved
                        /\ Prompt(o, S)[d].results = o[d].results
                        /\ Prompt(o, S)[d].status = "in_progress" => o[d].status = "in_progress"
    BY <2>2, <2>4, <2>5
  <2>9. (\A d \in S : ~o[d].approved) => Asked(Prompt(o, S))
    BY <2>2, <2>4, <2>5, <2>7 DEF Asked
  <2> QED BY <2>7, <2>8, <2>9
<1> QED BY <1>1, <1>2

\* Steps that leave the output and the tasks that come alone.
LEMMA QuietCared ==
    ASSUME CaredFor, out' = out,
           \A r \in Runner : /\ Comes(r) => Comes(r)'
                             /\ pc[r] = "running" => pc'[r] = "running" /\ cur'[r] = cur[r]
    PROVE  CaredFor'
<1>1. Running' = Running /\ Pending(out)' = Pending(out) /\ Asked(out)' = Asked(out)
  BY DEF Running, Pending, Asked
<1>2. RunningHasTask'
  BY <1>1 DEF CaredFor, RunningHasTask
<1>3. (\E r \in Runner : Comes(r)) => \E r \in Runner : Comes(r)'
  OBVIOUS
<1> QED BY <1>1, <1>2, <1>3 DEF CaredFor, ApprovedHasTask, ApprovedWaits, WaitingHasSomebody

\* If a call is approved or in progress, a task comes.
LEMMA ActiveComes == ASSUME CaredFor, Active PROVE \E r \in Runner : Comes(r)
<1>1. PICK d \in Pending(out) : out[d].approved \/ out[d].status = "in_progress"
  BY DEF Active
<1>2. CASE out[d].approved
  BY <1>1, <1>2 DEF CaredFor, ApprovedHasTask
<1>3. CASE out[d].status = "in_progress"
  <2>1. d \in Running
    BY <1>1, <1>3 DEF Running
  <2> QED BY <2>1 DEF CaredFor, RunningHasTask, Comes
<1> QED BY <1>1, <1>2, <1>3

\* A task that is started comes, and no other goes.
LEMMA StartComes ==
    ASSUME TypeOK, NEW k, HandOver(k)
    PROVE  /\ \E r \in Runner : Comes(r)'
           /\ \A r \in Runner : /\ Comes(r) => Comes(r)'
                                /\ pc[r] = "running" => pc'[r] = "running" /\ cur'[r] = cur[r]
<1>1. PICK r \in Runner : Start(r, k)
  BY DEF HandOver
<1>2. pc[r] = "idle" /\ pc' = [pc EXCEPT ![r] = "starting"] /\ cur' = cur
  BY <1>1 DEF Start
<1> QED BY <1>2 DEF TypeOK, Comes

LEMMA ApproveCared == ASSUME TypeOK, CaredFor, NEW c \in Call, Approve(c) PROVE CaredFor'
<1>1. /\ out[c].results = 0 /\ out[c].status \in {"pending", "queued"} /\ c \notin AskUser
      /\ out' = [out EXCEPT ![c] = [status |-> "queued", approved |-> TRUE, results |-> 0]]
      /\ IF Active THEN UNCHANGED task ELSE HandOver("tools")
  BY DEF Approve, Resolvable
<1>2. /\ out'[c].status = "queued" /\ out'[c].approved /\ out'[c].results = 0
      /\ \A d \in Call \ {c} : out'[d] = out[d]
  BY <1>1 DEF TypeOK, Output
<1>3. /\ \E r \in Runner : Comes(r)'
      /\ \A r \in Runner : pc[r] = "running" => pc'[r] = "running" /\ cur'[r] = cur[r]
  <2>1. CASE Active
    <3>1. pc' = pc /\ cur' = cur
      BY <1>1, <2>1 DEF task
    <3>2. PICK r \in Runner : Comes(r)
      BY <2>1, ActiveComes
    <3>3. Comes(r)'
      BY <3>1, <3>2 DEF Comes
    <3> QED BY <3>1, <3>3
  <2>2. CASE ~Active
    BY <1>1, <2>2, StartComes
  <2> QED BY <2>1, <2>2
<1>4. Running' = Running
  BY <1>1, <1>2 DEF Running, Pending, PendingStatus
<1>5. RunningHasTask'
  BY <1>3, <1>4 DEF CaredFor, RunningHasTask
<1>6. ApprovedWaits'
  BY <1>1, <1>2 DEF CaredFor, ApprovedWaits, Pending, PendingStatus
<1> QED BY <1>3, <1>5, <1>6 DEF CaredFor, ApprovedHasTask, WaitingHasSomebody

LEMMA SettleCared ==
    ASSUME TypeOK, CaredFor, NEW c \in Call, NEW st \in {"rejected", "completed"}, Settle(c, st)
    PROVE  CaredFor'
<1> DEFINE o == Settled(out, c, st)
<1>1. /\ c \in Pending(out) /\ out[c].status \in {"pending", "queued"} /\ st \in Final
      /\ IF Active
         THEN out' = o /\ UNCHANGED <<open, task>>
         ELSE IF Pending(o) = {}
         THEN out' = o /\ open' = TRUE /\ HandOver("model")
         ELSE out' = Prompt(o, Pending(o)) /\ UNCHANGED <<open, task>>
  BY DEF Settle, Resolvable, Pending, PendingStatus, Final
<1>2. /\ o \in Output /\ o[c].results = 1
      /\ \A d \in Call \ {c} : o[d] = out[d]
      /\ Pending(o) = Pending(out) \ {c}
  BY <1>1, SettledEffect
<1> HIDE DEF o
<1>3. /\ Pending(out') = Pending(o)
      /\ \A d \in Call : /\ out'[d].approved = o[d].approved /\ out'[d].results = o[d].results
                         /\ out'[d].status = "in_progress" => o[d].status = "in_progress"
      /\ Pending(o) # {} /\ ~Active => Asked(out')
  <2>1. CASE Active \/ Pending(o) = {}
    <3>1. out' = o
      BY <1>1, <2>1
    <3> QED BY <2>1, <3>1
  <2>2. CASE ~Active /\ Pending(o) # {}
    <3>1. out' = Prompt(o, Pending(o))
      BY <1>1, <2>2
    <3>2. \A d \in Pending(o) : ~o[d].approved
      BY <1>2, <2>2 DEF Active, Pending
    <3> QED BY <1>2, <2>2, <3>1, <3>2, PromptAsks
  <2> QED BY <2>1, <2>2
<1>4. \A r \in Runner : /\ Comes(r) => Comes(r)'
                        /\ pc[r] = "running" => pc'[r] = "running" /\ cur'[r] = cur[r]
  <2>1. CASE HandOver("model")
    BY <2>1, StartComes
  <2>2. CASE UNCHANGED task
    BY <2>2 DEF task, Comes
  <2> QED BY <1>1, <2>1, <2>2
<1>5. Running' \subseteq Running
  BY <1>1, <1>2, <1>3 DEF Running, Pending
<1>6. RunningHasTask'
  BY <1>4, <1>5 DEF CaredFor, RunningHasTask
<1>7. ApprovedHasTask'
  <2>1. \A d \in Pending(out') : d \in Pending(out) /\ out'[d].approved = out[d].approved
    BY <1>2, <1>3 DEF Pending
  <2> QED BY <1>4, <2>1 DEF CaredFor, ApprovedHasTask
<1>8. ApprovedWaits'
  <2> SUFFICES ASSUME NEW d \in Call, out'[d].approved
               PROVE  d \notin AskUser /\ (out'[d].results = 0 => d \in Pending(out'))
    BY DEF ApprovedWaits
  <2>1. CASE d = c
    <3>1. o[c].approved = out[c].approved
      BY <1>1 DEF o, Settled, Pending, TypeOK, Output
    <3> QED BY <1>2, <1>3, <2>1, <3>1 DEF CaredFor, ApprovedWaits
  <2>2. CASE d # c
    BY <1>2, <1>3, <2>2 DEF CaredFor, ApprovedWaits
  <2> QED BY <2>1, <2>2
<1>9. WaitingHasSomebody'
  <2>1. CASE Active
    BY <1>4, <2>1, ActiveComes DEF WaitingHasSomebody
  <2>2. CASE ~Active
    BY <1>3, <2>2 DEF WaitingHasSomebody
  <2> QED BY <2>1, <2>2
<1> QED BY <1>6, <1>7, <1>8, <1>9 DEF CaredFor

\* With nobody at work, the stop endpoint leaves no call that waits.
LEMMA StopWriteCared ==
    ASSUME TypeOK, CaredFor, NEW s \in Stopper, StopWrite(s), ~lostUpdate'
    PROVE  CaredFor'
<1>1. out' = Refused(out) /\ \A r \in Runner : pc[r] = "idle"
  BY DEF StopWrite
<1>2. \A c \in Call :
        IF out[c].status \in {"pending", "queued"}
        THEN out'[c] = [status |-> "rejected", approved |-> FALSE, results |-> out[c].results]
        ELSE out'[c] = out[c]
  BY <1>1 DEF Refused
<1>3. \A c \in Pending(out) : out[c].status \in {"pending", "queued"}
  <2>1. Running = {}
    BY <1>1 DEF CaredFor, RunningHasTask
  <2> QED BY <2>1 DEF Running, Pending, PendingStatus
<1>4. Pending(out') = {}
  <2> SUFFICES ASSUME NEW c \in Call PROVE c \notin Pending(out')
    BY DEF Pending
  <2>1. CASE out[c].status \in {"pending", "queued"}
    <3>1. out'[c] = [status |-> "rejected", approved |-> FALSE, results |-> out[c].results]
      BY <1>2, <2>1
    <3> QED BY <3>1 DEF Pending, PendingStatus
  <2>2. CASE out[c].status \notin {"pending", "queued"}
    <3>1. out'[c] = out[c]
      BY <1>2, <2>2
    <3>2. c \notin Pending(out)
      BY <1>3, <2>2
    <3> QED BY <3>1, <3>2 DEF Pending
  <2> QED BY <2>1, <2>2
<1>5. ApprovedWaits'
  <2> SUFFICES ASSUME NEW c \in Call, out'[c].approved
               PROVE  c \notin AskUser /\ (out'[c].results = 0 => c \in Pending(out'))
    BY DEF ApprovedWaits
  <2>1. out'[c] = out[c] /\ out[c].status \notin {"pending", "queued"}
    <3>1. ~(out[c].status \in {"pending", "queued"})
      <4> SUFFICES ASSUME out[c].status \in {"pending", "queued"} PROVE FALSE
        OBVIOUS
      <4>1. out'[c] = [status |-> "rejected", approved |-> FALSE, results |-> out[c].results]
        BY <1>2
      <4> QED BY <4>1
    <3> QED BY <1>2, <3>1
  <2>2. c \notin Pending(out)
    BY <1>3, <2>1
  <2> QED BY <2>1, <2>2 DEF CaredFor, ApprovedWaits
<1> QED BY <1>4, <1>5 DEF CaredFor, RunningHasTask, Running, ApprovedHasTask, WaitingHasSomebody

LEMMA UserCared ==
    ASSUME TypeOK, CaredFor, User, ~lostUpdate'
    PROVE  CaredFor'
<1>1. ASSUME NEW r \in Runner, Continue(r) PROVE CaredFor'
  <2>1. out' = out /\ pc[r] = "idle" /\ pc' = [pc EXCEPT ![r] = "starting"] /\ cur' = cur
    BY <1>1 DEF Continue, Start
  <2>2. \A q \in Runner : /\ Comes(q) => Comes(q)'
                          /\ pc[q] = "running" => pc'[q] = "running" /\ cur'[q] = cur[q]
    BY <2>1 DEF TypeOK, Comes
  <2> QED BY <2>1, <2>2, QuietCared
<1>2. ASSUME NEW s \in Stopper, StopList(s) \/ StopRead(s) PROVE CaredFor'
  <2>1. out' = out /\ pc' = pc /\ cur' = cur
    BY <1>2 DEF StopList, StopRead, task
  <2>2. \A q \in Runner : /\ Comes(q) => Comes(q)'
                          /\ pc[q] = "running" => pc'[q] = "running" /\ cur'[q] = cur[q]
    BY <2>1 DEF Comes
  <2> QED BY <2>1, <2>2, QuietCared
<1> QED BY <1>1, <1>2, ApproveCared, SettleCared, StopWriteCared DEF User

LEMMA EnterCared == ASSUME TypeOK, CaredFor, NEW r \in Runner, Enter(r) PROVE CaredFor'
<1>1. /\ out' = out /\ cur' = cur /\ pc[r] = "starting" /\ pc' = [pc EXCEPT ![r] = pc'[r]]
      /\ pc'[r] = "loop" \/ Pending(out) = {}
  BY DEF TypeOK, Enter, EnterAs, Goto, Taken, Resumes
<1>2. CASE pc'[r] = "loop"
  <2>1. \A q \in Runner : /\ Comes(q) => Comes(q)'
                          /\ pc[q] = "running" => pc'[q] = "running" /\ cur'[q] = cur[q]
    BY <1>1, <1>2 DEF TypeOK, Comes
  <2> QED BY <1>1, <2>1, QuietCared
<1>3. CASE Pending(out) = {}
  BY <1>1, <1>3 DEF CaredFor, RunningHasTask, Running, ApprovedHasTask, ApprovedWaits,
     WaitingHasSomebody
<1> QED BY <1>1, <1>2, <1>3

LEMMA ClaimCared == ASSUME TypeOK, CaredFor, NEW r \in Runner, Claim(r) PROVE CaredFor'
<1> DEFINE c == First(Eligible(r))
<1>1. c \in Pending(out) /\ c \in Call /\ Running = {}
  <2>1. c \in Eligible(r)
    BY FirstIn, PendingAreCalls DEF Claim
  <2> QED BY <2>1, PendingAreCalls DEF Claim
<1> HIDE DEF c
<1>2. /\ out' = WithStatus(out, c, "in_progress")
      /\ cur' = [cur EXCEPT ![r] = c] /\ pc' = [pc EXCEPT ![r] = "running"]
  BY DEF Claim, Goto, c
<1>3. /\ out'[c].status = "in_progress" /\ out'[c].results = 0 /\ out'[c].approved = out[c].approved
      /\ \A d \in Call \ {c} : out'[d] = out[d]
  BY <1>1, <1>2 DEF WithStatus, As, TypeOK, Output, Pending
<1>4. Pending(out') = Pending(out) /\ Running' \subseteq {c}
  BY <1>1, <1>3 DEF Pending, PendingStatus, Running
<1>5. pc'[r] = "running" /\ cur'[r] = c
  BY <1>2 DEF TypeOK
<1>6. RunningHasTask'
  <2>1. \A d \in Running' : pc'[r] = "running" /\ cur'[r] = d
    BY <1>4, <1>5
  <2> QED BY <2>1 DEF RunningHasTask
<1>7. ApprovedHasTask' /\ WaitingHasSomebody'
  BY <1>5 DEF ApprovedHasTask, WaitingHasSomebody, Comes
<1>8. ApprovedWaits'
  <2>1. Pending(out)' = Pending(out)
    BY <1>4 DEF Pending
  <2>2. \A d \in Call : out'[d].approved = out[d].approved
    BY <1>3
  <2>3. \A d \in Call : out'[d].results = 0 => out[d].results = 0
    BY <1>1, <1>3 DEF Pending
  <2> QED BY <2>1, <2>2, <2>3 DEF CaredFor, ApprovedWaits
<1> QED BY <1>6, <1>7, <1>8 DEF CaredFor

\* A task leaves a call to the one that executes it, or to the user.
LEMMA LeaveLoopCared == ASSUME TypeOK, CaredFor, NEW r \in Runner, LeaveLoop(r) PROVE CaredFor'
<1>1. /\ pc[r] = "loop" /\ pc' = [pc EXCEPT ![r] = "idle"] /\ cur' = cur
      /\ \/ Running # {} /\ out' = out
         \/ Running = {} /\ Eligible(r) = {} /\ out' = Prompt(out, Pending(out))
  BY DEF LeaveLoop, Goto
<1>2. CASE Running # {} /\ out' = out
  <2>1. PICK q \in Runner : pc[q] = "running"
    BY <1>2 DEF CaredFor, RunningHasTask
  <2>2. Comes(q)'
    BY <1>1, <2>1 DEF TypeOK, Comes
  <2>3. Running' = Running /\ Pending(out)' = Pending(out)
    BY <1>2 DEF Running, Pending
  <2>4. RunningHasTask'
    BY <1>1, <2>3 DEF TypeOK, CaredFor, RunningHasTask
  <2> QED BY <1>2, <2>2, <2>3, <2>4 DEF CaredFor, ApprovedHasTask, ApprovedWaits, WaitingHasSomebody
<1>3. CASE Running = {} /\ Eligible(r) = {} /\ out' = Prompt(out, Pending(out))
  <2>1. \A c \in Pending(out) : ~out[c].approved
    BY <1>3, PendingAreCalls DEF CaredFor, ApprovedWaits, Eligible
  <2>2. /\ Pending(out') = Pending(out)
        /\ \A c \in Call : /\ out'[c].approved = out[c].approved /\ out'[c].results = out[c].results
                           /\ out'[c].status = "in_progress" => out[c].status = "in_progress"
        /\ Pending(out) # {} => Asked(out')
    BY <1>3, <2>1, PromptAsks DEF TypeOK
  <2>3. Running' = {}
    BY <1>3, <2>2 DEF Running, Pending
  <2>4. \A c \in Pending(out') : ~out'[c].approved
    BY <2>1, <2>2, PendingAreCalls
  <2>5. ApprovedWaits'
    BY <2>2 DEF CaredFor, ApprovedWaits
  <2> QED BY <2>2, <2>3, <2>4, <2>5 DEF CaredFor, RunningHasTask, ApprovedHasTask, WaitingHasSomebody
<1> QED BY <1>1, <1>2, <1>3

\* A task that completes a call goes on to an approved one, or asks.
LEMMA CompleteCared ==
    ASSUME TypeOK, Clean, CaredFor, NEW r \in Runner, NEW st \in {"completed", "failed"},
           Complete(r, st)
    PROVE  CaredFor'
<1> DEFINE c == cur[r]
           o == Settled(out, c, st)
           S == {d \in Pending(o) : ~o[d].approved}
<1>1. /\ c \in Running /\ c \in Pending(out) /\ c \in Call /\ st \in Final
      /\ out' = Prompt(o, S) /\ pc' = [pc EXCEPT ![r] = AfterCall(r, o)]
  BY PendingAreCalls DEF Complete, StillRunning, Running, Pending, PromptNext, Goto, Final
<1>2. /\ o \in Output /\ o[c].results = 1
      /\ \A d \in Call \ {c} : o[d] = out[d]
      /\ Pending(o) = Pending(out) \ {c}
      /\ o[c].approved = out[c].approved
  <2>1. o[c].approved = out[c].approved
    BY <1>1 DEF Settled, TypeOK, Output
  <2> QED BY <1>1, <2>1, SettledEffect
<1> HIDE DEF c, o
<1>3. /\ Pending(out') = Pending(o)
      /\ \A d \in Call : /\ out'[d].approved = o[d].approved /\ out'[d].results = o[d].results
                         /\ out'[d].status = "in_progress" => o[d].status = "in_progress"
      /\ S # {} => Asked(out')
  BY <1>1, <1>2, PromptAsks
<1>4. Running' = {}
  <2>1. \A d \in Running' : d \in Running /\ d # c
    BY <1>2, <1>3 DEF Running, Pending
  <2> QED BY <1>1, <2>1 DEF Clean, OneRunning
<1>5. (\E d \in Pending(o) : o[d].approved) => Comes(r)'
  <2> SUFFICES ASSUME \E d \in Pending(o) : o[d].approved PROVE Comes(r)'
    OBVIOUS
  <2>1. AfterCall(r, o) = "loop"
    BY DEF AfterCall
  <2> QED BY <1>1, <2>1 DEF TypeOK, Comes
<1>6. ApprovedHasTask' /\ WaitingHasSomebody'
  <2>1. \A d \in Pending(out') : out'[d].approved = o[d].approved /\ d \in Pending(o)
    BY <1>3 DEF Pending
  <2> QED BY <1>3, <1>5, <2>1 DEF ApprovedHasTask, WaitingHasSomebody
<1>7. ApprovedWaits'
  <2> SUFFICES ASSUME NEW d \in Call, out'[d].approved
               PROVE  d \notin AskUser /\ (out'[d].results = 0 => d \in Pending(out'))
    BY DEF ApprovedWaits
  <2>1. CASE d = c
    BY <1>2, <1>3, <2>1 DEF CaredFor, ApprovedWaits
  <2>2. CASE d # c
    BY <1>2, <1>3, <2>2 DEF CaredFor, ApprovedWaits
  <2> QED BY <2>1, <2>2
<1> QED BY <1>4, <1>6, <1>7 DEF CaredFor, RunningHasTask

LEMMA TurnFinishCared ==
    ASSUME TypeOK, Clean, CaredFor, NEW r \in Runner, TurnFinish(r)
    PROVE  CaredFor'
<1>1. pc[r] = "modelling" /\ out' = Finished(view[r])
  BY DEF TurnFinish, EndTurn
<1>2. view[r] = out /\ \A c \in Call : out[c].results = 0 => out[c].status \notin PendingStatus
  BY <1>1, TurnKnows
<1>3. \A c \in Call : /\ out'[c].results = out[c].results /\ out'[c].approved = out[c].approved
                      /\ out[c].status \notin PendingStatus => out'[c] = out[c]
  BY <1>1, <1>2 DEF Finished, As, PendingStatus
<1>4. Pending(out) = {} /\ Pending(out') = {}
  BY <1>2, <1>3 DEF Pending
<1>5. ApprovedWaits'
  BY <1>3, <1>4 DEF CaredFor, ApprovedWaits
<1> QED BY <1>4, <1>5 DEF CaredFor, RunningHasTask, Running, ApprovedHasTask, WaitingHasSomebody

\* A pause asks about the first call that waits.
LEMMA TurnPauseCared ==
    ASSUME TypeOK, Clean, CaredFor, NEW r \in Runner, NEW n \in Call, TurnPause(r, n)
    PROVE  CaredFor'
<1> DEFINE new == New(out, n)
           o == Staged(out, new)
           q == [c \in Call |-> Queue(o, c)]
           S == Unresolved(o)
<1>1. pc[r] = "modelling"
  BY DEF TurnPause, EndTurn
<1>2. view[r] = out /\ \A c \in Call : out[c].results = 0 => out[c].status \notin PendingStatus
  BY <1>1, TurnKnows
<1>3. /\ out' = Prompt(q, S) /\ new # {}
      /\ ~(new \subseteq AskUser) \/ \E c \in Call : new = {c}
  BY <1>2 DEF TurnPause, EndTurn, Paused
<1>4. \A c \in Call : out[c].approved /\ out[c].results = 0 => FALSE
  BY <1>2 DEF CaredFor, ApprovedWaits, Pending
<1>5. new \subseteq Call /\ \A c \in new : out[c].status = "absent"
  <2>1. 1..n \subseteq Call
    BY NumCallsAssumption DEF Call
  <2> QED BY <2>1 DEF New
<1> HIDE DEF new
<1>6. o \in Output /\ out \in Output
  BY WholeOutputTyped DEF TypeOK
<1>7. \A c \in Call :
        \/ c \notin new /\ o[c] = out[c]
        \/ c \in new /\ ~o[c].approved /\ o[c].status = "completed" /\ o[c].results = 1
        \/ c \in new /\ ~o[c].approved /\ o[c].status = "in_progress" /\ o[c].results = 0
  BY DEF Staged, Issued
<1>8. \E c \in new : o[c].status = "in_progress" /\ o[c].results = 0
  <2>1. \E c \in new : ~(c \in new \cap AskUser /\ new # {c})
    BY <1>3, <1>5
  <2> QED BY <1>5, <2>1 DEF Staged, Issued
<1>9. q \in Output
  BY <1>6 DEF Queue, As, Output, CallRecord, Status, PendingStatus
<1> HIDE DEF o
<1>10. S \subseteq Call /\ S # {}
  BY <1>5, <1>8 DEF Unresolved
<1>11. \A c \in Call : q[c].approved = o[c].approved /\ q[c].results = o[c].results
                       /\ (q[c].results = 0 => q[c].status # "in_progress")
  BY DEF Queue, As, Unresolved
<1> HIDE DEF q, S
<1>12. PICK c \in S : /\ out'[c].status = "pending" /\ out'[c].approved = q[c].approved
                      /\ out'[c].results = q[c].results
                      /\ \A d \in Call \ {c} : out'[d] = q[d]
  <2>1. First(S) \in S /\ First(S) \in Call
    BY <1>10, FirstIn
  <2> QED BY <1>3, <1>9, <1>10, <2>1 DEF Prompt, WithStatus, As, Output
<1>13. o[c].results = 0 /\ c \in Call
  BY <1>12 DEF S, Unresolved
<1>14. \A d \in Call : /\ out'[d].approved = o[d].approved /\ out'[d].results = o[d].results
                       /\ out'[d].results = 0 => out'[d].status # "in_progress"
  BY <1>11, <1>12, <1>13
<1>15. \A d \in Call : out'[d].approved => d \notin AskUser /\ out'[d].results # 0
  BY <1>4, <1>7, <1>14 DEF CaredFor, ApprovedWaits
<1>16. Asked(out')
  BY <1>12, <1>13, <1>14, <1>15 DEF Asked, Pending, PendingStatus
<1>17. Running' = {} /\ \A d \in Pending(out') : ~out'[d].approved
  BY <1>14, <1>15 DEF Running, Pending
<1>18. ApprovedWaits'
  BY <1>15 DEF ApprovedWaits
<1> QED BY <1>16, <1>17, <1>18 DEF CaredFor, RunningHasTask, ApprovedHasTask, WaitingHasSomebody

LEMMA WorkCared ==
    ASSUME TypeOK, Clean, Orderly, CaredFor, NEW r \in Runner, Work(r)
    PROVE  CaredFor'
<1>1. ~Fail(r) /\ ~Raise(r)
  BY DEF Orderly, NothingFails, Fail, Raise
<1>2. CASE Load(r)
  <2>1. out' = out /\ cur' = cur /\ pc[r] = "resuming" /\ pc' = [pc EXCEPT ![r] = "modelling"]
    BY <1>2 DEF Load, Goto
  <2>2. \A q \in Runner : /\ Comes(q) => Comes(q)'
                          /\ pc[q] = "running" => pc'[q] = "running" /\ cur'[q] = cur[q]
    BY <2>1 DEF TypeOK, Comes
  <2> QED BY <2>1, <2>2, QuietCared
<1> QED BY <1>1, <1>2, EnterCared, ClaimCared, LeaveLoopCared, CompleteCared, TurnFinishCared,
           TurnPauseCared DEF Work

\* When no task is left and nothing went wrong, the user is asked about a call
\* that waits, whatever requests, answers and tasks met before.
THEOREM AsksUser == Spec => []UserIsAsked
<1>1. Init => Cared
  <2> SUFFICES ASSUME Init PROVE CaredFor
    BY DEF Cared
  <2>1. \A c \in Call : ~out[c].approved /\ out[c].status = "absent"
    BY DEF Init, NoOutput
  <2> QED BY <2>1 DEF CaredFor, RunningHasTask, Running, Pending, PendingStatus, ApprovedHasTask,
                      ApprovedWaits, WaitingHasSomebody
<1>2. IInv /\ Cared /\ [Next]_vars => Cared'
  <2> SUFFICES ASSUME IInv, Cared, [Next]_vars, ~interrupted', ~lostUpdate' PROVE CaredFor'
    BY DEF Cared
  <2>1. CASE Next
    <3>1. ~interrupted /\ ~lostUpdate /\ TypeOK /\ Orderly /\ Clean /\ CaredFor
      <4>1. ~interrupted /\ ~lostUpdate
        BY <2>1, HistoryStays
      <4>2. TypeOK /\ Orderly /\ CaredFor
        BY <4>1 DEF IInv, Cared
      <4> QED BY <4>1, <4>2 DEF IInv, Orderly, Calm
    <3>2. ASSUME NEW r \in Runner, Fault(r) PROVE FALSE
      BY <3>2 DEF Fault, Interrupt, TurnFail, Drop, TurnCancel
    <3> QED BY <2>1, <3>1, <3>2, UserCared, WorkCared DEF Next
  <2>2. CASE UNCHANGED vars
    <3>1. CaredFor /\ out' = out /\ pc' = pc /\ cur' = cur
      BY <2>2 DEF Cared, vars, task, past
    <3>2. \A q \in Runner : /\ Comes(q) => Comes(q)'
                            /\ pc[q] = "running" => pc'[q] = "running" /\ cur'[q] = cur[q]
      BY <3>1 DEF Comes
    <3> QED BY <3>1, <3>2, QuietCared
  <2> QED BY <2>1, <2>2
<1>3. Cared => UserIsAsked
  BY DEF Cared, CaredFor, WaitingHasSomebody, Asked, UserIsAsked, Comes
<1> QED BY <1>1, <1>2, <1>3, Invariance, PTL DEF Spec

-----------------------------------------------------------------------------
(* Whether results stay. *)

Kept(o, p) == \A c \in Call : p[c].results >= o[c].results

LEMMA SettledKeeps ==
    ASSUME NEW o \in Output, NEW c \in Call, NEW st \in Status
    PROVE  \A d \in Call : Settled(o, c, st)[d].results >= o[d].results
<1>1. \A d \in Call : o[d].results \in Nat
  BY DEF Output, CallRecord
<1> QED BY <1>1 DEF Settled, Output

\* Prompting for calls does not change any result.
LEMMA PromptKeeps ==
    ASSUME NEW o \in Output, NEW S, S \subseteq Call
    PROVE  \A d \in Call : Prompt(o, S)[d].results = o[d].results
<1> TAKE d \in Call
<1>1. Prompt(o, S)[d] = o[d] \/ Prompt(o, S)[d] = As(o[d], "pending")
  BY PromptEffect
<1>2. As(o[d], "pending").results = o[d].results
  BY DEF As
<1> QED BY <1>1, <1>2

\* Settling a call that waits and prompting for another keeps every result.
LEMMA SettlePromptKeeps ==
    ASSUME TypeOK, NEW c \in Pending(out), NEW st \in Final, NEW S, S \subseteq Call
    PROVE  Kept(out, Prompt(Settled(out, c, st), S)) /\ Kept(out, Settled(out, c, st))
<1>1. Settled(out, c, st) \in Output
  BY SettledEffect
<1>2. out \in Output /\ c \in Call /\ st \in Status
  BY DEF TypeOK, Pending, Final, Status, PendingStatus
<1>3. \A d \in Call : Settled(out, c, st)[d].results >= out[d].results
  BY <1>2, SettledKeeps
<1> QED BY <1>1, <1>3, PromptKeeps DEF Kept

LEMMA UnchangedKeeps == ASSUME TypeOK, out' = out PROVE Kept(out, out')
<1>1. \A d \in Call : out[d].results \in Nat
  BY DEF TypeOK, Output, CallRecord
<1> QED BY <1>1 DEF Kept

LEMMA UserKeeps == ASSUME TypeOK, User, ~lostUpdate' PROVE Kept(out, out')
<1>1. \A d \in Call : out[d].results \in Nat
  BY DEF TypeOK, Output, CallRecord
<1>2. ASSUME NEW c \in Call, Approve(c) PROVE Kept(out, out')
  BY <1>1, <1>2 DEF Approve, Kept, TypeOK, Output
<1>3. ASSUME NEW c \in Call, NEW st \in {"rejected", "completed"}, Settle(c, st)
      PROVE  Kept(out, out')
  <2>1. c \in Pending(out) /\ st \in Final
    BY <1>3 DEF Settle, Resolvable, Pending, PendingStatus, Final
  <2>2. \/ out' = Settled(out, c, st)
        \/ out' = Prompt(Settled(out, c, st), Pending(Settled(out, c, st)))
    BY <1>3 DEF Settle
  <2>3. Pending(Settled(out, c, st)) \subseteq Call
    BY DEF Pending
  <2> QED BY <2>1, <2>2, <2>3, SettlePromptKeeps
<1>4. ASSUME NEW s \in Stopper, StopWrite(s) PROVE Kept(out, out')
  <2>1. out' = Refused(out)
    BY <1>4 DEF StopWrite
  <2> QED BY <1>1, <2>1 DEF Refused, Kept
<1>5. ASSUME \/ \E r \in Runner : Continue(r)
             \/ \E s \in Stopper : StopList(s) \/ StopRead(s)
      PROVE  Kept(out, out')
  BY <1>5, UnchangedKeeps DEF Continue, StopList, StopRead
<1> QED BY <1>2, <1>3, <1>4, <1>5 DEF User

\* A turn that ends writes back what it loaded, which is the saved output,
\* and the calls it adds had no result.
LEMMA TurnKeeps ==
    ASSUME TypeOK, Clean, NEW r \in Runner,
           TurnFinish(r) \/ (\E n \in Call : TurnPause(r, n)) \/ \E n \in 0..NumCalls : TurnCancel(r, n)
    PROVE  Kept(out, out')
<1>1. pc[r] = "modelling"
  BY DEF TurnFinish, TurnPause, TurnCancel, EndTurn
<1>2. /\ view[r] = out /\ out \in Output
      /\ \A c \in Call : /\ out[c].results \in Nat
                         /\ out[c].status = "absent" => out[c].results = 0
  BY <1>1, TurnKnows DEF TypeOK, Final
<1>3. CASE TurnFinish(r)
  BY <1>2, <1>3 DEF TurnFinish, EndTurn, Finished, As, Kept
<1>4. ASSUME NEW n \in 0..NumCalls, TurnCancel(r, n) PROVE Kept(out, out')
  <2> DEFINE o == Issued(out, New(out, n))
  <2>1. out' = Cancelled(o)
    BY <1>2, <1>4 DEF TurnCancel, EndTurn
  <2>2. \A c \in Call : o[c].results = out[c].results
    BY <1>2 DEF Issued, New
  <2> HIDE DEF o
  <2>3. \A c \in Call : out'[c].results = o[c].results
    BY <2>1 DEF Cancelled, As
  <2> QED BY <1>2, <2>2, <2>3 DEF Kept
<1>5. ASSUME NEW n \in Call, TurnPause(r, n) PROVE Kept(out, out')
  <2> DEFINE o == Staged(out, New(out, n))
  <2>1. out' = Paused(o)
    BY <1>2, <1>5 DEF TurnPause, EndTurn
  <2>2. \A c \in Call : o[c].results >= out[c].results
    BY <1>2 DEF Staged, Issued, New
  <2>3. o \in Output
    BY <1>2, WholeOutputTyped
  <2> HIDE DEF o
  <2>4. \A c \in Call : out'[c].results = o[c].results
    BY <2>1, <2>3, PauseEffect
  <2> QED BY <2>2, <2>4 DEF Kept
<1> QED BY <1>3, <1>4, <1>5

LEMMA WorkKeeps ==
    ASSUME TypeOK, Clean, NEW r \in Runner, Work(r) \/ Fault(r)
    PROVE  Kept(out, out')
<1>1. \A d \in Call : out[d].results \in Nat
  BY DEF TypeOK, Output, CallRecord
<1>2. CASE Claim(r)
  BY <1>1, <1>2 DEF Claim, WithStatus, As, Kept, TypeOK, Output
<1>3. CASE LeaveLoop(r)
  <2>1. Pending(out) \subseteq Call /\ out \in Output
    BY DEF Pending, TypeOK
  <2>2. out' = out \/ out' = Prompt(out, Pending(out))
    BY <1>3 DEF LeaveLoop
  <2> QED BY <1>1, <2>1, <2>2, PromptKeeps DEF Kept
<1>4. ASSUME NEW st \in {"completed", "failed"}, Complete(r, st) PROVE Kept(out, out')
  <2>1. cur[r] \in Pending(out) /\ st \in Final
    BY <1>4 DEF Complete, StillRunning, Running, Final
  <2>2. \E S \in SUBSET Call : out' = Prompt(Settled(out, cur[r], st), S)
    BY <1>4 DEF Complete, PromptNext, Pending
  <2> QED BY <2>1, <2>2, SettlePromptKeeps
<1>5. CASE Fail(r)
  <2>1. CASE StillRunning(cur[r])
    <3>1. cur[r] \in Pending(out) /\ "incomplete" \in Final /\ {} \subseteq Call
      BY <2>1 DEF StillRunning, Running, Final
    <3>2. out' = Settled(out, cur[r], "incomplete")
      BY <1>5, <2>1 DEF Fail
    <3> QED BY <3>1, <3>2, SettlePromptKeeps
  <2>2. CASE ~StillRunning(cur[r])
    BY <1>5, <2>2, UnchangedKeeps DEF Fail
  <2> QED BY <2>1, <2>2
<1>6. CASE Enter(r) \/ Raise(r) \/ Load(r) \/ Interrupt(r) \/ TurnFail(r) \/ Drop(r)
  BY <1>6, UnchangedKeeps DEF Enter, EnterAs, Raise, Load, Interrupt, TurnFail, Drop
<1> QED BY <1>2, <1>3, <1>4, <1>5, <1>6, TurnKeeps DEF Work, Fault

\* A result that was recorded is never undone: not by a turn that writes back
\* a whole output, and not by a stop request unless its copy was out of date.
THEOREM KeepsResults == Spec => ResultsKept
<1>1. IInv /\ [Next]_vars => [Calm' => \A c \in Call : out'[c].results >= out[c].results]_vars
  <2> SUFFICES ASSUME IInv, Next, Calm' PROVE Kept(out, out')
    BY DEF Kept
  <2>1. TypeOK /\ Clean /\ ~lostUpdate'
    BY HistoryStays DEF IInv, Calm
  <2> QED BY <2>1, UserKeeps, WorkKeeps DEF Next
<1> QED BY <1>1, Invariance, PTL DEF Spec, ResultsKept
=============================================================================
