# A TLA+ model of Open WebUI's background work

Open WebUI is a chat server (FastAPI, Python, asyncio) with a Svelte client.
Several server processes, called *instances* below, may serve one database and
one Redis. This directory models the part of the server that is hard to test:
the work that goes on behind a chat after the request that started it has been
answered, and the state that several tasks, requests, tabs and instances share:
the messages of a chat, a note that is edited together, the credentials of an
account, and the subscriptions of an instance.

Paths below are relative to `src/backend/open_webui/` unless they start with
`CHANGELOG`.

## Inventory

| Component | State | Operations | Meets |
|---|---|---|---|
| **Tool approval** (`utils/tool_approval.py`, `utils/ask_user.py`, parts of `main.py` and `utils/middleware.py`) | the calls, results and continuation item in a message's saved output; its `done` flag | pause for approval, approve, reject, answer, run approved calls, continue the model, stop | task registry (starts and stops tasks), chats (two kinds of transaction) |
| **Task registry** (`tasks.py`) | per process: table of asyncio tasks; in Redis: marker with expiry, index of all tasks, set of a chat's tasks; pub/sub channel for stop commands | create, refresh, list and prune, stop, clean up | everything that asks "is this chat busy?" |
| **Timers** (`utils/timers.py`) | hidden chat rows with a status, a due time and a claim | create, claim when due, fire, put back, cancel on a read or a message | scheduler loop, task registry, parent chat |
| **Sub-agents** (`utils/subagents.py`) | reserved slots, hidden chats, results waiting in the parent chat | delegate in foreground or background, report, deliver pending results | task registry, parent chat, timers (same lock) |
| **Two-factor state** (`utils/mfa.py`, `models/auths.py`, `routers/mfa.py`) | factors, challenges, backup codes, revision, session stamp | enrol, verify, challenge, reset, revoke, change the password | rate limits |
| **Rate limits** (`utils/rate_limit.py`) | counters per bucket, in Redis or in memory | count and compare | sign-in |
| **Collaborative documents** (`socket/utils.py` `YdocManager`, handlers in `socket/main.py`) | update list, size counter, editors, lease lock, pending save | join, update, compact, save, leave, disconnect, clear | task registry (the pending save is a task), notes |
| **Chats and messages** (`models/chats.py`, `models/chat_messages.py`; the chat page of the client) | the message tree embedded in the chat's row, a row per message, the copy of each tab | new turn, end of a reply, save of a whole copy, delete, load | tool approval, sub-agents, timers (they write messages) |
| **Model cache, Redis lock** (`socket/utils.py`) | a Redis hash with a signature; a copy per process; a lease | rewrite, read through the cache; acquire, renew, release | |
| **Room channels** (`socket/redis_room_channels.py`) | wanted and confirmed subscriptions | join, leave, reconnect | |
| **Automations** (`models/automations.py`, `utils/automations.py`, `utils/recurrence.py`) | rows with the next run | claim, edit, toggle, run | scheduler loop |
| **Response streams** (`tasks.py` 204-310) | a snapshot and the deltas appended to it | save, append, load | task registry |

Configuration, access control, retrieval, channels, calendar, plugins, storage,
sign-in, notifications, context compaction and the client are listed in
`PROJECT.json` with the reason why they are not modelled: they are calls to
external systems, edits of single rows, or pure functions, and keep no state
that two actors change in several steps.

### How the components interact

* A chat completion starts one task per model through the registry. The task
  runs the approved calls of a message or a model turn, saves the message,
  deregisters itself, tells the clients whether the chat is idle, and then looks
  for results of sub-agents that wait in the chat.
* Timers and sub-agents ask the registry whether the chat is busy, under a lock
  on the chat, before they write to it, and start a chat completion themselves.
* Stop requests find tasks through the registry. If there is none, the stop
  endpoint writes to the waiting message itself.
* All writers of a message meet in the chat's row: some read and write it in one
  transaction (`edit_message_output`), others write a copy they took earlier.

### What is hard

Requests and tasks interleave at every `await`; the tables of tasks and the
locks are per process, the database and Redis are shared; a task can be cancelled
anywhere; instances die and lose their connection to Redis. `PROJECT.json` lists
the places as hazards, each with the properties that would catch it.

## Modules

| Module | What |
|---|---|
| `ToolApproval` | tool approval of one message |
| `ToolApprovalProofs` | theorems about it |
| `TaskRegistry` | the registry for the tasks of one chat |
| `TaskRegistryProofs` | theorems about it |
| `TimerLifecycle` | the timers of one chat |
| `TimerLifecycleProofs` | theorems about it |
| `Subagents` | the sub-agents of one chat |
| `Mailbox` | what a chat promises about their results; `Subagents` implements it |
| `SubagentsProofs` | theorems about it |
| `MfaAccount` | requests that race on the credentials of one account |
| `Credentials` | the abstract account, which `MfaAccount` implements |
| `MfaAccountProofs` | theorems about it, the refinement among them |
| `NoteDocument` | a note that several people edit |
| `NoteDocumentProofs` | theorems about it |
| `ChatHistory` | the message tree of one chat, and its copies in tabs |
| `ChatHistoryProofs` | theorems about it |
| `RoomChannels` | the room subscriptions of one instance |
| `RoomChannelsProofs` | theorems about it |
| `MC...` | instances for TLC: symmetry sets and state constraints only |

### ToolApproval

*State.* `out` is the saved output, one record per function call: its status,
whether the user approved it, and how many results it has. `open` says that the
last item of the output is the empty message that marks a continuation, `done`
is the message's flag. `pc`, `kind`, `mode`, `cur` and `view` are the request
tasks: where they are, what they were started for, the approval mode they run
with, the call they execute, and the copy of the output a model turn works on.
`spc` and `snap` are the stop requests and the copy they have read.

*Actions.* `Approve` and `Settle` are the resolve endpoint
(`resolve_tool_call_output`), which decides in one transaction whether a task
must be started; `Continue` is the button of the client, which exists only when
no response is under way. `Enter` is the preparation of the payload with its
guard against stale continuations (the server itself does not ask whether a task is at
work); `Claim`, `Complete`, `LeaveLoop` are the loop
of `resume_tool_calls`, each one transaction on the message; `Interrupt`, `Fail`,
`Raise` its error path (the shielded completion, then the error save of
`process_chat`). `Load`, `TurnFinish`, `TurnPause`, `TurnCancel`, `TurnFail` are
a model turn; `StopList`, `StopRead`, `StopWrite` the stop endpoint when it finds
no task. `Drop` is a cancellation before anything is saved, or a crash.

*Abstraction.* Items of the output other than calls, results and the last
continuation are left out, as are names, arguments and texts. Tools that run
within a model turn (mode `full`) do not appear: only the calls that
are saved without a result do. A question that is alone is stored as shown at once
(`ask_user.py:114`); `Staged` leaves it in progress, and the pause that follows shows it.

*Properties.* A call is not started twice, nor after its rejection
(`AtMostOneRun`); tools never run side by side or beside a model turn
(`ExclusiveExecution`); one task at a time runs the model, after all calls are
settled (`ExclusiveTurn`); no recorded result is lost (`ResultsKept`); when
nothing can go on by itself the user is asked about some call (`UserIsAsked`);
approved calls get executed (`ApprovedIsRun`) and the model continues
(`ModelContinues`).

The code leaves two races open, and the history variables `lostUpdate` and
`twoTurns` record them. `Calm` says that neither has happened, and the
safety properties are about calm behaviours. `NeverRunAgain` and `OnlyOneTurn` state
what the repository promises without that exception (see "Known exceptions").

### TaskRegistry

*State.* `marker`, `index`, `members` are the three parts of the records in
Redis; `local` is the union of the instances' tables; `save` the
commands of a record's creation that Redis has not yet run; `body` how far each
task is; `asked` the tasks whose `cancel()` was called; `home`, `up`, `hears`,
`inbox` the instances, their subscription to stop commands and what they have
received; `spc`, `todo`, `seen` the stop requests and the listings under way;
`announced` and `shown` what the clients were told.

*Actions.* `Create`, `Save`, `Announce` are the request; `Begin`, `End`,
`Cancel`, `Close`, `CheckMembers`, `CheckMarkers`, `Emit`, `Callback` a task to
its end; `StopMembers` to `StopNone` a stop request; `Listen`, `Disconnect`,
`Reconnect`, `Expire`, `Crash` the instances. A listing is two steps (the set,
then the markers with the pruning of what has none). The deletion of a record is
one step: its commands are idempotent and a listing needs both the marker and
the membership, so a partial deletion looks like a whole one. `hget` and the
publication of a stop command are one step for the same reason.

*Not modelled.* The registry without Redis; `REDIS_TASK_TTL = 0`; the second
listing after the last event (it belongs to the sub-agents). A heartbeat that fails is
logged and tried again a quarter of the time to live later (`tasks.py:77-84`): the model
assumes that it never fails for the whole of that time (`Refreshed`). In a longer outage
of Redis the marker of a running task expires, and the next listing forgets the task, so
`RunningIsListed` is about Redis being there. Errors of the deregistration and of the idle event are
swallowed (`main.py:1783`); `Close` and `Emit` do not fail in the model.

*Properties.* A running task that nobody stopped is listed (`RunningIsListed`);
a stop request reaches the tasks that it was due to stop (`StopTakesEffect`);
the last task to go tells the clients so (`IdleIsShown`); records of ended tasks
vanish for good (`EndedIsForgotten`). `RunningIsListed` and `StopTakesEffect`
are about a single Redis (`Clustered = FALSE`), which runs the commands of a
pipeline in order. On a cluster they go to several nodes, and a listing that
finds the set entry first removes the new task.

### TimerLifecycle

*State.* `status` and `claim` are the timer rows (a row has `timer_at` exactly
when it is pending, so `timer_at` is not a variable); `due` the timers whose time
has come; `exec` how far each execution is, by the claim it was started for;
`replies` the number of active tasks of the parent chat; `vpc` and `read` the
reads and messages of the user, which fetch pending timers and cancel them in a
later write.

*Actions.* `ClaimDue` is the poll of any instance (select with a row lock and
commit); `Verify`, `Refuse`, `CheckBusy`, `Requeue`, `Fire`, `Respond`,
`RespondFails` are `execute_due_timer`, cut where it awaits with something at
stake; `CheckBusy` to `Fire` hold the lock on the parent chat. `VisitRead`,
`VisitWrite`, `Ask` are a read of the chat or a message to it. `Die` ends an
execution anywhere. Row locks are those of PostgreSQL; SQLite has none, and two
processes that share an SQLite file may both claim a timer.

*Properties.* A timer goes off at most once (`FiresOnce`); it goes off, is cancelled or fails in the end, unless an
execution of it died (`IsSettled`). A claim is never taken back, so the last
exception is real: a process that dies between the claim and the prompt loses the
timer.


### Subagents

*State.* `pc` says where each delegation and each response task of the chat is,
`home` in which process, and `by` which response waits for a delegation. `active`
and `free` are `_background_active` and the foreground semaphore of each process,
`lock` the holder of the chat's entry in its `_parent_locks`. `result` is the
pending message of a background agent in the chat, `batch` what a courier has
claimed and not handed over. `given`, `auto`, `stray` and `failed` are history.

*Actions.* `Delegate`, `CreateFails`, `Launch`, `LaunchFails` and `Finish` are
`delegate` and `run_reserved`; `LockToStore` and `Store` are the end of
`run_background`. A courier is a background agent that has stored its result, or a
response task that is over (the end of `process_chat`): it runs `Look`, `Poll`,
`LockToClaim`, `LookAgain`, `Claim` and `Respond`, which are
`process_pending_internal_messages`; each is what happens between two awaits.
`Ask` and `Stop` are the user's, `Cancel` and `Crash` happen anywhere. The
registry appears as `Busy`: a response task of the chat is registered
(`TaskRegistry` is about how that is known; here it is known at once). Which
results form a batch depends on the answers they hang under and is left open, and
`max_async` and `max_concurrent` are limits (`-1` would lift them).

*Properties.* Slots and agents at work agree in every process (`SlotsMatchWork`);
a result is put into the chat once and given to the model once, or lost for good
with a courier that fails (`IsMailbox`: `Subagents` implements `Mailbox`, where a
result that is claimed and not yet handed over still waits); a process does not answer
two batches at a time (`OneFollowUp`); a result that waits is given to the model,
unless a courier fails (`ResultIsGiven`). Two ways in which slots and agents part
are recorded in `stray` and excepted: a delegation whose response is stopped while
it is being created keeps its slot, and an agent whose
registration failed gives its slot back twice.

### MfaAccount and Credentials

*State.* `row` is the account's row of the auth table: password, session stamp,
revision, authenticator secret, last time step used, recovery codes, the two open
challenges, the operator's reset and its ticket, and the attempt counters. `request`
is what each request has in memory: the row it read (`auth`) and the row it wants
(`next`). `sessions` are the sessions issued, with the stamp in their token. `used`
and `tested` record the factors accepted and the codes compared.

*Actions.* A request is cut where the code opens a transaction: `Begin`,
`StartEnrollment` and `StartChange` read the row; `CountSignIn` and `CountAndTest`
save the attempt, and only then compare the code; `Retry` is the loop that reads
again after a conflict, at most five times; `Save` is the compare-and-swap of
`update_mfa_by_id`, `Conflict` its failure; `Authenticate`, `CompleteLogin` and
`CreateSession` end a sign-in. Secrets, tokens and stamps are numbered by the save
that stored them, and codes are `<<kind, secret, step>>`: hashes and TOTP arithmetic are
abstracted to which secret and step they are for, the window of accepted steps and
the step used last are not.

*Properties.* `ImplementsCredentials`: whatever requests race, the account behaves as
`Credentials`, where each operation happens at once and every factor, challenge and
ticket is accepted once. `GuessesAreLimited`: attempts are counted before codes are
compared, so no race buys a guess more. `SessionsAreCurrent`: a session that is
accepted was signed in to with the credentials the account has now.

### NoteDocument

*State.* A Yjs document is a set of operations, and merging is union; but an operation
names what it `needs`: what it was typed next to, and all that its editor typed before.
Yjs keeps an operation whose needs are missing pending, in the document and in what is
read from the log alike, and neither shows nor saves it (`Shown`). That is taken from
the library, as are its names for operations (`Id`). `stored` is the update log in
Redis, `note` the text in the database, `users` and `room` the registered connections,
`save` the pending save and `stopped` the saves that were told to stop and may not have
heard of it. Each editor has a document, a link, a snapshot timer and two channels that
keep their order.

*Actions.* `Open` to `Receive` are the client's `Collaboration.ts`; `Drop` and
`Reconnect` lose the messages on their way and give the editor a new connection, while the server learns of
the old one in `Disconnect`. `Join`, `Initialize`, `Update`, `Leave` are the handlers,
`Save` and `SaveStopped` the debounced task. The handlers hold the lock of the
document, so each is one step.

An editor that was offline joins again: it takes the server's document and sends nothing
of its own, unless that is empty (`Collaboration.ts:228`). What was typed
offline (261) is therefore never sent, and what its editor types later needs it: the others, and
the server, keep it pending, and their snapshots save the note without it.

*Properties.* The note's text is never shown twice (`ShownOnce`), when nothing is on its
way every open editor shows all that the server's document shows, no more if its
own connection lasted, and nothing is pending if all did (`Converged`), whoever throws the document away,
the note has its text (`ClearedIsSaved`), and what was typed gets there
(`SavedInTheEnd`). The last two are about connections that last and editors that are
not closed while messages cross (`Lasting`); see "Known exceptions".

### ChatHistory

*State.* `chat`, `kids` and `current` are the embedded tree, `rows` the rows of its
messages; `view` and `here` the copy and the position of each tab; `task` and `prompt`
the replies. `deleted` and `torn` record deletions, and messages out of place: replies whose
place was deleted while they were being written, and what took the place of one.

*Actions.* `Submit` is the request for a turn (`insert_chat_turn`), `SubmitRefused` the
one whose parent is gone; `HearTurn` and `HearEnd` are what a tab hears by event;
`Load` reads the chat; `Edit` and `ShowMessage` save the whole copy
(`update_chat_by_id`, `merge_history`); `Delete` and `DeleteGone` delete; `Finish` and
`Fail` are the end of a reply. The server handles each in one transaction that locks
the chat; the staleness is in the tabs.

*Abstraction.* The order of siblings is left out: where the code follows the last
child, the model takes any. A text is empty, full or edited. Left out: a turn
that is heard by a tab whose copy lacks the message before it (the event carries that
too, `chats.py:1334`), the merge in `refreshChat` (`Chat.svelte:1423`) and the
task's number, written to the reply when it starts (`main.py:1838-1841`). A tab that
misses messages is, in the model, one that hears no event until it loads the chat.

*Properties.* Tree and rows agree (`RowsMatch`); the tree is a tree (`IsTree`), except
around messages in `torn`; no stale copy changes a reply that is being written, or
brings back its unfinished form (`WrittenByTask`); only deletions drop messages
(`DropsOnlyDeleted`). `ChatHistoryDeleted` shows that a deleted message can come back
(against `CHANGELOG.md:1761`).

### RoomChannels

*State.* `state` says where each client is; `events`, `waiters`, `pc`, `wanted` and
`got` are the listening loop; `channels` and `removing` the Redis client's own
record; `link`, `wire`, `inbox` and `subs` the connection, what is on its way on it,
and what Redis has subscribed it to.

*Actions.* `Join` and `Leave` are the handlers; `Subscribe`, `Unsubscribe` and `SendPing` one
pass of the loop, cut at its awaits; `Subscribed`, `Confirmed` and `Ignored` what it does
with a reply; `Break`, `Reconnect`, `GiveUp` and `Restart` the failures: a silent
reconnect by the library, or an error that ends the loop and starts it again. What the
library does is taken from redis-py: `unsubscribe` marks the channels first and then sends;
if the connection is down by then, it is made anew, which clears the marks and
subscribes to everything in the record, and the command that follows (`Remove`) removes
channels that the record keeps. `crossed` are these channels. A PING's
serial is only ever compared with the latest, so a message is fresh or it is not.

*Properties.* Who has joined is subscribed (`JoinedIsSubscribed`), except in rooms in
`crossed` (see "Known exceptions"); every join returns
(`JoinReturns`), lost subscriptions come back (`SubscribedAgain`) and those of empty rooms
go (`LeftIsDropped`).

## Known exceptions

What the code does and a reader may not expect. Those with a run are shown by it;
the properties except the others, most by a history variable, and where a formula is
named here, it is false of the model.

* A deleted message comes back when a stale tab saves its copy (`ChatHistory`, run
  `ChatHistoryDeleted`).
* The stop endpoint writes back an output that it read before another request
  changed it (`main.py:2226`, `ToolApproval.NeverRunAgain`).
* A failed call's error is saved late and marks the message done; a stale Continue is
  then not recognised, and two model turns run (`main.py:1707`,
  `ToolApproval.OnlyOneTurn`).
* The idle event of one request may come after the next has started
  (`main.py:1766`, `TaskRegistry.SpinnerWhileRunning`).
* A visit does not drop a timer that is claimed at that moment (`utils/timers.py:214`,
  `TimerLifecycle.VisitDrops`).
* A delegation whose response is stopped while it is being created keeps its slot
  (`utils/subagents.py:450`, `Subagents.SlotsAreRunning`).
* A room whose removal meets a reconnect stays in the Redis client's record without being
  subscribed, and a client that joins it then is told that it has joined although Redis
  sends nothing for it (`redis_room_channels.py:78, 87`,
  `RoomChannels.PongConfirms`). The reconnect itself has the loop look at the rooms
  again: if the room is still empty, it is removed properly.
* What is typed in a note while offline is never sent. What the same editor types later
  is pending with everybody else, and the note is saved without it as soon as somebody
  else's text is saved (`Collaboration.ts:228, 261`). `ShownOnce`, `ClearedIsSaved` and
  `SavedInTheEnd` are about connections that last, or a single editor, so they do not say
  otherwise; `Converged` does not say that an editor's own words are with the others if
  its connection was lost.

## Runs

| Run | Instance | Shows |
|---|---|---|
| `ToolApproval` | 3 calls, one of them a question; 2 request tasks; 1 stop request; up to the two races | the safety properties |
| `ToolApprovalLive` | 3 calls, 2 tasks, no stop request | the two liveness properties |
| `TaskRegistry` | 2 tasks of one request, 2 instances, 1 stop request, one Redis | safety with lost connections and crashes |
| `TaskRegistryLive` | 2 requests of one task, 1 instance, a cluster | the idle event, the end of records |
| `TimerLifecycle` | 2 timers, one of them dropped by visits; 2 visits; 2 executions per timer | safety and settlement |
| `Subagents` | 2 background agents, 1 foreground agent, 3 responses, 2 processes, one slot of each kind | the safety properties |
| `SubagentsLive` | 2 background agents, 3 responses, 2 processes | results reach the model |
| `MfaAccount` | 2 requests at once, 2 passwords, 6 saves, one tick; limits of 2 and 3 attempts, 2 retries | the refinement and the limits |
| `NoteDocument` | 2 editors, 2 words, one lost connection | safety, and that saves arrive |
| `ChatHistory` | 2 prompts, 3 replies, 2 tabs, 1 save of a copy | the tree and its rows |
| `ChatHistoryDeleted` | 1 prompt, 2 replies, 2 tabs, 1 save | the message that comes back |
| `RoomChannels` | 2 clients of one room, 1 of another, 2 breaks | safety and liveness |

*Bounds.* The interesting cases of tool approval need two calls of one turn
(one asked about, one queued) and a call of a later turn: three calls. Two tasks
suffice for every race between tasks, as each property is about pairs of tasks;
symmetry permutes them in the safety run only. The registry's races are between
one task and its sibling, one request and the next, one instance that serves a
task and one that stops it. Timers share only the chat; two of them show that
one does not disturb the other, and a second visit or execution is enough to
overlap with the first. Of sub-agents, two in the background and one slot of each
kind give couriers that meet and slots that run out; of three responses one is
the user's and two may answer results. Users write only as long as enough
responses are left for the results. Of an account, two requests are every race (a save
succeeds against one other), and six saves take it from new to enrolled, reset and
recovered, with requests that hold older rows. A note needs two editors to race for the seed, and two words to tell a save from an
older one; a connection that one of them loses once tells old from new. Three replies are a branch, its
sibling and a reply below it, so that deletions move grandchildren while a reply is
written; two tabs are one that acts and one that is stale, and one save of a stale copy is where
damage would show. Two breaks let a subscription be lost while it is being made again. The
history counters `runs`, `fired` and `given` stop at two.

*Deadlock.* Tool approval never ends, for a client may always continue. The
other systems do stop: tasks are over, timers settled, editors closed, requests or
saves used up, or nobody wants to join. Their runs do not check for deadlock.

*Fairness.* The event loop runs every task that can run, so the steps of request
tasks, timer executions, sub-agents and couriers are weakly fair; so are Redis' execution of
commands it was sent, the expiry of keys, the polls, and, for timers, the end of a
reply. In `NoteDocument` messages arrive, snapshot timers fire and saves run; as only
behaviours without a lost connection are at stake, this is asked while none is lost, of all
these steps together (each of them is finite unless somebody types). The listening loop and the Redis client go on, Redis answers, and
a broken connection is noticed. No fairness is assumed of users, stop requests, new tasks, failures and
crashes. Where a task may fail, a liveness property names that exception.

## Proofs

Machine-checked with TLAPS, for all values of the constants that satisfy the
assumptions in the modules:

* `ToolApprovalProofs`: `TypeCorrect`, `Invariance`, `RunsOnce`,
  `ExecutesAlone`, `TurnsAlone`, `KeepsResults`, `AsksUser`. No safety property is inductive.
  `IInv` adds what the code relies on: a started call is in progress or has its
  result; one call is in progress at a time, and a task that executes one holds
  it; a model turn is alone, nothing is pending beside it, and the copy it works
  on is the saved output (this is why writing all of it back is harmless). These
  hold in calm behaviours (`Clean`). As long as nothing failed or was cancelled,
  `Orderly` adds that beside a turn the message is open and not done, which is
  the condition under which a stale Continue is recognised. The failures that
  break it are exactly those that make `OnlyOneTurn` false. `AsksUser` needs a second
  invariant, `Cared`: unless something failed, a running call has its task, an approved
  call has a task that comes to the loop, and any other call that waits has such a task
  or a user who is asked.
* `TimerLifecycleProofs`: `TypeCorrect`, `Invariance`, `FiredOnce`,
  `NeverRearmed`. A poll claims pending timers only. The invariant is that a timer
  is not pending while an execution that may still fire it exists (so there is at
  most one), and that a timer that has gone off has none and is neither pending
  nor running. A stale cancellation keeps it, because it only ever writes
  `cancelled`.
* `SubagentsProofs`: `TypeCorrect`, `Invariance`, `NoLeak`, `GivesOnce`,
  `FollowsUpOnce`, `ImplementsMailbox`. A batch belongs to one courier, its results are claimed and not
  yet given. The lock of a process is held wherever its holder relies on the chat
  being idle, and while one courier there is between the second look and the
  response, no other response to results runs there. The slot counts need
  cardinalities of finite sets: three lemmas say what taking and giving back a
  slot does, all other steps leave the agents at work alone. For the refinement, each
  step is shown to be a step of the mailbox or to change no result's place in it; a
  claimed batch has one courier, so handing it over or losing it moves all of it.

* `TaskRegistryProofs`: `TypeCorrect`, `Invariance`, `ListsRunning`, `StopsAll`,
  `ShowsIdle`. A record's membership is made last, so whoever finds a task in the
  chat's set finds its marker (`Finding`); that is why pruning never removes a task that
  runs (`Keeping`), and it is where one Redis is assumed. A stop request holds each of
  its tasks on one of its lists until the cancellation is on its way, and deletes the
  records of no others (`Stopping`); a task that another request has listed and not yet
  stopped is still found. For the idle event, some task has yet to look whether it is
  the last, or has found that it is (`Idling`).
* `MfaAccountProofs`: `TypeCorrect`, `Invariance`, `SignedInCurrent`, `GuessesLimited` and
  the refinement `ImplementsPromise`. The later of a row's revision and stamp rises with every save
  (`Number`), so a request that finds the three columns of its compare-and-swap
  unchanged has the row there is (`Known`), and what it is about to save, computed from
  the row it read, is the operation on the credentials there are (`Meant`, `Prepared`).
  A save that revokes takes a stamp no earlier row had, which is why nothing signed in
  to before is accepted after it (`Current`). Nothing is accepted twice because nothing
  that a row accepts is among what was used up (`Unspent`): a code's step is later than
  the last one used, and new codes, challenges, secrets and tickets carry the number of
  the save that stores them. Counting an attempt and starting or ending a request are
  stutters of `Credentials`; a save is one of its steps; a session that is issued was
  granted by a challenge that no other request passed. For the limits on guesses, the
  counters of the stored row bound the comparisons made (`Guesses`), and a request that
  is about to compare a code has added one to both counters of the row it saves
  (`Counting`); a new window or challenge starts with none, because its number is later
  than any that a code was compared for.
* `NoteDocumentProofs`: `DocumentTypeCorrect`, `EditorsConverge`, `TextIsShownOnce`,
  `ClearedNotesAreSaved`. Each action is first shown to do what a predicate of its name
  says to the queues, the copies and the log (`Connects`, `Types`, `Hears`, ...); the invariants are proved from those.
  `Connected` says which messages may be on their way in each phase of an editor and of
  its connection. `Causal`: while no connection is lost, nothing comes
  before what it needs, in the log, in a copy, or among the messages to and from an
  editor; so what they have they show. `Relayed`: what is coming to an editor is in the log, what is in the
  log is in every open editor that is in the room or is coming to it, and what a copy
  whose connection was never lost has is in the log or on its way there. No word is
  shown twice since, while connections last, no two operations on their way or logged
  share a word (`Steadily`): an editor seeds only when it was told that there is nothing, and the
  server takes a seed only when the log is empty. A single editor that loses its
  connection is followed message by message (`Alone`). That nothing is thrown away
  unsaved (`Lasts`): while connections last the document has a root, the operation of its
  seed, that every copy and every text on its way has (`Root`); every other operation of
  the log is in the text to be saved, or some editor is going to bring it, by a text on its
  way, a snapshot that is due or an update it has still to hear (`Brings`), and no text on
  its way drops it unless its editor brings it later (`Safe`, `Covered`). Who closes has
  all that was typed (`Last`), so when nobody is left nobody brings anything any more, and
  the note has it all.
* `ChatHistoryProofs`: `TypeCorrect`, `Invariance`, `RowsAgree`, `OnlyTaskWrites`,
  `StaysTree`, `OnlyDeletingDrops`. The invariant says of every tab which of its stale
  messages may differ from the server's, and that a link of any copy goes from an older
  message to a newer one: this is what excludes circles, by the least number, when a
  stale copy is merged into a tree that has changed.
* `RoomChannelsProofs`: `TypeCorrect`, `Invariance`, `JoinedSends`. The proof follows
  each channel through the commands on the wire: but for the channels in `crossed`, the
  client's record is what Redis sends or will send (`Recorded`), what is wanted precedes each fresh PING and is sent when there
  is a fresh PONG (`Pinged`), and what the loop has found to be wanted stays in the
  record until the clients that wait for it are confirmed (`Keeping`).

Only model-checked: the liveness properties, which are out of the prover's reach. Every
invariant and action property of the passing runs is stated by a theorem.

## Not modelled

* *Rate limits* in front of sign-in (`utils/rate_limit.py`): a shield whose loss the
  limits of the credential row make good.
* *Model cache and Redis lock* (`socket/utils.py`), *automations*, *response streams*
  (`tasks.py` 204-310): protocols of two or three steps that remain to be modelled; their
  hazards are listed.
* The lease of a document's lock, and the compaction and size limit of its log.
* Configuration, access control, retrieval, channels, calendar, plugins, storage,
  sign-in with external providers, notifications, context compaction, and the client
  apart from the chat page and the note editor: calls to external systems, edits of single
  rows, pure functions and display, which keep no state that two actors change in
  several steps.
