----------------------------- MODULE DurableLane -----------------------------
(***************************************************************************)
(* A lane of the durable harness (agent/src/harness/runtime): what is      *)
(* queued, the one open operation, the pass that drives it, its tool calls *)
(* and the requests to abort it, over crashes and restarts.                *)
(*                                                                         *)
(* One action is one command of the lane (they are served one at a time,   *)
(* each commits at most once) with the code up to the next await, or the   *)
(* admission of an effect by the gate of the pass.                         *)
(*                                                                         *)
(* Abstracted: the only operations are runs; what messages say; usage,     *)
(* configuration, events, frames and progress of tools.  A message is the  *)
(* number of the call that brought it.                                     *)
(***************************************************************************)
EXTENDS Naturals, Sequences, FiniteSets

CONSTANTS
    Kinds,          \* how messages come: prompt, steer, followUp, nextRun, write, note, hook
    OneAtATime,     \* TRUE: one steering message and one follow-up at a boundary
    Executions,     \* the ways tools are run: parallel, sequential
    MaxOps,         \* bound: operations
    MaxMessages,    \* bound: messages
    MaxBatches,     \* bound: responses with tool calls
    MaxCalls,       \* bound: tool calls of a response
    MaxAttempts,    \* retryPolicy.maxAttempts
    MaxCrashes      \* bound: crashes, or closings, of the harness

Calls == 1..MaxCalls

ASSUME LaneAssumption ==
    /\ OneAtATime \in BOOLEAN /\ Executions \subseteq {"parallel", "sequential"}
    /\ MaxOps \in Nat /\ MaxMessages \in Nat /\ MaxBatches \in Nat /\ MaxCalls \in Nat
    /\ MaxAttempts \in Nat \ {0} /\ MaxCrashes \in Nat

VARIABLES
    \* durable
    op,         \* the open operation and its state
    inbox,      \* messages that wait, in order
    branch,     \* the transcript up to the tip
    results,    \* how the earlier operations ended
    \* of the process
    drive,      \* the pass that is installed
    jobs,       \* what the pass does about each tool call
    abort,      \* a requestAbort() whose command waits for the line
    \* the world
    due,        \* the time of the retry has come
    said,       \* number of messages so far
    given,      \* messages that were handed back: cancelled or drained
    batches,    \* number of responses with tool calls so far
    crashes

queueVars == <<inbox, branch, given, said>>
processVars == <<drive, jobs, abort>>
vars == <<op, inbox, branch, results, drive, jobs, abort, due, said, given, batches, crashes>>

NoOp == [id |-> 0, at |-> "none", cancelled |-> FALSE, execution |-> "parallel", need |-> TRUE,
         attempt |-> 1, asked |-> 0, calls |-> <<>>]
NoDrive == [id |-> 0, pc |-> "none", gate |-> "open", signalled |-> FALSE, waits |-> FALSE,
            planned |-> {}, execution |-> "parallel"]
NoJobs == [i \in Calls |-> "none"]
NoAbort == [op |-> 0, saw |-> FALSE, closed |-> FALSE]

Leaves == {"starting", "checkpoint", "ready", "effect_pending", "retry_wait", "tools"}
Statuses == {"planned", "effect_pending", "outcome_ready", "completed"}
CallStates == [status : Statuses, replay : {"never", "safe"}, terminate : BOOLEAN, ran : Nat]
Entries == [type : {"said", "note", "response", "result"}, n : Nat, of : Nat]

TypeOK ==
    /\ op.calls \in Seq(CallStates) /\ Len(op.calls) <= MaxCalls
    /\ op \in [id : 0..MaxOps, at : Leaves \cup {"none"}, cancelled : BOOLEAN,
               execution : {"parallel", "sequential"}, need : BOOLEAN, attempt : 1..MaxAttempts,
               asked : Nat, calls : Seq(CallStates)]
    /\ inbox \in Seq([n : 1..MaxMessages, kind : Kinds]) /\ branch \in Seq(Entries)
    /\ results \in Seq({"completed", "failed", "aborted"})
    /\ drive \in [id : 0..MaxOps, gate : {"open", "aborting"}, signalled : BOOLEAN,
                  waits : BOOLEAN, planned : SUBSET [n : 1..MaxMessages, kind : Kinds],
                  execution : {"parallel", "sequential", "cancel"},
                  pc : {"none", "loop", "beforeRun", "ending", "request", "intent", "stream",
                        "timer", "tools", "caught", "done", "fault"}]
    /\ jobs \in [Calls -> {"none", "todo", "hook", "intent", "running"}]
    /\ abort \in [op : 0..MaxOps, saw : BOOLEAN, closed : BOOLEAN]
    /\ due \in BOOLEAN /\ said \in 0..MaxMessages /\ given \subseteq 1..MaxMessages
    /\ batches \in 0..MaxBatches /\ crashes \in 0..MaxCrashes

Init ==
    /\ op = NoOp /\ inbox = <<>> /\ branch = <<>> /\ results = <<>>
    /\ drive = NoDrive /\ jobs = NoJobs /\ abort = NoAbort
    /\ due = FALSE /\ said = 0 /\ given = {} /\ batches = 0 /\ crashes = 0

-----------------------------------------------------------------------------
(* The transcript and the inbox.                                           *)

Message(m, kind) == [type |-> IF kind = "note" THEN "note" ELSE "said", n |-> m, of |-> 0]
Response(b, k) == [type |-> "response", n |-> b, of |-> k]      \* batch b, or 0, of k calls
ToolResult(b, i) == [type |-> "result", n |-> b, of |-> i]

Queued(kinds) == {x \in {inbox[j] : j \in DOMAIN inbox} : x.kind \in kinds}

(* Steering messages and follow-ups may be taken one at a time.            *)
Taken(kinds) ==
    {inbox[j] : j \in {k \in DOMAIN inbox :
        /\ inbox[k].kind \in kinds
        /\ OneAtATime /\ inbox[k].kind \in {"steer", "followUp"} =>
              \A h \in 1..(k - 1) : inbox[h].kind # inbox[k].kind}}

(* What waits, as far as it is among some, in its order.                   *)
Waiting(some) ==
    LET kept[j \in 0..Len(inbox)] ==
            IF j = 0 THEN <<>>
            ELSE IF inbox[j] \in some THEN Append(kept[j - 1], inbox[j]) ELSE kept[j - 1]
    IN  kept[Len(inbox)]

Without(items) == Waiting(Queued(Kinds) \ items)

Entered(items) ==
    LET chosen == Waiting(items)
    IN  [j \in 1..Len(chosen) |-> Message(chosen[j].n, chosen[j].kind)]

(* Mutant: whatever waits is taken out of the inbox.                       *)
DeliverClearing(items) == inbox' = <<>> /\ branch' = branch \o Entered(items)

Deliver(items) == inbox' = Without(items) /\ branch' = branch \o Entered(items)

(* A custom entry without a projector does not make the model speak.       *)
Triggers(items) == \E x \in items : x.kind # "note"

Speak(kind, n) == kind \in Kinds /\ said < MaxMessages /\ n = said + 1 /\ said' = n

-----------------------------------------------------------------------------
(* Commands of the callers.                                                *)

(* accept(): what is queued goes before the prompt, if there is one.       *)
Accept(execution) ==
    /\ op.id = 0 /\ Len(results) < MaxOps
    /\ LET items == Taken({"write", "note", "nextRun", "steer", "followUp"}) IN
       /\ inbox' = Without(items)
       /\ \/ \E n \in 1..MaxMessages :
                Speak("prompt", n) /\ branch' = Append(branch \o Entered(items), Message(n, "prompt"))
          \/ /\ \E x \in items : x.kind \notin {"write", "note"}
             /\ branch' = branch \o Entered(items) /\ UNCHANGED said
    /\ op' = [NoOp EXCEPT !.id = Len(results) + 1, !.at = "starting", !.execution = execution]
    /\ UNCHANGED <<results, processVars, due, given, batches, crashes>>

(* steer(), followUp(), nextRun().                                         *)
Enqueue ==
    /\ \E kind \in {"steer", "followUp", "nextRun"}, n \in 1..MaxMessages :
          Speak(kind, n) /\ inbox' = Append(inbox, [n |-> n, kind |-> kind])
    /\ UNCHANGED <<op, branch, results, processVars, due, given, batches, crashes>>

(* append(): an entry of the user waits while an operation is open.        *)
AppendEntry ==
    /\ \E kind \in {"write", "note"}, n \in 1..MaxMessages :
          /\ Speak(kind, n)
          /\ IF op.id = 0
             THEN LET earlier == Queued({"write", "note"}) IN
                  /\ inbox' = Without(earlier)
                  /\ branch' = Append(branch \o Entered(earlier), Message(n, kind))
             ELSE inbox' = Append(inbox, [n |-> n, kind |-> kind]) /\ UNCHANGED branch
    /\ UNCHANGED <<op, results, processVars, due, given, batches, crashes>>

CancelQueued ==
    /\ \E x \in Queued(Kinds) : inbox' = Without({x}) /\ given' = given \cup {x.n}
    /\ UNCHANGED <<op, branch, results, processVars, due, said, batches, crashes>>

(* requestAbort(), before its command is served: the gate of the pass it   *)
(* finds is closed at once.                                                *)
RequestAbort(o) ==
    /\ abort.op = 0 /\ o # 0
    /\ LET found == drive.id = o IN
       /\ abort' = [op |-> o, saw |-> found, closed |-> found /\ drive.gate = "open"]
       /\ drive' = IF found THEN [drive EXCEPT !.gate = "aborting"] ELSE drive
    /\ UNCHANGED <<op, queueVars, results, jobs, due, batches, crashes>>

(* Its command: the first one marks the operation and hands back what was  *)
(* said to steer it; the pass that was found is woken.                     *)
CommitAbort ==
    LET current == op.id = abort.op
        drained == IF current /\ ~op.cancelled THEN Queued({"steer", "followUp"}) ELSE {} IN
    /\ abort.op # 0 /\ abort' = NoAbort
    /\ op' = IF current THEN [op EXCEPT !.cancelled = TRUE] ELSE op
    /\ inbox' = Without(drained) /\ given' = given \cup {x.n : x \in drained}
    /\ drive' = IF current /\ abort.saw THEN [drive EXCEPT !.signalled = TRUE] ELSE drive
    /\ UNCHANGED <<branch, results, jobs, due, said, batches, crashes>>

(* drive(): at most one pass at a time.                                    *)
InstallDrive(waits) ==
    /\ op.id # 0 /\ drive.pc = "none"
    /\ drive' = [NoDrive EXCEPT !.id = op.id, !.pc = "loop", !.waits = waits]
    /\ UNCHANGED <<op, queueVars, results, jobs, abort, due, batches, crashes>>

-----------------------------------------------------------------------------
(* The pass.                                                               *)

Goto(pc) == drive' = [drive EXCEPT !.pc = pc, !.planned = {}]

(* Gate.admit(): a hook, a request, a timer or a tool starts, or not.      *)
Admitted == drive.gate = "open"
Gated(pc) == Goto(IF Admitted THEN pc ELSE "caught")

(* A refused effect waits until the request that closed the gate is served.*)
Served == ~abort.closed

(* A command of the pass is behind a requestAbort() that did not find it.  *)
Turn(pc) == drive.pc = pc /\ ~(abort.op = drive.id /\ ~abort.saw)

(* The loop of driveOperation() calls the procedure of the leaf.           *)
Leaf(at) == Turn("loop") /\ op.at = at /\ ~op.cancelled

(* continueOperation() of a procedure finds the operation cancelled.       *)
CancelFound ==
    /\ \E pc \in {"beforeRun", "ending", "request"} : Turn(pc)
    /\ op.cancelled /\ Goto("loop")
    /\ UNCHANGED <<op, queueVars, results, jobs, abort, due, batches, crashes>>

(* AbortRequested.  A pass that gets nowhere fails.                        *)
Caught ==
    /\ drive.pc = "caught" /\ Served
    /\ Goto(IF op.cancelled THEN "loop" ELSE "fault")
    /\ UNCHANGED <<op, queueVars, results, jobs, abort, due, batches, crashes>>

(* The terminal transaction: the operation is replaced by its result.      *)
Finish(status) ==
    /\ results' = Append(results, status) /\ op' = NoOp
    /\ Goto("done")

(* driveOperation() has returned: the pass is no longer installed.         *)
ClearDrive ==
    /\ drive.pc = "done"
    /\ drive' = NoDrive
    /\ abort' = [abort EXCEPT !.saw = FALSE, !.closed = FALSE]
    /\ UNCHANGED <<op, queueVars, results, jobs, due, batches, crashes>>

(* startRun(), around the hook before_run.                                 *)
StartRun ==
    /\ Leaf("starting") /\ Gated("beforeRun")
    /\ UNCHANGED <<op, queueVars, results, jobs, abort, due, batches, crashes>>

RunStarts ==
    /\ Turn("beforeRun") /\ ~op.cancelled
    /\ op' = [op EXCEPT !.at = "checkpoint", !.need = TRUE] /\ Goto("loop")
    /\ UNCHANGED <<queueVars, results, jobs, abort, due, batches, crashes>>

(* planBoundaryInbox(): follow-ups come when nothing else makes it go on.  *)
Boundary(mayFinish) ==
    LET first == Taken({"write", "note", "steer"})
    IN  IF mayFinish /\ ~Triggers(first) THEN Taken({"write", "note", "steer", "followUp"}) ELSE first

Ready == [op EXCEPT !.at = "ready", !.attempt = 1, !.asked = 0]

(* runCheckpoint(): the model speaks, or the hook before_run_end is asked. *)
Checkpoint ==
    /\ Leaf("checkpoint")
    /\ LET items == Boundary(~op.need) IN
       IF op.need \/ Triggers(items)
       THEN Deliver(items) /\ op' = Ready /\ UNCHANGED drive
       ELSE /\ drive' = [drive EXCEPT !.pc = IF Admitted THEN "ending" ELSE "caught", !.planned = items]
            /\ UNCHANGED <<op, inbox, branch>>
    /\ UNCHANGED <<results, said, given, jobs, abort, due, batches, crashes>>

(* finishRunBoundary() after the hook looks at the inbox again.            *)
RunGoesOn ==
    /\ Turn("ending") /\ ~op.cancelled
    /\ LET items == Boundary(TRUE) IN
       \/ Triggers(items) /\ Deliver(items) /\ UNCHANGED said
       \/ /\ ~Triggers(items) /\ items = drive.planned
          /\ inbox' = Without(items)
          /\ \E n \in 1..MaxMessages :
                Speak("hook", n) /\ branch' = Append(branch \o Entered(items), Message(n, "hook"))
    /\ op' = Ready /\ Goto("loop")
    /\ UNCHANGED <<results, given, jobs, abort, due, batches, crashes>>

(* Mutant: it ends with what was planned before the hook.                  *)
RunEndsAsPlanned ==
    /\ Turn("ending") /\ ~op.cancelled
    /\ Deliver(drive.planned) /\ Finish("completed")
    /\ UNCHANGED <<said, given, jobs, abort, due, batches, crashes>>

RunEnds ==
    /\ Turn("ending") /\ ~op.cancelled
    /\ LET items == Boundary(TRUE) IN ~Triggers(items) /\ Deliver(items)
    /\ Finish("completed")
    /\ UNCHANGED <<said, given, jobs, abort, due, batches, crashes>>

(* prepareGeneration(): a model or a tool is missing; or before_request.   *)
ConfigurationFails ==
    /\ Leaf("ready") /\ Finish("failed")
    /\ UNCHANGED <<queueVars, jobs, abort, due, batches, crashes>>

Prepare ==
    /\ Leaf("ready") /\ Gated("request")
    /\ UNCHANGED <<op, queueVars, results, jobs, abort, due, batches, crashes>>

(* publishGenerationIntent(), then the request itself.                     *)
PublishIntent ==
    /\ Turn("request") /\ ~op.cancelled
    /\ op' = [op EXCEPT !.at = "effect_pending"] /\ Goto("intent")
    /\ UNCHANGED <<queueVars, results, jobs, abort, due, batches, crashes>>

AskModel ==
    /\ drive.pc = "intent" /\ Gated("stream")
    /\ op' = IF Admitted THEN [op EXCEPT !.asked = @ + 1] ELSE op
    /\ UNCHANGED <<queueVars, results, jobs, abort, due, batches, crashes>>

(* publishResponse(): the answer of a cancelled operation is put down as   *)
(* aborted, whatever it is.                                                *)
AnswerAborted ==
    /\ op' = [op EXCEPT !.at = "checkpoint", !.need = FALSE]
    /\ branch' = Append(branch, Response(0, 0))
    /\ UNCHANGED <<results, due, batches>>

(* The signal makes a provider answer that it was aborted, which fails the *)
(* pass of an operation that is not cancelled.                             *)
AnswerText ==
    /\ op' = [op EXCEPT !.at = "checkpoint", !.need = FALSE]
    /\ Goto(IF drive.signalled THEN "fault" ELSE "loop")
    /\ branch' = Append(branch, Response(0, 0))
    /\ UNCHANGED <<results, due, batches>>

AnswerCalls ==
    /\ batches < MaxBatches /\ batches' = batches + 1
    /\ \E k \in Calls : \E replay \in [1..k -> {"never", "safe"}] :
          /\ op' = [op EXCEPT !.at = "tools", !.calls =
                       [i \in 1..k |-> [status |-> "planned", replay |-> replay[i],
                                        terminate |-> FALSE, ran |-> 0]]]
          /\ branch' = Append(branch, Response(batches', k))
    /\ Goto("loop")
    /\ UNCHANGED <<results, due>>

AnswerError(retryable) ==
    /\ branch' = Append(branch, Response(0, 0))
    /\ IF retryable /\ op.attempt < MaxAttempts
       THEN /\ op' = [op EXCEPT !.at = "retry_wait", !.attempt = @ + 1]
            /\ due' = FALSE /\ Goto("loop") /\ UNCHANGED results
       ELSE Finish("failed") /\ UNCHANGED due
    /\ UNCHANGED batches

(* Mutant: the answer counts, whether the operation is cancelled or not.   *)
RespondAnyway ==
    /\ Turn("stream")
    /\ AnswerText \/ AnswerCalls \/ \E r \in BOOLEAN : AnswerError(r)
    /\ UNCHANGED <<inbox, said, given, jobs, abort, crashes>>

Respond ==
    /\ Turn("stream")
    /\ \/ op.cancelled /\ AnswerAborted /\ Goto("loop")
       \/ ~op.cancelled /\ (AnswerText \/ AnswerCalls \/ \E r \in BOOLEAN : AnswerError(r))
    /\ UNCHANGED <<inbox, said, given, jobs, abort, crashes>>

(* recoverAssistantGeneration(): a request nobody waits for any more.      *)
Recover ==
    /\ Leaf("effect_pending") /\ AnswerError(TRUE)
    /\ UNCHANGED <<inbox, said, given, jobs, abort, crashes>>

(* runRetryWait().                                                         *)
AwaitRetry ==
    /\ drive.pc = "loop" /\ op.at = "retry_wait" /\ ~op.cancelled /\ ~due
    /\ IF drive.waits THEN Gated("timer") ELSE Goto("done")
    /\ UNCHANGED <<op, queueVars, results, jobs, abort, due, batches, crashes>>

Retry ==
    /\ Leaf("retry_wait") \/ (Turn("timer") /\ ~op.cancelled)
    /\ due /\ op' = [op EXCEPT !.at = "ready"] /\ Goto("loop")
    /\ UNCHANGED <<queueVars, results, jobs, abort, due, batches, crashes>>

TimerEnds ==
    /\ drive.pc = "timer"
    /\ drive.signalled \/ (due /\ op.cancelled)
    /\ Goto("loop")
    /\ UNCHANGED <<op, queueVars, results, jobs, abort, due, batches, crashes>>

Tick ==
    /\ op.at = "retry_wait" /\ ~due /\ due' = TRUE
    /\ UNCHANGED <<op, queueVars, results, processVars, batches, crashes>>

(* reconcileOperation() of a cancelled operation, tools apart.             *)
Shut == [drive EXCEPT !.gate = "aborting", !.signalled = TRUE]

Reconcile ==
    /\ Turn("loop") /\ op.cancelled
    /\ op.at \in {"starting", "checkpoint", "ready", "retry_wait"}
    /\ Finish("aborted")
    /\ UNCHANGED <<queueVars, jobs, abort, due, batches, crashes>>

ReconcileRequest ==
    /\ Turn("loop") /\ op.cancelled /\ op.at = "effect_pending"
    /\ AnswerAborted /\ drive' = Shut
    /\ UNCHANGED <<inbox, said, given, jobs, abort, crashes>>

-----------------------------------------------------------------------------
(* The tool calls of one response.                                         *)

Batch == DOMAIN op.calls
Open == {i \in Batch : op.calls[i].status # "completed"}
NextOpen(i) == i \in Open /\ \A h \in Open : i <= h
Quiet == \A h \in Calls : jobs[h] \in {"none", "todo"}

(* Calls up to i have an outcome and are not placed.                       *)
Placeable(i) == i \in Open /\ \A h \in Open : h <= i => op.calls[h].status = "outcome_ready"

(* Mutant: an outcome comes into the transcript when it is there.          *)
PlaceAlone(i) ==
    /\ Turn("loop") \/ Turn("tools")
    /\ op.at = "tools" /\ i \in Open /\ op.calls[i].status = "outcome_ready"
    /\ branch' = Append(branch, ToolResult(batches, i))
    /\ op' = IF Open = {i} THEN [op EXCEPT !.at = "checkpoint", !.calls = <<>>]
             ELSE [op EXCEPT !.calls[i].status = "completed"]
    /\ UNCHANGED <<inbox, said, given, results, processVars, due, batches, crashes>>

(* materializeReady(): outcomes come into the transcript in the order of   *)
(* the calls.                                                              *)
Place(i) ==
    /\ Turn("loop") \/ Turn("tools")
    /\ op.at = "tools" /\ Placeable(i)
    /\ LET first == CHOOSE h \in Open : NextOpen(h)
           calls == [h \in Batch |-> IF h <= i THEN [op.calls[h] EXCEPT !.status = "completed"]
                                     ELSE op.calls[h]] IN
       /\ branch' = branch \o [j \in 1..(i + 1 - first) |-> ToolResult(batches, first + j - 1)]
       /\ op' = IF \E h \in Batch : calls[h].status # "completed"
                THEN [op EXCEPT !.calls = calls]
                ELSE [op EXCEPT !.at = "checkpoint", !.calls = <<>>,
                                !.need = \E h \in Batch : ~calls[h].terminate]
    /\ UNCHANGED <<inbox, said, given, results, processVars, due, batches, crashes>>

(* Mutant: after a restart, a cancelled operation's tools are entered as   *)
(* any other's.                                                            *)
EnterToolsAnyway ==
    /\ Turn("loop") /\ op.at = "tools" /\ \A i \in Open : ~Placeable(i)
    /\ jobs' = [i \in Calls |-> IF i \in Batch /\ op.calls[i].status # "completed" THEN "todo" ELSE "none"]
    /\ drive' = [drive EXCEPT !.pc = "tools", !.execution = op.execution]
    /\ UNCHANGED <<op, queueVars, results, abort, due, batches, crashes>>

(* runTools(): the calls that are left, in one of three ways.              *)
EnterTools ==
    /\ Turn("loop") /\ op.at = "tools" /\ \A i \in Open : ~Placeable(i)
    /\ jobs' = [i \in Calls |-> IF i \in Batch /\ op.calls[i].status \in {"planned", "effect_pending"}
                                THEN "todo" ELSE "none"]
    /\ drive' = IF op.cancelled THEN [Shut EXCEPT !.pc = "tools", !.execution = "cancel"]
                                ELSE [drive EXCEPT !.pc = "tools", !.execution = op.execution]
    /\ UNCHANGED <<op, queueVars, results, abort, due, batches, crashes>>

Job(i, step) == jobs' = [jobs EXCEPT ![i] = step]

(* publishToolOutcome(): nothing ends the run of a cancelled operation.    *)
Outcome(i, terminate) ==
    /\ op' = [op EXCEPT !.calls[i].status = "outcome_ready",
                        !.calls[i].terminate = terminate /\ ~op.cancelled]
    /\ Job(i, "none")

(* The calls start in order; one after the other, or side by side.         *)
MayStart(i) ==
    /\ Turn("tools") /\ i \in Batch /\ jobs[i] = "todo"
    /\ \A h \in 1..(i - 1) : jobs[h] \notin {"todo", "hook"}
    /\ drive.execution # "parallel" => NextOpen(i) /\ Quiet

(* In the third way, as after a cancellation, the gate admits nothing.     *)
Start(i) ==
    /\ MayStart(i) /\ op.calls[i].status = "planned"
    /\ Admitted /\ Job(i, "hook")
    /\ UNCHANGED <<op, queueVars, results, drive, abort, due, batches, crashes>>

(* The arguments are wrong, the tool is unknown, or the call is cancelled. *)
StartNot(i) ==
    /\ MayStart(i) /\ op.calls[i].status = "planned"
    /\ Admitted \/ Served
    /\ Outcome(i, FALSE)
    /\ UNCHANGED <<queueVars, results, drive, abort, due, batches, crashes>>

(* Mutant: it runs again in any case.                                      *)
ReplayAnyway(i) ==
    /\ MayStart(i) /\ op.calls[i].status = "effect_pending" /\ ~op.cancelled
    /\ Job(i, "intent")
    /\ UNCHANGED <<op, queueVars, results, drive, abort, due, batches, crashes>>

(* recoverToolInvocation(): a call that may have run before the crash runs *)
(* again only if its tool was, and still is, safe to repeat.               *)
Replay(i) ==
    /\ MayStart(i) /\ op.calls[i].status = "effect_pending" /\ ~op.cancelled
    /\ op.calls[i].replay = "safe" /\ Job(i, "intent")
    /\ UNCHANGED <<op, queueVars, results, drive, abort, due, batches, crashes>>

ReplayNot(i) ==
    /\ MayStart(i) /\ op.calls[i].status = "effect_pending"
    /\ Outcome(i, FALSE)
    /\ UNCHANGED <<queueVars, results, drive, abort, due, batches, crashes>>

(* The hook before_tool answers: the call is blocked, or it is put down    *)
(* that it runs, if the operation is not cancelled.                        *)
Block(i) ==
    /\ Turn("tools") /\ jobs[i] = "hook"
    /\ \E terminate \in BOOLEAN : Outcome(i, terminate)
    /\ UNCHANGED <<queueVars, results, drive, abort, due, batches, crashes>>

PublishToolIntent(i) ==
    /\ Turn("tools") /\ jobs[i] = "hook" /\ ~op.cancelled
    /\ op' = [op EXCEPT !.calls[i].status = "effect_pending"] /\ Job(i, "intent")
    /\ UNCHANGED <<queueVars, results, drive, abort, due, batches, crashes>>

(* executeToolCall(), through the gate.                                    *)
Execute(i) ==
    /\ drive.pc = "tools" /\ jobs[i] = "intent"
    /\ Admitted
    /\ op' = [op EXCEPT !.calls[i].ran = @ + 1] /\ Job(i, "running")
    /\ UNCHANGED <<queueVars, results, drive, abort, due, batches, crashes>>

ExecuteNot(i) ==
    /\ Turn("tools") /\ jobs[i] = "intent"
    /\ ~Admitted /\ Served /\ Outcome(i, FALSE)
    /\ UNCHANGED <<queueVars, results, drive, abort, due, batches, crashes>>

ToolEnds(i) ==
    /\ Turn("tools") /\ jobs[i] = "running"
    /\ \E terminate \in BOOLEAN : Outcome(i, terminate)
    /\ UNCHANGED <<queueVars, results, drive, abort, due, batches, crashes>>

LeaveTools ==
    /\ Turn("tools") /\ jobs = NoJobs
    /\ op.at = "tools" => \A i \in Open : ~Placeable(i)
    /\ Goto("loop")
    /\ UNCHANGED <<op, queueVars, results, jobs, abort, due, batches, crashes>>

-----------------------------------------------------------------------------
(* A crash, or close(): restoreSession() finds what was committed.         *)
Restart ==
    /\ crashes < MaxCrashes /\ crashes' = crashes + 1
    /\ drive' = NoDrive /\ jobs' = NoJobs /\ abort' = NoAbort
    /\ UNCHANGED <<op, queueVars, results, due, batches>>

Command ==
    \/ \E execution \in Executions : Accept(execution)
    \/ Enqueue \/ AppendEntry \/ CancelQueued
    \/ \E o \in {op.id, drive.id} : RequestAbort(o)

DriveStep ==
    \/ CancelFound \/ Caught \/ ClearDrive \/ StartRun \/ RunStarts \/ Checkpoint
    \/ RunGoesOn \/ RunEnds \/ ConfigurationFails \/ Prepare \/ PublishIntent \/ AskModel
    \/ Respond \/ Recover \/ AwaitRetry \/ Retry \/ TimerEnds
    \/ Reconcile \/ ReconcileRequest

ToolStep ==
    \/ EnterTools \/ LeaveTools
    \/ \E i \in Calls :
          \/ Place(i) \/ Start(i) \/ StartNot(i) \/ Replay(i) \/ ReplayNot(i)
          \/ Block(i) \/ PublishToolIntent(i) \/ Execute(i) \/ ExecuteNot(i) \/ ToolEnds(i)

Install == \E waits \in BOOLEAN : InstallDrive(waits)

Next == Command \/ CommitAbort \/ Install \/ DriveStep \/ ToolStep \/ Tick \/ Restart

(* Hooks, the provider and tools return; the timer fires; whoever owns the *)
(* harness drives an operation that is open.                               *)
Fairness ==
    /\ WF_vars(DriveStep \/ ToolStep) /\ WF_vars(Install)
    /\ WF_vars(CommitAbort) /\ WF_vars(Tick)

Spec == Init /\ [][Next]_vars /\ Fairness

-----------------------------------------------------------------------------
(* Properties.                                                             *)

(* Every message is in exactly one place: it waits, or it is in the        *)
(* transcript, or it was handed back (queues, boundaries, abort).          *)
EveryMessageOnce ==
    \A m \in 1..said :
        Cardinality({j \in DOMAIN branch : branch[j].type \in {"said", "note"} /\ branch[j].n = m})
        + Cardinality({j \in DOMAIN inbox : inbox[j].n = m}) + (IF m \in given THEN 1 ELSE 0) = 1

(* The results of a response follow it at once, in the order of its calls, *)
(* one for each call, whoever aborts, crashes or writes meanwhile: the     *)
(* providers refuse any other transcript.                                  *)
AnsweredCalls ==
    \A j \in DOMAIN branch :
        /\ branch[j].type = "response" =>
              \A i \in 1..branch[j].of :
                  IF j + i <= Len(branch) THEN branch[j + i] = ToolResult(branch[j].n, i)
                                          ELSE op.at = "tools" /\ branch[j].n = batches
        /\ branch[j].type = "result" =>
              /\ j > branch[j].of /\ branch[j - branch[j].of].type = "response"
              /\ branch[j - branch[j].of].of >= branch[j].of

(* A run that is completed has taken every steering message and follow-up, *)
(* and the model has spoken after all that was said.                       *)
CompletedHasHeard ==
    [][Len(results') > Len(results) /\ results'[Len(results')] = "completed" =>
          /\ \A j \in DOMAIN inbox' : inbox'[j].kind \notin {"steer", "followUp"}
          /\ \A j \in DOMAIN branch' : branch'[j].type = "said" =>
                \E k \in (j + 1)..Len(branch') : branch'[k].type = "response"]_vars

(* Once its cancellation is committed, an operation starts no hook, no     *)
(* request, no timer and no tool, in whichever pass.                       *)
CancelStartsNothing ==
    [][op.cancelled =>
          /\ op'.asked <= op.asked
          /\ \A i \in Calls : jobs'[i] \in {"hook", "running"} => jobs'[i] = jobs[i]
          /\ drive'.pc \in {"beforeRun", "ending", "request", "stream", "timer"} =>
                drive'.pc = drive.pc]_vars

(* A step of a run asks the provider maxAttempts times at most, crashes    *)
(* and recoveries counted.                                                 *)
AttemptsBounded == op.asked <= MaxAttempts

(* A tool that must not be repeated is executed once at most for a call,   *)
(* although a crash may come at any moment.                                *)
NeverTwice == \A i \in Batch : op.calls[i].replay = "never" => op.calls[i].ran <= 1

(* No effect is repeated beyond its limit: neither requests nor tools.     *)
EffectsBounded == AttemptsBounded /\ NeverTwice

(* A pass never stands still: what refuses its effects is a cancellation   *)
(* that it then finds ("Drive procedure made no progress").                *)
DriveProgresses == drive.pc # "fault"

(* docs/harness.md: the timer of a retry is woken by a cancellation.       *)
AbortWakesTimer == op.cancelled /\ drive.pc = "timer" => drive.signalled

(* The lane keeps the promises of the ledger of operations.                *)
StatusOf(o) ==
    IF o <= Len(results) THEN results[o]
    ELSE IF o # op.id THEN "none" ELSE IF op.cancelled THEN "aborting" ELSE "open"

Promise == INSTANCE OperationLedger WITH
    Operations <- 1..MaxOps, ledger <- [o \in 1..MaxOps |-> StatusOf(o)]

Implements == Promise!Ledger

=============================================================================
