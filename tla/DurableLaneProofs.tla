-------------------------- MODULE DurableLaneProofs --------------------------
(***************************************************************************)
(* Proofs about DurableLane, for any numbers of operations, messages,      *)
(* calls, attempts and crashes: what a cancellation stops, how often the   *)
(* provider and a tool are asked, that a pass always has something to do,  *)
(* that the lane keeps its ledger of operations, that the transcript is    *)
(* one a provider accepts, that no message is lost or said twice, and that *)
(* a run that is completed has heard everybody.                            *)
(***************************************************************************)
EXTENDS DurableLane, FiniteSetTheorems, FunctionTheorems, TLAPS

Pcs == {"none", "loop", "beforeRun", "ending", "request", "intent", "stream",
        "timer", "tools", "caught", "done", "fault"}
Ends == {"completed", "failed", "aborted"}

OpTypes ==
    op \in [id : 0..MaxOps, at : Leaves \cup {"none"}, cancelled : BOOLEAN,
            execution : {op.execution}, need : {op.need}, attempt : 1..MaxAttempts,
            asked : Nat, calls : {op.calls}]

DriveTypes ==
    drive \in [id : 0..MaxOps, pc : Pcs, gate : {"open", "aborting"}, signalled : BOOLEAN,
               waits : {drive.waits}, planned : {drive.planned}, execution : {drive.execution}]

ControlTypes ==
    /\ OpTypes /\ DriveTypes
    /\ abort \in [op : 0..MaxOps, saw : BOOLEAN, closed : BOOLEAN]
    /\ results \in Seq(Ends)

(* The pass that goes on is that of the open operation.                    *)
Busy == drive.pc \notin {"none", "done"}

Passes ==
    /\ Busy => drive.id = op.id /\ op.id # 0
    /\ drive.pc = "none" => drive.id = 0
    /\ op.id = 0 \/ (op.id = Len(results) + 1 /\ op.id <= MaxOps)

(* Requests to abort, and what they have told the pass.                    *)
Resting == {"none", "loop", "timer", "caught", "done"}

Aborts ==
    /\ abort.op = 0 => ~abort.saw
    /\ abort.closed => abort.saw
    /\ abort.saw => drive.gate = "aborting" /\ drive.id = abort.op /\ drive.pc # "none"
    /\ abort.op # 0 /\ abort.op = drive.id /\ ~abort.saw => drive.pc \in Resting

Cancels ==
    /\ op.cancelled /\ drive.gate = "open" => drive.pc \in Resting
    /\ Busy /\ drive.gate = "aborting" => op.cancelled \/ abort.closed
    /\ Busy /\ drive.signalled => op.cancelled
    /\ drive.pc = "caught" => drive.gate = "aborting"
    /\ DriveProgresses

(* How often the provider was asked in the current step.                   *)
Tries ==
    /\ op.asked <= op.attempt
    /\ op.at \in {"ready", "retry_wait"} => op.asked < op.attempt
    /\ drive.pc \in {"request", "intent", "timer"} => op.asked < op.attempt
    /\ drive.pc \in {"intent", "stream"} => op.at = "effect_pending"

ControlInv == ControlTypes /\ Passes /\ Aborts /\ Cancels /\ Tries

LEMMA InitControl == Init => ControlInv
BY LaneAssumption DEF Init, ControlInv, ControlTypes, OpTypes, DriveTypes, Passes, Busy, Aborts,
   Cancels, Tries, Resting, DriveProgresses, NoOp, NoDrive, NoAbort, Pcs, Leaves, Ends

-----------------------------------------------------------------------------
(* How a step of the pass changes it.                                      *)
LEMMA GotoFacts ==
    ASSUME ControlTypes, NEW pc \in Pcs, Goto(pc)
    PROVE  /\ DriveTypes'
           /\ drive'.pc = pc /\ drive'.id = drive.id /\ drive'.gate = drive.gate
           /\ drive'.signalled = drive.signalled
BY DEF ControlTypes, DriveTypes, Goto, Pcs

(* It goes on, at rest or where its commands are served and its effects    *)
(* are not those of a cancelled operation.                                 *)
LEMMA Moves ==
    ASSUME ControlInv, Busy, NEW pc \in Pcs \ {"none", "done", "fault"},
           DriveTypes', drive'.pc = pc, drive'.id = drive.id, drive'.gate = drive.gate,
           drive'.signalled = drive.signalled,
           OpTypes', op'.id = op.id, op'.cancelled = op.cancelled, UNCHANGED <<abort, results>>,
           pc = "caught" => drive.gate = "aborting",
           pc \in Resting \/ ( /\ ~(abort.op = drive.id /\ ~abort.saw)
                               /\ op.cancelled => drive.gate = "aborting" )
    PROVE  ControlTypes' /\ Passes' /\ Aborts' /\ Cancels'
BY DEF ControlInv, ControlTypes, DriveTypes, Passes, Busy, Aborts, Cancels, DriveProgresses,
   Resting, Pcs

(* It passes the gate, or is caught.                                      *)
LEMMA Gates ==
    ASSUME ControlInv, Busy, NEW pc \in {"beforeRun", "request", "tools"}, Gated(pc),
           ~(abort.op = drive.id /\ ~abort.saw), ~op.cancelled, UNCHANGED <<op, abort, results>>,
           pc = "request" => op.asked < op.attempt
    PROVE  ControlInv'
<1>1. Goto(IF Admitted THEN pc ELSE "caught")
  BY DEF Gated
<1>2. /\ DriveTypes' /\ drive'.id = drive.id /\ drive'.gate = drive.gate
      /\ drive'.signalled = drive.signalled /\ drive'.pc = IF Admitted THEN pc ELSE "caught"
  BY <1>1, GotoFacts DEF ControlInv, Pcs
<1> QED
  BY <1>2 DEF ControlInv, ControlTypes, OpTypes, DriveTypes, Passes, Aborts,
     Cancels, Tries, Busy, Resting, DriveProgresses, Admitted

(* It comes back to its loop.                                              *)
LEMMA Returns ==
    ASSUME ControlInv, Busy, Goto("loop"), UNCHANGED <<op, abort, results>>
    PROVE  ControlInv'
<1>1. "loop" \in Pcs /\ ControlTypes /\ Goto("loop")
  BY DEF Pcs, ControlInv
<1>2. /\ DriveTypes' /\ drive'.pc = "loop" /\ drive'.id = drive.id /\ drive'.gate = drive.gate
      /\ drive'.signalled = drive.signalled
  BY ONLY <1>1, GotoFacts
<1>3. OpTypes'
  BY DEF ControlInv, ControlTypes, OpTypes
<1>4. ControlTypes' /\ Passes' /\ Aborts' /\ Cancels'
  BY <1>2, <1>3, Moves DEF Pcs, Resting
<1>5. Tries'
  BY <1>2 DEF Tries, ControlInv
<1> QED
  BY <1>4, <1>5 DEF ControlInv

LEMMA ReadyFacts ==
    ASSUME ControlTypes, op' = Ready
    PROVE  /\ OpTypes' /\ op'.id = op.id /\ op'.cancelled = op.cancelled
           /\ op'.attempt = 1 /\ op'.asked = 0 /\ op'.at = "ready"
<1>1. 1 \in 1..MaxAttempts /\ "ready" \in Leaves
  BY LaneAssumption DEF Leaves
<1>2. op' = [op EXCEPT !.at = "ready", !.attempt = 1, !.asked = 0]
  BY DEF Ready
<1>3. op'.at = "ready" /\ op'.attempt = 1 /\ op'.asked = 0
      /\ op' \in [id : 0..MaxOps, at : Leaves \cup {"none"}, cancelled : BOOLEAN,
                  execution : {op.execution}, need : {op.need}, attempt : 1..MaxAttempts,
                  asked : Nat, calls : {op.calls}]
  <2>1. op \in [id : 0..MaxOps, at : Leaves \cup {"none"}, cancelled : BOOLEAN,
               execution : {op.execution}, need : {op.need}, attempt : 1..MaxAttempts,
               asked : Nat, calls : {op.calls}]
    BY DEF ControlTypes, OpTypes
  <2> QED
    BY ONLY <1>1, <1>2, <2>1
<1>4. op'.id = op.id /\ op'.cancelled = op.cancelled
  BY <1>2 DEF ControlTypes, OpTypes
<1>5. OpTypes'
  BY <1>3 DEF OpTypes
<1> QED
  BY <1>3, <1>4, <1>5

(* It starts a step of the model.                                          *)
LEMMA GoesOn ==
    ASSUME ControlInv, Busy, Goto("loop"), op' = Ready, UNCHANGED <<abort, results>>
    PROVE  ControlInv'
<1>1. /\ OpTypes' /\ op'.id = op.id /\ op'.cancelled = op.cancelled /\ op'.attempt = 1 /\ op'.asked = 0
      /\ op'.at = "ready"
  BY ReadyFacts DEF ControlInv
<1>2. /\ DriveTypes' /\ drive'.pc = "loop" /\ drive'.id = drive.id /\ drive'.gate = drive.gate
      /\ drive'.signalled = drive.signalled
  <2>1. "loop" \in Pcs /\ ControlTypes /\ Goto("loop")
    BY DEF Pcs, ControlInv
  <2> QED
    BY ONLY <2>1, GotoFacts
<1>3. ControlTypes' /\ Passes' /\ Aborts' /\ Cancels'
  BY <1>1, <1>2, Moves DEF Pcs, Resting
<1>4. Tries'
  BY <1>1, <1>2 DEF Tries
<1> QED
  BY <1>3, <1>4 DEF ControlInv

(* It ends the operation.                                                  *)
LEMMA Finishes ==
    ASSUME ControlInv, Busy, NEW status \in Ends, Finish(status), UNCHANGED abort
    PROVE  ControlInv'
<1>1. Goto("done") /\ "done" \in Pcs
  BY DEF Finish, Pcs
<1>2. op' = NoOp /\ results' = Append(results, status) /\ results' \in Seq(Ends)
      /\ Len(results') = Len(results) + 1
  BY DEF Finish, ControlInv, ControlTypes
<1>3. OpTypes'
  BY <1>2, LaneAssumption DEF OpTypes, NoOp, Leaves
<1>4. /\ DriveTypes' /\ drive'.pc = "done" /\ drive'.id = drive.id /\ drive'.gate = drive.gate
      /\ drive'.signalled = drive.signalled
  BY <1>1, GotoFacts DEF ControlInv
<1>5. ControlTypes' /\ Passes'
  BY <1>2, <1>3, <1>4 DEF ControlInv, ControlTypes, Passes, Busy, NoOp
<1>6. Aborts' /\ Cancels'
  BY <1>2, <1>4 DEF ControlInv, Aborts, Cancels, Busy, Resting, DriveProgresses, NoOp
<1>7. Tries'
  BY <1>2, <1>4, LaneAssumption DEF Tries, NoOp
<1> QED
  BY <1>5, <1>6, <1>7 DEF ControlInv

LEMMA StepCancelFound == ControlInv /\ CancelFound => ControlInv'
BY Returns DEF CancelFound, Turn, Busy

LEMMA StepCaught == ControlInv /\ Caught => ControlInv'
<1> SUFFICES ASSUME ControlInv, Caught PROVE ControlInv'
  OBVIOUS
<1>1. Busy /\ drive.pc = "caught" /\ ~abort.closed /\ UNCHANGED <<op, abort, results>>
  BY DEF Caught, Served, Busy
<1>2. op.cancelled
  BY <1>1 DEF ControlInv, Cancels
<1>3. Goto("loop")
  BY <1>2 DEF Caught
<1> QED
  BY <1>1, <1>3, Returns

LEMMA StepStartRun == ControlInv /\ StartRun => ControlInv'
<1> SUFFICES ASSUME ControlInv, StartRun PROVE ControlInv'
  OBVIOUS
<1>1. /\ Busy /\ ~op.cancelled /\ ~(abort.op = drive.id /\ ~abort.saw)
      /\ UNCHANGED <<op, abort, results>> /\ Gated("beforeRun")
  BY DEF StartRun, Leaf, Turn, Busy
<1> QED
  BY <1>1, Gates

LEMMA StepTimerEnds == ControlInv /\ TimerEnds => ControlInv'
BY Returns DEF TimerEnds, Busy

LEMMA StepReconcileRequest == ControlInv /\ ReconcileRequest => ControlInv'
BY DEF ReconcileRequest, Turn, Shut, AnswerAborted, ControlInv, ControlTypes, OpTypes,
   DriveTypes, Passes, Aborts, Cancels, Tries, Busy, Resting, DriveProgresses, Pcs, Leaves

LEMMA StepLeaveTools == ControlInv /\ LeaveTools => ControlInv'
BY Returns DEF LeaveTools, Turn, Busy

LEMMA StepEnqueue == ControlInv /\ Enqueue => ControlInv'
BY DEF Enqueue, processVars, ControlInv, ControlTypes, OpTypes, DriveTypes, Passes, Aborts,
   Cancels, Tries, Busy, Resting, DriveProgresses

LEMMA StepAppendEntry == ControlInv /\ AppendEntry => ControlInv'
BY DEF AppendEntry, processVars, ControlInv, ControlTypes, OpTypes, DriveTypes, Passes, Aborts,
   Cancels, Tries, Busy, Resting, DriveProgresses

LEMMA StepCancelQueued == ControlInv /\ CancelQueued => ControlInv'
BY DEF CancelQueued, processVars, ControlInv, ControlTypes, OpTypes, DriveTypes, Passes, Aborts,
   Cancels, Tries, Busy, Resting, DriveProgresses

LEMMA StepTick == ControlInv /\ Tick => ControlInv'
BY DEF Tick, processVars, ControlInv, ControlTypes, OpTypes, DriveTypes, Passes, Aborts,
   Cancels, Tries, Busy, Resting, DriveProgresses

LEMMA StepRestart == ControlInv /\ Restart => ControlInv'
BY LaneAssumption DEF Restart, NoDrive, NoAbort, ControlInv, ControlTypes, OpTypes, DriveTypes,
   Passes, Aborts, Cancels, Tries, Busy, Resting, DriveProgresses, Pcs

LEMMA StepRunStarts == ControlInv /\ RunStarts => ControlInv'
<1> SUFFICES ASSUME ControlInv, RunStarts PROVE ControlInv'
  OBVIOUS
<1>1. Busy /\ Goto("loop") /\ UNCHANGED <<abort, results>>
  BY DEF RunStarts, Turn, Leaf, Busy, processVars
<1>2. OpTypes' /\ op'.id = op.id /\ op'.cancelled = op.cancelled
  BY LaneAssumption DEF RunStarts, ControlInv, ControlTypes, OpTypes, Leaves
<1>3. /\ DriveTypes' /\ drive'.pc = "loop" /\ drive'.id = drive.id /\ drive'.gate = drive.gate
      /\ drive'.signalled = drive.signalled
  BY <1>1, GotoFacts DEF ControlInv, Pcs
<1>4. ControlTypes' /\ Passes' /\ Aborts' /\ Cancels'
  BY <1>1, <1>2, <1>3, Moves DEF RunStarts, Turn, Leaf, Pcs, Resting
<1>5. Tries'
  BY <1>1, <1>3, LaneAssumption DEF RunStarts, ControlInv, ControlTypes, OpTypes, Tries, Leaf,
     Turn
<1> QED
  BY <1>4, <1>5 DEF ControlInv

LEMMA StepPublishIntent == ControlInv /\ PublishIntent => ControlInv'
<1> SUFFICES ASSUME ControlInv, PublishIntent PROVE ControlInv'
  OBVIOUS
<1>1. Busy /\ Goto("intent") /\ UNCHANGED <<abort, results>>
  BY DEF PublishIntent, Turn, Leaf, Busy, processVars
<1>2. OpTypes' /\ op'.id = op.id /\ op'.cancelled = op.cancelled
  BY LaneAssumption DEF PublishIntent, ControlInv, ControlTypes, OpTypes, Leaves
<1>3. /\ DriveTypes' /\ drive'.pc = "intent" /\ drive'.id = drive.id /\ drive'.gate = drive.gate
      /\ drive'.signalled = drive.signalled
  BY <1>1, GotoFacts DEF ControlInv, Pcs
<1>4. ControlTypes' /\ Passes' /\ Aborts' /\ Cancels'
  BY <1>1, <1>2, <1>3, Moves DEF PublishIntent, Turn, Leaf, Pcs, Resting
<1>5. Tries'
  BY <1>1, <1>3, LaneAssumption DEF PublishIntent, ControlInv, ControlTypes, OpTypes, Tries,
     Leaf, Turn
<1> QED
  BY <1>4, <1>5 DEF ControlInv

LEMMA StepRetry == ControlInv /\ Retry => ControlInv'
<1> SUFFICES ASSUME ControlInv, Retry PROVE ControlInv'
  OBVIOUS
<1>1. Busy /\ Goto("loop") /\ UNCHANGED <<abort, results>>
  BY DEF Retry, Turn, Leaf, Busy, processVars
<1>2. OpTypes' /\ op'.id = op.id /\ op'.cancelled = op.cancelled
  BY LaneAssumption DEF Retry, ControlInv, ControlTypes, OpTypes, Leaves
<1>3. /\ DriveTypes' /\ drive'.pc = "loop" /\ drive'.id = drive.id /\ drive'.gate = drive.gate
      /\ drive'.signalled = drive.signalled
  BY <1>1, GotoFacts DEF ControlInv, Pcs
<1>4. ControlTypes' /\ Passes' /\ Aborts' /\ Cancels'
  BY <1>1, <1>2, <1>3, Moves DEF Retry, Turn, Leaf, Pcs, Resting
<1>5. Tries'
  BY <1>1, <1>3, LaneAssumption DEF Retry, ControlInv, ControlTypes, OpTypes, Tries, Leaf, Turn
<1> QED
  BY <1>4, <1>5 DEF ControlInv

LEMMA StepRunEnds == ControlInv /\ RunEnds => ControlInv'
<1> SUFFICES ASSUME ControlInv, RunEnds PROVE ControlInv'
  OBVIOUS
<1>1. Busy /\ Finish("completed") /\ UNCHANGED abort
  BY DEF RunEnds, Turn, Leaf, Busy
<1> QED
  BY <1>1, Finishes DEF Ends

LEMMA StepConfigurationFails == ControlInv /\ ConfigurationFails => ControlInv'
<1> SUFFICES ASSUME ControlInv, ConfigurationFails PROVE ControlInv'
  OBVIOUS
<1>1. Busy /\ Finish("failed") /\ UNCHANGED abort
  BY DEF ConfigurationFails, Turn, Leaf, Busy
<1> QED
  BY <1>1, Finishes DEF Ends

LEMMA StepReconcile == ControlInv /\ Reconcile => ControlInv'
<1> SUFFICES ASSUME ControlInv, Reconcile PROVE ControlInv'
  OBVIOUS
<1>1. Busy /\ Finish("aborted") /\ UNCHANGED abort
  BY DEF Reconcile, Turn, Leaf, Busy
<1> QED
  BY <1>1, Finishes DEF Ends

LEMMA StepRunGoesOn == ControlInv /\ RunGoesOn => ControlInv'
<1> SUFFICES ASSUME ControlInv, RunGoesOn PROVE ControlInv'
  OBVIOUS
<1>1. /\ Busy /\ Goto("loop") /\ UNCHANGED <<abort, results>> /\ op' = Ready
      /\ ~(abort.op = drive.id /\ ~abort.saw)
  BY DEF RunGoesOn, Turn, Busy
<1> QED
  BY <1>1, GoesOn

LEMMA StepCheckpoint == ControlInv /\ Checkpoint => ControlInv'
<1> SUFFICES ASSUME ControlInv, Checkpoint PROVE ControlInv'
  OBVIOUS
<1>1. /\ drive.pc = "loop" /\ ~(abort.op = drive.id /\ ~abort.saw) /\ ~op.cancelled
      /\ UNCHANGED <<abort, results>>
  BY DEF Checkpoint, Leaf, Turn
<1>2. \/ op' = Ready /\ UNCHANGED drive
      \/ /\ op' = op
         /\ \E items : drive' = [drive EXCEPT !.pc = IF Admitted THEN "ending" ELSE "caught",
                                              !.planned = items]
  BY DEF Checkpoint
<1>3. CASE op' = Ready /\ UNCHANGED drive
  <2>1. /\ OpTypes' /\ op'.id = op.id /\ op'.cancelled = op.cancelled
        /\ op'.attempt = 1 /\ op'.asked = 0 /\ op'.at = "ready"
    BY <1>3, ReadyFacts DEF ControlInv
  <2> QED
    BY <1>1, <1>3, <2>1 DEF ControlInv, ControlTypes, OpTypes, DriveTypes, Passes, Aborts,
       Cancels, Tries, Busy, Resting, DriveProgresses
<1>4. CASE /\ op' = op
           /\ \E items : drive' = [drive EXCEPT !.pc = IF Admitted THEN "ending" ELSE "caught",
                                                !.planned = items]
  <2>1. PICK items : drive' = [drive EXCEPT !.pc = IF Admitted THEN "ending" ELSE "caught",
                                            !.planned = items]
    BY <1>4
  <2>2. /\ DriveTypes' /\ drive'.id = drive.id /\ drive'.gate = drive.gate
        /\ drive'.signalled = drive.signalled
        /\ \/ drive'.pc = "ending"
           \/ drive'.pc = "caught" /\ drive.gate = "aborting"
    BY <2>1 DEF ControlInv, ControlTypes, DriveTypes, Admitted, Pcs
  <2> QED
    BY <1>1, <1>4, <2>2 DEF ControlInv, ControlTypes, OpTypes, DriveTypes, Passes, Aborts,
       Cancels, Tries, Busy, Resting, DriveProgresses
<1> QED
  BY <1>2, <1>3, <1>4

LEMMA StepPrepare == ControlInv /\ Prepare => ControlInv'
<1> SUFFICES ASSUME ControlInv, Prepare PROVE ControlInv'
  OBVIOUS
<1>1. /\ Busy /\ ~op.cancelled /\ op.at = "ready" /\ ~(abort.op = drive.id /\ ~abort.saw)
      /\ UNCHANGED <<op, abort, results>> /\ Gated("request")
  BY DEF Prepare, Leaf, Turn, Busy
<1> QED
  BY <1>1, Gates DEF ControlInv, Tries, Pcs

LEMMA StepAskModel == ControlInv /\ AskModel => ControlInv'
<1> SUFFICES ASSUME ControlInv, AskModel PROVE ControlInv'
  OBVIOUS
<1>1. drive.pc = "intent" /\ Busy /\ UNCHANGED <<abort, results>>
  BY DEF AskModel, Busy
<1>2. ~(abort.op = drive.id /\ ~abort.saw) /\ (Admitted => ~op.cancelled)
  BY <1>1 DEF ControlInv, ControlTypes, DriveTypes, Passes, Aborts, Cancels, Resting, Busy,
     Admitted
<1>3. /\ OpTypes' /\ op'.id = op.id /\ op'.cancelled = op.cancelled
      /\ op'.at = op.at /\ op'.attempt = op.attempt
      /\ op'.asked = IF Admitted THEN op.asked + 1 ELSE op.asked
  BY DEF AskModel, ControlInv, ControlTypes, OpTypes
<1>4. Goto(IF Admitted THEN "stream" ELSE "caught")
  BY DEF AskModel, Gated
<1>5. /\ DriveTypes' /\ drive'.id = drive.id /\ drive'.gate = drive.gate
      /\ drive'.signalled = drive.signalled /\ drive'.pc = IF Admitted THEN "stream" ELSE "caught"
  BY <1>4, GotoFacts DEF ControlInv, Pcs
<1>6. CASE Admitted
  <2>1. ControlTypes' /\ Passes' /\ Aborts' /\ Cancels'
    BY <1>1, <1>2, <1>3, <1>5, <1>6, Moves DEF Pcs
  <2>2. op.at \notin {"ready", "retry_wait"}
    BY <1>1 DEF ControlInv, Tries
  <2>3. Tries'
    BY <1>1, <1>3, <1>5, <1>6, <2>2 DEF ControlInv, ControlTypes, OpTypes, Tries
  <2> QED
    BY <2>1, <2>3 DEF ControlInv
<1>7. CASE ~Admitted
  <2>1. ControlTypes' /\ Passes' /\ Aborts' /\ Cancels'
    BY <1>1, <1>3, <1>5, <1>7, Moves DEF Pcs, Resting, Admitted, ControlInv, ControlTypes,
       DriveTypes
  <2>2. Tries'
    BY <1>1, <1>3, <1>5, <1>7 DEF ControlInv, ControlTypes, OpTypes, Tries
  <2> QED
    BY <2>1, <2>2 DEF ControlInv
<1> QED
  BY <1>6, <1>7

LEMMA StepAwaitRetry == ControlInv /\ AwaitRetry => ControlInv'
<1> SUFFICES ASSUME ControlInv, AwaitRetry PROVE ControlInv'
  OBVIOUS
<1>1. /\ drive.pc = "loop" /\ Busy /\ ~op.cancelled /\ op.at = "retry_wait"
      /\ UNCHANGED <<op, abort, results>>
  BY DEF AwaitRetry, Busy
<1>2. \E pc \in {"timer", "caught", "done"} : Goto(pc) /\ (pc = "caught" => ~Admitted)
  BY DEF AwaitRetry, Gated
<1>3. PICK pc \in {"timer", "caught", "done"} : Goto(pc) /\ (pc = "caught" => ~Admitted)
  BY <1>2
<1>4. /\ DriveTypes' /\ drive'.pc = pc /\ drive'.id = drive.id /\ drive'.gate = drive.gate
      /\ drive'.signalled = drive.signalled
  BY <1>3, GotoFacts DEF ControlInv, Pcs
<1> QED
  BY <1>1, <1>3, <1>4 DEF ControlInv, ControlTypes, OpTypes, DriveTypes, Passes, Aborts,
     Cancels, Tries, Busy, Resting, DriveProgresses, Admitted

-----------------------------------------------------------------------------
(* The answers of the provider.                                            *)
LEMMA Answers ==
    ASSUME ControlInv, Busy, Goto("loop"), OpTypes', op'.id = op.id, op'.cancelled = op.cancelled,
           op'.asked = op.asked, op'.attempt = op.attempt, op'.at \in {"checkpoint", "tools"},
           UNCHANGED <<abort, results>>
    PROVE  ControlInv'
<1>1. "loop" \in Pcs /\ ControlTypes /\ Goto("loop")
  BY DEF Pcs, ControlInv
<1>2. /\ DriveTypes' /\ drive'.pc = "loop" /\ drive'.id = drive.id /\ drive'.gate = drive.gate
      /\ drive'.signalled = drive.signalled
  BY ONLY <1>1, GotoFacts
<1>3. ControlTypes' /\ Passes' /\ Aborts' /\ Cancels'
  BY <1>2, Moves DEF Pcs, Resting
<1>4. Tries'
  BY <1>2 DEF Tries, ControlInv
<1> QED
  BY <1>3, <1>4 DEF ControlInv

LEMMA ErrorAnswers ==
    ASSUME ControlInv, Busy, op.at = "effect_pending", NEW retryable \in BOOLEAN,
           AnswerError(retryable), UNCHANGED abort
    PROVE  ControlInv'
<1>1. CASE retryable /\ op.attempt < MaxAttempts
  <2>1. /\ op' = [op EXCEPT !.at = "retry_wait", !.attempt = @ + 1]
        /\ Goto("loop") /\ UNCHANGED results
    BY <1>1 DEF AnswerError
  <2>2. /\ OpTypes' /\ op'.id = op.id /\ op'.cancelled = op.cancelled
        /\ op'.asked = op.asked /\ op'.attempt = op.attempt + 1
    <3>1. op.attempt + 1 \in 1..MaxAttempts /\ "retry_wait" \in Leaves /\ OpTypes
      BY <1>1, LaneAssumption DEF ControlInv, ControlTypes, OpTypes, Leaves
    <3>2. op' \in [id : 0..MaxOps, at : Leaves \cup {"none"}, cancelled : BOOLEAN,
                   execution : {op.execution}, need : {op.need}, attempt : 1..MaxAttempts,
                   asked : Nat, calls : {op.calls}]
      BY <2>1, <3>1 DEF OpTypes
    <3>3. /\ op'.id = op.id /\ op'.cancelled = op.cancelled
          /\ op'.asked = op.asked /\ op'.attempt = op.attempt + 1
      BY <2>1, <3>1 DEF OpTypes
    <3> QED
      BY <3>2, <3>3 DEF OpTypes
  <2>3. "loop" \in Pcs /\ ControlTypes
    BY DEF Pcs, ControlInv
  <2>4. /\ DriveTypes' /\ drive'.pc = "loop" /\ drive'.id = drive.id /\ drive'.gate = drive.gate
        /\ drive'.signalled = drive.signalled
    BY ONLY <2>1, <2>3, GotoFacts
  <2>5. ControlTypes' /\ Passes' /\ Aborts' /\ Cancels'
    BY <2>1, <2>2, <2>4, Moves DEF Pcs, Resting
  <2>6. Tries'
    BY <2>1, <2>2, <2>4 DEF Tries, ControlInv, ControlTypes, OpTypes
  <2> QED
    BY <2>5, <2>6 DEF ControlInv
<1>2. CASE ~(retryable /\ op.attempt < MaxAttempts)
  BY <1>2, Finishes DEF AnswerError, Ends
<1> QED
  BY <1>1, <1>2

LEMMA StepRespond == ControlInv /\ Respond => ControlInv'
<1> SUFFICES ASSUME ControlInv, Respond PROVE ControlInv'
  OBVIOUS
<1>1. drive.pc = "stream" /\ Busy /\ UNCHANGED abort /\ op.at = "effect_pending"
  BY DEF Respond, Turn, Busy, ControlInv, Tries
<1>2. CASE op.cancelled /\ AnswerAborted /\ Goto("loop")
  <2>1. op' = [op EXCEPT !.at = "checkpoint", !.need = FALSE] /\ UNCHANGED results
    BY <1>2 DEF AnswerAborted
  <2>2. /\ OpTypes' /\ op'.id = op.id /\ op'.cancelled = op.cancelled /\ op'.asked = op.asked
        /\ op'.attempt = op.attempt /\ op'.at = "checkpoint"
    BY <2>1 DEF ControlInv, ControlTypes, OpTypes, Leaves
  <2> QED
    BY <1>1, <1>2, <2>1, <2>2, Answers
<1>3. CASE ~op.cancelled /\ AnswerText
  <2>1. op' = [op EXCEPT !.at = "checkpoint", !.need = FALSE] /\ UNCHANGED results
    BY <1>3 DEF AnswerText
  <2>2. /\ OpTypes' /\ op'.id = op.id /\ op'.cancelled = op.cancelled /\ op'.asked = op.asked
        /\ op'.attempt = op.attempt /\ op'.at = "checkpoint"
    BY <2>1 DEF ControlInv, ControlTypes, OpTypes, Leaves
  <2>3. ~drive.signalled
    BY <1>1, <1>3 DEF ControlInv, Cancels
  <2>4. Goto("loop")
    BY <1>3, <2>3 DEF AnswerText
  <2> QED
    BY <1>1, <2>1, <2>2, <2>4, Answers
<1>4. CASE ~op.cancelled /\ AnswerCalls
  <2>1. PICK calls : op' = [op EXCEPT !.at = "tools", !.calls = calls]
    BY <1>4 DEF AnswerCalls
  <2>2. /\ OpTypes' /\ op'.id = op.id /\ op'.cancelled = op.cancelled /\ op'.asked = op.asked
        /\ op'.attempt = op.attempt /\ op'.at = "tools"
    BY <2>1 DEF ControlInv, ControlTypes, OpTypes, Leaves
  <2>3. Goto("loop") /\ UNCHANGED results
    BY <1>4 DEF AnswerCalls
  <2> QED
    BY <1>1, <2>2, <2>3, Answers
<1>5. CASE \E r \in BOOLEAN : AnswerError(r)
  BY <1>1, <1>5, ErrorAnswers
<1> QED
  BY <1>2, <1>3, <1>4, <1>5 DEF Respond

LEMMA StepRecover == ControlInv /\ Recover => ControlInv'
BY ErrorAnswers DEF Recover, Leaf, Turn, Busy

-----------------------------------------------------------------------------
(* The tool calls change neither the pass nor what is cancelled.           *)
LEMMA StepPlace == ASSUME ControlInv, NEW i \in Calls, Place(i) PROVE ControlInv'
BY DEF Place, Turn, processVars, ControlInv, ControlTypes, OpTypes, DriveTypes, Passes, Aborts,
   Cancels, Tries, Busy, Resting, DriveProgresses, Leaves

LEMMA StepStart == ASSUME ControlInv, NEW i \in Calls, Start(i) PROVE ControlInv'
BY DEF Start, Admitted, Turn, Job, MayStart, ControlInv, ControlTypes, OpTypes, DriveTypes,
   Passes, Aborts, Cancels, Tries, Busy, Resting, DriveProgresses

LEMMA StepStartNot == ASSUME ControlInv, NEW i \in Calls, StartNot(i) PROVE ControlInv'
BY DEF StartNot, Admitted, Served, Turn, Job, Outcome, MayStart, ControlInv, ControlTypes,
   OpTypes, DriveTypes, Passes, Aborts, Cancels, Tries, Busy, Resting, DriveProgresses

LEMMA StepReplay == ASSUME ControlInv, NEW i \in Calls, Replay(i) PROVE ControlInv'
BY DEF Replay, Turn, Job, MayStart, ControlInv, ControlTypes, OpTypes, DriveTypes, Passes,
   Aborts, Cancels, Tries, Busy, Resting, DriveProgresses

LEMMA StepReplayNot == ASSUME ControlInv, NEW i \in Calls, ReplayNot(i) PROVE ControlInv'
BY DEF ReplayNot, Turn, Job, Outcome, MayStart, ControlInv, ControlTypes, OpTypes, DriveTypes,
   Passes, Aborts, Cancels, Tries, Busy, Resting, DriveProgresses

LEMMA StepBlock == ASSUME ControlInv, NEW i \in Calls, Block(i) PROVE ControlInv'
BY DEF Block, Turn, Job, Outcome, ControlInv, ControlTypes, OpTypes, DriveTypes, Passes, Aborts,
   Cancels, Tries, Busy, Resting, DriveProgresses

LEMMA StepPublishToolIntent ==
    ASSUME ControlInv, NEW i \in Calls, PublishToolIntent(i)
    PROVE  ControlInv'
BY DEF PublishToolIntent, Turn, Job, ControlInv, ControlTypes, OpTypes, DriveTypes, Passes,
   Aborts, Cancels, Tries, Busy, Resting, DriveProgresses

LEMMA StepExecute == ASSUME ControlInv, NEW i \in Calls, Execute(i) PROVE ControlInv'
BY DEF Execute, Admitted, Job, ControlInv, ControlTypes, OpTypes, DriveTypes, Passes, Aborts,
   Cancels, Tries, Busy, Resting, DriveProgresses

LEMMA StepExecuteNot == ASSUME ControlInv, NEW i \in Calls, ExecuteNot(i) PROVE ControlInv'
BY DEF ExecuteNot, Admitted, Served, Turn, Job, Outcome, ControlInv, ControlTypes, OpTypes,
   DriveTypes, Passes, Aborts, Cancels, Tries, Busy, Resting, DriveProgresses

LEMMA StepToolEnds == ASSUME ControlInv, NEW i \in Calls, ToolEnds(i) PROVE ControlInv'
BY DEF ToolEnds, Turn, Job, Outcome, ControlInv, ControlTypes, OpTypes, DriveTypes, Passes,
   Aborts, Cancels, Tries, Busy, Resting, DriveProgresses

LEMMA StepEnterTools == ControlInv /\ EnterTools => ControlInv'
<1> SUFFICES ASSUME ControlInv, EnterTools PROVE ControlInv'
  OBVIOUS
<1>1. /\ drive.pc = "loop" /\ ~(abort.op = drive.id /\ ~abort.saw)
      /\ UNCHANGED <<op, abort, results>>
  BY DEF EnterTools, Turn
<1>2. /\ DriveTypes' /\ drive'.pc = "tools" /\ drive'.id = drive.id
      /\ op.cancelled => drive'.gate = "aborting"
      /\ ~op.cancelled => drive'.gate = drive.gate /\ drive'.signalled = drive.signalled
  BY DEF EnterTools, Shut, ControlInv, ControlTypes, DriveTypes, OpTypes, Pcs
<1> QED
  BY <1>1, <1>2 DEF ControlInv, ControlTypes, OpTypes, DriveTypes, Passes, Aborts, Cancels,
     Tries, Busy,
     Resting, DriveProgresses

-----------------------------------------------------------------------------
(* The commands of the callers.                                            *)
LEMMA StepAccept ==
    ASSUME ControlInv, NEW execution \in Executions, Accept(execution)
    PROVE  ControlInv'
<1>1. op.id = 0 /\ Len(results) < MaxOps /\ UNCHANGED <<drive, abort, results>>
  BY DEF Accept, processVars
<1>2. Len(results) \in Nat /\ drive.pc \in {"none", "done"}
  BY <1>1 DEF ControlInv, ControlTypes, Passes, Busy
<1>3. op' = [NoOp EXCEPT !.id = Len(results) + 1, !.at = "starting", !.execution = execution]
  BY DEF Accept
<1>4. Len(results) + 1 \in 0..MaxOps /\ 1 \in 1..MaxAttempts /\ "starting" \in Leaves
  BY <1>1, <1>2, LaneAssumption DEF Leaves
<1>5. /\ OpTypes' /\ op'.id = Len(results) + 1 /\ ~op'.cancelled
      /\ op'.at = "starting" /\ op'.asked = 0 /\ op'.attempt = 1
  BY <1>3, <1>4 DEF OpTypes, NoOp
<1>6. ControlTypes' /\ Passes'
  BY <1>1, <1>2, <1>4, <1>5 DEF ControlInv, ControlTypes, DriveTypes, Passes, Busy
<1> QED
  BY <1>1, <1>2, <1>5, <1>6 DEF ControlInv, ControlTypes, OpTypes, DriveTypes, Passes, Aborts,
     Cancels, Tries, Busy,
     Resting, DriveProgresses

LEMMA StepRequestAbort ==
    ASSUME ControlInv, NEW o \in {op.id, drive.id}, RequestAbort(o) PROVE ControlInv'
<1>1. abort.op = 0 /\ o # 0 /\ UNCHANGED <<op, results>> /\ ~abort.saw /\ ~abort.closed
  BY DEF RequestAbort, ControlInv, ControlTypes, Aborts
<1>2. o \in 0..MaxOps
  BY DEF ControlInv, ControlTypes, OpTypes, DriveTypes
<1>3. CASE drive.id = o
  <2>1. /\ abort' = [op |-> o, saw |-> TRUE, closed |-> drive.gate = "open"]
        /\ drive' = [drive EXCEPT !.gate = "aborting"]
    BY <1>3 DEF RequestAbort
  <2>2. /\ DriveTypes' /\ drive'.pc = drive.pc /\ drive'.id = drive.id /\ drive'.gate = "aborting"
        /\ drive'.signalled = drive.signalled
    BY <2>1 DEF ControlInv, ControlTypes, DriveTypes
  <2>3. /\ abort' \in [op : 0..MaxOps, saw : BOOLEAN, closed : BOOLEAN]
        /\ abort'.op = o /\ abort'.saw /\ abort'.closed = (drive.gate = "open")
    BY <1>2, <2>1
  <2> QED
    BY <1>1, <1>3, <2>2, <2>3 DEF ControlInv, ControlTypes, OpTypes, DriveTypes, Passes,
       Aborts, Cancels, Tries, Busy,
     Resting, DriveProgresses
<1>4. CASE drive.id # o
  <2>1. abort' = [op |-> o, saw |-> FALSE, closed |-> FALSE] /\ drive' = drive
    BY <1>4 DEF RequestAbort
  <2> QED
    BY <1>1, <1>2, <1>4, <2>1 DEF ControlInv, ControlTypes, OpTypes, DriveTypes, Passes,
       Aborts, Cancels, Tries, Busy,
     Resting, DriveProgresses
<1> QED
  BY <1>3, <1>4

LEMMA StepCommitAbort == ControlInv /\ CommitAbort => ControlInv'
<1> SUFFICES ASSUME ControlInv, CommitAbort PROVE ControlInv'
  OBVIOUS
<1>1. abort.op # 0 /\ abort' = NoAbort /\ UNCHANGED results
  BY DEF CommitAbort
<1>2. /\ abort' \in [op : 0..MaxOps, saw : BOOLEAN, closed : BOOLEAN]
      /\ abort'.op = 0 /\ ~abort'.saw /\ ~abort'.closed
  BY <1>1, LaneAssumption DEF NoAbort
<1>3. op' = IF op.id = abort.op THEN [op EXCEPT !.cancelled = TRUE] ELSE op
  BY DEF CommitAbort
<1>4. drive' = IF op.id = abort.op /\ abort.saw THEN [drive EXCEPT !.signalled = TRUE] ELSE drive
  BY DEF CommitAbort
<1>5. /\ OpTypes' /\ op'.id = op.id /\ op'.at = op.at /\ op'.attempt = op.attempt
      /\ op'.asked = op.asked /\ op'.cancelled = (op.cancelled \/ op.id = abort.op)
  BY <1>3 DEF ControlInv, ControlTypes, OpTypes
<1>6. /\ DriveTypes' /\ drive'.id = drive.id /\ drive'.pc = drive.pc /\ drive'.gate = drive.gate
      /\ drive'.signalled = (drive.signalled \/ (op.id = abort.op /\ abort.saw))
  BY <1>4 DEF ControlInv, ControlTypes, DriveTypes
<1>7. ControlTypes' /\ Passes' /\ Tries'
  BY <1>1, <1>2, <1>5, <1>6 DEF ControlInv, ControlTypes, Passes, Busy, Tries
<1>8. Aborts'
  BY <1>1, <1>2, <1>5, <1>6 DEF Aborts
<1>9. Cancels'
  BY <1>1, <1>2, <1>5, <1>6 DEF ControlInv, ControlTypes, OpTypes, DriveTypes, Passes, Aborts,
     Cancels, Tries, Busy,
     Resting, DriveProgresses
<1> QED
  BY <1>7, <1>8, <1>9 DEF ControlInv

LEMMA StepInstallDrive ==
    ASSUME ControlInv, NEW waits \in BOOLEAN, InstallDrive(waits)
    PROVE  ControlInv'
BY LaneAssumption DEF InstallDrive, NoDrive, ControlInv, ControlTypes, OpTypes, DriveTypes,
   Passes, Aborts, Cancels, Tries, Busy, Resting, DriveProgresses, Pcs

LEMMA StepClearDrive == ControlInv /\ ClearDrive => ControlInv'
<1> SUFFICES ASSUME ControlInv, ClearDrive PROVE ControlInv'
  OBVIOUS
<1>1. DriveTypes' /\ drive'.pc = "none" /\ drive'.id = 0 /\ ~drive'.signalled
      /\ drive'.gate = "open"
  BY LaneAssumption DEF ClearDrive, NoDrive, DriveTypes, Pcs
<1>2. /\ abort' \in [op : 0..MaxOps, saw : BOOLEAN, closed : BOOLEAN]
      /\ abort'.op = abort.op /\ ~abort'.saw /\ ~abort'.closed
  BY DEF ClearDrive, ControlInv, ControlTypes
<1>3. UNCHANGED <<op, results>> /\ drive.pc = "done"
  BY DEF ClearDrive
<1> QED
  BY <1>1, <1>2, <1>3 DEF ControlInv, ControlTypes, OpTypes, DriveTypes, Passes, Aborts,
     Cancels, Tries, Busy,
     Resting, DriveProgresses

-----------------------------------------------------------------------------
LEMMA StepControl == ControlInv /\ [Next]_vars => ControlInv'
<1> SUFFICES ASSUME ControlInv, [Next]_vars PROVE ControlInv'
  OBVIOUS
<1>1. CASE Command
  BY <1>1, StepAccept, StepEnqueue, StepAppendEntry, StepCancelQueued, StepRequestAbort DEF
     Command
<1>2. CASE Install
  BY <1>2, StepInstallDrive DEF Install
<1>3. CASE DriveStep
  BY <1>3, StepCancelFound, StepCaught, StepClearDrive, StepStartRun, StepRunStarts,
     StepCheckpoint,
     StepRunGoesOn, StepRunEnds, StepConfigurationFails, StepPrepare, StepPublishIntent, StepAskModel,
     StepRespond, StepRecover, StepAwaitRetry, StepRetry, StepTimerEnds, StepReconcile,
     StepReconcileRequest DEF DriveStep
<1>4. CASE ToolStep
  BY <1>4, StepEnterTools, StepLeaveTools, StepPlace, StepStart, StepStartNot, StepReplay,
     StepReplayNot, StepBlock, StepPublishToolIntent, StepExecute, StepExecuteNot,
     StepToolEnds DEF ToolStep
<1>5. CASE UNCHANGED vars
  BY <1>5 DEF vars, ControlInv, ControlTypes, OpTypes, DriveTypes, Passes, Aborts, Cancels, Tries,
     Busy, DriveProgresses
<1> QED
  BY <1>1, <1>2, <1>3, <1>4, <1>5, StepCommitAbort, StepTick, StepRestart DEF Next

(* Whatever the queues hold: who drives which operation, what a request to *)
(* abort has told its pass, and how often the provider was asked.          *)
THEOREM ControlInvariant == Spec => []ControlInv
BY InitControl, StepControl, PTL DEF Spec

(* driveOperation() never has to give up on a pass that gets nowhere: a    *)
(* refused effect is followed by the cancellation that refused it.         *)
THEOREM PassesProgress == Spec => []DriveProgresses
<1>1. ControlInv => DriveProgresses
  BY DEF ControlInv, Cancels
<1> QED
  BY <1>1, ControlInvariant, PTL

(* retryPolicy.maxAttempts bounds the requests of a step, recoveries       *)
(* after crashes counted.                                                  *)
THEOREM AttemptsAreBounded == Spec => []AttemptsBounded
<1>1. ControlInv => AttemptsBounded
  BY LaneAssumption DEF ControlInv, ControlTypes, OpTypes, Tries, AttemptsBounded
<1> QED
  BY <1>1, ControlInvariant, PTL

-----------------------------------------------------------------------------
(* The calls of the response, and what the pass does about each of them.   *)
Steps == {"none", "todo", "hook", "intent", "running"}

ToolTypes ==
    /\ op.calls \in [Batch -> CallStates] /\ Batch \subseteq Calls
    /\ jobs \in [Calls -> Steps]

(* A call has a job only in the loop of the tools, and until its outcome   *)
(* is put down.                                                            *)
JobsFit ==
    /\ drive.pc # "tools" => jobs = NoJobs
    /\ \A i \in Calls : jobs[i] # "none" => i \in Batch
    /\ \A i \in Batch :
          /\ jobs[i] = "hook" => op.calls[i].status = "planned"
          /\ jobs[i] = "todo" => op.calls[i].status \in {"planned", "effect_pending"}
          /\ jobs[i] \in {"intent", "running"} => op.calls[i].status = "effect_pending"

(* How often a tool was executed for its call.                             *)
RanSoFar ==
    \A i \in Batch :
        /\ op.calls[i].status = "planned" => op.calls[i].ran = 0
        /\ op.calls[i].replay = "never" =>
              op.calls[i].ran <= 1 /\ (jobs[i] = "intent" => op.calls[i].ran = 0)

ToolInv == ToolTypes /\ JobsFit /\ RanSoFar

LEMMA NoCalls == ASSUME op.calls = <<>>, jobs = NoJobs PROVE ToolInv
<1>1. Batch = {}
  BY DEF Batch
<1> QED
  BY <1>1 DEF ToolInv, ToolTypes, JobsFit, RanSoFar, NoJobs, Steps

LEMMA InitTools == Init => ToolInv
BY NoCalls DEF Init, NoOp

(* Steps that are none of the tools'.                                      *)
LEMMA CallsKept ==
    ASSUME ToolInv, UNCHANGED <<jobs, op.calls>>, drive'.pc = "tools" <=> drive.pc = "tools"
    PROVE  ToolInv'
BY DEF ToolInv, ToolTypes, JobsFit, RanSoFar, Batch

LEMMA CallsGone == ASSUME op'.calls = <<>>, jobs' = NoJobs PROVE ToolInv'
<1>1. Batch' = {}
  BY DEF Batch
<1> QED
  BY <1>1 DEF ToolInv, ToolTypes, JobsFit, RanSoFar, NoJobs, Steps

LEMMA DriveStaysOutside ==
    ASSUME ControlInv, DriveStep
    PROVE  drive.pc # "tools" /\ drive'.pc # "tools" /\ UNCHANGED jobs
<1>1. CASE CancelFound
  BY <1>1 DEF CancelFound, Finish, Goto, Gated, Turn, Leaf, processVars, ControlInv,
     ControlTypes, DriveTypes
<1>2. CASE Caught
  BY <1>2 DEF Caught, Finish, Goto, Gated, Turn, Leaf, processVars, ControlInv, ControlTypes,
     DriveTypes
<1>3. CASE ClearDrive
  BY <1>3 DEF ClearDrive, Finish, Goto, Gated, Turn, Leaf, processVars, ControlInv,
     ControlTypes, DriveTypes, NoDrive
<1>4. CASE StartRun
  BY <1>4 DEF StartRun, Finish, Goto, Gated, Turn, Leaf, processVars, ControlInv, ControlTypes,
     DriveTypes
<1>5. CASE RunStarts
  BY <1>5 DEF RunStarts, Finish, Goto, Gated, Turn, Leaf, processVars, ControlInv,
     ControlTypes, DriveTypes
<1>6. CASE Checkpoint
  BY <1>6 DEF Checkpoint, Finish, Goto, Gated, Turn, Leaf, processVars, ControlInv,
     ControlTypes, DriveTypes
<1>7. CASE RunGoesOn
  BY <1>7 DEF RunGoesOn, Finish, Goto, Gated, Turn, Leaf, processVars, ControlInv,
     ControlTypes, DriveTypes
<1>8. CASE RunEnds
  BY <1>8 DEF RunEnds, Finish, Goto, Gated, Turn, Leaf, processVars, ControlInv, ControlTypes,
     DriveTypes
<1>9. CASE ConfigurationFails
  BY <1>9 DEF ConfigurationFails, Finish, Goto, Gated, Turn, Leaf, processVars, ControlInv,
     ControlTypes, DriveTypes
<1>10. CASE Prepare
  BY <1>10 DEF Prepare, Finish, Goto, Gated, Turn, Leaf, processVars, ControlInv, ControlTypes,
     DriveTypes
<1>11. CASE PublishIntent
  BY <1>11 DEF PublishIntent, Finish, Goto, Gated, Turn, Leaf, processVars, ControlInv,
     ControlTypes, DriveTypes
<1>12. CASE AskModel
  BY <1>12 DEF AskModel, Finish, Goto, Gated, Turn, Leaf, processVars, ControlInv,
     ControlTypes, DriveTypes
<1>13. CASE Respond
  BY <1>13 DEF Respond, Finish, Goto, Gated, Turn, Leaf, processVars, ControlInv, ControlTypes,
     DriveTypes, AnswerAborted, AnswerText, AnswerCalls, AnswerError
<1>14. CASE Recover
  BY <1>14 DEF Recover, Finish, Goto, Gated, Turn, Leaf, processVars, ControlInv, ControlTypes,
     DriveTypes, AnswerAborted, AnswerText, AnswerCalls, AnswerError
<1>15. CASE AwaitRetry
  BY <1>15 DEF AwaitRetry, Finish, Goto, Gated, Turn, Leaf, processVars, ControlInv,
     ControlTypes, DriveTypes
<1>16. CASE Retry
  BY <1>16 DEF Retry, Finish, Goto, Gated, Turn, Leaf, processVars, ControlInv, ControlTypes,
     DriveTypes
<1>17. CASE TimerEnds
  BY <1>17 DEF TimerEnds, Finish, Goto, Gated, Turn, Leaf, processVars, ControlInv,
     ControlTypes, DriveTypes
<1>18. CASE Reconcile
  BY <1>18 DEF Reconcile, Finish, Goto, Gated, Turn, Leaf, processVars, ControlInv,
     ControlTypes, DriveTypes
<1>19. CASE ReconcileRequest
  BY <1>19 DEF ReconcileRequest, Finish, Goto, Gated, Turn, Leaf, processVars, ControlInv,
     ControlTypes, DriveTypes, Shut
<1> QED
  BY <1>1, <1>2, <1>3, <1>4, <1>5, <1>6, <1>7, <1>8, <1>9, <1>10, <1>11, <1>12, <1>13, <1>14,
     <1>15, <1>16, <1>17, <1>18, <1>19 DEF DriveStep

LEMMA DriveStepCalls ==
    ASSUME ControlInv, DriveStep
    PROVE  op'.calls = op.calls \/ op' = NoOp \/ AnswerCalls
<1>1. CASE CancelFound
  BY <1>1 DEF CancelFound, Finish, ControlInv, ControlTypes, OpTypes
<1>2. CASE Caught
  BY <1>2 DEF Caught, Finish, ControlInv, ControlTypes, OpTypes
<1>3. CASE ClearDrive
  BY <1>3 DEF ClearDrive, Finish, ControlInv, ControlTypes, OpTypes
<1>4. CASE StartRun
  BY <1>4 DEF StartRun, Finish, ControlInv, ControlTypes, OpTypes
<1>5. CASE RunStarts
  BY <1>5 DEF RunStarts, Finish, ControlInv, ControlTypes, OpTypes
<1>6. CASE Checkpoint
  BY <1>6 DEF Checkpoint, Finish, ControlInv, ControlTypes, OpTypes, Ready
<1>7. CASE RunGoesOn
  BY <1>7 DEF RunGoesOn, Finish, ControlInv, ControlTypes, OpTypes, Ready
<1>8. CASE RunEnds
  BY <1>8 DEF RunEnds, Finish, ControlInv, ControlTypes, OpTypes
<1>9. CASE ConfigurationFails
  BY <1>9 DEF ConfigurationFails, Finish, ControlInv, ControlTypes, OpTypes
<1>10. CASE Prepare
  BY <1>10 DEF Prepare, Finish, ControlInv, ControlTypes, OpTypes
<1>11. CASE PublishIntent
  BY <1>11 DEF PublishIntent, Finish, ControlInv, ControlTypes, OpTypes
<1>12. CASE AskModel
  BY <1>12 DEF AskModel, Finish, ControlInv, ControlTypes, OpTypes
<1>13. CASE Respond
  BY <1>13 DEF Respond, Finish, ControlInv, ControlTypes, OpTypes, AnswerAborted, AnswerText,
     AnswerError
<1>14. CASE Recover
  BY <1>14 DEF Recover, Finish, ControlInv, ControlTypes, OpTypes, AnswerAborted, AnswerText,
     AnswerError
<1>15. CASE AwaitRetry
  BY <1>15 DEF AwaitRetry, Finish, ControlInv, ControlTypes, OpTypes
<1>16. CASE Retry
  BY <1>16 DEF Retry, Finish, ControlInv, ControlTypes, OpTypes
<1>17. CASE TimerEnds
  BY <1>17 DEF TimerEnds, Finish, ControlInv, ControlTypes, OpTypes
<1>18. CASE Reconcile
  BY <1>18 DEF Reconcile, Finish, ControlInv, ControlTypes, OpTypes
<1>19. CASE ReconcileRequest
  BY <1>19 DEF ReconcileRequest, Finish, ControlInv, ControlTypes, OpTypes, AnswerAborted,
     AnswerText, AnswerError
<1> QED
  BY <1>1, <1>2, <1>3, <1>4, <1>5, <1>6, <1>7, <1>8, <1>9, <1>10, <1>11, <1>12, <1>13, <1>14,
     <1>15, <1>16, <1>17, <1>18, <1>19 DEF DriveStep

LEMMA DriveStepTools == ASSUME ControlInv, ToolInv, DriveStep PROVE ToolInv'
<1>1. drive.pc # "tools" /\ drive'.pc # "tools" /\ UNCHANGED jobs /\ jobs = NoJobs
  BY DriveStaysOutside DEF ToolInv, JobsFit
<1>2. CASE op'.calls = op.calls
  BY <1>1, <1>2, CallsKept
<1>3. CASE op' = NoOp
  BY <1>1, <1>3, CallsGone DEF NoOp
<1>4. CASE AnswerCalls
  <2>0. PICK k \in Calls : \E replay \in [1..k -> {"never", "safe"}] :
             op' = [op EXCEPT !.at = "tools", !.calls =
                       [i \in 1..k |-> [status |-> "planned", replay |-> replay[i],
                                        terminate |-> FALSE, ran |-> 0]]]
    BY <1>4 DEF AnswerCalls
  <2>1. PICK replay \in [1..k -> {"never", "safe"}] :
             op' = [op EXCEPT !.at = "tools", !.calls =
                       [i \in 1..k |-> [status |-> "planned", replay |-> replay[i],
                                        terminate |-> FALSE, ran |-> 0]]]
    BY <2>0
  <2>2. op'.calls = [i \in 1..k |-> [status |-> "planned", replay |-> replay[i],
                                     terminate |-> FALSE, ran |-> 0]]
    BY <2>1 DEF ControlInv, ControlTypes, OpTypes
  <2>3. Batch' = 1..k /\ 1..k \subseteq Calls
    BY <2>2, LaneAssumption DEF Batch, Calls
  <2>4. \A i \in 1..k : /\ op'.calls[i] \in CallStates
                         /\ op'.calls[i].status = "planned" /\ op'.calls[i].ran = 0
    BY <2>2 DEF CallStates, Statuses
  <2>5. ToolTypes'
    <3>1. op'.calls \in [1..k -> CallStates]
      BY <2>2, <2>4
    <3> QED
      BY <1>1, <2>3, <3>1 DEF ToolInv, ToolTypes
  <2>6. \A i \in Calls : jobs'[i] = "none"
    BY <1>1 DEF NoJobs
  <2>7. JobsFit'
    BY <1>1, <2>6, <2>3 DEF JobsFit, NoJobs
  <2>8. RanSoFar'
    BY <2>3, <2>4 DEF RanSoFar
  <2> QED
    BY <2>5, <2>7, <2>8 DEF ToolInv
<1> QED
  BY <1>2, <1>3, <1>4, DriveStepCalls

(* One call has another state, or another job.                             *)
LEMMA OneCall ==
    ASSUME ToolInv, NEW i \in Batch, NEW call \in CallStates, NEW step \in Steps \ {"todo"},
           op'.calls = [op.calls EXCEPT ![i] = call], jobs' = [jobs EXCEPT ![i] = step],
           drive.pc = "tools", UNCHANGED drive,
           step = "hook" => call.status = "planned",
           step \in {"intent", "running"} => call.status = "effect_pending",
           call.status = "planned" => call.ran = 0,
           call.replay = "never" => call.ran <= 1 /\ (step = "intent" => call.ran = 0)
    PROVE  ToolInv'
<1>1. Batch' = Batch /\ op'.calls \in [Batch -> CallStates] /\ jobs' \in [Calls -> Steps]
  BY DEF Batch, ToolInv, ToolTypes
<1>2. /\ op'.calls[i] = call /\ jobs'[i] = step /\ i \in Calls
      /\ \A h \in Batch \ {i} : op'.calls[h] = op.calls[h] /\ jobs'[h] = jobs[h]
      /\ \A h \in Calls \ {i} : jobs'[h] = jobs[h]
  BY DEF Batch, ToolInv, ToolTypes
<1>3. ToolTypes'
  BY <1>1 DEF ToolInv, ToolTypes
<1>4. JobsFit'
  BY <1>1, <1>2 DEF ToolInv, JobsFit
<1>5. RanSoFar'
  BY <1>1, <1>2 DEF ToolInv, RanSoFar
<1> QED
  BY <1>3, <1>4, <1>5 DEF ToolInv

LEMMA ToolsOutcome ==
    ASSUME ControlInv, ToolInv, NEW i \in Batch, NEW terminate \in BOOLEAN, Outcome(i, terminate),
           drive.pc = "tools", UNCHANGED drive
    PROVE  ToolInv'
<1> DEFINE call == [op.calls[i] EXCEPT !.status = "outcome_ready",
                                       !.terminate = terminate /\ ~op.cancelled]
<1>1. op.calls[i] \in CallStates /\ op.cancelled \in BOOLEAN
  BY DEF ToolInv, ToolTypes, ControlInv, ControlTypes, OpTypes
<1>2. /\ call \in CallStates /\ call.status = "outcome_ready"
      /\ call.replay = op.calls[i].replay /\ call.ran = op.calls[i].ran
  BY <1>1 DEF CallStates, Statuses
<1>3. op'.calls = [op.calls EXCEPT ![i] = call]
  BY DEF Outcome, ControlInv, ControlTypes, OpTypes, ToolInv, ToolTypes, CallStates, Batch
<1>4. jobs' = [jobs EXCEPT ![i] = "none"] /\ "none" \in Steps
  BY DEF Outcome, Job, Steps
<1> HIDE DEF call
<1> QED
  BY <1>2, <1>3, <1>4, OneCall DEF ToolInv, RanSoFar

LEMMA ToolsStart == ASSUME ControlInv, ToolInv, NEW i \in Calls, Start(i) PROVE ToolInv'
<1>1. /\ i \in Batch /\ drive.pc = "tools" /\ UNCHANGED <<op, drive>>
      /\ jobs' = [jobs EXCEPT ![i] = "hook"] /\ op.calls[i].status = "planned"
  BY DEF Start, MayStart, Turn, Job
<1>2. op.calls[i] \in CallStates /\ op'.calls = [op.calls EXCEPT ![i] = op.calls[i]]
  BY <1>1 DEF ToolInv, ToolTypes
<1> QED
  BY <1>1, <1>2, OneCall DEF ToolInv, RanSoFar, Steps

LEMMA ToolsReplay == ASSUME ControlInv, ToolInv, NEW i \in Calls, Replay(i) PROVE ToolInv'
<1>1. /\ i \in Batch /\ drive.pc = "tools" /\ UNCHANGED <<op, drive>>
      /\ jobs' = [jobs EXCEPT ![i] = "intent"] /\ op.calls[i].status = "effect_pending" /\ op.calls[i].replay = "safe"
  BY DEF Replay, MayStart, Turn, Job
<1>2. op.calls[i] \in CallStates /\ op'.calls = [op.calls EXCEPT ![i] = op.calls[i]]
  BY <1>1 DEF ToolInv, ToolTypes
<1> QED
  BY <1>1, <1>2, OneCall DEF ToolInv, RanSoFar, Steps

LEMMA ToolsStartNot == ASSUME ControlInv, ToolInv, NEW i \in Calls, StartNot(i) PROVE ToolInv'
<1>1. i \in Calls /\ jobs[i] # "none" /\ drive.pc = "tools" /\ UNCHANGED drive
  BY DEF StartNot, MayStart, Turn
<1>2. PICK terminate \in BOOLEAN : Outcome(i, terminate)
  BY DEF StartNot
<1> QED
  BY <1>1, <1>2, ToolsOutcome DEF ToolInv, JobsFit

LEMMA ToolsReplayNot == ASSUME ControlInv, ToolInv, NEW i \in Calls, ReplayNot(i) PROVE ToolInv'
<1>1. i \in Calls /\ jobs[i] # "none" /\ drive.pc = "tools" /\ UNCHANGED drive
  BY DEF ReplayNot, MayStart, Turn
<1>2. PICK terminate \in BOOLEAN : Outcome(i, terminate)
  BY DEF ReplayNot
<1> QED
  BY <1>1, <1>2, ToolsOutcome DEF ToolInv, JobsFit

LEMMA ToolsBlock == ASSUME ControlInv, ToolInv, NEW i \in Calls, Block(i) PROVE ToolInv'
<1>1. i \in Calls /\ jobs[i] # "none" /\ drive.pc = "tools" /\ UNCHANGED drive
  BY DEF Block, MayStart, Turn
<1>2. PICK terminate \in BOOLEAN : Outcome(i, terminate)
  BY DEF Block
<1> QED
  BY <1>1, <1>2, ToolsOutcome DEF ToolInv, JobsFit

LEMMA ToolsExecuteNot == ASSUME ControlInv, ToolInv, NEW i \in Calls, ExecuteNot(i) PROVE ToolInv'
<1>1. i \in Calls /\ jobs[i] # "none" /\ drive.pc = "tools" /\ UNCHANGED drive
  BY DEF ExecuteNot, MayStart, Turn
<1>2. PICK terminate \in BOOLEAN : Outcome(i, terminate)
  BY DEF ExecuteNot
<1> QED
  BY <1>1, <1>2, ToolsOutcome DEF ToolInv, JobsFit

LEMMA ToolsToolEnds == ASSUME ControlInv, ToolInv, NEW i \in Calls, ToolEnds(i) PROVE ToolInv'
<1>1. i \in Calls /\ jobs[i] # "none" /\ drive.pc = "tools" /\ UNCHANGED drive
  BY DEF ToolEnds, MayStart, Turn
<1>2. PICK terminate \in BOOLEAN : Outcome(i, terminate)
  BY DEF ToolEnds
<1> QED
  BY <1>1, <1>2, ToolsOutcome DEF ToolInv, JobsFit

LEMMA ToolsPublishToolIntent ==
    ASSUME ControlInv, ToolInv, NEW i \in Calls, PublishToolIntent(i)
    PROVE  ToolInv'
<1> DEFINE call == [op.calls[i] EXCEPT !.status = "effect_pending"]
<1>1. /\ drive.pc = "tools" /\ UNCHANGED drive /\ jobs[i] = "hook"
      /\ jobs' = [jobs EXCEPT ![i] = "intent"]
  BY DEF PublishToolIntent, Turn, Job
<1>2. i \in Batch /\ op.calls[i] \in CallStates
  BY <1>1 DEF ToolInv, ToolTypes, JobsFit
<1>3. call \in CallStates
  BY <1>2 DEF CallStates, Statuses
<1>4. call.status = "effect_pending" /\ call.ran = 0 /\ call.ran <= 1
  BY <1>1, <1>2 DEF CallStates, ToolInv, JobsFit, RanSoFar
<1>5. op'.calls = [op.calls EXCEPT ![i] = call]
  BY <1>2 DEF PublishToolIntent, ControlInv, ControlTypes, OpTypes, ToolInv, ToolTypes,
     CallStates, Batch
<1> HIDE DEF call
<1> QED
  BY <1>1, <1>2, <1>3, <1>4, <1>5, OneCall DEF Steps

LEMMA ToolsExecute == ASSUME ControlInv, ToolInv, NEW i \in Calls, Execute(i) PROVE ToolInv'
<1> DEFINE call == [op.calls[i] EXCEPT !.ran = op.calls[i].ran + 1]
<1>1. /\ drive.pc = "tools" /\ UNCHANGED drive /\ jobs[i] = "intent"
      /\ jobs' = [jobs EXCEPT ![i] = "running"]
  BY DEF Execute, Turn, Job
<1>2. i \in Batch /\ op.calls[i] \in CallStates
  BY <1>1 DEF ToolInv, ToolTypes, JobsFit
<1>3. call \in CallStates
  BY <1>2 DEF CallStates, Statuses
<1>4. call.status = "effect_pending" /\ (call.replay = "never" => call.ran <= 1)
  BY <1>1, <1>2 DEF CallStates, ToolInv, JobsFit, RanSoFar
<1>5. op'.calls = [op.calls EXCEPT ![i] = call]
  BY <1>2 DEF Execute, ControlInv, ControlTypes, OpTypes, ToolInv, ToolTypes, CallStates, Batch
<1> HIDE DEF call
<1> QED
  BY <1>1, <1>2, <1>3, <1>4, <1>5, OneCall DEF Steps

LEMMA ToolsPlace == ASSUME ControlInv, ToolInv, NEW i \in Calls, Place(i) PROVE ToolInv'
<1> DEFINE calls == [h \in Batch |-> IF h <= i THEN [op.calls[h] EXCEPT !.status = "completed"]
                                     ELSE op.calls[h]]
<1>1. UNCHANGED <<drive, jobs>>
  BY DEF Place, processVars
<1>2. \A h \in Batch : h <= i => op.calls[h].status \in {"outcome_ready", "completed"}
  BY DEF Place, Placeable, Open
<1>3. \A h \in Batch : op.calls[h].status \in {"outcome_ready", "completed"} => jobs[h] = "none"
  BY DEF ToolInv, ToolTypes, JobsFit, Steps
<1>4. \A h \in Batch : /\ calls[h] \in CallStates /\ calls[h].ran = op.calls[h].ran
                       /\ calls[h].replay = op.calls[h].replay
                       /\ calls[h].status = IF h <= i THEN "completed" ELSE op.calls[h].status
  BY DEF ToolInv, ToolTypes, CallStates, Statuses
<1>5. CASE \E h \in Batch : calls[h].status # "completed"
  <2>1. op' = [op EXCEPT !.calls = calls]
    BY <1>5 DEF Place
  <2>2. op'.calls = calls
    BY <2>1 DEF ControlInv, ControlTypes, OpTypes
  <2>3. Batch' = Batch
    BY <2>2 DEF Batch
  <2>4. ToolTypes'
    BY <1>1, <1>4, <2>2, <2>3 DEF ToolInv, ToolTypes
  <2>5. JobsFit'
    BY <1>1, <1>2, <1>3, <1>4, <2>2, <2>3 DEF ToolInv, JobsFit
  <2>6. RanSoFar'
    BY <1>1, <1>4, <2>2, <2>3 DEF ToolInv, RanSoFar, ToolTypes, CallStates
  <2> QED
    BY <2>4, <2>5, <2>6 DEF ToolInv
<1>6. CASE ~ \E h \in Batch : calls[h].status # "completed"
  <2>1. op'.calls = <<>>
    BY <1>6 DEF Place, ControlInv, ControlTypes, OpTypes
  <2>2. \A h \in Batch : jobs[h] = "none"
    BY <1>2, <1>3, <1>4, <1>6
  <2>3. \A h \in Calls : jobs[h] = "none"
    BY <2>2 DEF ToolInv, JobsFit
  <2>4. jobs = NoJobs
    BY <2>3 DEF ToolInv, ToolTypes, NoJobs
  <2> QED
    BY <1>1, <2>1, <2>4, CallsGone
<1> QED
  BY <1>5, <1>6

LEMMA ToolsEntered == ASSUME ControlInv, ToolInv, EnterTools PROVE ToolInv'
<1>1. op' = op /\ drive'.pc = "tools"
  BY DEF EnterTools, Shut, ControlInv, ControlTypes, DriveTypes
<1>2. jobs' = [i \in Calls |-> IF i \in Batch /\ op.calls[i].status \in {"planned", "effect_pending"}
                               THEN "todo" ELSE "none"]
  BY DEF EnterTools
<1>3. Batch' = Batch
  BY <1>1 DEF Batch
<1>4. ToolTypes'
  BY <1>1, <1>2, <1>3 DEF ToolInv, ToolTypes, Steps
<1>5. JobsFit'
  BY <1>1, <1>2, <1>3 DEF ToolInv, ToolTypes, JobsFit
<1>6. RanSoFar'
  BY <1>1, <1>2, <1>3 DEF ToolInv, ToolTypes, RanSoFar
<1> QED
  BY <1>4, <1>5, <1>6 DEF ToolInv

LEMMA ToolsLeft == ASSUME ControlInv, ToolInv, LeaveTools PROVE ToolInv'
<1>1. jobs = NoJobs /\ UNCHANGED <<jobs, op>> /\ drive'.pc = "loop"
  BY DEF LeaveTools, Goto, ControlInv, ControlTypes, DriveTypes
<1> QED
  BY <1>1 DEF ToolInv, ToolTypes, JobsFit, RanSoFar, Batch

LEMMA RestartTools == ASSUME ControlInv, ToolInv, Restart PROVE ToolInv'
<1>1. jobs' = NoJobs /\ op' = op /\ drive'.pc = "none"
  BY DEF Restart, NoDrive
<1>2. \A i \in Calls : jobs'[i] = "none"
  BY <1>1 DEF NoJobs
<1> QED
  BY <1>1, <1>2 DEF ToolInv, ToolTypes, JobsFit, RanSoFar, Batch, NoJobs, Steps

LEMMA OtherTools ==
    ASSUME ControlInv, ToolInv, Command \/ CommitAbort \/ Install \/ Tick
    PROVE  ToolInv'
<1>1. CASE \E execution \in Executions : Accept(execution)
  <2>1. op'.calls = <<>> /\ UNCHANGED <<drive, jobs>> /\ op.id = 0
    BY <1>1 DEF Accept, NoOp, processVars
  <2>2. drive.pc # "tools"
    BY <2>1 DEF ControlInv, Passes, Busy
  <2> QED
    BY <2>1, <2>2, CallsGone DEF ToolInv, JobsFit
<1>2. CASE Enqueue \/ AppendEntry \/ CancelQueued \/ Tick
  BY <1>2, CallsKept DEF Enqueue, AppendEntry, CancelQueued, Tick, processVars
<1>3. CASE \E o \in {op.id, drive.id} : RequestAbort(o)
  BY <1>3, CallsKept DEF RequestAbort, ControlInv, ControlTypes, DriveTypes
<1>4. CASE CommitAbort
  BY <1>4, CallsKept DEF CommitAbort, ControlInv, ControlTypes, DriveTypes, OpTypes
<1>5. CASE Install
  BY <1>5, CallsKept DEF Install, InstallDrive, NoDrive
<1> QED
  BY <1>1, <1>2, <1>3, <1>4, <1>5 DEF Command

LEMMA StepTools == ControlInv /\ ToolInv /\ [Next]_vars => ToolInv'
<1> SUFFICES ASSUME ControlInv, ToolInv, [Next]_vars PROVE ToolInv'
  OBVIOUS
<1>1. CASE ToolStep
  BY <1>1, ToolsPlace, ToolsStart, ToolsStartNot, ToolsReplay, ToolsReplayNot, ToolsBlock,
     ToolsPublishToolIntent, ToolsExecute, ToolsExecuteNot, ToolsToolEnds, ToolsEntered,
     ToolsLeft DEF ToolStep
<1>2. CASE UNCHANGED vars
  BY <1>2, CallsKept DEF vars
<1> QED
  BY <1>1, <1>2, DriveStepTools, RestartTools, OtherTools DEF Next

(* At every moment a pass works only on calls of the response that is open,*)
(* and a tool has run only if its intent was put down.                     *)
THEOREM ToolInvariant == Spec => []ToolInv
<1>1. ControlInv /\ ToolInv /\ [Next]_vars => ToolInv'
  BY StepTools
<1> QED
  BY <1>1, InitTools, ControlInvariant, PTL DEF Spec

(* A tool that must not be repeated is executed once at most for a call,   *)
(* however often the harness crashes: the intent is put down before.       *)
THEOREM ToolsRunOnce == Spec => []NeverTwice
<1>1. ToolInv => NeverTwice
  BY DEF ToolInv, RanSoFar, NeverTwice
<1> QED
  BY <1>1, ToolInvariant, PTL

(* Both bounds: no request and no tool is repeated beyond its limit.       *)
THEOREM EffectsAreBounded == Spec => []EffectsBounded
<1>1. AttemptsBounded /\ NeverTwice => EffectsBounded
  BY DEF EffectsBounded
<1> QED
  BY <1>1, AttemptsAreBounded, ToolsRunOnce, PTL

-----------------------------------------------------------------------------
(* What a step does to a cancelled operation.                              *)
Hold == {"beforeRun", "ending", "request", "stream", "timer"}

LEMMA DriveStartsNothing ==
    ASSUME ControlInv, op.cancelled, DriveStep
    PROVE  op'.asked <= op.asked /\ (drive'.pc \in Hold => drive'.pc = drive.pc)
<1> USE DEF Hold
<1>1. CASE CancelFound
  BY <1>1 DEF CancelFound, Finish, NoOp, Goto, Gated, Turn, Leaf, ControlInv, ControlTypes,
     OpTypes, DriveTypes
<1>2. CASE Caught
  BY <1>2 DEF Caught, Finish, NoOp, Goto, Gated, Turn, Leaf, ControlInv, ControlTypes, OpTypes,
     DriveTypes
<1>3. CASE ClearDrive
  BY <1>3 DEF ClearDrive, Finish, NoOp, Goto, Gated, Turn, Leaf, ControlInv, ControlTypes,
     OpTypes, DriveTypes, NoDrive
<1>4. CASE StartRun
  BY <1>4 DEF StartRun, Finish, NoOp, Goto, Gated, Turn, Leaf, ControlInv, ControlTypes,
     OpTypes, DriveTypes
<1>5. CASE RunStarts
  BY <1>5 DEF RunStarts, Finish, NoOp, Goto, Gated, Turn, Leaf, ControlInv, ControlTypes,
     OpTypes, DriveTypes
<1>6. CASE Checkpoint
  BY <1>6 DEF Checkpoint, Finish, NoOp, Goto, Gated, Turn, Leaf, ControlInv, ControlTypes,
     OpTypes, DriveTypes, Ready
<1>7. CASE RunGoesOn
  BY <1>7 DEF RunGoesOn, Finish, NoOp, Goto, Gated, Turn, Leaf, ControlInv, ControlTypes,
     OpTypes, DriveTypes, Ready
<1>8. CASE RunEnds
  BY <1>8 DEF RunEnds, Finish, NoOp, Goto, Gated, Turn, Leaf, ControlInv, ControlTypes,
     OpTypes, DriveTypes
<1>9. CASE ConfigurationFails
  BY <1>9 DEF ConfigurationFails, Finish, NoOp, Goto, Gated, Turn, Leaf, ControlInv,
     ControlTypes, OpTypes, DriveTypes
<1>10. CASE Prepare
  BY <1>10 DEF Prepare, Finish, NoOp, Goto, Gated, Turn, Leaf, ControlInv, ControlTypes,
     OpTypes, DriveTypes
<1>11. CASE PublishIntent
  BY <1>11 DEF PublishIntent, Finish, NoOp, Goto, Gated, Turn, Leaf, ControlInv, ControlTypes,
     OpTypes, DriveTypes
<1>12. CASE AskModel
  BY <1>12 DEF AskModel, Finish, NoOp, Goto, Gated, Turn, Leaf, ControlInv, ControlTypes,
     OpTypes, DriveTypes, Cancels, Admitted, Resting
<1>13. CASE Respond
  <2>1. op' = [op EXCEPT !.at = "checkpoint", !.need = FALSE] /\ Goto("loop")
    BY <1>13 DEF Respond, AnswerAborted
  <2> QED
    BY <2>1 DEF Goto, ControlInv, ControlTypes, OpTypes, DriveTypes
<1>14. CASE Recover
  BY <1>14 DEF Recover, Finish, NoOp, Goto, Gated, Turn, Leaf, ControlInv, ControlTypes,
     OpTypes, DriveTypes, AnswerAborted, AnswerText, AnswerCalls, AnswerError
<1>15. CASE AwaitRetry
  BY <1>15 DEF AwaitRetry, Finish, NoOp, Goto, Gated, Turn, Leaf, ControlInv, ControlTypes,
     OpTypes, DriveTypes
<1>16. CASE Retry
  BY <1>16 DEF Retry, Finish, NoOp, Goto, Gated, Turn, Leaf, ControlInv, ControlTypes, OpTypes,
     DriveTypes
<1>17. CASE TimerEnds
  BY <1>17 DEF TimerEnds, Finish, NoOp, Goto, Gated, Turn, Leaf, ControlInv, ControlTypes,
     OpTypes, DriveTypes
<1>18. CASE Reconcile
  BY <1>18 DEF Reconcile, Finish, NoOp, Goto, Gated, Turn, Leaf, ControlInv, ControlTypes,
     OpTypes, DriveTypes
<1>19. CASE ReconcileRequest
  BY <1>19 DEF ReconcileRequest, Finish, NoOp, Goto, Gated, Turn, Leaf, ControlInv,
     ControlTypes, OpTypes, DriveTypes, Shut, AnswerAborted, AnswerText, AnswerCalls,
     AnswerError
<1> QED
  BY <1>1, <1>2, <1>3, <1>4, <1>5, <1>6, <1>7, <1>8, <1>9, <1>10, <1>11, <1>12, <1>13, <1>14,
     <1>15, <1>16, <1>17, <1>18, <1>19 DEF DriveStep

LEMMA ToolsStartNothing ==
    ASSUME ControlInv, ToolInv, op.cancelled, ToolStep
    PROVE  /\ op'.asked <= op.asked /\ (drive'.pc \in Hold => drive'.pc = drive.pc)
           /\ \A i \in Calls : jobs'[i] \in {"hook", "running"} => jobs'[i] = jobs[i]
<1> USE DEF Hold
<1>1. drive.pc = "tools" => ~Admitted
  BY DEF ControlInv, ControlTypes, DriveTypes, Cancels, Resting, Admitted
<1>2. CASE EnterTools
  <2>1. op' = op /\ drive'.pc = "tools"
    BY <1>2 DEF EnterTools, Shut, ControlInv, ControlTypes, DriveTypes
  <2>2. \A i \in Calls : jobs'[i] \in {"todo", "none"}
    BY <1>2 DEF EnterTools
  <2> QED
    BY <2>1, <2>2 DEF ControlInv, ControlTypes, OpTypes
<1>3. CASE LeaveTools
  BY <1>3 DEF LeaveTools, Goto, ControlInv, ControlTypes, OpTypes, DriveTypes
<1>4. CASE \E i \in Calls : Place(i)
  BY <1>4 DEF Place, processVars, ControlInv, ControlTypes, OpTypes
<1>5. CASE \E i \in Calls : Start(i) \/ Execute(i) \/ Replay(i) \/ PublishToolIntent(i)
  BY <1>1, <1>5 DEF Start, Execute, Replay, PublishToolIntent, MayStart, Turn
<1>6. CASE \E i \in Calls : StartNot(i) \/ ReplayNot(i) \/ Block(i) \/ ExecuteNot(i) \/ ToolEnds(i)
  <2>1. PICK i \in Calls, terminate \in BOOLEAN : Outcome(i, terminate)
    BY <1>6 DEF StartNot, ReplayNot, Block, ExecuteNot, ToolEnds
  <2>2. drive' = drive
    BY <1>6 DEF StartNot, ReplayNot, Block, ExecuteNot, ToolEnds
  <2>3. op'.asked = op.asked
    BY <2>1 DEF Outcome, ControlInv, ControlTypes, OpTypes
  <2>4. \A h \in Calls : jobs'[h] = jobs[h] \/ jobs'[h] = "none"
    BY <2>1 DEF Outcome, Job, ToolInv, ToolTypes
  <2> QED
    BY <2>2, <2>3, <2>4 DEF ControlInv, ControlTypes, OpTypes
<1> QED
  BY <1>2, <1>3, <1>4, <1>5, <1>6 DEF ToolStep

LEMMA OthersStartNothing ==
    ASSUME ControlInv, op.cancelled, Command \/ CommitAbort \/ Install \/ Tick \/ Restart \/ UNCHANGED vars
    PROVE  /\ op'.asked <= op.asked /\ (drive'.pc \in Hold => drive'.pc = drive.pc)
           /\ \A i \in Calls : jobs'[i] \in {"hook", "running"} => jobs'[i] = jobs[i]
<1> USE DEF Hold
<1>1. CASE \E execution \in Executions : Accept(execution)
  BY <1>1 DEF Accept, NoOp, processVars, ControlInv, ControlTypes, OpTypes
<1>2. CASE Enqueue \/ AppendEntry \/ CancelQueued \/ Tick \/ UNCHANGED vars
  BY <1>2 DEF Enqueue, AppendEntry, CancelQueued, Tick, processVars, vars, ControlInv,
     ControlTypes, OpTypes
<1>3. CASE \E o \in {op.id, drive.id} : RequestAbort(o)
  BY <1>3 DEF RequestAbort, ControlInv, ControlTypes, DriveTypes, OpTypes
<1>4. CASE CommitAbort
  BY <1>4 DEF CommitAbort, ControlInv, ControlTypes, DriveTypes, OpTypes
<1>5. CASE Install
  <2>1. UNCHANGED <<op, jobs>> /\ drive'.pc = "loop"
    BY <1>5 DEF Install, InstallDrive, NoDrive
  <2> QED
    BY <2>1 DEF ControlInv, ControlTypes, OpTypes
<1>6. CASE Restart
  BY <1>6 DEF Restart, NoDrive, NoJobs, ControlInv, ControlTypes, OpTypes
<1> QED
  BY <1>1, <1>2, <1>3, <1>4, <1>5, <1>6 DEF Command

(* Once its cancellation is committed, an operation starts no hook, no     *)
(* request, no timer and no tool: the gate is closed before, and a pass    *)
(* that is installed later looks at the cancellation first.                *)
THEOREM CancelledStartsNothing == Spec => CancelStartsNothing
<1>1. ControlInv /\ ToolInv /\ [Next]_vars =>
        [op.cancelled =>
            /\ op'.asked <= op.asked
            /\ \A i \in Calls : jobs'[i] \in {"hook", "running"} => jobs'[i] = jobs[i]
            /\ drive'.pc \in {"beforeRun", "ending", "request", "stream", "timer"} =>
                  drive'.pc = drive.pc]_vars
  <2> SUFFICES ASSUME ControlInv, ToolInv, [Next]_vars, op.cancelled
               PROVE  /\ op'.asked <= op.asked
                      /\ \A i \in Calls : jobs'[i] \in {"hook", "running"} => jobs'[i] = jobs[i]
                      /\ drive'.pc \in Hold => drive'.pc = drive.pc
    BY DEF Hold
  <2>1. CASE DriveStep
    BY <2>1, DriveStartsNothing, DriveStaysOutside
  <2>2. CASE ToolStep
    BY <2>2, ToolsStartNothing
  <2>3. CASE Command \/ CommitAbort \/ Install \/ Tick \/ Restart \/ UNCHANGED vars
    BY <2>3, OthersStartNothing
  <2> QED
    BY <2>1, <2>2, <2>3 DEF Next
<1> QED
  BY <1>1, ControlInvariant, ToolInvariant, PTL DEF Spec, CancelStartsNothing

-----------------------------------------------------------------------------
(* The ledger of the operations.                                           *)
Kept == [o \in 1..MaxOps |-> StatusOf(o)]

SameOperation == op'.id = op.id /\ op'.cancelled = op.cancelled /\ results' = results

Ended == \E status \in Ends : /\ op' = NoOp /\ results' = Append(results, status)
                              /\ status = "aborted" <=> op.cancelled
                              /\ Busy

LEMMA SameLedger == ASSUME SameOperation PROVE Kept' = Kept
BY DEF SameOperation, Kept, StatusOf

LEMMA DriveStepLedger == ASSUME ControlInv, DriveStep PROVE SameOperation \/ Ended
<1> USE DEF Finish, Ends, Busy
<1>1. CASE CancelFound
  BY <1>1 DEF CancelFound, Turn, Leaf, SameOperation, Ended, ControlInv, ControlTypes, OpTypes
<1>2. CASE Caught
  BY <1>2 DEF Caught, Turn, Leaf, SameOperation, Ended, ControlInv, ControlTypes, OpTypes
<1>3. CASE ClearDrive
  BY <1>3 DEF ClearDrive, Turn, Leaf, SameOperation, Ended, ControlInv, ControlTypes, OpTypes
<1>4. CASE StartRun
  BY <1>4 DEF StartRun, Turn, Leaf, SameOperation, Ended, ControlInv, ControlTypes, OpTypes
<1>5. CASE RunStarts
  BY <1>5 DEF RunStarts, Turn, Leaf, SameOperation, Ended, ControlInv, ControlTypes, OpTypes
<1>6. CASE Checkpoint
  BY <1>6 DEF Checkpoint, Turn, Leaf, SameOperation, Ended, ControlInv, ControlTypes, OpTypes,
     Ready
<1>7. CASE RunGoesOn
  BY <1>7 DEF RunGoesOn, Turn, Leaf, SameOperation, Ended, ControlInv, ControlTypes, OpTypes,
     Ready
<1>8. CASE RunEnds
  BY <1>8 DEF RunEnds, Turn, Leaf, SameOperation, Ended, ControlInv, ControlTypes, OpTypes
<1>9. CASE ConfigurationFails
  BY <1>9 DEF ConfigurationFails, Turn, Leaf, SameOperation, Ended, ControlInv, ControlTypes,
     OpTypes
<1>10. CASE Prepare
  BY <1>10 DEF Prepare, Turn, Leaf, SameOperation, Ended, ControlInv, ControlTypes, OpTypes
<1>11. CASE PublishIntent
  BY <1>11 DEF PublishIntent, Turn, Leaf, SameOperation, Ended, ControlInv, ControlTypes, OpTypes
<1>12. CASE AskModel
  BY <1>12 DEF AskModel, Turn, Leaf, SameOperation, Ended, ControlInv, ControlTypes, OpTypes
<1>13. CASE Respond
  BY <1>13 DEF Respond, Turn, Leaf, SameOperation, Ended, ControlInv, ControlTypes, OpTypes,
     AnswerAborted, AnswerText, AnswerCalls, AnswerError
<1>14. CASE Recover
  BY <1>14 DEF Recover, Turn, Leaf, SameOperation, Ended, ControlInv, ControlTypes, OpTypes,
     AnswerAborted, AnswerText, AnswerCalls, AnswerError
<1>15. CASE AwaitRetry
  BY <1>15 DEF AwaitRetry, Turn, Leaf, SameOperation, Ended, ControlInv, ControlTypes, OpTypes
<1>16. CASE Retry
  BY <1>16 DEF Retry, Turn, Leaf, SameOperation, Ended, ControlInv, ControlTypes, OpTypes
<1>17. CASE TimerEnds
  BY <1>17 DEF TimerEnds, Turn, Leaf, SameOperation, Ended, ControlInv, ControlTypes, OpTypes
<1>18. CASE Reconcile
  BY <1>18 DEF Reconcile, Turn, Leaf, SameOperation, Ended, ControlInv, ControlTypes, OpTypes
<1>19. CASE ReconcileRequest
  BY <1>19 DEF ReconcileRequest, Turn, Leaf, SameOperation, Ended, ControlInv, ControlTypes,
     OpTypes, AnswerAborted, AnswerText, AnswerCalls, AnswerError
<1> QED
  BY <1>1, <1>2, <1>3, <1>4, <1>5, <1>6, <1>7, <1>8, <1>9, <1>10, <1>11, <1>12, <1>13, <1>14,
     <1>15, <1>16, <1>17, <1>18, <1>19 DEF DriveStep

LEMMA ToolStepLedger == ASSUME ControlInv, ToolStep PROVE SameOperation
<1> USE DEF SameOperation, ControlInv, ControlTypes, OpTypes
<1>1. CASE EnterTools \/ LeaveTools
  BY <1>1 DEF EnterTools, LeaveTools
<1>2. CASE \E i \in Calls : Place(i)
  BY <1>2 DEF Place
<1>3. CASE \E i \in Calls : Start(i) \/ StartNot(i) \/ Replay(i) \/ ReplayNot(i)
  BY <1>3 DEF Start, StartNot, Replay, ReplayNot, Outcome
<1>4. CASE \E i \in Calls : Block(i) \/ PublishToolIntent(i)
  BY <1>4 DEF Block, PublishToolIntent, Outcome
<1>5. CASE \E i \in Calls : Execute(i) \/ ExecuteNot(i) \/ ToolEnds(i)
  BY <1>5 DEF Execute, ExecuteNot, ToolEnds, Outcome
<1> QED
  BY <1>1, <1>2, <1>3, <1>4, <1>5 DEF ToolStep

LEMMA EndSettles == ASSUME ControlInv, Ended PROVE Promise!Settle(op.id)
<1>1. PICK status \in Ends : /\ op' = NoOp /\ results' = Append(results, status)
                             /\ status = "aborted" <=> op.cancelled
  BY DEF Ended
<1>2. /\ op.id = Len(results) + 1 /\ op.id \in 1..MaxOps /\ results \in Seq(Ends)
      /\ op.cancelled \in BOOLEAN
  BY DEF Ended, Busy, ControlInv, ControlTypes, OpTypes, Passes
<1>3. /\ Len(results) \in Nat /\ Len(results') = Len(results) + 1 /\ results'[op.id] = status
      /\ \A o \in 1..Len(results) : results'[o] = results[o]
  BY <1>1, <1>2
<1>4. \A o \in 1..MaxOps : StatusOf(o)' = IF o = op.id THEN status ELSE StatusOf(o)
  BY <1>1, <1>2, <1>3 DEF StatusOf, NoOp
<1>5. StatusOf(op.id) = IF op.cancelled THEN "aborting" ELSE "open"
  BY <1>2, <1>3 DEF StatusOf
<1>6. Kept' = [Kept EXCEPT ![op.id] = status]
  BY <1>2, <1>4 DEF Kept
<1>7. Kept[op.id] = IF op.cancelled THEN "aborting" ELSE "open"
  BY <1>2, <1>5 DEF Kept
<1> QED
  BY <1>1, <1>6, <1>7 DEF Promise!Settle, Promise!Active, Kept, Ends

LEMMA AcceptOpens ==
    ASSUME ControlInv, NEW execution \in Executions, Accept(execution)
    PROVE  Promise!Accept(Len(results) + 1) /\ Len(results) + 1 \in 1..MaxOps
<1>1. op.id = 0 /\ Len(results) < MaxOps /\ results' = results
  BY DEF Accept
<1>2. /\ results \in Seq(Ends) /\ Len(results) \in Nat /\ Len(results) + 1 \in 1..MaxOps
      /\ \A o \in 1..Len(results) : results[o] \in Ends
  BY <1>1, LaneAssumption DEF ControlInv, ControlTypes
<1>3. op'.id = Len(results) + 1 /\ ~op'.cancelled
  BY DEF Accept, NoOp
<1>4. \A o \in 1..MaxOps : StatusOf(o) = IF o <= Len(results) THEN results[o] ELSE "none"
  BY <1>1, <1>2 DEF StatusOf
<1>5. \A o \in 1..MaxOps : StatusOf(o)' = IF o = Len(results) + 1 THEN "open" ELSE StatusOf(o)
  BY <1>1, <1>2, <1>3, <1>4 DEF StatusOf
<1>6. Kept' = [Kept EXCEPT ![Len(results) + 1] = "open"]
  BY <1>2, <1>5 DEF Kept
<1>7. \A o \in 1..MaxOps : Kept[o] \notin {"open", "aborting"}
  BY <1>2, <1>4 DEF Kept, Ends
<1>8. Kept[Len(results) + 1] = "none"
  BY <1>2, <1>4 DEF Kept
<1> QED
  BY <1>2, <1>6, <1>7, <1>8 DEF Promise!Accept, Promise!Active, Kept

LEMMA AbortCancels == ASSUME ControlInv, CommitAbort PROVE Promise!LedgerNext \/ Kept' = Kept
<1>1. op' = (IF op.id = abort.op THEN [op EXCEPT !.cancelled = TRUE] ELSE op) /\ results' = results
  BY DEF CommitAbort
<1>2. CASE op.id # abort.op \/ op.cancelled
  BY <1>1, <1>2, SameLedger DEF SameOperation, ControlInv, ControlTypes, OpTypes
<1>3. CASE op.id = abort.op /\ ~op.cancelled
  <2>1. op'.id = op.id /\ op'.cancelled
    BY <1>1, <1>3 DEF ControlInv, ControlTypes, OpTypes
  <2>2. op.id \in 1..MaxOps /\ op.id = Len(results) + 1 /\ Len(results) \in Nat
    BY <1>3 DEF CommitAbort, ControlInv, ControlTypes, OpTypes, Passes
  <2>3. \A o \in 1..MaxOps : StatusOf(o)' = IF o = op.id THEN "aborting" ELSE StatusOf(o)
    BY <1>1, <2>1, <2>2 DEF StatusOf
  <2>4. Kept' = [Kept EXCEPT ![op.id] = "aborting"] /\ Kept[op.id] = "open"
    <3>1. StatusOf(op.id) = "open"
      BY <1>3, <2>2 DEF StatusOf
    <3>2. Kept[op.id] = "open"
      BY <2>2, <3>1 DEF Kept
    <3>3. Kept' = [Kept EXCEPT ![op.id] = "aborting"]
      BY <2>2, <2>3 DEF Kept
    <3> QED
      BY <3>2, <3>3
  <2>5. Promise!Cancel(op.id)
    BY <2>4 DEF Promise!Cancel, Kept
  <2> QED
    BY <2>2, <2>5 DEF Promise!LedgerNext
<1> QED
  BY <1>2, <1>3

(* One operation at a time, each ended once, a cancelled one as aborted:   *)
(* the safety part of the refinement Implements.                           *)
THEOREM LaneKeepsLedger == Spec => Promise!LedgerInit /\ [][Promise!LedgerNext]_Kept
<1>1. Init => Promise!LedgerInit
  BY DEF Init, NoOp, Promise!LedgerInit, StatusOf
<1>2. ControlInv /\ [Next]_vars => [Promise!LedgerNext]_Kept
  <2> SUFFICES ASSUME ControlInv, [Next]_vars PROVE Promise!LedgerNext \/ Kept' = Kept
    OBVIOUS
  <2>1. CASE \E execution \in Executions : Accept(execution)
    BY <2>1, AcceptOpens DEF Promise!LedgerNext
  <2>2. CASE CommitAbort
    BY <2>2, AbortCancels
  <2>3. CASE DriveStep
    <3>1. Ended => op.id \in 1..MaxOps
      BY DEF Ended, Busy, ControlInv, ControlTypes, OpTypes, Passes
    <3> QED
      BY <2>3, <3>1, DriveStepLedger, SameLedger, EndSettles DEF Promise!LedgerNext
  <2>4. CASE ToolStep
    BY <2>4, ToolStepLedger, SameLedger
  <2>5. SameOperation => Kept' = Kept
    BY SameLedger
  <2>6. CASE Enqueue \/ AppendEntry \/ CancelQueued \/ Install \/ Tick \/ Restart \/ UNCHANGED vars
    BY <2>5, <2>6 DEF Enqueue, AppendEntry, CancelQueued, Install, InstallDrive, Tick,
       Restart, vars,
       SameOperation
  <2>7. CASE \E o \in {op.id, drive.id} : RequestAbort(o)
    BY <2>5, <2>7 DEF RequestAbort, SameOperation
  <2> QED
    BY <2>1, <2>2, <2>3, <2>4, <2>6, <2>7 DEF Next, Command
<1> QED
  BY <1>1, <1>2, ControlInvariant, PTL DEF Spec

-----------------------------------------------------------------------------
(* The transcript of a lane is one that a provider accepts: the results of *)
(* a response follow it at once, in the order of its calls, one for each   *)
(* call, for any number of calls, messages, aborts and crashes.            *)

(* The leaf, where the pass waits for a hook, a request or a timer.        *)
Fits ==
    /\ op.id = 0 => op.at = "none"
    /\ drive.pc = "beforeRun" => op.at = "starting"
    /\ drive.pc = "ending" => op.at = "checkpoint"
    /\ drive.pc = "request" => op.at = "ready"
    /\ drive.pc = "timer" => op.at = "retry_wait"

LEMMA InitFits == Init => Fits
BY DEF Init, Fits, NoOp, NoDrive

LEMMA DriveStepFits == ASSUME ControlInv, Fits, DriveStep PROVE Fits'
<1>1. CASE CancelFound
  BY <1>1 DEF CancelFound, Finish, NoOp, Goto, Gated, Turn, Leaf, Fits, Tries, Passes, Busy,
     ControlInv, ControlTypes, OpTypes, DriveTypes
<1>2. CASE Caught
  BY <1>2 DEF Caught, Finish, NoOp, Goto, Gated, Turn, Leaf, Fits, Tries, Passes, Busy,
     ControlInv, ControlTypes, OpTypes, DriveTypes
<1>3. CASE ClearDrive
  BY <1>3 DEF ClearDrive, Finish, NoOp, Goto, Gated, Turn, Leaf, Fits, Tries, Passes, Busy,
     ControlInv, ControlTypes, OpTypes, DriveTypes, NoDrive
<1>4. CASE StartRun
  BY <1>4 DEF StartRun, Finish, NoOp, Goto, Gated, Turn, Leaf, Fits, Tries, Passes, Busy,
     ControlInv, ControlTypes, OpTypes, DriveTypes
<1>5. CASE RunStarts
  BY <1>5 DEF RunStarts, Finish, NoOp, Goto, Gated, Turn, Leaf, Fits, Tries, Passes, Busy,
     ControlInv, ControlTypes, OpTypes, DriveTypes
<1>6. CASE Checkpoint
  BY <1>6 DEF Checkpoint, Finish, NoOp, Goto, Gated, Turn, Leaf, Fits, Tries, Passes, Busy,
     ControlInv, ControlTypes, OpTypes, DriveTypes, Ready
<1>7. CASE RunGoesOn
  BY <1>7 DEF RunGoesOn, Finish, NoOp, Goto, Gated, Turn, Leaf, Fits, Tries, Passes, Busy,
     ControlInv, ControlTypes, OpTypes, DriveTypes, Ready
<1>8. CASE RunEnds
  BY <1>8 DEF RunEnds, Finish, NoOp, Goto, Gated, Turn, Leaf, Fits, Tries, Passes, Busy,
     ControlInv, ControlTypes, OpTypes, DriveTypes
<1>9. CASE ConfigurationFails
  BY <1>9 DEF ConfigurationFails, Finish, NoOp, Goto, Gated, Turn, Leaf, Fits, Tries, Passes,
     Busy, ControlInv, ControlTypes, OpTypes, DriveTypes
<1>10. CASE Prepare
  BY <1>10 DEF Prepare, Finish, NoOp, Goto, Gated, Turn, Leaf, Fits, Tries, Passes, Busy,
     ControlInv, ControlTypes, OpTypes, DriveTypes
<1>11. CASE PublishIntent
  BY <1>11 DEF PublishIntent, Finish, NoOp, Goto, Gated, Turn, Leaf, Fits, Tries, Passes, Busy,
     ControlInv, ControlTypes, OpTypes, DriveTypes
<1>12. CASE AskModel
  BY <1>12 DEF AskModel, Finish, NoOp, Goto, Gated, Turn, Leaf, Fits, Tries, Passes, Busy,
     ControlInv, ControlTypes, OpTypes, DriveTypes
<1>13. CASE Respond
  <2>1. drive'.pc \in {"loop", "done", "fault"}
    BY <1>13 DEF Respond, AnswerAborted, AnswerText, AnswerCalls, AnswerError, Finish, Goto,
       ControlInv, ControlTypes, DriveTypes
  <2>2. op.id # 0
    BY <1>13 DEF Respond, Turn, Leaf, ControlInv, Passes, Busy
  <2>3. op'.id = 0 => op'.at = "none"
    BY <2>2, DriveStepLedger DEF SameOperation, Ended, NoOp
  <2> QED
    BY <2>1, <2>3 DEF Fits
<1>14. CASE Recover
  <2>1. drive'.pc \in {"loop", "done", "fault"}
    BY <1>14 DEF Recover, AnswerAborted, AnswerText, AnswerCalls, AnswerError, Finish, Goto,
       ControlInv, ControlTypes, DriveTypes
  <2>2. op.id # 0
    BY <1>14 DEF Recover, Turn, Leaf, ControlInv, Passes, Busy
  <2>3. op'.id = 0 => op'.at = "none"
    BY <2>2, DriveStepLedger DEF SameOperation, Ended, NoOp
  <2> QED
    BY <2>1, <2>3 DEF Fits
<1>15. CASE AwaitRetry
  BY <1>15 DEF AwaitRetry, Finish, NoOp, Goto, Gated, Turn, Leaf, Fits, Tries, Passes, Busy,
     ControlInv, ControlTypes, OpTypes, DriveTypes
<1>16. CASE Retry
  BY <1>16 DEF Retry, Finish, NoOp, Goto, Gated, Turn, Leaf, Fits, Tries, Passes, Busy,
     ControlInv, ControlTypes, OpTypes, DriveTypes
<1>17. CASE TimerEnds
  BY <1>17 DEF TimerEnds, Finish, NoOp, Goto, Gated, Turn, Leaf, Fits, Tries, Passes, Busy,
     ControlInv, ControlTypes, OpTypes, DriveTypes
<1>18. CASE Reconcile
  BY <1>18 DEF Reconcile, Finish, NoOp, Goto, Gated, Turn, Leaf, Fits, Tries, Passes, Busy,
     ControlInv, ControlTypes, OpTypes, DriveTypes
<1>19. CASE ReconcileRequest
  BY <1>19 DEF ReconcileRequest, Finish, NoOp, Goto, Gated, Turn, Leaf, Fits, Tries, Passes,
     Busy, ControlInv, ControlTypes, OpTypes, DriveTypes, Shut, AnswerAborted, AnswerText,
     AnswerCalls, AnswerError
<1> QED
  BY <1>1, <1>2, <1>3, <1>4, <1>5, <1>6, <1>7, <1>8, <1>9, <1>10, <1>11, <1>12, <1>13, <1>14,
     <1>15, <1>16, <1>17, <1>18, <1>19 DEF DriveStep

LEMMA StepFits == ControlInv /\ Fits /\ [Next]_vars => Fits'
<1> SUFFICES ASSUME ControlInv, Fits, [Next]_vars PROVE Fits'
  OBVIOUS
<1>0. CASE Install \/ Restart
  <2>1. op' = op /\ drive'.pc \in {"loop", "none"}
    <3>1. CASE Install
      BY <3>1 DEF Install, InstallDrive, NoDrive
    <3>2. CASE Restart
      BY <3>2 DEF Restart, NoDrive
    <3> QED
      BY <1>0, <3>1, <3>2
  <2> QED
    BY ONLY Fits, <2>1 DEF Fits
<1> USE DEF ControlInv, ControlTypes, OpTypes, DriveTypes
<1>1. CASE \E execution \in Executions : Accept(execution)
  BY <1>1 DEF Accept, Fits, NoOp, processVars, Passes, Busy
<1>2. CASE Enqueue \/ AppendEntry \/ CancelQueued \/ Tick \/ UNCHANGED vars
  BY <1>2 DEF Enqueue, AppendEntry, CancelQueued, Tick, vars, processVars, Fits
<1>3. CASE (\E o \in {op.id, drive.id} : RequestAbort(o)) \/ CommitAbort
  BY <1>3 DEF RequestAbort, CommitAbort, Fits
<1>5. CASE EnterTools \/ LeaveTools
  BY <1>5 DEF EnterTools, LeaveTools, Goto, Shut, Fits
<1>6. CASE \E i \in Calls : Place(i)
  BY <1>6 DEF Place, Turn, processVars, Fits, Passes, Busy
<1>7. CASE \E i \in Calls : Start(i) \/ StartNot(i) \/ Replay(i) \/ ReplayNot(i)
  BY <1>7 DEF Start, StartNot, Replay, ReplayNot, Outcome, Fits
<1>8. CASE \E i \in Calls : Block(i) \/ PublishToolIntent(i) \/ Execute(i) \/ ExecuteNot(i) \/ ToolEnds(i)
  BY <1>8 DEF Block, PublishToolIntent, Execute, ExecuteNot, ToolEnds, Outcome, Fits
<1> QED
  BY <1>0, <1>1, <1>2, <1>3, <1>5, <1>6, <1>7, <1>8, DriveStepFits DEF Next, Command, ToolStep

-----------------------------------------------------------------------------
(* Transcripts that grow by what is said and by answers without calls.     *)
Plain(e) == e.type # "result" /\ (e.type = "response" => e.of = 0)

Sequence(b) == \E S : b \in Seq(S)

Grows(b, c) ==
    /\ Sequence(c) /\ Len(b) <= Len(c)
    /\ \A j \in 1..Len(b) : c[j] = b[j]
    /\ \A j \in (Len(b) + 1)..Len(c) : Plain(c[j])

LEMMA GrowsBySaid ==
    ASSUME NEW b, NEW c, NEW e, Grows(b, c), Plain(e)
    PROVE  Grows(b, Append(c, e))
<1>1. PICK S : c \in Seq(S)
  BY DEF Grows, Sequence
<1>2. c \in Seq(S \cup {e})
  BY <1>1
<1>3. /\ Append(c, e) \in Seq(S \cup {e}) /\ Len(Append(c, e)) = Len(c) + 1
      /\ \A j \in 1..Len(c) : Append(c, e)[j] = c[j]
      /\ Append(c, e)[Len(c) + 1] = e
  BY <1>2
<1>4. Len(b) \in Nat /\ Len(c) \in Nat
  OBVIOUS
<1> QED
  BY <1>3, <1>4 DEF Grows, Sequence

LEMMA Messages ==
    ASSUME NEW c, NEW n \in Nat
    PROVE  LET t == [j \in 1..n |-> Message(c[j].n, c[j].kind)]
           IN  /\ t \in Seq({Message(c[j].n, c[j].kind) : j \in 1..n}) /\ Len(t) = n
               /\ \A j \in 1..n : t[j] = Message(c[j].n, c[j].kind)
OBVIOUS

LEMMA GrowsByEntered ==
    ASSUME NEW b, NEW items, Sequence(b)
    PROVE  Grows(b, b) /\ Grows(b, b \o Entered(items))
<1>1. PICK S : b \in Seq(S)
  BY DEF Sequence
<1> DEFINE chosen == Waiting(items)
           T == {Message(chosen[j].n, chosen[j].kind) : j \in 1..Len(chosen)}
           t == [j \in 1..Len(chosen) |-> Message(chosen[j].n, chosen[j].kind)]
<1>a. Len(chosen) \in Nat
  OBVIOUS
<1>b. Entered(items) = t
  BY DEF Entered
<1> HIDE DEF chosen
<1>2. /\ t \in Seq(T) /\ Len(t) = Len(chosen)
      /\ \A j \in 1..Len(chosen) : t[j] = Message(chosen[j].n, chosen[j].kind)
  BY <1>a, Messages
<1>3. \A j \in 1..Len(t) : Plain(t[j])
  BY <1>2 DEF Message, Plain
<1> HIDE DEF t, T
<1>5. b \in Seq(S \cup T) /\ t \in Seq(S \cup T)
  BY <1>1, <1>2
<1>6. /\ b \o t \in Seq(S \cup T) /\ Len(b \o t) = Len(b) + Len(t)
      /\ \A j \in 1..Len(b) : (b \o t)[j] = b[j]
      /\ \A j \in (Len(b) + 1)..(Len(b) + Len(t)) : (b \o t)[j] = t[j - Len(b)]
  BY <1>5
<1>7. Len(b) \in Nat /\ Len(t) \in Nat
  OBVIOUS
<1>8. \A j \in (Len(b) + 1)..(Len(b) + Len(t)) : Plain((b \o t)[j])
  <2>1. \A j \in (Len(b) + 1)..(Len(b) + Len(t)) : j - Len(b) \in 1..Len(t)
    BY <1>7
  <2> QED
    BY <1>3, <1>6, <2>1
<1>9. Grows(b, b \o t)
  BY <1>6, <1>7, <1>8 DEF Grows, Sequence
<1>10. Grows(b, b)
  BY <1>1, <1>7 DEF Grows, Sequence
<1> QED
  BY <1>b, <1>9, <1>10

-----------------------------------------------------------------------------
(* What the transcript holds.                                              *)
Whole ==
    /\ Sequence(branch) /\ batches \in Nat
    /\ \A j \in 1..Len(branch) : branch[j].type \in {"response", "result"} => branch[j].of \in Nat

(* As far as it goes, a response is followed by its results.               *)
Followed ==
    \A j \in 1..Len(branch) : branch[j].type = "response" =>
        \A i \in 1..branch[j].of : j + i <= Len(branch) => branch[j + i] = ToolResult(branch[j].n, i)

(* A result belongs to a response.                                         *)
Belongs ==
    \A j \in 1..Len(branch) : branch[j].type = "result" =>
        /\ j > branch[j].of /\ branch[j - branch[j].of].type = "response"
        /\ branch[j - branch[j].of].of >= branch[j].of

Complete(j) == branch[j].type = "response" => j + branch[j].of <= Len(branch)

(* The response at p, the last one, waits for results: the calls whose     *)
(* results are there are the first ones, and they are completed.           *)
WaitsAt(p) ==
    /\ branch[p].type = "response" /\ branch[p].n = batches
    /\ Batch = 1..branch[p].of /\ Len(branch) < p + branch[p].of
    /\ \A i \in Batch : op.calls[i].status = "completed" <=> p + i <= Len(branch)
    /\ \A j \in 1..Len(branch) : j # p => Complete(j)

Waits == \E p \in 1..Len(branch) : WaitsAt(p)

TranscriptInv ==
    /\ Whole /\ Followed /\ Belongs
    /\ op.at = "tools" => Waits
    /\ op.at # "tools" => \A j \in 1..Len(branch) : Complete(j)

LEMMA InitTranscript == Init => TranscriptInv
<1> SUFFICES ASSUME Init PROVE TranscriptInv
  OBVIOUS
<1>1. branch = <<>> /\ Len(branch) = 0 /\ batches = 0 /\ op.at = "none"
  BY DEF Init, NoOp
<1>2. Sequence(branch)
  <2>1. branch \in Seq({})
    BY <1>1
  <2> QED
    BY <2>1 DEF Sequence
<1> QED
  BY <1>1, <1>2 DEF TranscriptInv, Whole, Followed, Belongs

(* Steps that leave it as it is, and the calls that are completed.         *)
Quietly ==
    /\ UNCHANGED <<branch, batches>>
    /\ op'.at = "tools" <=> op.at = "tools"
    /\ op.at = "tools" =>
          /\ Batch' = Batch
          /\ \A i \in Batch : op'.calls[i].status = "completed" <=> op.calls[i].status = "completed"

LEMMA QuietSteps == ASSUME TranscriptInv, Quietly PROVE TranscriptInv'
<1>1. Whole' /\ Followed' /\ Belongs' /\ (\A j : Complete(j)' <=> Complete(j))
  BY DEF TranscriptInv, Quietly, Whole, Followed, Belongs, Complete
<1>2. op'.at = "tools" => Waits'
  <2> SUFFICES ASSUME op'.at = "tools" PROVE Waits'
    OBVIOUS
  <2>1. op.at = "tools" /\ Batch' = Batch /\ branch' = branch /\ batches' = batches
        /\ \A i \in Batch : op'.calls[i].status = "completed" <=> op.calls[i].status = "completed"
    BY DEF Quietly
  <2>2. PICK p \in 1..Len(branch) : WaitsAt(p)
    BY <2>1 DEF TranscriptInv, Waits
  <2>3. WaitsAt(p)'
    BY <1>1, <2>1, <2>2 DEF WaitsAt
  <2> QED
    BY <2>1, <2>2, <2>3 DEF Waits
<1>3. op'.at # "tools" => \A j \in 1..Len(branch)' : Complete(j)'
  BY <1>1 DEF TranscriptInv, Quietly
<1> QED
  BY <1>1, <1>2, <1>3 DEF TranscriptInv

(* Steps that speak while no tool is called.                               *)
LEMMA SpokenSteps ==
    ASSUME TranscriptInv, Grows(branch, branch'), UNCHANGED batches,
           op.at # "tools", op'.at # "tools"
    PROVE  TranscriptInv'
<1>1. /\ Sequence(branch') /\ Len(branch) <= Len(branch')
      /\ \A j \in 1..Len(branch) : branch'[j] = branch[j]
      /\ \A j \in (Len(branch) + 1)..Len(branch') : Plain(branch'[j])
      /\ Len(branch) \in Nat /\ Len(branch') \in Nat
  BY DEF Grows
<1>2. \A j \in 1..Len(branch) : Complete(j)
  BY DEF TranscriptInv
<1>3. \A j \in 1..Len(branch) :
         branch[j].type \in {"response", "result"} => branch[j].of \in Nat
  BY DEF TranscriptInv, Whole
<1>4. \A j \in 1..Len(branch') : \/ j \in 1..Len(branch) /\ branch'[j] = branch[j]
                                 \/ j > Len(branch) /\ Plain(branch'[j])
  BY <1>1
<1>5. Whole'
  BY <1>1, <1>3, <1>4 DEF TranscriptInv, Whole, Plain
<1>6. \A j \in 1..Len(branch') : Complete(j)'
  BY <1>1, <1>2, <1>3, <1>4 DEF Complete, Plain
<1>7. Followed'
  <2> SUFFICES ASSUME NEW j \in 1..Len(branch'), branch'[j].type = "response",
                      NEW i \in 1..branch'[j].of, j + i <= Len(branch')
               PROVE  branch'[j + i] = ToolResult(branch'[j].n, i)
    BY DEF Followed, ToolResult
  <2>1. j \in 1..Len(branch) /\ branch'[j] = branch[j]
    BY <1>4 DEF Plain
  <2>2. branch[j].of \in Nat /\ j + branch[j].of <= Len(branch)
    BY <1>2, <1>3, <2>1 DEF Complete
  <2>3. i \in 1..branch[j].of /\ j + i <= Len(branch) /\ j + i \in 1..Len(branch)
    BY <1>1, <2>1, <2>2
  <2> QED
    BY <1>1, <2>1, <2>3 DEF TranscriptInv, Followed
<1>8. Belongs'
  <2> SUFFICES ASSUME NEW j \in 1..Len(branch'), branch'[j].type = "result"
               PROVE  /\ j > branch'[j].of /\ branch'[j - branch'[j].of].type = "response"
                      /\ branch'[j - branch'[j].of].of >= branch'[j].of
    BY DEF Belongs
  <2>1. j \in 1..Len(branch) /\ branch'[j] = branch[j]
    BY <1>4 DEF Plain
  <2>2. branch[j].of \in Nat /\ j > branch[j].of /\ j - branch[j].of \in 1..Len(branch)
    BY <1>1, <1>3, <2>1 DEF TranscriptInv, Belongs
  <2> QED
    BY <1>1, <2>1, <2>2 DEF TranscriptInv, Belongs
<1> QED
  BY <1>5, <1>6, <1>7, <1>8 DEF TranscriptInv

(* A response with tool calls comes.                                       *)
LEMMA CallingSteps ==
    ASSUME TranscriptInv, op.at # "tools", NEW k \in Nat \ {0}, batches' = batches + 1,
           branch' = Append(branch, Response(batches', k)), op'.at = "tools",
           Batch' = 1..k, \A i \in 1..k : op'.calls[i].status = "planned"
    PROVE  TranscriptInv'
<1> DEFINE e == Response(batches', k)
<1>1. e.type = "response" /\ e.n = batches' /\ e.of = k
  BY DEF Response
<1>2. Sequence(branch') /\ Len(branch') = Len(branch) + 1 /\ Len(branch) \in Nat
      /\ (\A j \in 1..Len(branch) : branch'[j] = branch[j]) /\ branch'[Len(branch) + 1] = e
  <2>1. PICK S : branch \in Seq(S)
    BY DEF TranscriptInv, Whole, Sequence
  <2>2. branch \in Seq(S \cup {e})
    BY <2>1
  <2> HIDE DEF e
  <2>3. /\ Append(branch, e) \in Seq(S \cup {e}) /\ Len(Append(branch, e)) = Len(branch) + 1
        /\ \A j \in 1..Len(branch) : Append(branch, e)[j] = branch[j]
        /\ Append(branch, e)[Len(branch) + 1] = e /\ Len(branch) \in Nat
    BY <2>2
  <2>4. branch' = Append(branch, e)
    BY DEF e
  <2> QED
    BY <2>3, <2>4 DEF Sequence
<1> HIDE DEF e
<1>3. \A j \in 1..Len(branch) : Complete(j)
  BY DEF TranscriptInv
<1>4. \A j \in 1..Len(branch) :
         branch[j].type \in {"response", "result"} => branch[j].of \in Nat
  BY DEF TranscriptInv, Whole
<1>5. \A j \in 1..Len(branch') : \/ j \in 1..Len(branch) /\ branch'[j] = branch[j]
                                 \/ j = Len(branch) + 1 /\ branch'[j] = e
  BY <1>2
<1>6. Whole'
  BY <1>1, <1>2, <1>4, <1>5 DEF TranscriptInv, Whole
<1>7. \A j \in 1..Len(branch') : j # Len(branch) + 1 => Complete(j)'
  BY <1>2, <1>3, <1>4, <1>5 DEF Complete
<1>8. Followed'
  <2> SUFFICES ASSUME NEW j \in 1..Len(branch'), branch'[j].type = "response",
                      NEW i \in 1..branch'[j].of, j + i <= Len(branch')
               PROVE  branch'[j + i] = ToolResult(branch'[j].n, i)
    BY DEF Followed, ToolResult
  <2>1. j \in 1..Len(branch) /\ branch'[j] = branch[j]
    BY <1>1, <1>2, <1>5
  <2>2. branch[j].of \in Nat /\ j + branch[j].of <= Len(branch)
    BY <1>3, <1>4, <2>1 DEF Complete
  <2>3. i \in 1..branch[j].of /\ j + i <= Len(branch) /\ j + i \in 1..Len(branch)
    BY <1>2, <2>1, <2>2
  <2> QED
    BY <1>2, <2>1, <2>3 DEF TranscriptInv, Followed
<1>9. Belongs'
  <2> SUFFICES ASSUME NEW j \in 1..Len(branch'), branch'[j].type = "result"
               PROVE  /\ j > branch'[j].of /\ branch'[j - branch'[j].of].type = "response"
                      /\ branch'[j - branch'[j].of].of >= branch'[j].of
    BY DEF Belongs
  <2>1. j \in 1..Len(branch) /\ branch'[j] = branch[j]
    BY <1>1, <1>5
  <2>2. branch[j].of \in Nat /\ j > branch[j].of /\ j - branch[j].of \in 1..Len(branch)
    BY <1>2, <1>4, <2>1 DEF TranscriptInv, Belongs
  <2> QED
    BY <1>2, <2>1, <2>2 DEF TranscriptInv, Belongs
<1>10. Waits'
  <2>1. Len(branch) + 1 \in 1..Len(branch')
    BY <1>2
  <2> QED
    BY <1>1, <1>2, <1>7, <2>1 DEF Waits, WaitsAt
<1> QED
  BY <1>6, <1>8, <1>9, <1>10 DEF TranscriptInv

(* Results come, for the calls up to i.                                    *)
LEMMA FiniteFunction ==
    ASSUME NEW S, NEW n \in Nat, NEW t \in [1..n -> S]
    PROVE  t \in Seq(S) /\ Len(t) = n
OBVIOUS

(* How far the results go, and what comes after them.                      *)
LEMMA Placing ==
    ASSUME ToolInv, TranscriptInv, NEW i \in Calls, Place(i), NEW p \in 1..Len(branch), WaitsAt(p)
    PROVE  /\ Sequence(branch') /\ Len(branch') = p + i
           /\ \A j \in 1..Len(branch) : branch'[j] = branch[j]
           /\ \A h \in 1..i : branch'[p + h] = ToolResult(batches, h)
           /\ i \in Batch /\ Len(branch) < p + i
<1>1. /\ p \in Nat /\ Len(branch) \in Nat /\ branch[p].of \in Nat /\ Batch = 1..branch[p].of
      /\ p <= Len(branch) /\ i \in Nat
  BY DEF WaitsAt, TranscriptInv, Whole, Calls
<1>2. i \in Open /\ Open = {h \in Batch : p + h > Len(branch)}
  BY <1>1 DEF Place, Placeable, Open, WaitsAt
<1> DEFINE first == CHOOSE h \in Open : NextOpen(h)
           m == Len(branch) - p
<1>3. m \in Nat /\ m < i /\ i \in Batch
  BY <1>1, <1>2
<1>4. m + 1 \in Open /\ \A h \in Open : m + 1 <= h
  BY <1>1, <1>2, <1>3
<1>5. \A h \in Open : NextOpen(h) <=> h = m + 1
  <2>1. \A h \in Open : h \in Nat
    BY <1>1, <1>2
  <2> HIDE DEF m
  <2> QED
    BY <1>3, <1>4, <2>1 DEF NextOpen
<1>6. first = m + 1
  BY <1>4, <1>5
<1> DEFINE n == i + 1 - first
           t == [j \in 1..n |-> ToolResult(batches, first + j - 1)]
           T == {ToolResult(batches, first + j - 1) : j \in 1..n}
<1>7. branch' = branch \o t
  BY DEF Place
<1> HIDE DEF first
<1>8. n \in Nat /\ n = i - m /\ Len(branch) = p + m
  BY <1>1, <1>3, <1>6
<1> HIDE DEF n, m
<1>9. t \in Seq(T) /\ Len(t) = n /\ \A j \in 1..n : t[j] = ToolResult(batches, first + j - 1)
  <2>1. t \in [1..n -> T]
    OBVIOUS
  <2> QED
    BY <1>8, <2>1, FiniteFunction
<1> HIDE DEF t, T
<1>10. PICK S : branch \in Seq(S)
  BY DEF TranscriptInv, Whole, Sequence
<1>11. branch \in Seq(S \cup T) /\ t \in Seq(S \cup T)
  BY <1>9, <1>10
<1>12. /\ branch \o t \in Seq(S \cup T) /\ Len(branch \o t) = Len(branch) + Len(t)
       /\ \A j \in 1..Len(branch) : (branch \o t)[j] = branch[j]
       /\ \A j \in (Len(branch) + 1)..(Len(branch) + Len(t)) : (branch \o t)[j] = t[j - Len(branch)]
  BY <1>11
<1>13. Len(branch') = p + i
  BY <1>1, <1>3, <1>7, <1>8, <1>9, <1>12
<1>14. ASSUME NEW h \in 1..i PROVE branch'[p + h] = ToolResult(batches, h)
  <2>1. CASE h <= m
    <3>1. p + h \in 1..Len(branch) /\ h \in 1..branch[p].of /\ p + h <= Len(branch)
      BY <1>1, <1>3, <1>8, <2>1
    <3>2. branch[p + h] = ToolResult(branch[p].n, h)
      BY <3>1 DEF TranscriptInv, Followed, WaitsAt
    <3> QED
      BY <1>7, <1>12, <3>1, <3>2 DEF WaitsAt
  <2>2. CASE h > m
    <3>1. h - m \in 1..n /\ first + (h - m) - 1 = h
      BY <1>1, <1>3, <1>6, <1>8, <2>2
    <3>2. p + h \in (Len(branch) + 1)..(Len(branch) + Len(t)) /\ p + h - Len(branch) = h - m
      BY <1>1, <1>3, <1>8, <1>9, <2>2
    <3> QED
      BY <1>7, <1>9, <1>12, <3>1, <3>2
  <2> QED
    BY <1>1, <1>3, <2>1, <2>2
<1>15. Sequence(branch')
  BY <1>7, <1>12 DEF Sequence
<1>16. \A j \in 1..Len(branch) : branch'[j] = branch[j]
  BY <1>7, <1>12
<1>17. Len(branch) < p + i
  BY <1>1, <1>3, <1>8
<1> QED
  BY <1>3, <1>13, <1>14, <1>15, <1>16, <1>17

LEMMA PlacingSteps ==
    ASSUME ControlInv, ToolInv, TranscriptInv, NEW i \in Calls, Place(i)
    PROVE  TranscriptInv'
<1>1. op.at = "tools" /\ batches' = batches
  BY DEF Place
<1>2. PICK p \in 1..Len(branch) : WaitsAt(p)
  BY <1>1 DEF TranscriptInv, Waits
<1>3. /\ Sequence(branch') /\ Len(branch') = p + i
      /\ \A j \in 1..Len(branch) : branch'[j] = branch[j]
      /\ \A h \in 1..i : branch'[p + h] = ToolResult(batches, h)
      /\ i \in Batch /\ Len(branch) < p + i
  BY <1>2, Placing
<1>4. /\ p \in Nat /\ Len(branch) \in Nat /\ branch[p].of \in Nat /\ Batch = 1..branch[p].of
      /\ p <= Len(branch) /\ i \in Nat /\ i >= 1 /\ i <= branch[p].of
      /\ branch[p].type = "response" /\ branch[p].n = batches
  BY <1>2, <1>3 DEF WaitsAt, TranscriptInv, Whole, Calls
<1>5. \A j \in 1..Len(branch') :
        \/ j \in 1..Len(branch) /\ branch'[j] = branch[j]
        \/ j > p /\ j - p \in 1..i /\ branch'[j] = ToolResult(batches, j - p)
  <2> SUFFICES ASSUME NEW j \in 1..Len(branch'), j > Len(branch)
               PROVE  j > p /\ j - p \in 1..i /\ branch'[j] = ToolResult(batches, j - p)
    BY <1>3, <1>4
  <2>1. j > p /\ j - p \in 1..i /\ p + (j - p) = j
    BY <1>3, <1>4
  <2> QED
    BY <1>3, <2>1
<1>6. \A j \in 1..Len(branch) :
         branch[j].type \in {"response", "result"} => branch[j].of \in Nat
  BY DEF TranscriptInv, Whole
<1>7. Whole'
  BY <1>1, <1>3, <1>4, <1>5, <1>6 DEF TranscriptInv, Whole, ToolResult
<1>8. \A j \in 1..Len(branch') : j # p => Complete(j)'
  BY <1>2, <1>3, <1>4, <1>5, <1>6 DEF Complete, ToolResult, WaitsAt
<1>9. Followed'
  <2> SUFFICES ASSUME NEW j \in 1..Len(branch'), branch'[j].type = "response",
                      NEW h \in 1..branch'[j].of, j + h <= Len(branch')
               PROVE  branch'[j + h] = ToolResult(branch'[j].n, h)
    BY DEF Followed, ToolResult
  <2>0. j \in 1..Len(branch) /\ branch'[j] = branch[j]
    <3>1. ToolResult(batches, j - p).type = "result"
      BY DEF ToolResult
    <3> QED
      BY <1>5, <3>1
  <2>1. j \in 1..Len(branch) /\ branch'[j] = branch[j] /\ branch[j].of \in Nat
    BY <1>6, <2>0
  <2>2. CASE j = p
    BY <1>3, <1>4, <2>1, <2>2
  <2>3. CASE j # p
    <3>1. j + branch[j].of <= Len(branch)
      BY <1>2, <2>1, <2>3 DEF WaitsAt, Complete
    <3>2. h \in 1..branch[j].of /\ j + h <= Len(branch) /\ j + h \in 1..Len(branch)
      BY <1>4, <2>1, <3>1
    <3> QED
      BY <1>3, <2>1, <3>2 DEF TranscriptInv, Followed
  <2> QED
    BY <2>2, <2>3
<1>10. Belongs'
  <2> SUFFICES ASSUME NEW j \in 1..Len(branch'), branch'[j].type = "result"
               PROVE  /\ j > branch'[j].of /\ branch'[j - branch'[j].of].type = "response"
                      /\ branch'[j - branch'[j].of].of >= branch'[j].of
    BY DEF Belongs
  <2>1. CASE j \in 1..Len(branch) /\ branch'[j] = branch[j]
    <3>1. branch[j].of \in Nat /\ j > branch[j].of /\ j - branch[j].of \in 1..Len(branch)
      BY <1>4, <1>6, <2>1 DEF TranscriptInv, Belongs
    <3> QED
      BY <1>3, <2>1, <3>1 DEF TranscriptInv, Belongs
  <2>2. CASE j > p /\ j - p \in 1..i /\ branch'[j] = ToolResult(batches, j - p)
    <3>1. branch'[j].of = j - p /\ j - (j - p) = p
      BY <1>4, <2>2 DEF ToolResult
    <3>2. branch'[p] = branch[p]
      BY <1>2, <1>3
    <3> QED
      BY <1>4, <2>2, <3>1, <3>2
  <2> QED
    BY <1>5, <2>1, <2>2
<1> DEFINE calls == [h \in Batch |-> IF h <= i THEN [op.calls[h] EXCEPT !.status = "completed"]
                                     ELSE op.calls[h]]
<1>11. \A h \in Batch : calls[h].status = "completed" <=> h <= i
  <2> SUFFICES ASSUME NEW h \in Batch PROVE calls[h].status = "completed" <=> h <= i
    OBVIOUS
  <2>1. h \in Nat /\ op.calls[h] \in CallStates
    BY <1>4 DEF ToolInv, ToolTypes
  <2>2. h > i => op.calls[h].status # "completed"
    BY <1>2, <1>3, <1>4, <2>1 DEF WaitsAt
  <2> QED
    BY <1>4, <2>1, <2>2 DEF CallStates
<1> HIDE DEF calls
<1>12. CASE \E h \in Batch : calls[h].status # "completed"
  <2>1. op' = [op EXCEPT !.calls = calls]
    BY <1>12 DEF Place, calls
  <2>2. op'.calls = calls /\ op'.at = "tools"
    BY <1>1, <2>1 DEF ControlInv, ControlTypes, OpTypes
  <2>3. Batch' = Batch
    <3>1. DOMAIN calls = Batch
      BY DEF calls
    <3> QED
      BY <2>2, <3>1 DEF Batch
  <2>4. i < branch[p].of
    BY <1>4, <1>11, <1>12
  <2>5. \A h \in Batch : op'.calls[h].status = "completed" <=> p + h <= Len(branch')
    BY <1>3, <1>4, <1>11, <2>2
  <2>6. p \in 1..Len(branch') /\ branch'[p] = branch[p]
    BY <1>2, <1>3, <1>4
  <2>7. Waits'
    <3>1. /\ branch'[p].type = "response" /\ branch'[p].n = batches'
          /\ Batch' = 1..branch'[p].of /\ Len(branch') < p + branch'[p].of
      BY <1>1, <1>3, <1>4, <2>3, <2>4, <2>6
    <3>2. \A h \in Batch' : op'.calls[h].status = "completed" <=> p + h <= Len(branch')
      BY <2>3, <2>5
    <3> QED
      BY <1>8, <2>6, <3>1, <3>2 DEF Waits, WaitsAt
  <2> QED
    BY <1>7, <1>9, <1>10, <2>2, <2>7 DEF TranscriptInv
<1>13. CASE ~ \E h \in Batch : calls[h].status # "completed"
  <2>1. op'.at = "checkpoint"
    BY <1>13 DEF Place, calls, ControlInv, ControlTypes, OpTypes
  <2>2. i = branch[p].of
    <3>1. branch[p].of \in Batch
      BY <1>4
    <3> QED
      BY <1>4, <1>11, <1>13, <3>1
  <2>3. branch'[p] = branch[p]
    BY <1>2, <1>3
  <2>4. \A j \in 1..Len(branch') : Complete(j)'
    BY <1>3, <1>8, <2>2, <2>3 DEF Complete
  <2> QED
    BY <1>7, <1>9, <1>10, <2>1, <2>4 DEF TranscriptInv
<1> QED
  BY <1>12, <1>13

-----------------------------------------------------------------------------
(* Which step does what.                                                   *)
LEMMA PlainEntries ==
    /\ Plain(Response(0, 0))
    /\ \A n, kind : Plain(Message(n, kind))
BY DEF Plain, Response, Message

LEMMA UnchangedIsQuiet ==
    ASSUME UNCHANGED <<op, branch, batches>> PROVE Quietly
BY DEF Quietly, Batch

LEMMA OtherLeavesAreQuiet ==
    ASSUME UNCHANGED <<branch, batches>>, op.at # "tools", op'.at # "tools" PROVE Quietly
BY DEF Quietly

(* The commands of the callers.                                            *)
LEMMA AcceptSpeaks ==
    ASSUME Fits, TranscriptInv, NEW execution \in Executions, Accept(execution)
    PROVE  TranscriptInv'
<1>1. op.at = "none" /\ op'.at = "starting" /\ batches' = batches
  BY DEF Accept, Fits, NoOp
<1>2. \E items : \/ branch' = branch \o Entered(items)
                 \/ \E n : branch' = Append(branch \o Entered(items), Message(n, "prompt"))
  BY DEF Accept
<1>3. Sequence(branch)
  BY DEF TranscriptInv, Whole
<1>4. Grows(branch, branch')
  BY <1>2, <1>3, GrowsByEntered, GrowsBySaid, PlainEntries
<1> QED
  BY <1>1, <1>4, SpokenSteps

LEMMA AppendSpeaks == ASSUME Fits, TranscriptInv, AppendEntry PROVE TranscriptInv'
<1>1. op' = op /\ batches' = batches
  BY DEF AppendEntry
<1>2. CASE op.id = 0
  <2>1. op.at = "none"
    BY <1>2 DEF Fits
  <2>2. \E items, n, kind : branch' = Append(branch \o Entered(items), Message(n, kind))
    BY <1>2 DEF AppendEntry
  <2>3. Sequence(branch)
    BY DEF TranscriptInv, Whole
  <2>4. Grows(branch, branch')
    BY <2>2, <2>3, GrowsByEntered, GrowsBySaid, PlainEntries
  <2> QED
    BY <1>1, <2>1, <2>4, SpokenSteps
<1>3. CASE op.id # 0
  <2>1. branch' = branch
    BY <1>3 DEF AppendEntry
  <2> QED
    BY <1>1, <2>1, UnchangedIsQuiet, QuietSteps
<1> QED
  BY <1>2, <1>3

LEMMA AbortIsQuiet == ASSUME ControlInv, CommitAbort PROVE Quietly
<1>1. UNCHANGED <<branch, batches>> /\ op'.at = op.at /\ op'.calls = op.calls
  BY DEF CommitAbort, ControlInv, ControlTypes, OpTypes
<1> QED
  BY <1>1 DEF Quietly, Batch

(* The pass, at the boundaries of the run and with the provider.           *)
LEMMA BoundarySpeaks ==
    ASSUME ControlInv, Fits, TranscriptInv, Checkpoint \/ RunGoesOn \/ RunEnds
    PROVE  TranscriptInv'
<1>1. op.at = "checkpoint" /\ batches' = batches
  BY DEF Checkpoint, RunGoesOn, RunEnds, Leaf, Turn, Fits
<1>2. op' = Ready \/ op' = NoOp \/ op' = op
  BY DEF Checkpoint, RunGoesOn, RunEnds, Finish
<1>3. op'.at # "tools"
  BY <1>1, <1>2, ReadyFacts DEF NoOp, ControlInv
<1>4. \E items : \/ branch' = branch \o Entered(items) \/ branch' = branch
                 \/ \E n : branch' = Append(branch \o Entered(items), Message(n, "hook"))
  BY DEF Checkpoint, RunGoesOn, RunEnds, Deliver
<1>5. Sequence(branch)
  BY DEF TranscriptInv, Whole
<1>6. Grows(branch, branch')
  BY <1>4, <1>5, GrowsByEntered, GrowsBySaid, PlainEntries
<1> QED
  BY <1>1, <1>3, <1>6, SpokenSteps

LEMMA AnswersSpeak ==
    ASSUME TranscriptInv, op.at = "effect_pending", op'.at # "tools", batches' = batches,
           branch' = Append(branch, Response(0, 0))
    PROVE  TranscriptInv'
<1>1. Sequence(branch)
  BY DEF TranscriptInv, Whole
<1>2. Grows(branch, branch')
  BY <1>1, GrowsByEntered, GrowsBySaid, PlainEntries
<1> QED
  BY <1>2, SpokenSteps

LEMMA ErrorSpeaks ==
    ASSUME ControlInv, TranscriptInv, op.at = "effect_pending", NEW r \in BOOLEAN, AnswerError(r)
    PROVE  TranscriptInv'
<1>1. branch' = Append(branch, Response(0, 0)) /\ batches' = batches
  BY DEF AnswerError
<1>2. op'.at \in {"retry_wait", "none"}
  <2>1. op' = [op EXCEPT !.at = "retry_wait", !.attempt = @ + 1] \/ op' = NoOp
    BY DEF AnswerError, Finish
  <2>2. op' = [op EXCEPT !.at = "retry_wait", !.attempt = @ + 1] => op'.at = "retry_wait"
    BY DEF ControlInv, ControlTypes, OpTypes
  <2> QED
    BY <2>1, <2>2 DEF NoOp
<1> QED
  BY <1>1, <1>2, AnswersSpeak

LEMMA CallsSpeak ==
    ASSUME ControlInv, TranscriptInv, op.at = "effect_pending", AnswerCalls
    PROVE  TranscriptInv'
<1>0. batches' = batches + 1
  BY DEF AnswerCalls
<1>1. PICK k \in Calls : /\ \E replay \in [1..k -> {"never", "safe"}] :
                               op' = [op EXCEPT !.at = "tools", !.calls =
                                  [i \in 1..k |-> [status |-> "planned", replay |-> replay[i],
                                                   terminate |-> FALSE, ran |-> 0]]]
                         /\ branch' = Append(branch, Response(batches', k))
  BY DEF AnswerCalls
<1>2. PICK replay \in [1..k -> {"never", "safe"}] :
             op' = [op EXCEPT !.at = "tools", !.calls =
                       [i \in 1..k |-> [status |-> "planned", replay |-> replay[i],
                                        terminate |-> FALSE, ran |-> 0]]]
  BY <1>1
<1>3. op'.at = "tools" /\ op'.calls = [i \in 1..k |-> [status |-> "planned", replay |-> replay[i],
                                                      terminate |-> FALSE, ran |-> 0]]
  BY <1>2 DEF ControlInv, ControlTypes, OpTypes
<1>4. Batch' = 1..k /\ \A i \in 1..k : op'.calls[i].status = "planned"
  BY <1>3 DEF Batch
<1>5. k \in Nat \ {0}
  BY LaneAssumption DEF Calls
<1> QED
  BY <1>0, <1>1, <1>3, <1>4, <1>5, CallingSteps

LEMMA ProviderSpeaks ==
    ASSUME ControlInv, TranscriptInv, Respond \/ Recover \/ ReconcileRequest
    PROVE  TranscriptInv'
<1>1. op.at = "effect_pending"
  BY DEF Respond, Recover, ReconcileRequest, Leaf, Turn, ControlInv, Tries
<1>2. CASE AnswerAborted \/ AnswerText
  <2>1. op'.at = "checkpoint" /\ branch' = Append(branch, Response(0, 0)) /\ batches' = batches
    BY <1>2 DEF AnswerAborted, AnswerText, ControlInv, ControlTypes, OpTypes
  <2> QED
    BY <1>1, <2>1, AnswersSpeak
<1>3. CASE AnswerCalls
  BY <1>1, <1>3, CallsSpeak
<1>4. CASE \E r \in BOOLEAN : AnswerError(r)
  BY <1>1, <1>4, ErrorSpeaks
<1> QED
  BY <1>2, <1>3, <1>4 DEF Respond, Recover, ReconcileRequest

LEMMA DriveStepTranscript ==
    ASSUME ControlInv, Fits, TranscriptInv, DriveStep
    PROVE  TranscriptInv'
<1>1. CASE CancelFound \/ Caught \/ ClearDrive \/ StartRun \/ Prepare \/ AwaitRetry \/ TimerEnds
  <2>1. UNCHANGED <<op, branch, batches>>
    BY <1>1 DEF CancelFound, Caught, ClearDrive, StartRun, Prepare, AwaitRetry, TimerEnds,
       queueVars
  <2> QED
    BY <2>1, UnchangedIsQuiet, QuietSteps
<1>2. CASE RunStarts \/ ConfigurationFails \/ PublishIntent \/ Retry \/ Reconcile
  <2>1. UNCHANGED <<branch, batches>>
    BY <1>2 DEF RunStarts, ConfigurationFails, PublishIntent, Retry, Reconcile, queueVars
  <2>2. op.at # "tools"
    BY <1>2 DEF RunStarts, ConfigurationFails, PublishIntent, Retry, Reconcile, Leaf, Turn, Fits
  <2>3. op'.at # "tools"
    <3>1. RunStarts => op'.at = "checkpoint"
      BY DEF RunStarts, ControlInv, ControlTypes, OpTypes
    <3>2. ConfigurationFails \/ Reconcile => op'.at = "none"
      BY DEF ConfigurationFails, Reconcile, Finish, NoOp
    <3>3. PublishIntent => op'.at = "effect_pending"
      BY DEF PublishIntent, ControlInv, ControlTypes, OpTypes
    <3>4. Retry => op'.at = "ready"
      BY DEF Retry, ControlInv, ControlTypes, OpTypes
    <3> QED
      BY <1>2, <3>1, <3>2, <3>3, <3>4
  <2> QED
    BY <2>1, <2>2, <2>3, OtherLeavesAreQuiet, QuietSteps
<1>3. CASE AskModel
  <2>1. UNCHANGED <<branch, batches>> /\ op'.at = op.at /\ op'.calls = op.calls
    BY <1>3 DEF AskModel, queueVars, ControlInv, ControlTypes, OpTypes
  <2>2. Quietly
    BY <2>1 DEF Quietly, Batch
  <2> QED
    BY <2>2, QuietSteps
<1> QED
  BY <1>1, <1>2, <1>3, BoundarySpeaks, ProviderSpeaks DEF DriveStep

(* The calls that are neither placed nor completed.                        *)
LEMMA OneCallIsQuiet ==
    ASSUME ControlInv, ToolInv, UNCHANGED <<branch, batches>>, op'.at = op.at,
           NEW i \in Batch, op.calls[i].status # "completed",
           NEW call, call.status # "completed", op'.calls = [op.calls EXCEPT ![i] = call]
    PROVE  Quietly
<1>1. Batch' = Batch
  BY DEF Batch
<1>2. \A h \in Batch : op'.calls[h] = IF h = i THEN call ELSE op.calls[h]
  BY DEF Batch, ToolInv, ToolTypes
<1> QED
  BY <1>1, <1>2 DEF Quietly

LEMMA CallsAreQuiet ==
    ASSUME ControlInv, ToolInv, NEW i \in Calls,
           \/ StartNot(i) \/ ReplayNot(i) \/ Block(i) \/ ExecuteNot(i) \/ ToolEnds(i)
           \/ PublishToolIntent(i) \/ Execute(i)
    PROVE  Quietly
<1>1. UNCHANGED <<branch, batches>> /\ jobs[i] # "none"
  BY DEF StartNot, ReplayNot, Block, ExecuteNot, ToolEnds, PublishToolIntent, Execute, MayStart,
     queueVars
<1>2. /\ i \in Batch /\ op.calls[i] \in CallStates
      /\ op.calls[i].status \in {"planned", "effect_pending"}
  BY <1>1 DEF ToolInv, ToolTypes, JobsFit, Steps
<1>3. CASE \E terminate \in BOOLEAN : Outcome(i, terminate)
  <2>1. PICK terminate \in BOOLEAN : Outcome(i, terminate)
    BY <1>3
  <2> DEFINE call == [op.calls[i] EXCEPT !.status = "outcome_ready",
                                         !.terminate = terminate /\ ~op.cancelled]
  <2>2. call.status = "outcome_ready"
    BY <1>2 DEF CallStates
  <2>3. op'.calls = [op.calls EXCEPT ![i] = call] /\ op'.at = op.at
    BY <2>1 DEF Outcome, ControlInv, ControlTypes, OpTypes, ToolInv, ToolTypes, CallStates, Batch
  <2> HIDE DEF call
  <2> QED
    BY <1>1, <1>2, <2>2, <2>3, OneCallIsQuiet
<1>4. CASE PublishToolIntent(i)
  <2> DEFINE call == [op.calls[i] EXCEPT !.status = "effect_pending"]
  <2>1. call.status = "effect_pending"
    BY <1>2 DEF CallStates
  <2>2. op'.calls = [op.calls EXCEPT ![i] = call] /\ op'.at = op.at
    BY <1>2, <1>4 DEF PublishToolIntent, ControlInv, ControlTypes, OpTypes, ToolInv, ToolTypes,
       CallStates, Batch
  <2> HIDE DEF call
  <2> QED
    BY <1>1, <1>2, <2>1, <2>2, OneCallIsQuiet
<1>5. CASE Execute(i)
  <2> DEFINE call == [op.calls[i] EXCEPT !.ran = op.calls[i].ran + 1]
  <2>1. call.status = op.calls[i].status
    BY <1>2 DEF CallStates
  <2>2. op'.calls = [op.calls EXCEPT ![i] = call] /\ op'.at = op.at
    BY <1>2, <1>5 DEF Execute, ControlInv, ControlTypes, OpTypes, ToolInv, ToolTypes,
       CallStates, Batch
  <2> HIDE DEF call
  <2> QED
    BY <1>1, <1>2, <2>1, <2>2, OneCallIsQuiet
<1> QED
  BY <1>3, <1>4, <1>5 DEF StartNot, ReplayNot, Block, ExecuteNot, ToolEnds

LEMMA StepTranscript == ControlInv /\ ToolInv /\ Fits /\ TranscriptInv /\ [Next]_vars => TranscriptInv'
<1> SUFFICES ASSUME ControlInv, ToolInv, Fits, TranscriptInv, [Next]_vars PROVE TranscriptInv'
  OBVIOUS
<1>1. CASE Enqueue \/ CancelQueued \/ (\E o \in {op.id, drive.id} : RequestAbort(o))
           \/ Install \/ Tick \/ Restart \/ UNCHANGED vars
  <2>1. UNCHANGED <<op, branch, batches>>
    BY <1>1 DEF Enqueue, CancelQueued, RequestAbort, Install, InstallDrive, Tick, Restart,
       vars, queueVars
  <2> QED
    BY <2>1, UnchangedIsQuiet, QuietSteps
<1>2. CASE EnterTools \/ LeaveTools \/ \E i \in Calls : Start(i) \/ Replay(i)
  <2>1. UNCHANGED <<op, branch, batches>>
    BY <1>2 DEF EnterTools, LeaveTools, Start, Replay, queueVars
  <2> QED
    BY <2>1, UnchangedIsQuiet, QuietSteps
<1> QED
  BY <1>1, <1>2, AcceptSpeaks, AppendSpeaks, AbortIsQuiet, QuietSteps, DriveStepTranscript,
     PlacingSteps, CallsAreQuiet DEF Next, Command, ToolStep

(* At every moment the transcript holds whole batches, the one that is     *)
(* open up to the results its calls have placed.                           *)
THEOREM TranscriptInvariant == Spec => []TranscriptInv
<1>1. ControlInv /\ Fits /\ [Next]_vars => Fits'
  BY StepFits
<1>2. ControlInv /\ ToolInv /\ Fits /\ TranscriptInv /\ [Next]_vars => TranscriptInv'
  BY StepTranscript
<1> QED
  BY <1>1, <1>2, InitFits, InitTranscript, ControlInvariant, ToolInvariant, PTL DEF Spec

(* The results of a response follow it at once, in the order of its calls, *)
(* one for each call, whoever aborts, crashes or writes meanwhile.         *)
THEOREM CallsAreAnswered == Spec => []AnsweredCalls
<1>1. TranscriptInv => AnsweredCalls
  <2> SUFFICES ASSUME TranscriptInv PROVE AnsweredCalls
    OBVIOUS
  <2>1. DOMAIN branch = 1..Len(branch) /\ Len(branch) \in Nat
    BY DEF TranscriptInv, Whole, Sequence
  <2>2. ASSUME NEW j \in 1..Len(branch), branch[j].type = "response",
               NEW i \in 1..branch[j].of, j + i > Len(branch)
        PROVE  op.at = "tools" /\ branch[j].n = batches
    <3>1. branch[j].of \in Nat /\ ~Complete(j)
      BY <2>1, <2>2 DEF TranscriptInv, Whole, Complete
    <3>2. op.at = "tools"
      BY <3>1 DEF TranscriptInv
    <3>3. PICK p \in 1..Len(branch) : WaitsAt(p)
      BY <3>2 DEF TranscriptInv, Waits
    <3> QED
      BY <3>1, <3>2, <3>3 DEF WaitsAt
  <2>3. ASSUME NEW j \in 1..Len(branch), branch[j].type = "response", NEW i \in 1..branch[j].of
        PROVE  IF j + i <= Len(branch) THEN branch[j + i] = ToolResult(branch[j].n, i)
                                       ELSE op.at = "tools" /\ branch[j].n = batches
    <3>1. branch[j].of \in Nat
      BY <2>3 DEF TranscriptInv, Whole
    <3>2. CASE j + i <= Len(branch)
      BY <2>3, <3>2 DEF TranscriptInv, Followed
    <3>3. CASE j + i > Len(branch)
      BY <2>2, <2>3, <3>3, <2>1, <3>1
    <3> QED
      BY <2>1, <3>1, <3>2, <3>3
  <2> QED
    BY <2>1, <2>3 DEF AnsweredCalls, TranscriptInv, Belongs
<1> QED
  BY <1>1, TranscriptInvariant, PTL

-----------------------------------------------------------------------------
(* Where each message is, counted.                                         *)

(* A set of numbers has a least one: the intervals below its members are   *)
(* finite sets, which inclusion orders well.                               *)
LEMMA LeastNumber ==
    ASSUME NEW S, S \subseteq Nat, S # {}
    PROVE  \E m \in S : \A n \in S : m <= n
<1> DEFINE Below == {0..n : n \in S}
<1>1. Below \subseteq FiniteSubsetsOf(Nat)
  <2>1. \A n \in S : IsFiniteSet(0..n) /\ 0..n \subseteq Nat
    BY FS_Interval
  <2>2. \A b \in Below : IsFiniteSet(b) /\ b \subseteq Nat
    BY <2>1, Zenon
  <2> HIDE DEF Below
  <2> QED
    BY <2>2 DEF FiniteSubsetsOf
<1>2. PICK b \in Below : \A c \in Below : <<c, b>> \notin StrictSubsetOrdering(Nat)
  <2>1. Below # {}
    OBVIOUS
  <2> HIDE DEF Below
  <2>2. IsWellFoundedOn(StrictSubsetOrdering(Nat), FiniteSubsetsOf(Nat))
    BY FS_StrictSubsetOrderingWellFounded
  <2> QED
    BY <1>1, <2>1, <2>2, WFMin
<1>3. PICK m \in S : b = 0..m
  OBVIOUS
<1>4. ASSUME NEW n \in S, n < m PROVE FALSE
  <2>1. 0..n \subseteq 0..m /\ m \in 0..m /\ m \notin 0..n
    BY <1>4
  <2>2. <<0..n, b>> \in StrictSubsetOrdering(Nat)
    BY <2>1, <1>3 DEF StrictSubsetOrdering
  <2> QED
    BY <1>2, <2>2
<1> QED
  BY <1>4

(* Induction, for a set of numbers in the place of a predicate.            *)
LEMMA AllNumbers ==
    ASSUME NEW S, 0 \in S, \A n \in Nat : n \in S => n + 1 \in S
    PROVE  \A n \in Nat : n \in S
<1> SUFFICES ASSUME NEW n \in Nat, n \notin S PROVE FALSE
  OBVIOUS
<1> DEFINE Missing == {k \in Nat : k \notin S}
<1>1. PICK m \in Missing : \A k \in Missing : m <= k
  <2>1. Missing \subseteq Nat /\ Missing # {}
    OBVIOUS
  <2> HIDE DEF Missing
  <2> QED
    BY <2>1, LeastNumber
<1>2. m # 0 /\ m - 1 \in Nat
  BY <1>1
<1>3. m - 1 \in S
  BY <1>1, <1>2
<1> QED
  BY <1>1, <1>2, <1>3


(* How many places of a sequence hold something of E.                      *)
Amount(s, E) == Cardinality({j \in DOMAIN s : s[j] \in E})

LEMMA AmountIsNumber ==
    ASSUME NEW S, NEW s \in Seq(S), NEW E
    PROVE  /\ IsFiniteSet({j \in DOMAIN s : s[j] \in E}) /\ Amount(s, E) \in Nat
           /\ DOMAIN s = 1..Len(s) /\ Len(s) \in Nat
<1>1. DOMAIN s = 1..Len(s) /\ Len(s) \in Nat
  OBVIOUS
<1>2. IsFiniteSet(1..Len(s))
  BY <1>1, FS_Interval
<1>3. IsFiniteSet({j \in DOMAIN s : s[j] \in E})
  BY <1>1, <1>2, FS_Subset
<1> QED
  BY <1>1, <1>3, FS_CardinalityType DEF Amount

LEMMA AmountInBoth ==
    ASSUME NEW S, NEW s \in Seq(S), NEW t \in Seq(S), NEW E
    PROVE  Amount(s \o t, E) = Amount(s, E) + Amount(t, E)
<1> DEFINE first == {j \in DOMAIN s : s[j] \in E}
           second == {j \in DOMAIN t : t[j] \in E}
           moved == {j \in (Len(s) + 1)..(Len(s) + Len(t)) : t[j - Len(s)] \in E}
<1>1. /\ IsFiniteSet(first) /\ IsFiniteSet(second)
      /\ DOMAIN s = 1..Len(s) /\ Len(s) \in Nat /\ DOMAIN t = 1..Len(t) /\ Len(t) \in Nat
  BY AmountIsNumber
<1>2. IsFiniteSet(moved) /\ Cardinality(moved) = Cardinality(second)
  <2> DEFINE shift == [j \in second |-> j + Len(s)]
  <2>1. shift \in [second -> moved]
    BY <1>1
  <2>2. \A i, j \in second : shift[i] = shift[j] => i = j
    BY <1>1
  <2>3. \A k \in moved : \E j \in second : shift[j] = k
    <3> SUFFICES ASSUME NEW k \in moved PROVE \E j \in second : shift[j] = k
      OBVIOUS
    <3>1. k - Len(s) \in second /\ (k - Len(s)) + Len(s) = k
      BY <1>1
    <3>2. shift[k - Len(s)] = k
      BY <3>1
    <3> QED
      BY <3>1, <3>2
  <2> HIDE DEF shift, second, moved
  <2>4. shift \in Bijection(second, moved)
    BY <2>1, <2>2, <2>3, Fun_IsBij
  <2>5. ExistsBijection(second, moved)
    BY <2>4 DEF ExistsBijection
  <2> QED
    BY <1>1, <2>5, FS_Bijection
<1>3. {j \in DOMAIN (s \o t) : (s \o t)[j] \in E} = first \cup moved
  <2>1. /\ DOMAIN (s \o t) = 1..(Len(s) + Len(t))
        /\ \A j \in 1..(Len(s) + Len(t)) :
               (s \o t)[j] = IF j <= Len(s) THEN s[j] ELSE t[j - Len(s)]
    OBVIOUS
  <2>2. \A j : j \in 1..(Len(s) + Len(t)) <=>
                  j \in 1..Len(s) \/ j \in (Len(s) + 1)..(Len(s) + Len(t))
    BY <1>1
  <2>3. \A j \in 1..Len(s) : j <= Len(s)
    BY <1>1
  <2>4. \A j \in (Len(s) + 1)..(Len(s) + Len(t)) : ~(j <= Len(s))
    BY <1>1
  <2> QED
    BY <1>1, <2>1, <2>2, <2>3, <2>4
<1>4. first \cap moved = {}
  BY <1>1
<1>5. Cardinality(first \cap moved) = 0
  BY <1>4, FS_EmptySet
<1>6. Cardinality(first) \in Nat /\ Cardinality(moved) \in Nat
  BY <1>1, <1>2, FS_CardinalityType
<1> HIDE DEF first, moved, second
<1>7. Cardinality(first \cup moved) = Cardinality(first) + Cardinality(second)
  <2>1. Cardinality(first \cup moved) =
            Cardinality(first) + Cardinality(moved) - Cardinality(first \cap moved)
    BY <1>1, <1>2, FS_Union
  <2> QED
    BY <1>2, <1>5, <1>6, <2>1
<1> QED
  BY <1>3, <1>7 DEF Amount, first, second

LEMMA AmountInShort ==
    ASSUME NEW x, NEW E
    PROVE  Amount(<<>>, E) = 0 /\ Amount(<<x>>, E) = IF x \in E THEN 1 ELSE 0
<1>1. {j \in DOMAIN <<>> : <<>>[j] \in E} = {}
  OBVIOUS
<1>2. {j \in DOMAIN <<x>> : <<x>>[j] \in E} = IF x \in E THEN {1} ELSE {}
  OBVIOUS
<1>3. Cardinality({}) = 0 /\ Cardinality({1}) = 1
  BY FS_EmptySet, FS_Singleton
<1> QED
  BY <1>1, <1>2, <1>3 DEF Amount

LEMMA AmountOneMore ==
    ASSUME NEW S, NEW s \in Seq(S), NEW x \in S, NEW E
    PROVE  Amount(Append(s, x), E) = Amount(s, E) + IF x \in E THEN 1 ELSE 0
<1>1. <<x>> \in Seq(S) /\ Append(s, x) = s \o <<x>>
  OBVIOUS
<1>2. Amount(s \o <<x>>, E) = Amount(s, E) + Amount(<<x>>, E)
  BY <1>1, AmountInBoth
<1> QED
  BY <1>1, <1>2, AmountInShort

-----------------------------------------------------------------------------
(* What Waiting() has after n places of the inbox.                         *)
IsKept(f, some, n) ==
    f = [j \in 0..n |-> IF j = 0 THEN <<>>
                        ELSE IF inbox[j] \in some THEN Append(f[j - 1], inbox[j]) ELSE f[j - 1]]

LEMMA KeptExists ==
    ASSUME NEW some
    PROVE  \A n \in Nat : \E f : IsKept(f, some, n)
<1> DEFINE More(s, j) == IF inbox[j] \in some THEN Append(s, inbox[j]) ELSE s
           S == {n \in Nat : \E f : IsKept(f, some, n)}
<1>1. 0 \in S
  <2> DEFINE f == [j \in 0..0 |-> <<>>]
  <2>1. f = [j \in 0..0 |-> IF j = 0 THEN <<>>
                        ELSE IF inbox[j] \in some THEN Append(f[j - 1], inbox[j]) ELSE f[j - 1]]
    OBVIOUS
  <2> QED
    BY <2>1 DEF IsKept
<1>2. ASSUME NEW n \in Nat, n \in S PROVE n + 1 \in S
  <2>1. PICK f : IsKept(f, some, n)
    BY <1>2
  <2>2. \A j \in 0..n : f[j] = IF j = 0 THEN <<>> ELSE More(f[j - 1], j)
    BY <2>1 DEF IsKept
  <2> HIDE DEF More
  <2> DEFINE g == [j \in 0..(n + 1) |-> IF j = n + 1 THEN More(f[n], n + 1) ELSE f[j]]
  <2>3. \A j \in 0..n : g[j] = f[j]
    OBVIOUS
  <2>4. g[n + 1] = More(g[n], n + 1)
    BY <2>3
  <2>5. \A j \in 0..(n + 1) : g[j] = IF j = 0 THEN <<>> ELSE More(g[j - 1], j)
    <3> SUFFICES ASSUME NEW j \in 0..(n + 1)
                 PROVE  g[j] = IF j = 0 THEN <<>> ELSE More(g[j - 1], j)
      OBVIOUS
    <3>1. CASE j = n + 1
      <4>1. j # 0 /\ j - 1 = n
        BY <3>1
      <4> QED
        BY <3>1, <4>1, <2>4
    <3>2. CASE j \in 0..n
      <4>1. g[j] = f[j]
        BY <3>2, <2>3
      <4>2. j # 0 => j - 1 \in 0..n /\ g[j - 1] = f[j - 1]
        BY <3>2, <2>3
      <4> HIDE DEF g
      <4> QED
        BY <3>2, <2>2, <4>1, <4>2
    <3> QED
      BY <3>1, <3>2
  <2>6. IsKept(g, some, n + 1)
    <3>1. g = [j \in 0..(n + 1) |-> g[j]]
      OBVIOUS
    <3> HIDE DEF g
    <3> QED
      BY <3>1, <2>5 DEF IsKept, More
  <2> QED
    BY <2>6
<1>3. \A n \in Nat : n \in S
  <2> HIDE DEF S
  <2> QED
    BY <1>1, <1>2, AllNumbers
<1> QED
  BY <1>3

LEMMA WaitingIsKept ==
    ASSUME NEW some, Len(inbox) \in Nat
    PROVE  \E f : IsKept(f, some, Len(inbox)) /\ Waiting(some) = f[Len(inbox)]
<1> DEFINE f == CHOOSE g : g = [j \in 0..Len(inbox) |-> IF j = 0 THEN <<>>
                        ELSE IF inbox[j] \in some THEN Append(g[j - 1], inbox[j]) ELSE g[j - 1]]
<1>1. \E g : g = [j \in 0..Len(inbox) |-> IF j = 0 THEN <<>>
                        ELSE IF inbox[j] \in some THEN Append(g[j - 1], inbox[j]) ELSE g[j - 1]]
  <2>1. \E g : IsKept(g, some, Len(inbox))
    BY KeptExists, Zenon
  <2> QED
    BY <2>1, Zenon DEF IsKept
<1>2. f = [j \in 0..Len(inbox) |-> IF j = 0 THEN <<>>
                        ELSE IF inbox[j] \in some THEN Append(f[j - 1], inbox[j]) ELSE f[j - 1]]
  BY <1>1, Zenon
<1>3. Waiting(some) = f[Len(inbox)]
  BY Zenon DEF Waiting
<1> QED
  BY <1>2, <1>3, Zenon DEF IsKept

LEMMA KeptParts ==
    ASSUME NEW S, inbox \in Seq(S), NEW some, NEW f, IsKept(f, some, Len(inbox))
    PROVE  \A j \in 0..Len(inbox) : f[j] \in Seq(S \cap some)
<1>1. Len(inbox) \in Nat /\ \A j \in 1..Len(inbox) : inbox[j] \in S
  OBVIOUS
<1>2. \A j \in 0..Len(inbox) :
         f[j] = IF j = 0 THEN <<>>
                ELSE IF inbox[j] \in some THEN Append(f[j - 1], inbox[j]) ELSE f[j - 1]
  BY DEF IsKept
<1> DEFINE P == {j \in Nat : j <= Len(inbox) => f[j] \in Seq(S \cap some)}
<1>3. 0 \in P
  <2>1. f[0] = <<>>
    BY <1>1, <1>2
  <2>2. <<>> \in Seq(S \cap some)
    OBVIOUS
  <2>3. f[0] \in Seq(S \cap some)
    BY <2>1, <2>2, Zenon
  <2> QED
    BY <2>3
<1>4. ASSUME NEW j \in Nat, j \in P PROVE j + 1 \in P
  <2> SUFFICES ASSUME j + 1 <= Len(inbox) PROVE f[j + 1] \in Seq(S \cap some)
    OBVIOUS
  <2>1. f[j] \in Seq(S \cap some)
    BY <1>1, <1>4
  <2>2. j + 1 \in 0..Len(inbox) /\ j + 1 # 0 /\ (j + 1) - 1 = j /\ inbox[j + 1] \in S
    BY <1>1
  <2>3. f[j + 1] = IF inbox[j + 1] \in some THEN Append(f[j], inbox[j + 1]) ELSE f[j]
    BY <1>2, <2>2
  <2> QED
    BY <2>1, <2>2, <2>3
<1>5. \A j \in Nat : j \in P
  <2> HIDE DEF P
  <2> QED
    BY <1>3, <1>4, AllNumbers
<1> QED
  BY <1>1, <1>5

(* The places up to j that hold something of E.                            *)
Upto(E, j) == {i \in 1..j : inbox[i] \in E}

LEMMA KeptAmount ==
    ASSUME NEW S, inbox \in Seq(S), NEW some, NEW E, NEW f, IsKept(f, some, Len(inbox))
    PROVE  Amount(f[Len(inbox)], E) = Cardinality(Upto(some \cap E, Len(inbox)))
<1> DEFINE Before(j) == Upto(some \cap E, j)
<1>1. Len(inbox) \in Nat /\ \A j \in 1..Len(inbox) : inbox[j] \in S
  OBVIOUS
<1>2. \A j \in 0..Len(inbox) :
         f[j] = IF j = 0 THEN <<>>
                ELSE IF inbox[j] \in some THEN Append(f[j - 1], inbox[j]) ELSE f[j - 1]
  BY DEF IsKept
<1> DEFINE P == {j \in Nat : j <= Len(inbox) => Amount(f[j], E) = Cardinality(Before(j))}
<1>3. 0 \in P
  <2>1. f[0] = <<>> /\ Before(0) = {}
    BY <1>1, <1>2 DEF Upto
  <2> QED
    BY <2>1, AmountInShort, FS_EmptySet
<1>4. ASSUME NEW j \in Nat, j \in P PROVE j + 1 \in P
  <2> SUFFICES ASSUME j + 1 <= Len(inbox)
               PROVE  Amount(f[j + 1], E) = Cardinality(Before(j + 1))
    OBVIOUS
  <2>1. Amount(f[j], E) = Cardinality(Before(j))
    BY <1>1, <1>4
  <2>2. j + 1 \in 0..Len(inbox) /\ j + 1 # 0 /\ (j + 1) - 1 = j /\ inbox[j + 1] \in S
    BY <1>1
  <2>3. f[j + 1] = IF inbox[j + 1] \in some THEN Append(f[j], inbox[j + 1]) ELSE f[j]
    BY <1>2, <2>2
  <2>4. f[j] \in Seq(S)
    <3>1. \A k \in 0..Len(inbox) : f[k] \in Seq(S \cap some)
      BY KeptParts
    <3>2. f[j] \in Seq(S \cap some)
      BY <1>1, <3>1
    <3> QED
      BY <3>2
  <2>5. IsFiniteSet(Before(j)) /\ Cardinality(Before(j)) \in Nat /\ j + 1 \notin Before(j)
    <3>1. IsFiniteSet(1..j)
      BY FS_Interval
    <3>2. IsFiniteSet(Before(j)) /\ j + 1 \notin Before(j)
      BY <3>1, FS_Subset DEF Upto
    <3> QED
      BY <3>2, FS_CardinalityType
  <2>6. CASE inbox[j + 1] \in some \cap E
    <3>1. Before(j + 1) = Before(j) \cup {j + 1}
      BY <2>6 DEF Upto
    <3>2. Cardinality(Before(j) \cup {j + 1}) = Cardinality(Before(j)) + 1
      <4> HIDE DEF Before
      <4> QED
        BY <2>5, FS_AddElement
    <3>3. Amount(Append(f[j], inbox[j + 1]), E) = Amount(f[j], E) + 1
      BY <2>2, <2>4, <2>6, AmountOneMore
    <3> QED
      BY <2>1, <2>3, <2>6, <3>1, <3>2, <3>3
  <2>7. CASE inbox[j + 1] \notin some \cap E
    <3>1. Before(j + 1) = Before(j)
      BY <2>7 DEF Upto
    <3>2. CASE inbox[j + 1] \in some
      <4>1. inbox[j + 1] \notin E
        BY <2>7, <3>2
      <4>2. Amount(Append(f[j], inbox[j + 1]), E) = Amount(f[j], E) + 0
        BY <2>2, <2>4, <4>1, AmountOneMore
      <4>3. Amount(f[j], E) \in Nat
        BY <2>1, <2>5
      <4>4. Amount(Append(f[j], inbox[j + 1]), E) = Amount(f[j], E)
        BY <4>2, <4>3
      <4> QED
        BY <2>1, <2>3, <3>1, <3>2, <4>4
    <3>3. CASE inbox[j + 1] \notin some
      BY <2>1, <2>3, <3>1, <3>3
    <3> QED
      BY <3>2, <3>3
  <2> QED
    BY <2>6, <2>7
<1>5. \A j \in Nat : j \in P
  <2> HIDE DEF P
  <2> QED
    BY <1>3, <1>4, AllNumbers
<1>6. Len(inbox) \in P
  <2> HIDE DEF P
  <2> QED
    BY <1>1, <1>5
<1>7. Len(inbox) <= Len(inbox)
  BY <1>1
<1> QED
  BY <1>6, <1>7, Zenon

(* Waiting() keeps what it is asked for, each as often as it was there.    *)
LEMMA WaitingKeeps ==
    ASSUME NEW S, inbox \in Seq(S), NEW some
    PROVE  /\ Waiting(some) \in Seq(S \cap some)
           /\ \A E : Amount(Waiting(some), E) = Amount(inbox, some \cap E)
<1>1. Len(inbox) \in Nat /\ DOMAIN inbox = 1..Len(inbox)
  OBVIOUS
<1>2. PICK f : IsKept(f, some, Len(inbox)) /\ Waiting(some) = f[Len(inbox)]
  BY <1>1, WaitingIsKept
<1>3. f[Len(inbox)] \in Seq(S \cap some)
  <2>1. \A k \in 0..Len(inbox) : f[k] \in Seq(S \cap some)
    BY <1>2, KeptParts
  <2> QED
    BY <1>1, <2>1
<1>4. ASSUME NEW E PROVE Amount(f[Len(inbox)], E) = Cardinality(Upto(some \cap E, Len(inbox)))
  <2>1. IsKept(f, some, Len(inbox))
    BY <1>2
  <2> QED
    BY <2>1, KeptAmount
<1> QED
  BY <1>1, <1>2, <1>3, <1>4 DEF Amount, Upto

-----------------------------------------------------------------------------
(* Where a message is: it waits, it is in the transcript, or it was handed *)
(* back.                                                                   *)
Waiters == [n : 1..MaxMessages, kind : Kinds]
Named(m) == {x \in Waiters : x.n = m}
Spoken(m) == {e \in Entries : e.type \in {"said", "note"} /\ e.n = m}
Told(m) == Amount(branch, Spoken(m)) + Amount(inbox, Named(m)) + IF m \in given THEN 1 ELSE 0

MessageTypes ==
    /\ inbox \in Seq(Waiters) /\ branch \in Seq(Entries)
    /\ said \in 0..MaxMessages /\ given \subseteq 1..MaxMessages /\ batches \in 0..MaxBatches

(* A message that was accepted is in one place, any other in none.         *)
MessageInv ==
    /\ MessageTypes
    /\ \A m \in Nat : Told(m) = IF m \in 1..said THEN 1 ELSE 0

LEMMA EntriesTyped ==
    /\ \A n \in Nat : \A kind : Message(n, kind) \in Entries
    /\ \A n \in Nat : \A m, kind : Message(n, kind) \in Spoken(m) <=> n = m
    /\ \A b, k \in Nat : Response(b, k) \in Entries /\ ToolResult(b, k) \in Entries
    /\ \A b, k, m : Response(b, k) \notin Spoken(m) /\ ToolResult(b, k) \notin Spoken(m)
BY DEF Message, Response, ToolResult, Entries, Spoken

LEMMA WaitersNumbered ==
    /\ \A x \in Waiters : x.n \in Nat /\ x.n \in 1..MaxMessages /\ x.kind \in Kinds
    /\ \A x \in Waiters : \A m : x \in Named(m) <=> x.n = m
BY LaneAssumption DEF Waiters, Named

LEMMA EnteredTyped ==
    ASSUME MessageTypes, NEW items
    PROVE  /\ Entered(items) \in Seq(Entries)
           /\ \A m : Amount(Entered(items), Spoken(m)) = Amount(Waiting(items), Named(m))
<1> DEFINE chosen == Waiting(items)
<1>1. chosen \in Seq(Waiters)
  <2>1. chosen \in Seq(Waiters \cap items)
    BY WaitingKeeps DEF MessageTypes
  <2> QED
    BY <2>1
<1>2. Entered(items) = [j \in 1..Len(chosen) |-> Message(chosen[j].n, chosen[j].kind)]
  BY DEF Entered
<1> HIDE DEF chosen
<1>3. Len(chosen) \in Nat /\ DOMAIN chosen = 1..Len(chosen) /\ \A j \in 1..Len(chosen) : chosen[j] \in Waiters
  BY <1>1
<1>4. \A j \in 1..Len(chosen) : Message(chosen[j].n, chosen[j].kind) \in Entries
  BY <1>3, EntriesTyped, WaitersNumbered
<1>5. Entered(items) \in [1..Len(chosen) -> Entries]
  BY <1>2, <1>4
<1>6. Entered(items) \in Seq(Entries)
  BY <1>3, <1>5, FiniteFunction
<1>7. ASSUME NEW m PROVE Amount(Entered(items), Spoken(m)) = Amount(chosen, Named(m))
  <2>1. \A j \in 1..Len(chosen) : Entered(items)[j] \in Spoken(m) <=> chosen[j] \in Named(m)
    BY <1>2, <1>3, EntriesTyped, WaitersNumbered
  <2>2. DOMAIN Entered(items) = 1..Len(chosen)
    BY <1>5
  <2>3. {j \in DOMAIN Entered(items) : Entered(items)[j] \in Spoken(m)}
          = {j \in DOMAIN chosen : chosen[j] \in Named(m)}
    BY <1>3, <2>1, <2>2
  <2> QED
    BY <2>3 DEF Amount
<1> QED
  BY <1>6, <1>7 DEF chosen

(* What is taken out and what is left are all that was there.              *)
LEMMA Parted ==
    ASSUME MessageTypes, NEW items
    PROVE  /\ Without(items) \in Seq(Waiters)
           /\ \A m : /\ Amount(inbox, Named(m)) \in Nat /\ Amount(Waiting(items), Named(m)) \in Nat
                     /\ Amount(Without(items), Named(m)) \in Nat
                     /\ Amount(Waiting(items), Named(m)) + Amount(Without(items), Named(m))
                          = Amount(inbox, Named(m))
<1> DEFINE rest == Queued(Kinds) \ items
<1>1. inbox \in Seq(Waiters)
  BY DEF MessageTypes
<1>2. Without(items) = Waiting(rest)
  BY DEF Without
<1>3. Waiting(rest) \in Seq(Waiters \cap rest) /\ Waiting(items) \in Seq(Waiters \cap items)
  BY <1>1, WaitingKeeps
<1>4. \A x \in Queued(Kinds) \ items : x \notin items
  OBVIOUS
<1>5. \A j \in DOMAIN inbox : inbox[j] \in items \/ inbox[j] \in rest
  BY <1>1, WaitersNumbered DEF Queued
<1> HIDE DEF rest
<1>6. Waiting(rest) \in Seq(Waiters) /\ Waiting(items) \in Seq(Waiters)
  BY <1>3
<1>7. ASSUME NEW m
      PROVE  /\ Amount(inbox, Named(m)) \in Nat /\ Amount(Waiting(items), Named(m)) \in Nat
             /\ Amount(Waiting(rest), Named(m)) \in Nat
             /\ Amount(Waiting(items), Named(m)) + Amount(Waiting(rest), Named(m))
                  = Amount(inbox, Named(m))
  <2> DEFINE A == {j \in DOMAIN inbox : inbox[j] \in items \cap Named(m)}
             B == {j \in DOMAIN inbox : inbox[j] \in rest \cap Named(m)}
             C == {j \in DOMAIN inbox : inbox[j] \in Named(m)}
  <2>1. IsFiniteSet(A) /\ IsFiniteSet(B)
    BY <1>1, AmountIsNumber
  <2>2. C = A \cup B
    BY <1>5
  <2>3. A \cap B = {}
    BY <1>4 DEF rest
  <2>4. Amount(Waiting(items), Named(m)) = Cardinality(A)
    <3>1. Amount(Waiting(items), Named(m)) = Amount(inbox, items \cap Named(m))
      BY <1>1, WaitingKeeps
    <3> QED
      BY <3>1 DEF Amount
  <2>5. Amount(Waiting(rest), Named(m)) = Cardinality(B)
    <3>1. Amount(Waiting(rest), Named(m)) = Amount(inbox, rest \cap Named(m))
      BY <1>1, WaitingKeeps
    <3> QED
      BY <3>1 DEF Amount
  <2>6. Amount(inbox, Named(m)) = Cardinality(C)
    BY DEF Amount
  <2> HIDE DEF A, B, C
  <2>7. Cardinality(A) \in Nat /\ Cardinality(B) \in Nat
    BY <2>1, FS_CardinalityType
  <2>8. Cardinality(A \cup B) = Cardinality(A) + Cardinality(B) - Cardinality(A \cap B)
    BY <2>1, FS_Union
  <2>9. Cardinality(A \cap B) = 0
    BY <2>3, FS_EmptySet
  <2> QED
    BY <2>2, <2>4, <2>5, <2>6, <2>7, <2>8, <2>9
<1> QED
  BY <1>2, <1>6, <1>7

-----------------------------------------------------------------------------
(* What a step does to the messages.                                       *)

(* The transcript grows by entries that nobody said, or not at all.        *)
LEMMA MessagesKept ==
    ASSUME MessageInv, UNCHANGED <<inbox, said, given>>, batches' \in 0..MaxBatches,
           NEW t \in Seq(Entries), branch' = branch \o t, \A m : Amount(t, Spoken(m)) = 0
    PROVE  MessageInv'
<1>1. MessageTypes'
  BY DEF MessageInv, MessageTypes
<1>2. ASSUME NEW m \in Nat PROVE Told(m)' = Told(m)
  <2>1. Amount(branch \o t, Spoken(m)) = Amount(branch, Spoken(m)) + Amount(t, Spoken(m))
    BY AmountInBoth DEF MessageInv, MessageTypes
  <2>2. Amount(branch, Spoken(m)) \in Nat /\ Amount(t, Spoken(m)) = 0
    BY AmountIsNumber DEF MessageInv, MessageTypes
  <2>3. Amount(branch', Spoken(m)) = Amount(branch, Spoken(m))
    BY <2>1, <2>2
  <2> QED
    BY <2>3 DEF Told, Amount
<1> QED
  BY <1>1, <1>2 DEF MessageInv

LEMMA MessagesSame ==
    ASSUME MessageInv, UNCHANGED queueVars, batches' \in 0..MaxBatches PROVE MessageInv'
BY Zenon DEF MessageInv, MessageTypes, Told, Amount, queueVars, Spoken, Named

(* A message joins those that wait.                                        *)
LEMMA MessageWaits ==
    ASSUME MessageInv, UNCHANGED <<branch, given, batches>>, NEW kind, NEW n \in 1..MaxMessages,
           Speak(kind, n), inbox' = Append(inbox, [n |-> n, kind |-> kind])
    PROVE  MessageInv'
<1> DEFINE x == [n |-> n, kind |-> kind]
<1>1. x \in Waiters /\ \A m : x \in Named(m) <=> n = m
  BY DEF Speak, Waiters, Named
<1>2. inbox \in Seq(Waiters) /\ said \in Nat /\ MaxMessages \in Nat /\ said < MaxMessages
      /\ n = said + 1 /\ said' = said + 1
  BY LaneAssumption DEF MessageInv, MessageTypes, Speak
<1>3. inbox' = Append(inbox, x)
  OBVIOUS
<1> HIDE DEF x
<1>4. MessageTypes'
  BY <1>1, <1>2, <1>3 DEF MessageInv, MessageTypes
<1>5. ASSUME NEW m \in Nat PROVE Told(m)' = IF m \in 1..said' THEN 1 ELSE 0
  <2>1. Amount(inbox', Named(m)) = Amount(inbox, Named(m)) + IF x \in Named(m) THEN 1 ELSE 0
    BY <1>1, <1>2, <1>3, AmountOneMore
  <2>2. Amount(inbox, Named(m)) \in Nat /\ Amount(branch, Spoken(m)) \in Nat
    BY AmountIsNumber DEF MessageInv, MessageTypes
  <2>3. Amount(branch, Spoken(m)) + Amount(inbox, Named(m)) + (IF m \in given THEN 1 ELSE 0)
          = IF m \in 1..said THEN 1 ELSE 0
    BY DEF MessageInv, Told
  <2>4. Told(m)' = Amount(branch, Spoken(m)) + Amount(inbox', Named(m)) + IF m \in given THEN 1 ELSE 0
    BY DEF Told, Amount
  <2>5. CASE m = n
    <3>1. Amount(inbox', Named(m)) = Amount(inbox, Named(m)) + 1
      BY <1>1, <2>1, <2>5
    <3>2. m \notin 1..said /\ m \in 1..said'
      BY <1>2, <2>5
    <3> QED
      BY <2>2, <2>3, <2>4, <3>1, <3>2
  <2>6. CASE m # n
    <3>1. Amount(inbox', Named(m)) = Amount(inbox, Named(m))
      BY <1>1, <2>1, <2>2, <2>6
    <3>2. m \in 1..said <=> m \in 1..said'
      BY <1>2, <2>6
    <3> QED
      BY <2>3, <2>4, <3>1, <3>2
  <2> QED
    BY <2>5, <2>6
<1> QED
  BY <1>4, <1>5 DEF MessageInv

(* What is taken comes into the transcript.                                *)
LEMMA TakenIsSpoken ==
    ASSUME MessageTypes, NEW items
    PROVE  /\ branch \o Entered(items) \in Seq(Entries) /\ Without(items) \in Seq(Waiters)
           /\ \A m : /\ Amount(branch \o Entered(items), Spoken(m)) \in Nat
                     /\ Amount(Without(items), Named(m)) \in Nat
                     /\ Amount(branch \o Entered(items), Spoken(m)) + Amount(Without(items), Named(m))
                          = Amount(branch, Spoken(m)) + Amount(inbox, Named(m))
<1>1. branch \in Seq(Entries) /\ Entered(items) \in Seq(Entries) /\ Without(items) \in Seq(Waiters)
  BY EnteredTyped, Parted DEF MessageTypes
<1>2. ASSUME NEW m
      PROVE  /\ Amount(branch \o Entered(items), Spoken(m)) \in Nat
             /\ Amount(Without(items), Named(m)) \in Nat
             /\ Amount(branch \o Entered(items), Spoken(m)) + Amount(Without(items), Named(m))
                  = Amount(branch, Spoken(m)) + Amount(inbox, Named(m))
  <2>1. Amount(branch \o Entered(items), Spoken(m))
          = Amount(branch, Spoken(m)) + Amount(Entered(items), Spoken(m))
    BY <1>1, AmountInBoth
  <2>2. Amount(Entered(items), Spoken(m)) = Amount(Waiting(items), Named(m))
    BY EnteredTyped
  <2>3. /\ Amount(inbox, Named(m)) \in Nat /\ Amount(Waiting(items), Named(m)) \in Nat
        /\ Amount(Without(items), Named(m)) \in Nat
        /\ Amount(Waiting(items), Named(m)) + Amount(Without(items), Named(m))
             = Amount(inbox, Named(m))
    BY Parted
  <2>4. Amount(branch, Spoken(m)) \in Nat
    BY <1>1, AmountIsNumber
  <2> QED
    BY <2>1, <2>2, <2>3, <2>4
<1> QED
  BY <1>1, <1>2

LEMMA MessagesDelivered ==
    ASSUME MessageInv, UNCHANGED <<said, given, batches>>, NEW items, Deliver(items)
    PROVE  MessageInv'
<1>1. MessageTypes /\ branch' = branch \o Entered(items) /\ inbox' = Without(items)
  BY DEF MessageInv, Deliver
<1>2. MessageTypes'
  BY <1>1, TakenIsSpoken DEF MessageTypes
<1>3. ASSUME NEW m \in Nat PROVE Told(m)' = Told(m)
  <2>1. /\ Amount(branch', Spoken(m)) \in Nat /\ Amount(inbox', Named(m)) \in Nat
        /\ Amount(branch', Spoken(m)) + Amount(inbox', Named(m))
             = Amount(branch, Spoken(m)) + Amount(inbox, Named(m))
    BY <1>1, TakenIsSpoken
  <2>2. Told(m)' = Amount(branch', Spoken(m)) + Amount(inbox', Named(m)) + IF m \in given THEN 1 ELSE 0
    BY DEF Told, Amount
  <2> QED
    BY <2>1, <2>2 DEF Told
<1> QED
  BY <1>2, <1>3 DEF MessageInv

(* And a message is said after it.                                         *)
LEMMA MessageSaid ==
    ASSUME MessageInv, UNCHANGED <<given, batches>>, NEW kind, NEW n \in 1..MaxMessages,
           Speak(kind, n), NEW items, inbox' = Without(items),
           branch' = Append(branch \o Entered(items), Message(n, kind))
    PROVE  MessageInv'
<1>1. MessageTypes /\ said \in Nat /\ MaxMessages \in Nat /\ said < MaxMessages
      /\ n = said + 1 /\ said' = said + 1 /\ n \in Nat
  BY LaneAssumption DEF MessageInv, MessageTypes, Speak
<1> DEFINE longer == branch \o Entered(items)
           e == Message(n, kind)
<1>2. /\ longer \in Seq(Entries) /\ inbox' \in Seq(Waiters) /\ e \in Entries
      /\ branch' = Append(longer, e) /\ \A m : e \in Spoken(m) <=> n = m
  BY <1>1, TakenIsSpoken, EntriesTyped
<1>3. \A m : /\ Amount(longer, Spoken(m)) \in Nat /\ Amount(inbox', Named(m)) \in Nat
             /\ Amount(longer, Spoken(m)) + Amount(inbox', Named(m))
                  = Amount(branch, Spoken(m)) + Amount(inbox, Named(m))
  BY <1>1, TakenIsSpoken
<1> HIDE DEF longer, e
<1>4. MessageTypes'
  <2>1. branch' \in Seq(Entries)
    BY <1>2
  <2>2. said' \in 0..MaxMessages
    BY <1>1
  <2> QED
    BY <1>1, <1>2, <2>1, <2>2 DEF MessageTypes
<1>5. ASSUME NEW m \in Nat PROVE Told(m)' = IF m \in 1..said' THEN 1 ELSE 0
  <2>1. Amount(branch', Spoken(m)) = Amount(longer, Spoken(m)) + IF e \in Spoken(m) THEN 1 ELSE 0
    BY <1>2, AmountOneMore
  <2>2. /\ Amount(longer, Spoken(m)) \in Nat /\ Amount(inbox', Named(m)) \in Nat
        /\ Amount(longer, Spoken(m)) + Amount(inbox', Named(m))
             = Amount(branch, Spoken(m)) + Amount(inbox, Named(m))
    BY <1>3
  <2>3. Amount(branch, Spoken(m)) + Amount(inbox, Named(m)) + (IF m \in given THEN 1 ELSE 0)
          = IF m \in 1..said THEN 1 ELSE 0
    BY DEF MessageInv, Told
  <2>4. Told(m)' = Amount(branch', Spoken(m)) + Amount(inbox', Named(m)) + IF m \in given THEN 1 ELSE 0
    BY DEF Told, Amount
  <2>5. CASE m = n
    <3>1. Amount(branch', Spoken(m)) = Amount(longer, Spoken(m)) + 1
      BY <1>2, <2>1, <2>5
    <3>2. m \notin 1..said /\ m \in 1..said'
      BY <1>1, <2>5
    <3> QED
      BY <2>2, <2>3, <2>4, <3>1, <3>2
  <2>6. CASE m # n
    <3>1. Amount(branch', Spoken(m)) = Amount(longer, Spoken(m))
      BY <1>2, <2>1, <2>2, <2>6
    <3>2. m \in 1..said <=> m \in 1..said'
      BY <1>1, <2>6
    <3> QED
      BY <2>2, <2>3, <2>4, <3>1, <3>2
  <2> QED
    BY <2>5, <2>6
<1> QED
  BY <1>4, <1>5 DEF MessageInv

(* What is handed back was waiting, once.                                  *)
LEMMA MessagesGiven ==
    ASSUME MessageInv, UNCHANGED <<branch, said, batches>>, NEW items, items \subseteq Queued(Kinds),
           inbox' = Without(items), given' = given \cup {x.n : x \in items}
    PROVE  MessageInv'
<1>1. MessageTypes /\ inbox \in Seq(Waiters)
  BY DEF MessageInv, MessageTypes
<1>2. \A x \in items : x \in Waiters /\ \E j \in DOMAIN inbox : inbox[j] = x
  BY <1>1 DEF Queued
<1>3. MessageTypes'
  BY <1>1, <1>2, Parted, WaitersNumbered DEF MessageTypes
<1>4. ASSUME NEW m \in Nat PROVE Told(m)' = Told(m)
  <2> DEFINE A == {j \in DOMAIN inbox : inbox[j] \in items \cap Named(m)}
  <2>1. /\ Amount(inbox, Named(m)) \in Nat /\ Amount(Waiting(items), Named(m)) \in Nat
        /\ Amount(inbox', Named(m)) \in Nat
        /\ Amount(Waiting(items), Named(m)) + Amount(inbox', Named(m)) = Amount(inbox, Named(m))
    BY <1>1, Parted
  <2>2. Amount(branch, Spoken(m)) \in Nat
    BY AmountIsNumber DEF MessageInv, MessageTypes
  <2>3. Told(m) = Amount(branch, Spoken(m)) + Amount(inbox, Named(m)) + IF m \in given THEN 1 ELSE 0
    BY DEF Told
  <2>4. Told(m) = 0 \/ Told(m) = 1
    BY DEF MessageInv
  <2>5. Told(m)' = Amount(branch, Spoken(m)) + Amount(inbox', Named(m)) + IF m \in given' THEN 1 ELSE 0
    BY DEF Told, Amount
  <2>6. IsFiniteSet(A) /\ Amount(Waiting(items), Named(m)) = Cardinality(A)
    <3>1. Amount(Waiting(items), Named(m)) = Amount(inbox, items \cap Named(m))
      BY <1>1, WaitingKeeps
    <3> QED
      BY <1>1, <3>1, AmountIsNumber DEF Amount
  <2>7. m \in {x.n : x \in items} <=> A # {}
    BY <1>1, <1>2, WaitersNumbered
  <2> HIDE DEF A
  <2>8. CASE A = {}
    <3>1. Amount(Waiting(items), Named(m)) = 0 /\ (m \in given' <=> m \in given)
      BY <2>6, <2>7, <2>8, FS_EmptySet
    <3> QED
      BY <2>1, <2>3, <2>5, <3>1
  <2>9. CASE A # {}
    <3>1. Amount(Waiting(items), Named(m)) # 0 /\ m \in given'
      BY <2>6, <2>7, <2>9, FS_EmptySet
    <3>2. m \notin given
      <4>1. m \in given => Told(m) = Amount(branch, Spoken(m)) + Amount(inbox, Named(m)) + 1
        BY <2>3
      <4> QED
        BY <2>1, <2>2, <2>4, <3>1, <4>1
    <3>3. Told(m) = Amount(branch, Spoken(m)) + Amount(inbox, Named(m))
      BY <2>1, <2>2, <2>3, <3>2
    <3>4. Amount(inbox, Named(m)) = 1 /\ Amount(branch, Spoken(m)) = 0 /\ Amount(inbox', Named(m)) = 0
      BY <2>1, <2>2, <2>4, <3>1, <3>3
    <3> QED
      BY <2>5, <3>1, <3>3, <3>4
  <2> QED
    BY <2>8, <2>9
<1> QED
  BY <1>3, <1>4 DEF MessageInv

(* The steps that only put answers and results down.                       *)
LEMMA AnswerPutDown ==
    ASSUME MessageInv, UNCHANGED <<inbox, said, given>>, NEW b \in Nat, NEW k \in Nat,
           branch' = Append(branch, Response(b, k)), batches' \in 0..MaxBatches
    PROVE  MessageInv'
<1> DEFINE e == Response(b, k)
<1>1. e \in Entries /\ \A m : e \notin Spoken(m)
  BY EntriesTyped
<1>2. branch' = Append(branch, e)
  OBVIOUS
<1> HIDE DEF e
<1>3. <<e>> \in Seq(Entries) /\ branch' = branch \o <<e>>
  BY <1>1, <1>2 DEF MessageInv, MessageTypes
<1>4. \A m : Amount(<<e>>, Spoken(m)) = 0
  BY <1>1, AmountInShort
<1> QED
  BY <1>3, <1>4, MessagesKept

LEMMA AnswersPutDown ==
    ASSUME MessageInv, Respond \/ Recover \/ ReconcileRequest PROVE MessageInv'
<1>1. UNCHANGED <<inbox, said, given>>
  BY DEF Respond, Recover, ReconcileRequest
<1>2. batches \in 0..MaxBatches /\ MaxBatches \in Nat
  BY LaneAssumption DEF MessageInv, MessageTypes
<1>3. CASE AnswerAborted \/ AnswerText \/ \E r \in BOOLEAN : AnswerError(r)
  <2>1. branch' = Append(branch, Response(0, 0)) /\ batches' = batches
    BY <1>3 DEF AnswerAborted, AnswerText, AnswerError
  <2> QED
    BY <1>1, <1>2, <2>1, AnswerPutDown
<1>4. CASE AnswerCalls
  <2>1. batches < MaxBatches /\ batches' = batches + 1
    BY <1>4 DEF AnswerCalls
  <2>2. PICK k \in Calls : branch' = Append(branch, Response(batches', k))
    BY <1>4 DEF AnswerCalls
  <2>3. k \in Nat /\ batches' \in Nat /\ batches' \in 0..MaxBatches
    BY <1>2, <2>1, LaneAssumption DEF Calls
  <2> QED
    BY <1>1, <2>2, <2>3, AnswerPutDown
<1> QED
  BY <1>3, <1>4 DEF Respond, Recover, ReconcileRequest

(* The results that come are those of calls, and nothing else.             *)
LEMMA ResultsPlaced ==
    ASSUME ToolInv, MessageInv, NEW i \in Calls, Place(i)
    PROVE  \E t \in Seq(Entries) : branch' = branch \o t /\ \A j \in 1..Len(t) : t[j].type = "result"
<1> DEFINE first == CHOOSE h \in Open : NextOpen(h)
<1>1. i \in Open /\ Open \subseteq Nat /\ i \in Nat /\ batches \in Nat
  BY LaneAssumption DEF Place, Placeable, Open, ToolInv, ToolTypes, Calls, MessageInv, MessageTypes
<1>2. \E h \in Open : NextOpen(h)
  <2>1. PICK h \in Open : \A g \in Open : h <= g
    BY <1>1, LeastNumber
  <2> QED
    BY <2>1 DEF NextOpen
<1>3. first \in Open /\ NextOpen(first)
  BY <1>2
<1> DEFINE n == i + 1 - first
           t == [j \in 1..n |-> ToolResult(batches, first + j - 1)]
<1>4. branch' = branch \o t
  BY DEF Place
<1> HIDE DEF first
<1>5. first \in Nat /\ first <= i
  BY <1>1, <1>3 DEF NextOpen
<1>6. n \in Nat /\ \A j \in 1..n : first + j - 1 \in Nat
  BY <1>1, <1>5
<1>7. \A j \in 1..n : t[j] \in Entries /\ t[j].type = "result"
  BY <1>1, <1>6, EntriesTyped DEF ToolResult
<1> HIDE DEF n
<1>8. t \in [1..n -> Entries]
  BY <1>7
<1>9. t \in Seq(Entries)
  BY <1>6, <1>8, FiniteFunction
<1>10. Len(t) = n
  BY <1>6
<1> HIDE DEF t
<1> QED
  BY <1>4, <1>7, <1>9, <1>10

LEMMA ResultsPutDown ==
    ASSUME ToolInv, MessageInv, NEW i \in Calls, Place(i) PROVE MessageInv'
<1>1. PICK t \in Seq(Entries) : branch' = branch \o t /\ \A j \in 1..Len(t) : t[j].type = "result"
  BY ResultsPlaced
<1>2. UNCHANGED <<inbox, said, given, batches>>
  BY DEF Place
<1>3. ASSUME NEW m PROVE Amount(t, Spoken(m)) = 0
  <2>1. {j \in DOMAIN t : t[j] \in Spoken(m)} = {}
    BY <1>1 DEF Spoken
  <2> QED
    BY <2>1, FS_EmptySet DEF Amount
<1>4. batches' \in 0..MaxBatches
  BY <1>2 DEF MessageInv, MessageTypes
<1> QED
  BY <1>1, <1>2, <1>3, <1>4, MessagesKept

(* The commands of the callers, and the boundaries of the run.             *)
LEMMA CommandMessages ==
    ASSUME MessageInv,
           \/ \E execution \in Executions : Accept(execution)
           \/ Enqueue \/ AppendEntry \/ CancelQueued \/ CommitAbort
    PROVE  MessageInv'
<1>1. CASE \E execution \in Executions : Accept(execution)
  <2>1. UNCHANGED <<given, batches>>
    BY <1>1 DEF Accept
  <2>2. PICK items : /\ inbox' = Without(items)
                     /\ \/ \E n \in 1..MaxMessages :
                              /\ Speak("prompt", n)
                              /\ branch' = Append(branch \o Entered(items), Message(n, "prompt"))
                        \/ branch' = branch \o Entered(items) /\ UNCHANGED said
    BY <1>1 DEF Accept
  <2> QED
    BY <2>1, <2>2, MessageSaid, MessagesDelivered DEF Deliver
<1>2. CASE Enqueue
  <2>1. UNCHANGED <<branch, given, batches>>
    BY <1>2 DEF Enqueue
  <2>2. PICK kind \in {"steer", "followUp", "nextRun"}, n \in 1..MaxMessages :
           Speak(kind, n) /\ inbox' = Append(inbox, [n |-> n, kind |-> kind])
    BY <1>2 DEF Enqueue
  <2> QED
    BY <2>1, <2>2, MessageWaits
<1>3. CASE AppendEntry
  <2>1. UNCHANGED <<given, batches>>
    BY <1>3 DEF AppendEntry
  <2>2. PICK kind \in {"write", "note"}, n \in 1..MaxMessages :
           /\ Speak(kind, n)
           /\ \/ \E items : /\ inbox' = Without(items)
                            /\ branch' = Append(branch \o Entered(items), Message(n, kind))
              \/ inbox' = Append(inbox, [n |-> n, kind |-> kind]) /\ UNCHANGED branch
    BY <1>3 DEF AppendEntry
  <2> QED
    BY <2>1, <2>2, MessageSaid, MessageWaits
<1>4. CASE CancelQueued
  <2>1. UNCHANGED <<branch, said, batches>>
    BY <1>4 DEF CancelQueued
  <2>2. PICK x \in Queued(Kinds) : inbox' = Without({x}) /\ given' = given \cup {x.n}
    BY <1>4 DEF CancelQueued
  <2>3. {x} \subseteq Queued(Kinds) /\ {y.n : y \in {x}} = {x.n}
    OBVIOUS
  <2> QED
    BY <2>1, <2>2, <2>3, MessagesGiven
<1>5. CASE CommitAbort
  <2> DEFINE drained == IF op.id = abort.op /\ ~op.cancelled THEN Queued({"steer", "followUp"}) ELSE {}
  <2>1. UNCHANGED <<branch, said, batches>>
    BY <1>5 DEF CommitAbort
  <2>2. inbox' = Without(drained) /\ given' = given \cup {x.n : x \in drained}
    BY <1>5 DEF CommitAbort
  <2>3. drained \subseteq Queued(Kinds)
    <3>1. inbox \in Seq(Waiters)
      BY DEF MessageInv, MessageTypes
    <3> QED
      BY <3>1, WaitersNumbered DEF Queued
  <2> HIDE DEF drained
  <2> QED
    BY <2>1, <2>2, <2>3, MessagesGiven
<1> QED
  BY <1>1, <1>2, <1>3, <1>4, <1>5

LEMMA BoundaryMessages ==
    ASSUME MessageInv, Checkpoint \/ RunGoesOn \/ RunEnds PROVE MessageInv'
<1>1. CASE Checkpoint
  <2>1. UNCHANGED <<said, given, batches>>
    BY <1>1 DEF Checkpoint
  <2>2. (\E items : Deliver(items)) \/ UNCHANGED <<inbox, branch>>
    BY <1>1 DEF Checkpoint
  <2>3. batches \in 0..MaxBatches
    BY DEF MessageInv, MessageTypes
  <2> QED
    BY <2>1, <2>2, <2>3, MessagesDelivered, MessagesSame DEF queueVars
<1>2. CASE RunGoesOn
  <2>1. UNCHANGED <<given, batches>>
    BY <1>2 DEF RunGoesOn
  <2>2. PICK items : \/ Deliver(items) /\ UNCHANGED said
                     \/ /\ inbox' = Without(items)
                        /\ \E n \in 1..MaxMessages :
                              /\ Speak("hook", n)
                              /\ branch' = Append(branch \o Entered(items), Message(n, "hook"))
    BY <1>2 DEF RunGoesOn
  <2> QED
    BY <2>1, <2>2, MessageSaid, MessagesDelivered
<1>3. CASE RunEnds
  <2>1. UNCHANGED <<said, given, batches>> /\ \E items : Deliver(items)
    BY <1>3 DEF RunEnds
  <2> QED
    BY <2>1, MessagesDelivered
<1> QED
  BY <1>1, <1>2, <1>3

LEMMA StepMessages == ToolInv /\ MessageInv /\ [Next]_vars => MessageInv'
<1> SUFFICES ASSUME ToolInv, MessageInv, [Next]_vars PROVE MessageInv'
  OBVIOUS
<1>0. batches \in 0..MaxBatches
  BY DEF MessageInv, MessageTypes
<1>1. CASE \/ CancelFound \/ Caught \/ ClearDrive \/ StartRun \/ RunStarts \/ ConfigurationFails
           \/ Prepare \/ PublishIntent \/ AskModel \/ AwaitRetry \/ Retry \/ TimerEnds \/ Reconcile
  <2>1. UNCHANGED <<queueVars, batches>>
    BY <1>1 DEF CancelFound, Caught, ClearDrive, StartRun, RunStarts, ConfigurationFails,
       Prepare, PublishIntent, AskModel, AwaitRetry, Retry, TimerEnds, Reconcile
  <2> QED
    BY <1>0, <2>1, MessagesSame
<1>2. CASE \/ EnterTools \/ LeaveTools
           \/ \E i \in Calls : \/ Start(i) \/ StartNot(i) \/ Replay(i) \/ ReplayNot(i)
                               \/ Block(i) \/ PublishToolIntent(i) \/ Execute(i)
                               \/ ExecuteNot(i) \/ ToolEnds(i)
  <2>1. UNCHANGED <<queueVars, batches>>
    BY <1>2 DEF EnterTools, LeaveTools, Start, StartNot, Replay, ReplayNot, Block,
       PublishToolIntent, Execute, ExecuteNot, ToolEnds
  <2> QED
    BY <1>0, <2>1, MessagesSame
<1>3. CASE \/ \E o \in {op.id, drive.id} : RequestAbort(o)
           \/ Install \/ Tick \/ Restart \/ UNCHANGED vars
  <2>1. UNCHANGED <<queueVars, batches>>
    BY <1>3 DEF RequestAbort, Install, InstallDrive, Tick, Restart, vars, queueVars
  <2> QED
    BY <1>0, <2>1, MessagesSame
<1> QED
  BY <1>1, <1>2, <1>3, AnswersPutDown, ResultsPutDown, CommandMessages, BoundaryMessages
     DEF Next, Command, DriveStep, ToolStep

LEMMA InitMessages == Init => MessageInv
<1> SUFFICES ASSUME Init PROVE MessageInv
  OBVIOUS
<1>1. inbox = <<>> /\ branch = <<>> /\ said = 0 /\ given = {} /\ batches = 0
  BY DEF Init
<1>2. MessageTypes
  BY <1>1, LaneAssumption DEF MessageTypes
<1>3. ASSUME NEW m \in Nat PROVE Told(m) = 0 /\ m \notin 1..said
  <2>1. Amount(branch, Spoken(m)) = 0 /\ Amount(inbox, Named(m)) = 0
    BY <1>1, AmountInShort
  <2> QED
    BY <1>1, <2>1 DEF Told
<1> QED
  BY <1>2, <1>3 DEF MessageInv

(* Every message is in exactly one place, whatever is queued, cancelled,   *)
(* aborted or interrupted, and for any numbers of messages and operations. *)
THEOREM MessagesAreOnce == Spec => []EveryMessageOnce
<1>1. MessageInv => EveryMessageOnce
  <2> SUFFICES ASSUME MessageInv, NEW m \in 1..said
               PROVE  Cardinality({j \in DOMAIN branch : /\ branch[j].type \in {"said", "note"}
                                                         /\ branch[j].n = m})
                      + Cardinality({j \in DOMAIN inbox : inbox[j].n = m})
                      + (IF m \in given THEN 1 ELSE 0) = 1
    BY DEF EveryMessageOnce
  <2>1. inbox \in Seq(Waiters) /\ branch \in Seq(Entries) /\ said \in Nat
    BY LaneAssumption DEF MessageInv, MessageTypes
  <2>2. {j \in DOMAIN branch : branch[j].type \in {"said", "note"} /\ branch[j].n = m}
          = {j \in DOMAIN branch : branch[j] \in Spoken(m)}
    BY <2>1 DEF Spoken
  <2>3. {j \in DOMAIN inbox : inbox[j].n = m} = {j \in DOMAIN inbox : inbox[j] \in Named(m)}
    BY <2>1, WaitersNumbered
  <2>4. Told(m) = 1
    BY <2>1 DEF MessageInv
  <2> QED
    BY <2>2, <2>3, <2>4 DEF Told, Amount
<1>2. ToolInv /\ MessageInv /\ [Next]_vars => MessageInv'
  BY StepMessages
<1> QED
  BY <1>1, <1>2, InitMessages, ToolInvariant, PTL DEF Spec

-----------------------------------------------------------------------------
(* A run that is completed has heard everybody.                            *)

(* The model has answered after all that was said in transcript b.         *)
Heard(b) ==
    \A j \in DOMAIN b : b[j].type = "said" => \E k \in (j + 1)..Len(b) : b[k].type = "response"

(* The run would end here, if nobody spoke.                                *)
Settling == op.at = "tools" \/ (op.at = "checkpoint" /\ ~op.need)

(* A run that would end has heard all that is in the transcript: what is   *)
(* said in the meantime waits, and the one who lets it in makes the run go *)
(* on.                                                                     *)
HeardInv ==
    /\ op.need \in BOOLEAN
    /\ drive.pc = "ending" => op.at = "checkpoint" /\ ~op.need
    /\ Settling => Heard(branch)

LEMMA InitHeard == Init => HeardInv
BY DEF Init, NoOp, NoDrive, HeardInv, Settling

(* What is put down without being said needs no answer; an answer is one   *)
(* to all that was said before.                                            *)
LEMMA HeardOn ==
    ASSUME NEW S, NEW b \in Seq(S), NEW t \in Seq(S), Heard(b),
           \A j \in 1..Len(t) : t[j].type # "said"
    PROVE  Heard(b \o t)
<1>1. /\ Len(b) \in Nat /\ Len(t) \in Nat /\ DOMAIN b = 1..Len(b)
      /\ DOMAIN (b \o t) = 1..(Len(b) + Len(t)) /\ Len(b \o t) = Len(b) + Len(t)
      /\ \A j \in 1..(Len(b) + Len(t)) : (b \o t)[j] = IF j <= Len(b) THEN b[j] ELSE t[j - Len(b)]
  OBVIOUS
<1> DEFINE c == b \o t
<1> HIDE DEF c
<1>2. /\ DOMAIN c = 1..(Len(b) + Len(t)) /\ Len(c) = Len(b) + Len(t)
      /\ \A j \in 1..(Len(b) + Len(t)) : c[j] = IF j <= Len(b) THEN b[j] ELSE t[j - Len(b)]
  BY <1>1 DEF c
<1>3. ASSUME NEW j \in DOMAIN c, c[j].type = "said"
      PROVE  \E k \in (j + 1)..Len(c) : c[k].type = "response"
  <2>1. j <= Len(b)
    <3>1. ASSUME ~(j <= Len(b)) PROVE FALSE
      <4>1. j - Len(b) \in 1..Len(t) /\ c[j] = t[j - Len(b)]
        BY <1>1, <1>2, <3>1
      <4> QED
        BY <1>3, <4>1
    <3> QED
      BY <3>1
  <2>2. j \in DOMAIN b /\ b[j].type = "said"
    BY <1>1, <1>2, <1>3, <2>1
  <2>3. PICK k \in (j + 1)..Len(b) : b[k].type = "response"
    BY <2>2 DEF Heard
  <2>4. k \in (j + 1)..Len(c) /\ c[k] = b[k]
    BY <1>1, <1>2, <2>2, <2>3
  <2> QED
    BY <2>3, <2>4
<1> QED
  BY <1>3 DEF Heard, c

LEMMA HeardAnswered ==
    ASSUME NEW S, NEW b \in Seq(S), NEW e \in S, e.type = "response"
    PROVE  Heard(Append(b, e))
<1>1. /\ Len(b) \in Nat /\ Len(Append(b, e)) = Len(b) + 1
      /\ DOMAIN Append(b, e) = 1..(Len(b) + 1) /\ Append(b, e)[Len(b) + 1] = e
  OBVIOUS
<1> DEFINE c == Append(b, e)
<1>2. Len(c) = Len(b) + 1 /\ DOMAIN c = 1..(Len(b) + 1) /\ c[Len(b) + 1] = e
  BY <1>1
<1> HIDE DEF c
<1>3. ASSUME NEW j \in DOMAIN c, c[j].type = "said"
      PROVE  \E k \in (j + 1)..Len(c) : c[k].type = "response"
  <2>1. j # Len(b) + 1
    BY <1>2, <1>3
  <2>2. Len(b) + 1 \in (j + 1)..Len(c)
    BY <1>1, <1>2, <2>1
  <2> QED
    BY <1>2, <2>2
<1> QED
  BY <1>3 DEF Heard, c

(* Steps that leave the transcript and the boundary as they are, and steps *)
(* after which the run does not end.                                       *)
LEMMA HeardSame ==
    ASSUME HeardInv, UNCHANGED branch, op'.at = op.at, op'.need = op.need,
           drive'.pc = "ending" => drive.pc = "ending"
    PROVE  HeardInv'
BY DEF HeardInv, Settling

LEMMA HeardLater ==
    ASSUME op'.at \notin {"tools", "checkpoint"}, op'.need \in BOOLEAN, drive'.pc # "ending"
    PROVE  HeardInv'
BY DEF HeardInv, Settling

LEMMA CommandHeard ==
    ASSUME ControlInv, Fits, HeardInv, Command \/ CommitAbort \/ Install \/ Tick \/ Restart
    PROVE  HeardInv'
<1>1. CASE \E execution \in Executions : Accept(execution)
  <2>1. op'.at = "starting" /\ op'.need \in BOOLEAN
    BY <1>1 DEF Accept, NoOp
  <2>2. drive'.pc # "ending"
    BY <1>1 DEF Accept, processVars, ControlInv, Passes, Busy
  <2> QED
    BY <2>1, <2>2, HeardLater
<1>2. CASE Enqueue \/ CancelQueued \/ Tick
  BY <1>2, HeardSame DEF Enqueue, CancelQueued, Tick, processVars, queueVars
<1>3. CASE AppendEntry
  <2>1. op' = op /\ drive' = drive
    BY <1>3 DEF AppendEntry, processVars
  <2>2. CASE op.id = 0
    <3>1. op.at = "none" /\ drive.pc # "ending"
      BY <2>2 DEF Fits, ControlInv, Passes, Busy
    <3> QED
      BY <2>1, <3>1, HeardLater DEF HeardInv
  <2>3. CASE op.id # 0
    <3>1. branch' = branch
      BY <1>3, <2>3 DEF AppendEntry
    <3> QED
      BY <2>1, <3>1, HeardSame
  <2> QED
    BY <2>2, <2>3
<1>4. CASE (\E o \in {op.id, drive.id} : RequestAbort(o)) \/ CommitAbort
  <2>1. branch' = branch /\ op'.at = op.at /\ op'.need = op.need /\ drive'.pc = drive.pc
    BY <1>4 DEF RequestAbort, CommitAbort, queueVars, ControlInv, ControlTypes, OpTypes, DriveTypes
  <2> QED
    BY <2>1, HeardSame
<1>5. CASE Install \/ Restart
  <2>1. op' = op /\ branch' = branch
    BY <1>5 DEF Install, InstallDrive, Restart, queueVars
  <2>2. drive'.pc # "ending"
    <3>1. CASE Install
      BY <3>1 DEF Install, InstallDrive, NoDrive
    <3>2. CASE Restart
      BY <3>2 DEF Restart, NoDrive
    <3> QED
      BY <1>5, <3>1, <3>2
  <2> QED
    BY <2>1, <2>2, HeardSame
<1> QED
  BY <1>1, <1>2, <1>3, <1>4, <1>5 DEF Command

(* The answers of the provider.                                            *)
LEMMA ProviderHeard ==
    ASSUME ControlInv, MessageInv, HeardInv, Respond \/ Recover \/ ReconcileRequest
    PROVE  HeardInv'
<1>1. branch \in Seq(Entries)
  BY DEF MessageInv, MessageTypes
<1>2. drive'.pc # "ending"
  <2>1. drive'.pc \in {"loop", "done", "fault"}
    BY DEF Respond, Recover, ReconcileRequest, Shut, Turn, Leaf, AnswerAborted, AnswerText, AnswerCalls,
       AnswerError, Finish, Goto, ControlInv, ControlTypes, DriveTypes
  <2> QED
    BY <2>1
<1>3. CASE AnswerAborted \/ AnswerText
  <2>1. op'.at = "checkpoint" /\ op'.need = FALSE /\ branch' = Append(branch, Response(0, 0))
    BY <1>3 DEF AnswerAborted, AnswerText, ControlInv, ControlTypes, OpTypes
  <2>2. Response(0, 0) \in Entries /\ Response(0, 0).type = "response"
    BY EntriesTyped DEF Response
  <2>3. Heard(branch')
    BY <1>1, <2>1, <2>2, HeardAnswered
  <2> QED
    BY <1>2, <2>1, <2>3 DEF HeardInv
<1>4. CASE AnswerCalls
  <2>1. PICK k \in Calls : branch' = Append(branch, Response(batches', k))
    BY <1>4 DEF AnswerCalls
  <2>2. op'.need = op.need
    BY <1>4 DEF AnswerCalls, ControlInv, ControlTypes, OpTypes
  <2>3. k \in Nat /\ batches' \in Nat
    BY <1>4, LaneAssumption DEF AnswerCalls, Calls, MessageInv, MessageTypes
  <2>4. Response(batches', k) \in Entries /\ Response(batches', k).type = "response"
    BY <2>3, EntriesTyped DEF Response
  <2>5. Heard(branch')
    BY <1>1, <2>1, <2>4, HeardAnswered
  <2> QED
    BY <1>2, <2>2, <2>5 DEF HeardInv
<1>5. CASE \E r \in BOOLEAN : AnswerError(r)
  <2>1. op' = [op EXCEPT !.at = "retry_wait", !.attempt = @ + 1] \/ op' = NoOp
    BY <1>5 DEF AnswerError, Finish
  <2>2. op'.at \in {"retry_wait", "none"} /\ op'.need \in BOOLEAN
    <3>1. CASE op' = [op EXCEPT !.at = "retry_wait", !.attempt = @ + 1]
      <4>1. op'.at = "retry_wait" /\ op'.need = op.need
        BY <3>1 DEF ControlInv, ControlTypes, OpTypes
      <4> QED
        BY <4>1 DEF HeardInv
    <3>2. CASE op' = NoOp
      BY <3>2 DEF NoOp
    <3> QED
      BY <2>1, <3>1, <3>2
  <2> QED
    BY <1>2, <2>2, HeardLater
<1> QED
  BY <1>3, <1>4, <1>5 DEF Respond, Recover, ReconcileRequest

(* The other steps of the pass.                                            *)
LEMMA DriveStepHeard ==
    ASSUME ControlInv, Fits, MessageInv, HeardInv, DriveStep
    PROVE  HeardInv'
<1>1. CASE CancelFound \/ Caught \/ ClearDrive \/ StartRun \/ Prepare \/ AwaitRetry \/ TimerEnds
  <2>1. op' = op /\ branch' = branch
    BY <1>1 DEF CancelFound, Caught, ClearDrive, StartRun, Prepare, AwaitRetry, TimerEnds, queueVars
  <2>2. drive'.pc # "ending"
    <3>1. CASE ClearDrive
      BY <3>1 DEF ClearDrive, NoDrive
    <3>2. CASE ~ClearDrive
      <4>1. drive'.pc \in {"loop", "fault", "beforeRun", "request", "timer", "caught", "done"}
        BY <1>1, <3>2 DEF CancelFound, Caught, StartRun, Prepare, AwaitRetry, TimerEnds, Gated, Goto,
           ControlInv, ControlTypes, DriveTypes
      <4> QED
        BY <4>1
    <3> QED
      BY <3>1, <3>2
  <2> QED
    BY <2>1, <2>2, HeardSame
<1>2. CASE RunStarts
  <2>1. op'.need = TRUE /\ drive'.pc # "ending"
    BY <1>2 DEF RunStarts, Goto, ControlInv, ControlTypes, OpTypes, DriveTypes
  <2>2. op'.at = "checkpoint"
    BY <1>2 DEF RunStarts, ControlInv, ControlTypes, OpTypes
  <2> QED
    BY <2>1, <2>2 DEF HeardInv, Settling
<1>3. CASE Checkpoint
  <2>1. CASE op' = Ready /\ drive' = drive
    <3>1. op'.at = "ready" /\ op'.need = op.need
      BY <2>1 DEF Ready, ControlInv, ControlTypes, OpTypes
    <3>2. drive'.pc # "ending"
      BY <1>3, <2>1 DEF Checkpoint, Leaf, Turn
    <3> QED
      BY <3>1, <3>2, HeardLater DEF HeardInv
  <2>2. CASE op' = op /\ branch' = branch /\ ~op.need /\ op.at = "checkpoint"
    BY <2>2 DEF HeardInv, Settling
  <2> QED
    BY <1>3, <2>1, <2>2 DEF Checkpoint, Leaf
<1>4. CASE RunGoesOn
  <2>1. op'.at = "ready" /\ op'.need = op.need
    BY <1>4 DEF RunGoesOn, Ready, ControlInv, ControlTypes, OpTypes
  <2>2. drive'.pc # "ending"
    BY <1>4 DEF RunGoesOn, Goto, ControlInv, ControlTypes, DriveTypes
  <2> QED
    BY <2>1, <2>2, HeardLater DEF HeardInv
<1>5. CASE RunEnds \/ ConfigurationFails \/ Reconcile
  <2>1. op' = NoOp
    BY <1>5 DEF RunEnds, ConfigurationFails, Reconcile, Finish
  <2>2. drive'.pc # "ending"
    BY <1>5 DEF RunEnds, ConfigurationFails, Reconcile, Finish, Goto, ControlInv, ControlTypes, DriveTypes
  <2> QED
    BY <2>1, <2>2, HeardLater DEF NoOp
<1>6. CASE PublishIntent \/ AskModel \/ Retry
  <2>1. op'.at \in {"effect_pending", "ready"} /\ op'.need = op.need
    <3>1. CASE PublishIntent
      BY <3>1 DEF PublishIntent, ControlInv, ControlTypes, OpTypes
    <3>2. CASE AskModel
      BY <3>2 DEF AskModel, ControlInv, ControlTypes, OpTypes, Tries
    <3>3. CASE Retry
      BY <3>3 DEF Retry, ControlInv, ControlTypes, OpTypes
    <3> QED
      BY <1>6, <3>1, <3>2, <3>3
  <2>2. drive'.pc # "ending"
    BY <1>6 DEF PublishIntent, AskModel, Retry, Gated, Goto, ControlInv, ControlTypes, DriveTypes
  <2> QED
    BY <2>1, <2>2, HeardLater DEF HeardInv
<1> QED
  BY <1>1, <1>2, <1>3, <1>4, <1>5, <1>6, ProviderHeard DEF DriveStep

(* The tool calls: results are put down, nobody speaks.                    *)
LEMMA ToolStepHeard ==
    ASSUME ControlInv, ToolInv, MessageInv, HeardInv, ToolStep
    PROVE  HeardInv'
<1>1. CASE EnterTools \/ LeaveTools
  <2>1. op' = op /\ branch' = branch
    BY <1>1 DEF EnterTools, LeaveTools, queueVars
  <2>2. drive'.pc # "ending"
    BY <1>1 DEF EnterTools, LeaveTools, Shut, Goto, ControlInv, ControlTypes, DriveTypes
  <2> QED
    BY <2>1, <2>2, HeardSame
<1>2. CASE \E i \in Calls : \/ Start(i) \/ StartNot(i) \/ Replay(i) \/ ReplayNot(i) \/ Block(i)
                            \/ PublishToolIntent(i) \/ Execute(i) \/ ExecuteNot(i) \/ ToolEnds(i)
  <2>1. branch' = branch /\ drive' = drive /\ op'.at = op.at /\ op'.need = op.need
    BY <1>2 DEF Start, StartNot, Replay, ReplayNot, Block, PublishToolIntent, Execute, ExecuteNot,
       ToolEnds, Outcome, queueVars, ControlInv, ControlTypes, OpTypes
  <2> QED
    BY <2>1, HeardSame
<1>3. ASSUME NEW i \in Calls, Place(i) PROVE HeardInv'
  <2>1. PICK t \in Seq(Entries) : branch' = branch \o t /\ \A j \in 1..Len(t) : t[j].type = "result"
    BY <1>3, ResultsPlaced
  <2>2. op.at = "tools" /\ drive' = drive /\ drive.pc # "ending"
    BY <1>3 DEF Place, Turn, processVars
  <2>3. Heard(branch')
    <3>1. \A j \in 1..Len(t) : t[j].type # "said"
      BY <2>1
    <3>2. branch \in Seq(Entries) /\ Heard(branch)
      BY <2>2 DEF MessageInv, MessageTypes, HeardInv, Settling
    <3> QED
      BY <2>1, <3>1, <3>2, HeardOn
  <2>4. op'.need \in BOOLEAN
    BY <1>3 DEF Place, HeardInv, ControlInv, ControlTypes, OpTypes
  <2> QED
    BY <2>2, <2>3, <2>4 DEF HeardInv
<1> QED
  BY <1>1, <1>2, <1>3 DEF ToolStep

LEMMA StepHeard ==
    ControlInv /\ Fits /\ ToolInv /\ MessageInv /\ HeardInv /\ [Next]_vars => HeardInv'
<1>1. HeardInv /\ UNCHANGED vars => HeardInv'
  BY DEF vars, HeardInv, Settling
<1> QED
  BY <1>1, CommandHeard, DriveStepHeard, ToolStepHeard DEF Next

(* A boundary at which nobody makes the run go on finds no steering        *)
(* message and no follow-up, neither among those it takes nor behind them. *)
LEMMA NobodyWaits ==
    ASSUME inbox \in Seq(Waiters), ~Triggers(Boundary(TRUE))
    PROVE  /\ \A x \in Boundary(TRUE) : x.kind = "note"
           /\ \A j \in DOMAIN inbox : inbox[j].kind \notin {"steer", "followUp"}
<1> DEFINE all == {"write", "note", "steer", "followUp"}
<1>1. Boundary(TRUE) = Taken(all) /\ \A x \in Taken(all) : x.kind = "note"
  BY DEF Boundary, Triggers
<1>2. DOMAIN inbox = 1..Len(inbox) /\ Len(inbox) \in Nat
  OBVIOUS
<1>3. ASSUME NEW j \in DOMAIN inbox, inbox[j].kind \in {"steer", "followUp"} PROVE FALSE
  <2> DEFINE Same == {k \in DOMAIN inbox : inbox[k].kind = inbox[j].kind}
  <2>1. PICK k \in Same : \A h \in Same : k <= h
    <3>1. Same \subseteq Nat /\ Same # {}
      BY <1>2
    <3> HIDE DEF Same
    <3> QED
      BY <3>1, LeastNumber
  <2>2. \A h \in 1..(k - 1) : inbox[h].kind # inbox[k].kind
    BY <1>2, <2>1
  <2>3. k \in DOMAIN inbox /\ inbox[k].kind \in {"steer", "followUp"}
    BY <1>3, <2>1
  <2>4. inbox[k] \in Taken(all)
    BY <2>2, <2>3 DEF Taken
  <2> QED
    BY <1>1, <2>3, <2>4
<1> QED
  BY <1>1, <1>3

(* The end of a run leaves nobody waiting and nobody unheard.              *)
LEMMA EndHasHeard ==
    ASSUME ControlInv, Fits, MessageInv, HeardInv, RunEnds
    PROVE  /\ \A j \in DOMAIN inbox' : inbox'[j].kind \notin {"steer", "followUp"}
           /\ Heard(branch')
<1> DEFINE items == Boundary(TRUE)
<1>1. inbox \in Seq(Waiters) /\ branch \in Seq(Entries) /\ MessageTypes
  BY DEF MessageInv, MessageTypes
<1>2. ~Triggers(items) /\ inbox' = Without(items) /\ branch' = branch \o Entered(items)
  BY DEF RunEnds, Deliver
<1>3. /\ \A x \in items : x.kind = "note"
      /\ \A j \in DOMAIN inbox : inbox[j].kind \notin {"steer", "followUp"}
  BY <1>1, <1>2, NobodyWaits
<1> HIDE DEF items
<1>4. \A j \in DOMAIN inbox' : inbox'[j].kind \notin {"steer", "followUp"}
  <2> DEFINE left == Queued(Kinds) \ items
  <2>1. inbox' \in Seq(Waiters \cap left)
    BY <1>1, <1>2, WaitingKeeps DEF Without
  <2> HIDE DEF left
  <2>2. \A j \in DOMAIN inbox' : inbox'[j] \in left
    BY <2>1
  <2>3. \A x \in left : \E j \in DOMAIN inbox : x = inbox[j]
    BY DEF left, Queued
  <2> QED
    BY <1>3, <2>2, <2>3
<1>5. Heard(branch)
  BY DEF RunEnds, Turn, HeardInv, Settling
<1>6. \A j \in 1..Len(Entered(items)) : Entered(items)[j].type # "said"
  <2> DEFINE chosen == Waiting(items)
             t == [j \in 1..Len(chosen) |-> Message(chosen[j].n, chosen[j].kind)]
  <2>1. chosen \in Seq(Waiters \cap items)
    BY <1>1, WaitingKeeps
  <2>2. Entered(items) = t
    BY DEF Entered
  <2> HIDE DEF chosen
  <2>3. Len(chosen) \in Nat /\ \A j \in 1..Len(chosen) : chosen[j].kind = "note"
    BY <1>3, <2>1
  <2>4. Len(t) = Len(chosen) /\ \A j \in 1..Len(chosen) : t[j] = Message(chosen[j].n, chosen[j].kind)
    BY <2>3, Messages
  <2>5. \A m : Message(m, "note").type = "note"
    BY DEF Message
  <2> HIDE DEF t
  <2>6. \A j \in 1..Len(t) : t[j].type = "note"
    BY <2>3, <2>4, <2>5
  <2> QED
    BY <2>2, <2>6
<1>7. Entered(items) \in Seq(Entries)
  BY <1>1, EnteredTyped
<1>8. Heard(branch')
  BY <1>1, <1>2, <1>5, <1>6, <1>7, HeardOn
<1> QED
  BY <1>4, <1>8

(* Only the end of a run adds a result "completed".                        *)
LEMMA OnlyRunsComplete ==
    ASSUME ControlInv, [Next]_vars, Len(results') > Len(results),
           results'[Len(results')] = "completed"
    PROVE  RunEnds
<1>1. results \in Seq(Ends) /\ Len(results) \in Nat
  BY DEF ControlInv, ControlTypes
<1>2. results' # results
  BY <1>1
<1>3. ASSUME NEW status \in Ends, results' = Append(results, status) PROVE status = "completed"
  <2>1. Append(results, status)[Len(Append(results, status))] = status
    BY <1>1
  <2> QED
    BY <1>3, <2>1
<1>4. DriveStep
  <2>1. CASE Command \/ CommitAbort \/ Install \/ Tick \/ Restart \/ UNCHANGED vars
    BY <1>2, <2>1 DEF Command, Accept, Enqueue, AppendEntry, CancelQueued, RequestAbort, CommitAbort,
       Install, InstallDrive, Tick, Restart, vars
  <2>2. CASE ToolStep
    BY <1>2, <2>2, ToolStepLedger DEF SameOperation
  <2> QED
    BY <2>1, <2>2 DEF Next
<1>5. ~\E status \in {"failed", "aborted"} : results' = Append(results, status)
  BY <1>3 DEF Ends
<1>6. ~(ConfigurationFails \/ Reconcile)
  BY <1>5 DEF ConfigurationFails, Reconcile, Finish
<1>7. ~(Respond \/ Recover \/ ReconcileRequest)
  BY <1>2, <1>5 DEF Respond, Recover, ReconcileRequest, AnswerAborted, AnswerText, AnswerCalls,
     AnswerError, Finish
<1> QED
  BY <1>2, <1>4, <1>6, <1>7
     DEF DriveStep, CancelFound, Caught, ClearDrive, StartRun, RunStarts, Checkpoint, RunGoesOn, Prepare,
         PublishIntent, AskModel, AwaitRetry, Retry, TimerEnds

(* A run that is completed leaves no steering message and no follow-up in  *)
(* the inbox, and the model has answered after all that was said, for any  *)
(* numbers of messages, operations, requests to abort and crashes.         *)
THEOREM CompletedRunsHaveHeard == Spec => CompletedHasHeard
<1> DEFINE Claim == Len(results') > Len(results) /\ results'[Len(results')] = "completed" =>
              /\ \A j \in DOMAIN inbox' : inbox'[j].kind \notin {"steer", "followUp"}
              /\ \A j \in DOMAIN branch' : branch'[j].type = "said" =>
                    \E k \in (j + 1)..Len(branch') : branch'[k].type = "response"
<1>1. ControlInv /\ Fits /\ MessageInv /\ HeardInv /\ [Next]_vars => [Claim]_vars
  BY OnlyRunsComplete, EndHasHeard DEF Heard
<1>2. ControlInv /\ ToolInv /\ Fits /\ MessageInv /\ HeardInv /\ [Next]_vars
         => Fits' /\ MessageInv' /\ HeardInv'
  BY StepFits, StepMessages, StepHeard
<1>3. Init => Fits /\ MessageInv /\ HeardInv
  BY InitFits, InitMessages, InitHeard
<1> QED
  BY <1>1, <1>2, <1>3, ControlInvariant, ToolInvariant, PTL DEF Spec, CompletedHasHeard
=============================================================================
