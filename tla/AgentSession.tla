---------------------------- MODULE AgentSession ----------------------------
(***************************************************************************)
(* AgentSession (coding-agent/src/core/agent-session.ts) over Agent and    *)
(* its loop (agent/src/agent.ts, agent-loop.ts): one Pi child from the     *)
(* command that prompts it to the "agent_settled" line, with the queues of *)
(* steering and follow-up messages, retries, compaction and abort, and the *)
(* gateway retry extension (codepiddy-retry-extension).                    *)
(*                                                                         *)
(* A step ends where the code awaits something slow: a model, a tool, a    *)
(* timer, an extension.  Abstracted: what messages say, custom and bash    *)
(* messages, branch summaries, more than one tool call at a time.          *)
(***************************************************************************)
EXTENDS Naturals, Sequences, FiniteSets

CONSTANTS
    Prompts,        \* prompt commands, by their messages
    MaxRetries,     \* settings.retry.maxRetries
    GatewayRetries, \* policy.maxRetries of the gateway retry extension
    StartsAnew,     \* does the continuation it asks for emit agent_start?
    Troubles,       \* the sets of passing failures a provider may have
    MaxTools,       \* bound: turns that call a tool
    MaxCommands     \* bound: abort and compact commands

ASSUME SessionAssumption ==
    /\ MaxRetries \in Nat /\ GatewayRetries \in Nat
    /\ MaxTools \in Nat /\ MaxCommands \in Nat
    /\ StartsAnew \in BOOLEAN
    /\ Troubles \subseteq SUBSET {"flaky", "gateway"}

VARIABLES
    call,           \* call[m] : where session.prompt(m) is
    pc,             \* where _runAgentPrompt() and the agent loop are
    active,         \* _isAgentRunActive
    aborted,        \* the abort signal of agent.activeRun
    steering,       \* agent.steeringQueue
    followUp,       \* agent.followUpQueue
    pendingMessages,\* drained from a queue, not yet in the transcript
    messages,       \* the user messages of agent.state.messages
    tail,           \* is the last of all messages one of the assistant?
    last,           \* _lastAssistantMessage: how it stopped
    retryAttempt,   \* _retryAttempt
    overflowTried,  \* _overflowRecoveryAttempted
    willRetry,      \* the argument of _runAutoCompaction()
    manual,         \* compact(): it waits for the run to end, or works
    cancelled,      \* the compaction under way was aborted
    waiting,        \* abort() calls wait for _idleWaitPromise
    attempts,       \* the gateway extension: attempts; its lastError follows last
    settled,        \* number of "agent_settled" lines
    trouble,        \* the failures this provider has
    tools,          \* number of turns with tools
    commands,       \* number of abort and compact commands
    failures        \* history: failed requests since a success, a user message or
                    \* an abort of the retry

runVars == <<pc, active, aborted, settled>>
textVars == <<pendingMessages, messages, tail, last>>
retryVars == <<retryAttempt, overflowTried, willRetry, failures>>
queueVars == <<steering, followUp>>
waitVars == <<manual, cancelled, waiting>>
boundVars == <<trouble, tools, commands>>
vars == <<call, runVars, textVars, retryVars, attempts, queueVars, waitVars, boundVars>>

LoopPcs  == {"poll", "stream", "tools", "turnEnd", "prepare", "midCompact", "end"}
PostPcs  == {"sleep", "post", "compact", "compacted", "backoff"}
InFlight == {"input", "preflight", "preCompact", "preCompacted"}
Errors   == {"flaky", "gateway", "fatal", "overflow"}
Kinds    == Errors \cup {"stop", "tools", "length", "aborted"}

TypeOK ==
    /\ call \in [Prompts -> {"new", "accepted", "refused"} \cup InFlight]
    /\ pc \in {"none"} \cup LoopPcs \cup PostPcs
    /\ active \in BOOLEAN /\ aborted \in BOOLEAN
    /\ steering \in Seq(Prompts) /\ followUp \in Seq(Prompts)
    /\ pendingMessages \in Seq(Prompts) /\ messages \in Seq(Prompts)
    /\ tail \in {"open", "assistant"} /\ last \in Kinds \cup {"none"}
    /\ retryAttempt \in 0..MaxRetries /\ overflowTried \in BOOLEAN /\ willRetry \in BOOLEAN
    /\ manual \in {"none", "waiting", "working"}
    /\ cancelled \in BOOLEAN /\ waiting \in BOOLEAN
    /\ attempts \in 0..GatewayRetries
    /\ settled \in Nat /\ trouble \in Troubles
    /\ tools \in 0..MaxTools /\ commands \in 0..MaxCommands /\ failures \in Nat

Init ==
    /\ call = [m \in Prompts |-> "new"]
    /\ pc = "none" /\ active = FALSE /\ aborted = FALSE
    /\ steering = <<>> /\ followUp = <<>> /\ pendingMessages = <<>> /\ messages = <<>>
    /\ tail = "open" /\ last = "none"
    /\ retryAttempt = 0 /\ overflowTried = FALSE /\ willRetry = FALSE
    /\ manual = "none" /\ cancelled = FALSE /\ waiting = FALSE
    /\ attempts = 0
    /\ settled = 0 /\ trouble \in Troubles
    /\ tools = 0 /\ commands = 0 /\ failures = 0

PreCompacting == \E m \in Prompts : call[m] = "preCompact"

(* isCompacting and isIdle.                                                *)
Compacting == manual = "working" \/ pc \in {"compact", "midCompact"} \/ PreCompacting
Idle == ~active /\ ~Compacting

(* No prompt command is between its line and its first effect on the run.  *)
Quiet == \A m \in Prompts : call[m] \notin InFlight

(* drain() of a queue in one-at-a-time mode, and what stays in it.         *)
Drained(queue) == IF queue = <<>> THEN <<>> ELSE <<Head(queue)>>
Rest(queue) == IF queue = <<>> THEN <<>> ELSE Tail(queue)

-----------------------------------------------------------------------------
(* prompt(): the checks before the run.  A client waits for the answer to  *)
(* a prompt, and to a compact command, before it sends the next prompt.    *)

Advance(m, to) == call' = [call EXCEPT ![m] = to]

(* "Cannot submit a prompt while compaction is in progress."               *)
Submit(m) ==
    /\ call[m] = "new" /\ Quiet /\ manual # "waiting"
    /\ Advance(m, IF manual = "working" THEN "refused" ELSE "input")
    /\ UNCHANGED <<runVars, textVars, retryVars, attempts, queueVars, waitVars, boundVars>>

(* The input handlers are through, and an agent run is active: the message *)
(* is queued as streamingBehavior says.                                    *)
QueueSteer(m) ==
    /\ call[m] = "input" /\ active
    /\ Advance(m, "accepted")
    /\ steering' = Append(steering, m)
    /\ UNCHANGED <<runVars, textVars, retryVars, attempts, followUp, waitVars, boundVars>>

QueueFollowUp(m) ==
    /\ call[m] = "input" /\ active
    /\ Advance(m, "accepted")
    /\ followUp' = Append(followUp, m)
    /\ UNCHANGED <<runVars, textVars, retryVars, attempts, steering, waitVars, boundVars>>

(* A handler throws, or there is no streamingBehavior, model or credential.*)
Refuse(m) ==
    /\ call[m] \in {"input", "preflight"}
    /\ Advance(m, "refused")
    /\ UNCHANGED <<runVars, textVars, retryVars, attempts, queueVars, waitVars, boundVars>>

Preflight(m) ==
    /\ call[m] = "input" /\ ~active
    /\ Advance(m, "preflight")
    /\ UNCHANGED <<runVars, textVars, retryVars, attempts, queueVars, waitVars, boundVars>>

(* _checkCompaction(lastAssistant, false), whose answer is not used.  An   *)
(* overflow takes the failed message off the transcript.                   *)
PreCompact(m) ==
    /\ call[m] = "preflight" /\ last # "none"
    /\ Advance(m, "preCompact")
    /\ IF last \in {"overflow", "length"} /\ tail = "assistant" /\ ~overflowTried
       THEN overflowTried' = TRUE /\ tail' = "open"
       ELSE last # "overflow" /\ UNCHANGED <<overflowTried, tail>>
    /\ UNCHANGED <<runVars, pendingMessages, messages, last, retryAttempt, willRetry, failures,
                   attempts, queueVars, waitVars, boundVars>>

PreCompactEnds(m) ==
    /\ call[m] = "preCompact"
    /\ Advance(m, "preCompacted")
    /\ cancelled' = FALSE
    /\ UNCHANGED <<runVars, textVars, retryVars, attempts, queueVars, manual, boundVars>>
    /\ waiting' = (waiting /\ ~Idle')

-----------------------------------------------------------------------------
(* _runAgentPrompt() and runAgentLoop().                                   *)

(* message_start of user messages: _handleAgentEvent() allows another      *)
(* overflow recovery.                                                      *)
Hear(batch) ==
    /\ messages' = messages \o batch
    /\ IF batch = <<>> THEN UNCHANGED <<tail, overflowTried, failures>>
                       ELSE tail' = "open" /\ overflowTried' = FALSE /\ failures' = 0

(* before_agent_start has been emitted.                                    *)
StartRun(m) ==
    /\ call[m] \in {"preflight", "preCompacted"}
    /\ Advance(m, "accepted")
    /\ active' = TRUE /\ aborted' = FALSE /\ pc' = "poll"
    /\ Hear(<<m>>)
    /\ attempts' = 0
    /\ UNCHANGED <<settled, pendingMessages, last, retryAttempt, willRetry,
                   queueVars, waitVars, boundVars>>

(* The first poll of runLoop(), before any turn.                           *)
Poll ==
    /\ pc = "poll" /\ pc' = "stream"
    /\ Hear(Drained(steering)) /\ steering' = Rest(steering)
    /\ UNCHANGED <<call, active, aborted, settled, pendingMessages, last, retryAttempt, willRetry,
                   attempts, followUp, waitVars, boundVars>>

(* How the request may end.                                                *)
Outcomes ==
    IF aborted THEN {"aborted", "stop"}
    ELSE trouble \cup {"fatal", "overflow", "stop", "length"}
         \cup (IF tools < MaxTools THEN {"tools"} ELSE {})

(* message_end of the assistant, in the loop, in _handleAgentEvent() and   *)
(* in the gateway extension.                                               *)
StreamEnds(kind) ==
    /\ pc = "stream" /\ kind \in Outcomes
    /\ pc' = CASE kind \in Errors \cup {"aborted"} -> "end"
               [] kind = "tools" -> "tools"
               [] OTHER -> "turnEnd"
    /\ last' = kind /\ tail' = "assistant"
    /\ overflowTried' = (overflowTried /\ kind \in Errors \cup {"length"})
    /\ retryAttempt' = IF kind \in Errors THEN retryAttempt ELSE 0
    /\ attempts' = IF kind \in Errors THEN attempts ELSE 0
    /\ failures' = IF kind \in Errors THEN failures + 1 ELSE 0
    /\ tools' = IF kind = "tools" THEN tools + 1 ELSE tools
    /\ UNCHANGED <<call, active, aborted, settled, pendingMessages, messages, willRetry,
                   queueVars, waitVars, trouble, commands>>

ToolsEnd ==
    /\ pc = "tools" /\ pc' = "turnEnd"
    /\ tail' = "open"
    /\ UNCHANGED <<call, active, aborted, settled, pendingMessages, messages, last, retryVars,
                   attempts, queueVars, waitVars, boundVars>>

(* The steering queue is asked after every turn, the follow-up queue when  *)
(* there is nothing else to do.                                            *)
TurnEnd ==
    /\ pc = "turnEnd"
    /\ IF tail = "open" \/ steering # <<>>
       THEN /\ pendingMessages' = Drained(steering) /\ steering' = Rest(steering)
            /\ pc' = "prepare" /\ UNCHANGED followUp
       ELSE /\ pendingMessages' = Drained(followUp) /\ followUp' = Rest(followUp)
            /\ pc' = (IF followUp # <<>> THEN "prepare" ELSE "end") /\ UNCHANGED steering
    /\ UNCHANGED <<call, active, aborted, settled, messages, tail, last, retryVars, attempts,
                   waitVars, boundVars>>

(* prepareNextTurn: the context may have to be compacted first.            *)
PrepareCompacts ==
    /\ pc = "prepare" /\ pc' = "midCompact"
    /\ UNCHANGED <<call, active, aborted, settled, textVars, retryVars, attempts, queueVars,
                   waitVars, boundVars>>

(* Mutant: the steering queue is asked again though there is a message to  *)
(* be heard.                                                               *)
NextTurnPollsAnyway ==
    /\ pc \in {"prepare", "midCompact"} /\ pc' = "stream"
    /\ Hear(Drained(steering)) /\ steering' = Rest(steering)
    /\ pendingMessages' = <<>>
    /\ cancelled' = (cancelled /\ pc # "midCompact")
    /\ UNCHANGED <<call, active, aborted, settled, last, retryAttempt, willRetry, attempts,
                   followUp, manual, boundVars>>
    /\ waiting' = (waiting /\ ~Idle')

(* Steering that came while the turn was prepared is asked for again, if   *)
(* the earlier poll returned nothing.                                      *)
NextTurn ==
    /\ pc \in {"prepare", "midCompact"} /\ pc' = "stream"
    /\ IF pendingMessages = <<>>
       THEN Hear(Drained(steering)) /\ steering' = Rest(steering)
       ELSE Hear(pendingMessages) /\ UNCHANGED steering
    /\ pendingMessages' = <<>>
    /\ cancelled' = (cancelled /\ pc # "midCompact")
    /\ UNCHANGED <<call, active, aborted, settled, last, retryAttempt, willRetry, attempts,
                   followUp, manual, boundVars>>
    /\ waiting' = (waiting /\ ~Idle')

-----------------------------------------------------------------------------
(* _handlePostAgentRun(), and agent.continue().                            *)

(* The listeners of agent_end are done and finishRun() has been called.    *)
RetryWaits ==
    /\ pc = "end" /\ pc' = "sleep"
    /\ last = "flaky" /\ retryAttempt < MaxRetries
    /\ retryAttempt' = retryAttempt + 1
    /\ aborted' = FALSE /\ tail' = "open"
    /\ UNCHANGED <<call, active, settled, pendingMessages, messages, last, overflowTried, willRetry,
                   failures, attempts, queueVars, waitVars, boundVars>>

(* Mutant: every run of the loop settles the session.                      *)
RunEndsSettled ==
    /\ pc = "end" /\ pc' = "post"
    /\ last # "flaky" \/ retryAttempt = MaxRetries
    /\ retryAttempt' = IF last \in Errors THEN 0 ELSE retryAttempt
    /\ aborted' = FALSE /\ settled' = settled + 1
    /\ UNCHANGED <<call, active, textVars, overflowTried, willRetry, failures, attempts,
                   queueVars, waitVars, boundVars>>

RunEnds ==
    /\ pc = "end" /\ pc' = "post"
    /\ last # "flaky" \/ retryAttempt = MaxRetries
    /\ retryAttempt' = IF last \in Errors THEN 0 ELSE retryAttempt
    /\ aborted' = FALSE
    /\ UNCHANGED <<call, active, settled, textVars, overflowTried, willRetry, failures, attempts,
                   queueVars, waitVars, boundVars>>

(* continue() with a user message or a tool result last.                   *)
ContinueRun ==
    /\ pc' = "poll" /\ aborted' = FALSE
    /\ attempts' = 0
    /\ UNCHANGED <<active, settled, pendingMessages, messages, last, queueVars>>

SleepEnds ==
    /\ pc = "sleep"
    /\ ContinueRun
    /\ UNCHANGED <<call, tail, retryVars, waitVars, boundVars>>

(* Cases 1 and 2 of _checkCompaction(), and case 3: the context is near    *)
(* its limit.  Compaction may be disabled altogether.                      *)
Overflows ==
    /\ pc = "post" /\ pc' = "compact"
    /\ last \in {"overflow", "length"} /\ ~overflowTried
    /\ overflowTried' = TRUE /\ willRetry' = TRUE /\ tail' = "open"
    /\ UNCHANGED <<call, active, aborted, settled, pendingMessages, messages, last, retryAttempt,
                   failures, attempts, queueVars, waitVars, boundVars>>

NearsLimit ==
    /\ pc = "post" /\ pc' = "compact"
    /\ last \notin {"overflow", "aborted"}
    /\ willRetry' = FALSE
    /\ UNCHANGED <<call, active, aborted, settled, textVars, retryAttempt, overflowTried, failures,
                   attempts, queueVars, waitVars, boundVars>>

(* The end of _runAutoCompaction().  The rebuilt transcript has what the   *)
(* session kept, a failed answer too, unless it is to be tried again.      *)
CompactRetries ==
    /\ pc = "compact" /\ willRetry /\ ~cancelled
    /\ ContinueRun /\ willRetry' = FALSE
    /\ UNCHANGED <<call, tail, retryAttempt, overflowTried, failures, waitVars, boundVars>>

CompactEnds(succeeds) ==
    /\ pc = "compact" /\ pc' = "compacted"
    /\ succeeds => ~willRetry /\ ~cancelled
    /\ tail' = IF succeeds THEN "assistant" ELSE tail
    /\ cancelled' = FALSE /\ willRetry' = FALSE
    /\ UNCHANGED <<call, active, aborted, settled, pendingMessages, messages, last, retryAttempt,
                   overflowTried, failures, attempts, queueVars, manual, boundVars>>
    /\ waiting' = (waiting /\ ~Idle')

Queued == steering # <<>> \/ followUp # <<>>

(* hasQueuedMessages(): continue() takes one message itself when the last  *)
(* one is the assistant's, and does not poll steering after steering.      *)
QueueContinues ==
    /\ pc \in {"post", "compacted"} /\ Queued
    /\ IF tail = "open" THEN ContinueRun /\ UNCHANGED <<tail, overflowTried, failures>>
       ELSE /\ aborted' = FALSE /\ attempts' = 0
            /\ IF steering # <<>>
               THEN /\ Hear(Drained(steering)) /\ steering' = Rest(steering)
                    /\ pc' = "stream" /\ UNCHANGED followUp
               ELSE /\ Hear(Drained(followUp)) /\ followUp' = Rest(followUp)
                    /\ pc' = "poll" /\ UNCHANGED steering
            /\ UNCHANGED <<active, settled, pendingMessages, last>>
    /\ UNCHANGED <<call, retryAttempt, willRetry, waitVars, boundVars>>

(* agent_before_settle, of the Pi version the extension is written for.    *)
GatewayWants == last = "gateway" /\ attempts < GatewayRetries

GatewayRetry ==
    /\ pc \in {"post", "compacted"} /\ ~Queued
    /\ GatewayWants
    /\ pc' = "backoff" /\ attempts' = attempts + 1
    /\ UNCHANGED <<call, active, aborted, settled, textVars, retryVars, queueVars,
                   waitVars, boundVars>>

(* Mutant: agent_start gives the extension its retries back.               *)
BackoffEndsAnew ==
    /\ pc = "backoff" /\ pc' = "poll"
    /\ attempts' = 0
    /\ tail' = "open"
    /\ UNCHANGED <<call, active, aborted, settled, pendingMessages, messages, last, retryVars,
                   queueVars, waitVars, boundVars>>

BackoffEnds ==
    /\ pc = "backoff" /\ pc' = "poll"
    /\ attempts' = IF StartsAnew THEN 0 ELSE attempts
    /\ tail' = "open"
    /\ UNCHANGED <<call, active, aborted, settled, pendingMessages, messages, last, retryVars,
                   queueVars, waitVars, boundVars>>

(* Mutant: after a compaction the queues are not asked.                    *)
SettleUnasked ==
    /\ pc \in {"post", "compacted"}
    /\ pc = "compacted" \/ ~Queued
    /\ ~GatewayWants
    /\ pc' = "none" /\ active' = FALSE /\ settled' = settled + 1
    /\ waiting' = FALSE
    /\ manual' = IF manual = "waiting" THEN "working" ELSE manual
    /\ UNCHANGED <<call, aborted, textVars, retryVars, attempts, queueVars, cancelled, boundVars>>

(* _emitAgentSettled(): whoever waits for idle goes on.                    *)
Settle ==
    /\ pc \in {"post", "compacted"} /\ ~Queued
    /\ ~GatewayWants
    /\ pc' = "none" /\ active' = FALSE /\ settled' = settled + 1
    /\ waiting' = FALSE
    /\ manual' = IF manual = "waiting" THEN "working" ELSE manual
    /\ UNCHANGED <<call, aborted, textVars, retryVars, attempts, queueVars, cancelled, boundVars>>

-----------------------------------------------------------------------------
(* The abort and compact commands.                                         *)

(* abortRetry(), abortCompaction() and agent.abort().                      *)
AbortAll ==
    /\ commands < MaxCommands /\ commands' = commands + 1
    /\ aborted' = (aborted \/ pc \in LoopPcs)
    /\ cancelled' = (cancelled \/ Compacting)
    /\ IF pc = "sleep" THEN pc' = "post" /\ retryAttempt' = 0 /\ failures' = 0
                       ELSE UNCHANGED <<pc, retryAttempt, failures>>
    /\ UNCHANGED <<call, active, settled, textVars, overflowTried, willRetry, attempts, queueVars,
                   trouble, tools>>

Abort ==
    /\ AbortAll
    /\ waiting' = (waiting \/ ~Idle)
    /\ UNCHANGED manual

(* compact() aborts the run, waits until it has settled, and works.        *)
Compact ==
    /\ manual = "none" /\ Quiet
    /\ AbortAll
    /\ manual' = IF Idle THEN "working" ELSE "waiting"
    /\ UNCHANGED waiting

(* Mutant: _clearManualCompactionState() does not resolve the wait for     *)
(* idle.                                                                   *)
ManualEndsSilent ==
    /\ manual = "working" /\ manual' = "none"
    /\ cancelled' = FALSE
    /\ UNCHANGED <<call, runVars, textVars, retryVars, attempts, queueVars, waiting, boundVars>>

ManualEnds ==
    /\ manual = "working" /\ manual' = "none"
    /\ cancelled' = FALSE
    /\ UNCHANGED <<call, runVars, textVars, retryVars, attempts, queueVars, boundVars>>
    /\ waiting' = (waiting /\ ~Idle')

-----------------------------------------------------------------------------
CallStep(m) ==
    \/ QueueSteer(m) \/ QueueFollowUp(m) \/ Preflight(m)
    \/ PreCompact(m) \/ PreCompactEnds(m) \/ StartRun(m)

RunStep ==
    \/ Poll \/ \E kind \in Kinds : StreamEnds(kind)
    \/ ToolsEnd \/ TurnEnd \/ PrepareCompacts \/ NextTurn
    \/ RetryWaits \/ RunEnds \/ SleepEnds
    \/ Overflows \/ NearsLimit \/ CompactRetries \/ \E ok \in BOOLEAN : CompactEnds(ok)
    \/ QueueContinues \/ GatewayRetry \/ BackoffEnds \/ Settle

Next ==
    \/ \E m \in Prompts : Submit(m) \/ Refuse(m) \/ CallStep(m)
    \/ RunStep \/ ManualEnds
    \/ Abort \/ Compact

(* Handlers, requests, tools, timers and compactions end.                  *)
Fairness ==
    /\ \A m \in Prompts : WF_vars(CallStep(m) \/ Refuse(m))
    /\ WF_vars(RunStep) /\ WF_vars(ManualEnds)

Spec == Init /\ [][Next]_vars /\ Fairness

-----------------------------------------------------------------------------
(* Properties.                                                             *)

(* agent_settled comes once for each work, after everything it stands for: *)
(* retries, compaction, queued messages; and every work settles.           *)
PT == INSTANCE PiTurns WITH working <- pc # "none"
Implements == PT!Turns

Occurrences(m, s) == Cardinality({i \in DOMAIN s : s[i] = m})

(* A message that prompt() accepted is in exactly one place: a queue,      *)
(* drained, or the transcript; aborts, retries and compaction neither lose *)
(* nor repeat it.                                                          *)
HeardOnce ==
    \A m \in Prompts :
        Occurrences(m, steering \o followUp \o pendingMessages \o messages)
            = IF call[m] = "accepted" THEN 1 ELSE 0

(* No message is left behind in a queue when the session has settled.      *)
NothingStranded ==
    ~active => steering = <<>> /\ followUp = <<>> /\ pendingMessages = <<>>

(* The retries of Pi and those of the extension do not multiply, whatever  *)
(* aborts and compactions come in between: a request is made once and once *)
(* per retry, and all that once more after the recovery of an overflow.    *)
Limit == 1 + IF MaxRetries > GatewayRetries THEN MaxRetries ELSE GatewayRetries
FailuresBounded == failures <= 2 * Limit

(* No run goes on while compact() rewrites the transcript.                 *)
CompactsAlone == manual = "working" => pc = "none" /\ ~PreCompacting

(* Whoever aborts, and waits for the session to be idle, goes on.          *)
AbortReturns == waiting ~> ~waiting
=============================================================================
