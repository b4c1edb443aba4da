------------------------- MODULE AgentSessionProofs -------------------------
(***************************************************************************)
(* Proofs about AgentSession: types, CompactsAlone, NothingStranded, the   *)
(* safety part of the refinement of PiTurns, FailuresBounded and HeardOnce,*)
(* for any number of prompts, retries, turns and commands.                 *)
(***************************************************************************)
EXTENDS AgentSession, FiniteSetTheorems, FunctionTheorems, TLAPS

(* At most one prompt is in flight; while compact() waits or works, none   *)
(* is; past its input handlers it finds no run active.                     *)
Turn ==
    /\ active <=> pc # "none"
    /\ \A m, n \in Prompts : call[m] \in InFlight /\ call[n] \in InFlight => m = n
    /\ \A m \in Prompts : call[m] \in InFlight /\ call[m] # "input" => ~active
    /\ manual # "none" => \A m \in Prompts : call[m] \notin InFlight
    /\ manual = "waiting" => active
    /\ manual = "working" => ~active

(* What is drained is heard before the turn starts.                        *)
Held == pc \notin {"prepare", "midCompact"} => pendingMessages = <<>>

SessionInv == TypeOK /\ Turn /\ Held /\ NothingStranded

-----------------------------------------------------------------------------
LEMMA DrainedType ==
    ASSUME NEW q \in Seq(Prompts)
    PROVE  Drained(q) \in Seq(Prompts) /\ Rest(q) \in Seq(Prompts)
BY DEF Drained, Rest

LEMMA HearType ==
    ASSUME NEW batch \in Seq(Prompts), TypeOK, Hear(batch)
    PROVE  /\ messages' \in Seq(Prompts) /\ tail' \in {"open", "assistant"}
           /\ overflowTried' \in BOOLEAN /\ failures' \in Nat
<1>1. messages' \in Seq(Prompts)
  BY DEF TypeOK, Hear
<1>2. overflowTried' \in BOOLEAN
  BY DEF TypeOK, Hear
<1>3. tail' \in {"open", "assistant"} /\ failures' \in Nat
  BY DEF TypeOK, Hear
<1> QED
  BY <1>1, <1>2, <1>3

LEMMA AdvanceType ==
    ASSUME NEW m \in Prompts, NEW to \in {"new", "accepted", "refused"} \cup InFlight,
           TypeOK, Advance(m, to)
    PROVE  call' \in [Prompts -> {"new", "accepted", "refused"} \cup InFlight]
BY DEF TypeOK, Advance

(* Every step keeps the types.                                             *)
LEMMA SessionTypeStep == TypeOK /\ [Next]_vars => TypeOK'
<1> SUFFICES ASSUME TypeOK, [Next]_vars PROVE TypeOK'
  OBVIOUS
<1> USE SessionAssumption
<1>1. ASSUME NEW m \in Prompts, Submit(m) PROVE TypeOK'
  <2>1. Advance(m, IF manual = "working" THEN "refused" ELSE "input")
    BY <1>1 DEF Submit
  <2>2. call' \in [Prompts -> {"new", "accepted", "refused"} \cup InFlight]
    BY <2>1, AdvanceType DEF InFlight
  <2> QED
    BY <1>1, <2>2 DEF Submit, TypeOK, runVars, textVars, retryVars, queueVars, waitVars, boundVars
<1>2. ASSUME NEW m \in Prompts, QueueSteer(m) PROVE TypeOK'
  <2>1. call' \in [Prompts -> {"new", "accepted", "refused"} \cup InFlight]
    BY <1>2, AdvanceType DEF QueueSteer
  <2>2. steering' \in Seq(Prompts)
    BY <1>2 DEF QueueSteer, TypeOK
  <2> QED
    BY <1>2, <2>1, <2>2
    DEF QueueSteer, TypeOK, runVars, textVars, retryVars, queueVars, waitVars, boundVars
<1>3. ASSUME NEW m \in Prompts, QueueFollowUp(m) PROVE TypeOK'
  <2>1. call' \in [Prompts -> {"new", "accepted", "refused"} \cup InFlight]
    BY <1>3, AdvanceType DEF QueueFollowUp
  <2>2. followUp' \in Seq(Prompts)
    BY <1>3 DEF QueueFollowUp, TypeOK
  <2> QED
    BY <1>3, <2>1, <2>2
    DEF QueueFollowUp, TypeOK, runVars, textVars, retryVars, queueVars, waitVars, boundVars
<1>4. ASSUME NEW m \in Prompts, Refuse(m) \/ Preflight(m) PROVE TypeOK'
  <2>1. call' \in [Prompts -> {"new", "accepted", "refused"} \cup InFlight]
    BY <1>4, AdvanceType DEF Refuse, Preflight, InFlight
  <2> QED
    BY <1>4, <2>1
    DEF Refuse, Preflight, TypeOK, runVars, textVars, retryVars, queueVars, waitVars, boundVars
<1>5. ASSUME NEW m \in Prompts, PreCompact(m) PROVE TypeOK'
  <2>1. call' \in [Prompts -> {"new", "accepted", "refused"} \cup InFlight]
    BY <1>5, AdvanceType DEF PreCompact, InFlight
  <2> QED
    BY <1>5, <2>1 DEF PreCompact, TypeOK, runVars, queueVars, waitVars, boundVars
<1>6. ASSUME NEW m \in Prompts, PreCompactEnds(m) PROVE TypeOK'
  <2>1. call' \in [Prompts -> {"new", "accepted", "refused"} \cup InFlight]
    BY <1>6, AdvanceType DEF PreCompactEnds, InFlight
  <2>2. waiting' \in BOOLEAN
    BY <1>6 DEF PreCompactEnds
  <2> QED
    BY <1>6, <2>1, <2>2
    DEF PreCompactEnds, TypeOK, runVars, textVars, retryVars, queueVars, boundVars
<1>7. ASSUME NEW m \in Prompts, StartRun(m) PROVE TypeOK'
  <2>1. call' \in [Prompts -> {"new", "accepted", "refused"} \cup InFlight]
    BY <1>7, AdvanceType DEF StartRun
  <2>2. <<m>> \in Seq(Prompts) /\ Hear(<<m>>)
    BY <1>7 DEF StartRun
  <2>3. active' \in BOOLEAN /\ aborted' \in BOOLEAN
    BY <1>7 DEF StartRun
  <2>4. /\ messages' \in Seq(Prompts) /\ tail' \in {"open", "assistant"}
        /\ overflowTried' \in BOOLEAN /\ failures' \in Nat
    BY <2>2, HearType
  <2>5. /\ pc' = "poll" /\ attempts' = 0
        /\ UNCHANGED <<settled, pendingMessages, last, retryAttempt, willRetry, queueVars, waitVars,
                       boundVars>>
    BY <1>7 DEF StartRun
  <2> QED
    BY <2>1, <2>3, <2>4, <2>5 DEF TypeOK, LoopPcs, queueVars, waitVars, boundVars
<1>8. CASE Poll
  <2>1. Drained(steering) \in Seq(Prompts) /\ steering' \in Seq(Prompts) /\ Hear(Drained(steering))
    BY <1>8, DrainedType DEF Poll, TypeOK
  <2> QED
    BY <1>8, <2>1, HearType DEF Poll, TypeOK, LoopPcs, waitVars, boundVars
<1>9. ASSUME NEW kind \in Kinds, StreamEnds(kind) PROVE TypeOK'
  <2>1. pc' \in LoopPcs
    BY <1>9 DEF StreamEnds, LoopPcs, Kinds
  <2>2. tools' \in 0..MaxTools
    <3>1. trouble \subseteq {"flaky", "gateway"}
      BY DEF TypeOK
    <3>2. kind = "tools" => tools < MaxTools
      BY <1>9, <3>1 DEF StreamEnds, Outcomes
    <3> QED
      BY <1>9, <3>2 DEF StreamEnds, TypeOK
  <2>3. /\ retryAttempt' \in 0..MaxRetries /\ attempts' \in 0..GatewayRetries
        /\ failures' \in Nat /\ overflowTried' \in BOOLEAN
    BY <1>9 DEF StreamEnds, TypeOK
  <2> QED
    BY <1>9, <2>1, <2>2, <2>3 DEF StreamEnds, TypeOK, queueVars, waitVars
<1>10. CASE ToolsEnd
  BY <1>10 DEF ToolsEnd, TypeOK, LoopPcs, retryVars, queueVars, waitVars, boundVars
<1>11. CASE TurnEnd
  <2>1. steering' \in Seq(Prompts) /\ followUp' \in Seq(Prompts) /\ pendingMessages' \in Seq(Prompts)
    BY <1>11, DrainedType DEF TurnEnd, TypeOK
  <2> QED
    BY <1>11, <2>1 DEF TurnEnd, TypeOK, LoopPcs, retryVars, waitVars, boundVars
<1>12. CASE PrepareCompacts
  BY <1>12 DEF PrepareCompacts, TypeOK, LoopPcs, textVars, retryVars, queueVars, waitVars, boundVars
<1>13. CASE NextTurn
  <2>1. PICK batch \in Seq(Prompts) : Hear(batch)
    BY <1>13, DrainedType DEF NextTurn, TypeOK
  <2>2. steering' \in Seq(Prompts)
    BY <1>13, DrainedType DEF NextTurn, TypeOK
  <2>3. waiting' \in BOOLEAN /\ cancelled' \in BOOLEAN /\ pendingMessages' \in Seq(Prompts)
    BY <1>13 DEF NextTurn
  <2> QED
    BY <1>13, <2>1, <2>2, <2>3, HearType DEF NextTurn, TypeOK, LoopPcs, boundVars
<1>14. CASE RetryWaits
  <2>1. aborted' \in BOOLEAN
    BY <1>14 DEF RetryWaits
  <2> QED
    BY <1>14, <2>1 DEF RetryWaits, TypeOK, PostPcs, queueVars, waitVars, boundVars
<1>15. CASE RunEnds
  <2>1. aborted' \in BOOLEAN
    BY <1>15 DEF RunEnds
  <2> QED
    BY <1>15, <2>1 DEF RunEnds, TypeOK, PostPcs, textVars, queueVars, waitVars, boundVars
<1>16. CASE SleepEnds
  <2>1. aborted' \in BOOLEAN
    BY <1>16 DEF SleepEnds, ContinueRun
  <2> QED
    BY <1>16, <2>1
    DEF SleepEnds, ContinueRun, TypeOK, LoopPcs, retryVars, queueVars, waitVars, boundVars
<1>17. CASE Overflows \/ NearsLimit
  BY <1>17 DEF Overflows, NearsLimit, TypeOK, PostPcs, textVars, queueVars, waitVars, boundVars
<1>18. CASE CompactRetries
  <2>1. aborted' \in BOOLEAN /\ willRetry' \in BOOLEAN
    BY <1>18 DEF CompactRetries, ContinueRun
  <2> QED
    BY <1>18, <2>1 DEF CompactRetries, ContinueRun, TypeOK, LoopPcs, queueVars, waitVars, boundVars
<1>19. ASSUME NEW ok \in BOOLEAN, CompactEnds(ok) PROVE TypeOK'
  <2>1. waiting' \in BOOLEAN
    BY <1>19 DEF CompactEnds
  <2> QED
    BY <1>19, <2>1 DEF CompactEnds, TypeOK, PostPcs, queueVars, boundVars
<1>20. CASE QueueContinues
  <2>1. CASE tail = "open"
    <3>1. aborted' \in BOOLEAN
      BY <1>20, <2>1 DEF QueueContinues, ContinueRun
    <3> QED
      BY <1>20, <2>1, <3>1
      DEF QueueContinues, ContinueRun, TypeOK, LoopPcs, queueVars, waitVars, boundVars
  <2>2. CASE tail # "open"
    <3>1. PICK batch \in Seq(Prompts) : Hear(batch)
      BY <1>20, <2>2, DrainedType DEF QueueContinues, TypeOK
    <3>2. steering' \in Seq(Prompts) /\ followUp' \in Seq(Prompts)
      BY <1>20, <2>2, DrainedType DEF QueueContinues, TypeOK
    <3> QED
      <4>1. aborted' \in BOOLEAN
        BY <1>20, <2>2 DEF QueueContinues
      <4>2. /\ messages' \in Seq(Prompts) /\ tail' \in {"open", "assistant"}
            /\ overflowTried' \in BOOLEAN /\ failures' \in Nat
        BY <3>1, HearType
      <4>3. /\ pc' \in LoopPcs /\ attempts' = 0
            /\ UNCHANGED <<call, retryAttempt, willRetry, waitVars, boundVars, active, settled,
                           pendingMessages, last>>
        BY <1>20, <2>2 DEF QueueContinues, LoopPcs
      <4> QED
        BY <3>2, <4>1, <4>2, <4>3 DEF TypeOK, waitVars, boundVars
  <2> QED
    BY <2>1, <2>2
<1>21. CASE GatewayRetry
  BY <1>21 DEF GatewayRetry, GatewayWants, TypeOK, PostPcs, textVars, retryVars, queueVars,
     waitVars, boundVars
<1>22. CASE BackoffEnds
  BY <1>22 DEF BackoffEnds, TypeOK, LoopPcs, retryVars, queueVars, waitVars, boundVars
<1>23. CASE Settle
  <2>1. active' \in BOOLEAN /\ waiting' \in BOOLEAN
    BY <1>23 DEF Settle
  <2> QED
    BY <1>23, <2>1 DEF Settle, TypeOK, textVars, retryVars, queueVars, boundVars
<1>24. ASSUME AbortAll
       PROVE  /\ commands' \in 0..MaxCommands /\ aborted' \in BOOLEAN /\ cancelled' \in BOOLEAN
              /\ pc' \in {"none"} \cup LoopPcs \cup PostPcs
              /\ retryAttempt' \in 0..MaxRetries /\ failures' \in Nat
  BY <1>24 DEF AbortAll, TypeOK, PostPcs
<1>25. CASE Abort
  <2>1. AbortAll /\ waiting' \in BOOLEAN /\ manual' = manual
    BY <1>25 DEF Abort
  <2> QED
    BY <1>24, <2>1 DEF AbortAll, TypeOK, textVars, queueVars
<1>26. CASE Compact
  <2>1. AbortAll /\ waiting' = waiting /\ manual' \in {"none", "waiting", "working"}
    BY <1>26 DEF Compact
  <2> QED
    BY <1>24, <2>1 DEF AbortAll, TypeOK, textVars, queueVars
<1>27. CASE ManualEnds
  <2>1. waiting' \in BOOLEAN
    BY <1>27 DEF ManualEnds
  <2> QED
    BY <1>27, <2>1 DEF ManualEnds, TypeOK, runVars, textVars, retryVars, queueVars, boundVars
<1>28. CASE UNCHANGED vars
  BY <1>28 DEF vars, runVars, textVars, retryVars, queueVars, waitVars, boundVars, TypeOK
<1> QED
  BY <1>1, <1>2, <1>3, <1>4, <1>5, <1>6, <1>7, <1>8, <1>9, <1>10, <1>11, <1>12, <1>13, <1>14,
     <1>15, <1>16, <1>17, <1>18, <1>19, <1>20, <1>21, <1>22, <1>23, <1>25, <1>26, <1>27, <1>28
  DEF Next, CallStep, RunStep

LEMMA SessionInitType == Init => TypeOK
<1> SUFFICES ASSUME Init PROVE TypeOK
  OBVIOUS
<1>1. /\ active \in BOOLEAN /\ aborted \in BOOLEAN /\ overflowTried \in BOOLEAN
      /\ willRetry \in BOOLEAN /\ cancelled \in BOOLEAN /\ waiting \in BOOLEAN
  BY DEF Init
<1> QED
  BY <1>1, SessionAssumption DEF Init, TypeOK

(* The variables have their types.                                         *)
THEOREM SessionTypes == Spec => []TypeOK
<1> QED
  BY SessionInitType, SessionTypeStep, PTL DEF Spec

-----------------------------------------------------------------------------
LEMMA QueueEnds ==
    ASSUME NEW q \in Seq(Prompts)
    PROVE  q = <<>> => Drained(q) = <<>> /\ Rest(q) = <<>>
BY DEF Drained, Rest

(* A prompt command that moves on, from one place in flight to another or  *)
(* out of it, leaves at most one in flight.                                *)
LEMMA OneInFlight ==
    ASSUME TypeOK, Turn, NEW m \in Prompts, NEW to, Advance(m, to), call[m] \in InFlight
    PROVE  /\ \A k, n \in Prompts : call'[k] \in InFlight /\ call'[n] \in InFlight => k = n
           /\ manual = "none"
           /\ \A n \in Prompts : call'[n] \in InFlight => n = m /\ call'[n] = to
BY DEF TypeOK, Turn, Advance

(* Every step keeps the order of prompts, runs and compactions.            *)
LEMMA TurnStep == TypeOK /\ Turn /\ [Next]_vars => Turn'
<1> SUFFICES ASSUME TypeOK, Turn, [Next]_vars PROVE Turn'
  OBVIOUS
<1>1. ASSUME NEW m \in Prompts, Submit(m) PROVE Turn'
  <2>1. CASE manual = "working"
    BY <1>1, <2>1 DEF Submit, Advance, Turn, TypeOK, InFlight, Quiet, runVars, waitVars
  <2>2. CASE manual # "working"
    BY <1>1, <2>2 DEF Submit, Advance, Turn, TypeOK, InFlight, Quiet, runVars, waitVars
  <2> QED
    BY <2>1, <2>2
<1>2. ASSUME NEW m \in Prompts, NEW to \in {"accepted", "refused"},
             Advance(m, to), call[m] \in InFlight, UNCHANGED <<runVars, waitVars>>
      PROVE  Turn'
  BY <1>2, OneInFlight DEF Turn, InFlight, runVars, waitVars
<1>3. ASSUME NEW m \in Prompts, QueueSteer(m) \/ QueueFollowUp(m) \/ Refuse(m) PROVE Turn'
  BY <1>2, <1>3 DEF QueueSteer, QueueFollowUp, Refuse, InFlight
<1>4. ASSUME NEW m \in Prompts, Preflight(m) \/ PreCompact(m) PROVE Turn'
  <2>1. call[m] \in InFlight /\ ~active /\ UNCHANGED <<runVars, waitVars>>
    BY <1>4 DEF Preflight, PreCompact, InFlight, Turn
  <2> QED
    BY <1>4, <2>1, OneInFlight DEF Preflight, PreCompact, Turn, runVars, waitVars
<1>5. ASSUME NEW m \in Prompts, PreCompactEnds(m) PROVE Turn'
  <2>1. call[m] \in InFlight /\ ~active /\ UNCHANGED <<runVars, manual>>
    BY <1>5 DEF PreCompactEnds, InFlight, Turn
  <2> QED
    BY <1>5, <2>1, OneInFlight DEF PreCompactEnds, Turn, runVars
<1>6. ASSUME NEW m \in Prompts, StartRun(m) PROVE Turn'
  <2>1. call[m] \in InFlight /\ manual = "none" /\ Advance(m, "accepted")
    BY <1>6, OneInFlight DEF StartRun, InFlight
  <2>2. \A n \in Prompts : call'[n] \notin InFlight
    BY <2>1, OneInFlight DEF InFlight
  <2>3. active' /\ pc' = "poll" /\ manual' = "none"
    BY <1>6, <2>1 DEF StartRun, waitVars
  <2> QED
    BY <2>2, <2>3 DEF Turn
<1>7. ASSUME active, UNCHANGED <<call, active, manual>>, pc' # "none" PROVE Turn'
  BY <1>7 DEF Turn
<1>8. CASE RunStep /\ ~Settle
  <2>1. pc \in LoopPcs \cup PostPcs /\ pc' # "none" /\ UNCHANGED <<call, active, manual>>
    BY <1>8 DEF RunStep, Poll, StreamEnds, ToolsEnd, TurnEnd, PrepareCompacts, NextTurn, RetryWaits,
       RunEnds, SleepEnds, ContinueRun, Overflows, NearsLimit, CompactRetries, CompactEnds,
       QueueContinues, GatewayRetry, BackoffEnds, LoopPcs, PostPcs, waitVars
  <2>2. active
    BY <2>1 DEF Turn, LoopPcs, PostPcs
  <2> QED
    BY <1>7, <2>1, <2>2
<1>9. CASE Settle
  BY <1>9 DEF Settle, Turn, TypeOK
<1>10. ASSUME AbortAll PROVE UNCHANGED <<call, active>> /\ (pc' = "none" <=> pc = "none")
  BY <1>10 DEF AbortAll
<1>11. CASE Abort
  BY <1>10, <1>11 DEF Abort, Turn
<1>12. CASE Compact
  <2>1. \A m \in Prompts : call[m] \notin InFlight
    BY <1>12 DEF Compact, Quiet
  <2>2. ~PreCompacting
    BY <2>1 DEF PreCompacting, InFlight
  <2>3. Idle <=> ~active
    BY <1>12, <2>2 DEF Compact, Idle, Compacting, Turn
  <2> QED
    BY <1>10, <1>12, <2>1, <2>3 DEF Compact, Turn
<1>13. CASE ManualEnds
  BY <1>13 DEF ManualEnds, Turn, runVars
<1>14. CASE UNCHANGED vars
  BY <1>14 DEF vars, runVars, waitVars, Turn
<1> QED
  BY <1>1, <1>3, <1>4, <1>5, <1>6, <1>8, <1>9, <1>11, <1>12, <1>13, <1>14 DEF Next, CallStep, RunStep

(* Every step keeps what is queued with a run that will hear it.           *)
LEMMA HeldStep == TypeOK /\ Turn /\ Held /\ NothingStranded /\ [Next]_vars
                      => Held' /\ NothingStranded'
<1> SUFFICES ASSUME TypeOK, Turn, Held, NothingStranded, [Next]_vars
             PROVE  Held' /\ NothingStranded'
  OBVIOUS
<1>1. ASSUME UNCHANGED <<pc, active, pendingMessages, queueVars>> PROVE Held' /\ NothingStranded'
  BY <1>1 DEF Held, NothingStranded, queueVars
<1>2. ASSUME NEW m \in Prompts,
             Submit(m) \/ Refuse(m) \/ Preflight(m) \/ PreCompact(m) \/ PreCompactEnds(m)
      PROVE  Held' /\ NothingStranded'
  BY <1>1, <1>2 DEF Submit, Refuse, Preflight, PreCompact, PreCompactEnds, runVars, textVars
<1>3. ASSUME NEW m \in Prompts, QueueSteer(m) \/ QueueFollowUp(m) PROVE Held' /\ NothingStranded'
  BY <1>3 DEF QueueSteer, QueueFollowUp, Held, NothingStranded, runVars, textVars
<1>4. ASSUME active', pendingMessages' = pendingMessages, pc \notin {"prepare", "midCompact"},
             pc' \notin {"prepare", "midCompact"}
      PROVE  Held' /\ NothingStranded'
  BY <1>4 DEF Held, NothingStranded
<1>5. ASSUME NEW m \in Prompts, StartRun(m) PROVE Held' /\ NothingStranded'
  <2>1. pc = "none"
    BY <1>5 DEF StartRun, Turn, InFlight
  <2> QED
    BY <1>4, <1>5, <2>1 DEF StartRun
<1>6. CASE \/ Poll \/ (\E kind \in Kinds : StreamEnds(kind)) \/ ToolsEnd \/ RetryWaits \/ RunEnds
           \/ SleepEnds \/ Overflows \/ NearsLimit \/ CompactRetries
           \/ (\E ok \in BOOLEAN : CompactEnds(ok)) \/ QueueContinues \/ GatewayRetry \/ BackoffEnds
  <2>1. /\ pc \notin {"none", "prepare", "midCompact"} /\ pc' \notin {"prepare", "midCompact"}
        /\ UNCHANGED <<active, pendingMessages>>
    BY <1>6 DEF Poll, StreamEnds, ToolsEnd, RetryWaits, RunEnds, SleepEnds, ContinueRun, Overflows,
       NearsLimit, CompactRetries, CompactEnds, QueueContinues, GatewayRetry, BackoffEnds, textVars
  <2> QED
    BY <1>4, <2>1 DEF Turn
<1>7. CASE TurnEnd
  <2>1. pc = "turnEnd" /\ active' /\ active
    BY <1>7 DEF TurnEnd, Turn
  <2>2. pc' # "prepare" => followUp = <<>>
    BY <1>7 DEF TurnEnd
  <2>3. pc' # "prepare" => pendingMessages' = <<>>
    BY <1>7, <2>2, QueueEnds DEF TurnEnd, TypeOK
  <2> QED
    BY <1>7, <2>1, <2>3 DEF TurnEnd, Held, NothingStranded
<1>8. CASE PrepareCompacts \/ NextTurn
  BY <1>8 DEF PrepareCompacts, NextTurn, Held, NothingStranded, Turn
<1>9. CASE Settle
  BY <1>9 DEF Settle, Queued, Held, NothingStranded, textVars, queueVars
<1>10. CASE Abort \/ Compact
  <2>1. /\ UNCHANGED <<active, pendingMessages, queueVars>>
        /\ pc' = pc \/ (pc = "sleep" /\ pc' = "post")
    BY <1>10 DEF Abort, Compact, AbortAll, textVars
  <2> QED
    BY <2>1 DEF Held, NothingStranded, queueVars
<1>11. CASE ManualEnds \/ UNCHANGED vars
  BY <1>1, <1>11 DEF ManualEnds, vars, runVars, textVars
<1> QED
  BY <1>2, <1>3, <1>5, <1>6, <1>7, <1>8, <1>9, <1>10, <1>11 DEF Next, CallStep, RunStep

LEMMA SessionInit == Init => SessionInv
<1>1. Init => Turn /\ Held /\ NothingStranded
  BY DEF Init, Turn, Held, NothingStranded, InFlight
<1> QED
  BY <1>1, SessionInitType DEF SessionInv

LEMMA SessionStep == SessionInv /\ [Next]_vars => SessionInv'
BY SessionTypeStep, TurnStep, HeldStep DEF SessionInv

THEOREM SessionInvariant == Spec => []SessionInv
<1> QED
  BY SessionInit, SessionStep, PTL DEF Spec

(* compact() works alone.                                                  *)
THEOREM SessionCompactsAlone == Spec => []CompactsAlone
<1>1. SessionInv => CompactsAlone
  BY DEF SessionInv, Turn, CompactsAlone, PreCompacting, InFlight
<1> QED
  BY <1>1, SessionInvariant, PTL

(* A settled session has no message left in a queue.                       *)
THEOREM SessionNothingStranded == Spec => []NothingStranded
<1>1. SessionInv => NothingStranded
  BY DEF SessionInv
<1> QED
  BY <1>1, SessionInvariant, PTL

(* The session begins to work and settles in turn, and says so once: the   *)
(* safety part of the refinement Implements.                               *)
THEOREM SessionTurns == Spec => PT!TurnsInit /\ [][PT!Begin \/ PT!Settle]_(PT!turnVars)
<1>1. Init => PT!TurnsInit
  BY DEF Init, PT!TurnsInit
<1>2. SessionInv /\ [Next]_vars => [PT!Begin \/ PT!Settle]_(PT!turnVars)
  <2> SUFFICES ASSUME SessionInv, [Next]_vars
               PROVE  [PT!Begin \/ PT!Settle]_(PT!turnVars)
    OBVIOUS
  <2>1. ASSUME NEW m \in Prompts, StartRun(m) PROVE PT!Begin
    BY <2>1 DEF StartRun, SessionInv, Turn, InFlight, PT!Begin
  <2>2. CASE Settle
    BY <2>2 DEF Settle, PT!Settle
  <2>3. ASSUME settled' = settled, (pc' = "none") <=> (pc = "none")
        PROVE  UNCHANGED PT!turnVars
    BY <2>3 DEF PT!turnVars
  <2>4. ASSUME NEW m \in Prompts, Submit(m) \/ Refuse(m) \/ (CallStep(m) /\ ~StartRun(m))
        PROVE  UNCHANGED PT!turnVars
    <3>1. UNCHANGED <<pc, settled>>
      BY <2>4 DEF Submit, Refuse, CallStep, QueueSteer, QueueFollowUp, Preflight, PreCompact,
         PreCompactEnds, runVars
    <3> QED
      BY <2>3, <3>1
  <2>5. CASE RunStep /\ ~Settle
    <3>1. pc # "none" /\ pc' # "none" /\ settled' = settled
      BY <2>5 DEF RunStep, Poll, StreamEnds, ToolsEnd, TurnEnd, PrepareCompacts, NextTurn, RetryWaits,
         RunEnds, SleepEnds, ContinueRun, Overflows, NearsLimit, CompactRetries, CompactEnds,
         QueueContinues, GatewayRetry, BackoffEnds
    <3> QED
      BY <2>3, <3>1
  <2>6. CASE Abort \/ Compact \/ ManualEnds \/ UNCHANGED vars
    <3>1. settled' = settled /\ (pc' = "none" <=> pc = "none")
      BY <2>6 DEF Abort, Compact, AbortAll, ManualEnds, vars, runVars
    <3> QED
      BY <2>3, <3>1
  <2> QED
    BY <2>1, <2>2, <2>4, <2>5, <2>6 DEF Next
<1> QED
  BY <1>1, <1>2, SessionInvariant, PTL DEF Spec

-----------------------------------------------------------------------------
(* FailuresBounded.  A provider has one trouble at most, so that only one  *)
(* of the two retry counters moves; the requests that have failed are      *)
(* those that the counters tell of, and once more Limit after an overflow. *)

Again == IF overflowTried THEN Limit ELSE 0

OneTrouble ==
    /\ "flaky" \notin trouble => retryAttempt = 0 /\ last # "flaky"
    /\ "gateway" \notin trouble => attempts = 0 /\ last # "gateway"
    /\ "flaky" \notin trouble \/ "gateway" \notin trouble

Asking == {"poll", "stream", "tools", "turnEnd", "prepare", "midCompact", "sleep", "backoff"}

Paid ==
    /\ pc \in Asking => failures <= retryAttempt + attempts + Again
    /\ pc = "sleep" => last = "flaky"
    /\ pc = "end" => failures <= retryAttempt + attempts + Again + 1 /\ tail = "assistant"
    /\ pc \in {"post", "compact", "compacted"} =>
          /\ last = "gateway" => failures <= attempts + Again + 1
          /\ tail = "open" => failures <= Again
    /\ pc = "post" /\ last \in {"overflow", "length"} /\ ~overflowTried => failures <= Limit
    /\ pc = "compact" /\ willRetry => failures <= Again

BudgetInv == FailuresBounded /\ OneTrouble /\ Paid

LEMMA LimitFacts ==
    ASSUME TypeOK, OneTrouble
    PROVE  /\ Limit \in Nat /\ Again \in Nat /\ Again <= Limit
           /\ retryAttempt + attempts + 1 <= Limit
           /\ retryAttempt \in Nat /\ attempts \in Nat /\ failures \in Nat
<1> USE SessionAssumption
<1>1. Limit \in Nat /\ MaxRetries + 1 <= Limit /\ GatewayRetries + 1 <= Limit
  BY DEF Limit
<1>2. retryAttempt \in 0..MaxRetries /\ attempts \in 0..GatewayRetries /\ failures \in Nat
  BY DEF TypeOK
<1>3. retryAttempt = 0 \/ attempts = 0
  BY DEF OneTrouble
<1>4. Again \in Nat /\ Again <= Limit
  BY <1>1 DEF Again
<1> QED
  BY <1>1, <1>2, <1>3, <1>4

LEMMA HearNothing == Hear(<<>>) => UNCHANGED <<tail, overflowTried, failures>>
BY DEF Hear

LEMMA HearSome ==
    ASSUME NEW batch, batch # <<>>, Hear(batch)
    PROVE  failures' = 0 /\ tail' = "open" /\ ~overflowTried'
BY DEF Hear

LEMMA HearEither ==
    ASSUME NEW batch, Hear(batch)
    PROVE  \/ UNCHANGED <<tail, overflowTried, failures>>
           \/ failures' = 0 /\ tail' = "open" /\ ~overflowTried'
BY HearNothing, HearSome

(* Steps that pay nothing and ask for nothing.                             *)
LEMMA BudgetKept ==
    ASSUME BudgetInv,
           UNCHANGED <<pc, tail, last, retryAttempt, overflowTried, willRetry, failures, attempts, trouble>>
    PROVE  BudgetInv'
BY DEF BudgetInv, FailuresBounded, OneTrouble, Paid, Again

(* No run, no request: what the next run does to the counters is its own.  *)
LEMMA BudgetIdle ==
    ASSUME BudgetInv, pc' = "none",
           UNCHANGED <<last, retryAttempt, failures, attempts, trouble>>
    PROVE  BudgetInv'
BY DEF BudgetInv, FailuresBounded, OneTrouble, Paid, Asking

LEMMA BudgetStep == TypeOK /\ Turn /\ BudgetInv /\ [Next]_vars /\ TypeOK' /\ ~StartsAnew => BudgetInv'
<1> SUFFICES ASSUME TypeOK, Turn, BudgetInv, [Next]_vars, TypeOK', ~StartsAnew PROVE BudgetInv'
  OBVIOUS
<1>0. /\ Limit \in Nat /\ Again \in Nat /\ Again <= Limit
      /\ retryAttempt + attempts + 1 <= Limit
      /\ retryAttempt \in Nat /\ attempts \in Nat /\ failures \in Nat /\ failures <= 2 * Limit
  BY LimitFacts DEF BudgetInv, FailuresBounded
<1>00. Again' = (IF overflowTried' THEN Limit ELSE 0) /\ Limit' = Limit
  BY DEF Again
<1>1. ASSUME NEW m \in Prompts,
             Submit(m) \/ QueueSteer(m) \/ QueueFollowUp(m) \/ Refuse(m) \/ Preflight(m) \/ PreCompactEnds(m)
      PROVE  BudgetInv'
  BY <1>1, BudgetKept DEF Submit, QueueSteer, QueueFollowUp, Refuse, Preflight, PreCompactEnds,
     runVars, textVars, retryVars, boundVars
<1>2. ASSUME NEW m \in Prompts, PreCompact(m) PROVE BudgetInv'
  <2>1. pc = "none"
    BY <1>2 DEF PreCompact, Turn, InFlight
  <2> QED
    BY <1>2, <2>1, BudgetIdle DEF PreCompact, runVars, boundVars
<1>3. ASSUME NEW m \in Prompts, StartRun(m) PROVE BudgetInv'
  <2>1. failures' = 0 /\ pc' = "poll" /\ attempts' = 0 /\ UNCHANGED <<last, retryAttempt, trouble>>
    BY <1>3, HearSome DEF StartRun, boundVars
  <2>2. OneTrouble'
    BY <2>1 DEF BudgetInv, OneTrouble
  <2>3. Again' \in Nat
    BY <1>0, <1>00
  <2> QED
    BY <1>0, <1>00, <2>1, <2>2, <2>3 DEF BudgetInv, FailuresBounded, Paid, Asking
<1>4. CASE Poll \/ NextTurn
  <2>1. /\ pc \in Asking /\ pc' = "stream" /\ UNCHANGED <<last, retryAttempt, attempts, trouble>>
        /\ \E batch : Hear(batch)
    BY <1>4 DEF Poll, NextTurn, Asking, boundVars
  <2>2. failures' = 0 \/ UNCHANGED <<overflowTried, failures>>
    BY <2>1, HearEither
  <2>3. failures <= retryAttempt + attempts + Again
    BY <2>1 DEF BudgetInv, Paid
  <2>4. failures' <= retryAttempt' + attempts' + Again' /\ failures' <= 2 * Limit
    BY <1>0, <1>00, <2>1, <2>2, <2>3 DEF Again
  <2>5. OneTrouble'
    BY <2>1 DEF BudgetInv, OneTrouble
  <2> QED
    BY <1>00, <2>1, <2>4, <2>5 DEF BudgetInv, FailuresBounded, Paid
<1>5. ASSUME NEW kind \in Kinds, StreamEnds(kind) PROVE BudgetInv'
  <2>1. /\ failures <= retryAttempt + attempts + Again
        /\ last' = kind /\ tail' = "assistant" /\ trouble' = trouble
        /\ pc' \in {"end", "tools", "turnEnd"}
    BY <1>5 DEF StreamEnds, BudgetInv, Paid, Asking
  <2>2. (kind = "flaky" => "flaky" \in trouble) /\ (kind = "gateway" => "gateway" \in trouble)
    BY <1>5 DEF StreamEnds, Outcomes
  <2>3. CASE kind \in Errors
    <3>0. overflowTried' = overflowTried
      BY <1>5, <2>3 DEF StreamEnds, TypeOK
    <3>1. /\ pc' = "end" /\ failures' = failures + 1 /\ UNCHANGED <<retryAttempt, attempts>>
          /\ Again' = Again
      BY <1>5, <1>00, <2>3, <3>0 DEF StreamEnds, Errors, Again
    <3>2. OneTrouble'
      BY <2>1, <2>2, <3>1 DEF BudgetInv, OneTrouble
    <3>3. failures' <= retryAttempt' + attempts' + Again' + 1 /\ failures' <= 2 * Limit
      BY <1>0, <1>00, <2>1, <3>1 DEF Again
    <3> QED
      BY <1>00, <2>1, <3>1, <3>2, <3>3 DEF BudgetInv, FailuresBounded, Paid, Asking
  <2>4. CASE kind \notin Errors
    <3>1. failures' = 0 /\ retryAttempt' = 0 /\ attempts' = 0
      BY <1>5, <2>4 DEF StreamEnds
    <3>2. OneTrouble'
      BY <2>1, <2>2, <3>1 DEF BudgetInv, OneTrouble
    <3>3. Again' \in Nat
      BY <1>0, <1>00
    <3> QED
      BY <1>0, <1>00, <2>1, <3>1, <3>2, <3>3 DEF BudgetInv, FailuresBounded, Paid, Asking
  <2> QED
    BY <2>3, <2>4
<1>6. CASE ToolsEnd \/ TurnEnd \/ PrepareCompacts
  <2>1. /\ pc \in Asking /\ pc' \in {"turnEnd", "prepare", "midCompact", "end"}
        /\ pc' = "end" => tail' = "assistant"
        /\ UNCHANGED <<last, retryAttempt, overflowTried, failures, attempts, trouble>>
    BY <1>6 DEF ToolsEnd, TurnEnd, PrepareCompacts, TypeOK, textVars, retryVars, boundVars, Asking
  <2>2. failures <= retryAttempt + attempts + Again
    BY <2>1 DEF BudgetInv, Paid
  <2>3. failures' <= retryAttempt' + attempts' + Again' /\ Again' = Again
    BY <1>00, <2>1, <2>2 DEF Again
  <2>4. failures' <= retryAttempt' + attempts' + Again' + 1
    BY <1>0, <2>1, <2>3
  <2>5. OneTrouble'
    BY <2>1 DEF BudgetInv, OneTrouble
  <2> QED
    BY <1>0, <1>00, <2>1, <2>3, <2>4, <2>5 DEF BudgetInv, FailuresBounded, Paid
<1>7. CASE RetryWaits
  <2>1. /\ pc = "end" /\ pc' = "sleep" /\ last = "flaky" /\ retryAttempt' = retryAttempt + 1
        /\ UNCHANGED <<last, overflowTried, failures, attempts, trouble>>
    BY <1>7 DEF RetryWaits, boundVars
  <2>2. failures <= retryAttempt + attempts + Again + 1
    BY <2>1 DEF BudgetInv, Paid
  <2>3. failures' <= retryAttempt' + attempts' + Again' /\ failures' <= 2 * Limit
    BY <1>0, <1>00, <2>1, <2>2 DEF Again
  <2>4. OneTrouble'
    BY <2>1 DEF BudgetInv, OneTrouble
  <2> QED
    BY <1>00, <2>1, <2>3, <2>4 DEF BudgetInv, FailuresBounded, Paid
<1>8. CASE RunEnds
  <2>1. /\ pc = "end" /\ pc' = "post" /\ tail' = "assistant"
        /\ retryAttempt' \in {0, retryAttempt}
        /\ UNCHANGED <<last, overflowTried, failures, attempts, trouble>>
    BY <1>8 DEF RunEnds, BudgetInv, Paid, textVars, boundVars
  <2>2. failures <= retryAttempt + attempts + Again + 1
    BY <2>1 DEF BudgetInv, Paid
  <2>3. OneTrouble'
    BY <2>1 DEF BudgetInv, OneTrouble
  <2>4. last = "gateway" => failures <= attempts + Again + 1
    <3>1. last = "gateway" => retryAttempt = 0
      BY DEF BudgetInv, OneTrouble
    <3> QED
      BY <1>0, <2>2, <3>1
  <2>5. ~overflowTried => failures <= Limit
    BY <1>0, <2>2 DEF Again
  <2>6. Again' = Again
    BY <1>00, <2>1 DEF Again
  <2> QED
    BY <1>0, <1>00, <2>1, <2>3, <2>4, <2>5, <2>6 DEF BudgetInv, FailuresBounded, Paid, Asking
<1>9. CASE SleepEnds \/ CompactRetries
  <2>1. /\ pc' = "poll" /\ attempts' = 0
        /\ UNCHANGED <<last, retryAttempt, overflowTried, failures, trouble>>
    BY <1>9 DEF SleepEnds, CompactRetries, ContinueRun, retryVars, boundVars
  <2>2. failures <= retryAttempt + Again
    <3>1. CASE SleepEnds
      <4>1. pc = "sleep" /\ last = "flaky" /\ failures <= retryAttempt + attempts + Again
        BY <3>1 DEF SleepEnds, BudgetInv, Paid, Asking
      <4>2. attempts = 0
        BY <4>1 DEF BudgetInv, OneTrouble
      <4> QED
        BY <1>0, <4>1, <4>2
    <3>2. CASE CompactRetries
      <4>1. failures <= Again
        BY <3>2 DEF CompactRetries, BudgetInv, Paid
      <4> QED
        BY <1>0, <4>1
    <3> QED
      BY <1>9, <3>1, <3>2
  <2>3. OneTrouble'
    BY <2>1 DEF BudgetInv, OneTrouble
  <2>4. failures' <= retryAttempt' + attempts' + Again'
    BY <1>0, <1>00, <2>1, <2>2 DEF Again
  <2> QED
    BY <1>0, <1>00, <2>1, <2>3, <2>4 DEF BudgetInv, FailuresBounded, Paid
<1>10. CASE Overflows
  <2>1. /\ pc = "post" /\ pc' = "compact" /\ last \in {"overflow", "length"}
        /\ ~overflowTried /\ overflowTried'
        /\ UNCHANGED <<last, retryAttempt, failures, attempts, trouble>>
    BY <1>10 DEF Overflows, boundVars
  <2>2. failures <= Limit /\ Again' = Limit
    BY <1>00, <2>1 DEF BudgetInv, Paid
  <2>3. OneTrouble'
    BY <2>1 DEF BudgetInv, OneTrouble
  <2> QED
    BY <1>0, <1>00, <2>1, <2>2, <2>3 DEF BudgetInv, FailuresBounded, Paid, Asking
<1>11. CASE NearsLimit \/ \E ok \in BOOLEAN : CompactEnds(ok)
  <2>1. /\ pc \in {"post", "compact"} /\ pc' \in {"compact", "compacted"} /\ ~willRetry'
        /\ tail' \in {tail, "assistant"}
        /\ UNCHANGED <<last, retryAttempt, overflowTried, failures, attempts, trouble>>
    BY <1>11 DEF NearsLimit, CompactEnds, textVars, boundVars
  <2>2. OneTrouble' /\ Again' = Again
    BY <1>00, <2>1 DEF BudgetInv, OneTrouble, Again
  <2> QED
    BY <1>0, <1>00, <2>1, <2>2 DEF BudgetInv, FailuresBounded, Paid, Asking
<1>12. CASE QueueContinues
  <2>1. /\ pc \in {"post", "compacted"} /\ pc' \in {"poll", "stream"} /\ attempts' = 0
        /\ UNCHANGED <<last, retryAttempt, trouble>>
    BY <1>12 DEF QueueContinues, ContinueRun, boundVars
  <2>2. ASSUME tail = "open" PROVE failures <= Again /\ UNCHANGED <<overflowTried, failures>>
    BY <1>12, <2>1, <2>2 DEF QueueContinues, BudgetInv, Paid
  <2>3. ASSUME tail # "open" PROVE failures' = 0
    <3>1. steering # <<>> => Drained(steering) # <<>>
      BY DEF Drained
    <3>2. followUp # <<>> => Drained(followUp) # <<>>
      BY DEF Drained
    <3> QED
      BY <1>12, <2>3, <3>1, <3>2, HearSome DEF QueueContinues, Queued
  <2>4. failures' <= retryAttempt' + attempts' + Again'
    BY <1>0, <1>00, <2>1, <2>2, <2>3 DEF Again
  <2>5. OneTrouble'
    BY <2>1 DEF BudgetInv, OneTrouble
  <2>6. failures' <= 2 * Limit
    BY <1>0, <2>2, <2>3
  <2> QED
    BY <1>00, <2>1, <2>4, <2>5, <2>6 DEF BudgetInv, FailuresBounded, Paid
<1>13. CASE GatewayRetry
  <2>1. /\ pc \in {"post", "compacted"} /\ pc' = "backoff" /\ last = "gateway"
        /\ attempts' = attempts + 1
        /\ UNCHANGED <<last, retryAttempt, overflowTried, failures, trouble>>
    BY <1>13 DEF GatewayRetry, GatewayWants, textVars, retryVars, boundVars
  <2>2. failures <= attempts + Again + 1
    BY <2>1 DEF BudgetInv, Paid
  <2>3. OneTrouble'
    BY <2>1 DEF BudgetInv, OneTrouble
  <2>4. failures' <= retryAttempt' + attempts' + Again'
    BY <1>0, <1>00, <2>1, <2>2 DEF Again
  <2> QED
    BY <1>0, <1>00, <2>1, <2>3, <2>4 DEF BudgetInv, FailuresBounded, Paid
<1>14. CASE BackoffEnds
  <2>1. /\ pc = "backoff" /\ pc' = "poll"
        /\ UNCHANGED <<last, retryAttempt, overflowTried, failures, attempts, trouble>>
    BY <1>14 DEF BackoffEnds, retryVars, boundVars
  <2>2. OneTrouble' /\ Again' = Again
    BY <1>00, <2>1 DEF BudgetInv, OneTrouble, Again
  <2> QED
    BY <1>0, <1>00, <2>1, <2>2 DEF BudgetInv, FailuresBounded, Paid, Asking
<1>15. CASE Settle
  BY <1>15, BudgetIdle DEF Settle, textVars, retryVars, boundVars
<1>16. CASE Abort \/ Compact
  <2>1. AbortAll
    BY <1>16 DEF Abort, Compact
  <2>2. CASE pc = "sleep"
    <3>1. /\ pc' = "post" /\ retryAttempt' = 0 /\ failures' = 0
          /\ UNCHANGED <<last, overflowTried, attempts, trouble>>
      BY <2>1, <2>2 DEF AbortAll, textVars
    <3>2. OneTrouble' /\ Again' \in Nat /\ attempts' \in Nat
      BY <1>0, <1>00, <3>1 DEF BudgetInv, OneTrouble
    <3> QED
      BY <1>0, <1>00, <3>1, <3>2 DEF BudgetInv, FailuresBounded, Paid, Asking
  <2>3. CASE pc # "sleep"
    BY <2>1, <2>3, BudgetKept DEF AbortAll, textVars
  <2> QED
    BY <2>2, <2>3
<1>17. CASE ManualEnds \/ UNCHANGED vars
  BY <1>17, BudgetKept DEF ManualEnds, vars, runVars, textVars, retryVars, boundVars
<1> QED
  BY <1>1, <1>2, <1>3, <1>4, <1>5, <1>6, <1>7, <1>8, <1>9, <1>10, <1>11, <1>12, <1>13, <1>14,
     <1>15, <1>16, <1>17 DEF Next, CallStep, RunStep

(* The requests that fail in a row are bounded, for a provider that has    *)
(* one trouble, and a continuation that does not start the agent anew.     *)
THEOREM SessionFailuresBounded ==
    ASSUME ~StartsAnew, Troubles \subseteq {{}, {"flaky"}, {"gateway"}}
    PROVE  Spec => []FailuresBounded
<1>1. Init => BudgetInv
  <2> SUFFICES ASSUME Init PROVE BudgetInv
    OBVIOUS
  <2>1. trouble \in {{}, {"flaky"}, {"gateway"}}
    BY DEF Init
  <2>2. OneTrouble
    BY <2>1 DEF Init, OneTrouble
  <2>3. Limit \in Nat
    BY SessionAssumption DEF Limit
  <2> QED
    BY <2>2, <2>3 DEF Init, BudgetInv, FailuresBounded, Paid, Asking
<1>2. SessionInv /\ SessionInv' /\ BudgetInv /\ [Next]_vars => BudgetInv'
  BY BudgetStep DEF SessionInv
<1>3. BudgetInv => FailuresBounded
  BY DEF BudgetInv
<1> QED
  BY <1>1, <1>2, <1>3, SessionInvariant, PTL DEF Spec

-----------------------------------------------------------------------------
(* HeardOnce.  How often a message is in a queue, in two queues one after  *)
(* the other, and in a queue whose head is drained.                        *)
LEMMA Places ==
    ASSUME NEW m, NEW s \in Seq(Prompts)
    PROVE  /\ IsFiniteSet({i \in DOMAIN s : s[i] = m}) /\ Occurrences(m, s) \in Nat
           /\ DOMAIN s = 1..Len(s) /\ Len(s) \in Nat
<1>1. DOMAIN s = 1..Len(s) /\ Len(s) \in Nat
  OBVIOUS
<1>2. IsFiniteSet(1..Len(s))
  BY <1>1, FS_Interval
<1>3. IsFiniteSet({i \in DOMAIN s : s[i] = m})
  BY <1>1, <1>2, FS_Subset
<1> QED
  BY <1>1, <1>3, FS_CardinalityType DEF Occurrences

LEMMA OccurrencesInBoth ==
    ASSUME NEW m, NEW s \in Seq(Prompts), NEW t \in Seq(Prompts)
    PROVE  Occurrences(m, s \o t) = Occurrences(m, s) + Occurrences(m, t)
<1> DEFINE first == {i \in DOMAIN s : s[i] = m}
           second == {i \in DOMAIN t : t[i] = m}
           moved == {i \in (Len(s) + 1)..(Len(s) + Len(t)) : t[i - Len(s)] = m}
<1>1. /\ IsFiniteSet(first) /\ IsFiniteSet(second)
      /\ DOMAIN s = 1..Len(s) /\ Len(s) \in Nat /\ DOMAIN t = 1..Len(t) /\ Len(t) \in Nat
  BY Places
<1>2. IsFiniteSet(moved) /\ Cardinality(moved) = Cardinality(second)
  <2> DEFINE shift == [i \in second |-> i + Len(s)]
  <2>1. shift \in [second -> moved]
    BY <1>1
  <2>2. \A i, j \in second : shift[i] = shift[j] => i = j
    BY <1>1
  <2>3. \A k \in moved : \E i \in second : shift[i] = k
    <3> SUFFICES ASSUME NEW k \in moved PROVE \E i \in second : shift[i] = k
      OBVIOUS
    <3>1. k - Len(s) \in second /\ (k - Len(s)) + Len(s) = k
      BY <1>1
    <3>2. shift[k - Len(s)] = k
      BY <3>1
    <3> QED
      BY <3>1, <3>2
  <2> HIDE DEF shift, second, moved
  <2>4. shift \in Bijection(second, moved)
    BY <2>1, <2>2, <2>3, Fun_IsBij
  <2>5. ExistsBijection(second, moved)
    BY <2>4 DEF ExistsBijection
  <2> QED
    BY <1>1, <2>5, FS_Bijection
<1>3. {i \in DOMAIN (s \o t) : (s \o t)[i] = m} = first \cup moved
  <2>1. /\ DOMAIN (s \o t) = 1..(Len(s) + Len(t))
        /\ \A i \in 1..(Len(s) + Len(t)) :
               (s \o t)[i] = IF i <= Len(s) THEN s[i] ELSE t[i - Len(s)]
    OBVIOUS
  <2>2. \A i : i \in 1..(Len(s) + Len(t)) <=>
                  i \in 1..Len(s) \/ i \in (Len(s) + 1)..(Len(s) + Len(t))
    BY <1>1
  <2>3. \A i \in 1..Len(s) : i <= Len(s)
    BY <1>1
  <2>4. \A i \in (Len(s) + 1)..(Len(s) + Len(t)) : ~(i <= Len(s))
    BY <1>1
  <2> QED
    BY <1>1, <2>1, <2>2, <2>3, <2>4
<1>4. first \cap moved = {}
  BY <1>1
<1>5. Cardinality(first \cap moved) = 0
  BY <1>4, FS_EmptySet
<1>6. Cardinality(first) \in Nat /\ Cardinality(moved) \in Nat
  BY <1>1, <1>2, FS_CardinalityType
<1> HIDE DEF first, moved, second
<1>7. Cardinality(first \cup moved) = Cardinality(first) + Cardinality(second)
  <2>1. Cardinality(first \cup moved) =
            Cardinality(first) + Cardinality(moved) - Cardinality(first \cap moved)
    BY <1>1, <1>2, FS_Union
  <2> QED
    BY <1>2, <1>5, <1>6, <2>1
<1> QED
  BY <1>3, <1>7 DEF Occurrences, first, second

LEMMA OccurrencesInShort ==
    ASSUME NEW m, NEW x \in Prompts
    PROVE  /\ Occurrences(m, <<>>) = 0
           /\ Occurrences(m, <<x>>) = IF x = m THEN 1 ELSE 0
<1>1. {i \in DOMAIN <<>> : <<>>[i] = m} = {}
  OBVIOUS
<1>2. {i \in DOMAIN <<x>> : <<x>>[i] = m} = IF x = m THEN {1} ELSE {}
  OBVIOUS
<1>3. Cardinality({}) = 0 /\ Cardinality({1}) = 1
  BY FS_EmptySet, FS_Singleton
<1> QED
  BY <1>1, <1>2, <1>3 DEF Occurrences

LEMMA NothingDrainedTwice ==
    ASSUME NEW m, NEW q \in Seq(Prompts)
    PROVE  Occurrences(m, Drained(q)) + Occurrences(m, Rest(q)) = Occurrences(m, q)
<1>1. CASE q = <<>>
  <2>1. <<>> \o <<>> = q /\ <<>> \in Seq(Prompts)
    BY <1>1
  <2> QED
    BY <1>1, <2>1, OccurrencesInBoth DEF Drained, Rest
<1>2. CASE q # <<>>
  <2>1. q = <<Head(q)>> \o Tail(q) /\ <<Head(q)>> \in Seq(Prompts) /\ Tail(q) \in Seq(Prompts)
    BY <1>2
  <2> QED
    BY <1>2, <2>1, OccurrencesInBoth DEF Drained, Rest
<1> QED
  BY <1>1, <1>2

(* The places of a message, one by one.                                    *)
Told(m) ==
    (Occurrences(m, steering) + Occurrences(m, followUp))
    + (Occurrences(m, pendingMessages) + Occurrences(m, messages))

OnceEach == \A m \in Prompts : Told(m) = IF call[m] = "accepted" THEN 1 ELSE 0

LEMMA ToldIsHeard ==
    ASSUME TypeOK, NEW m
    PROVE  Occurrences(m, steering \o followUp \o pendingMessages \o messages) = Told(m)
<1>1. /\ steering \in Seq(Prompts) /\ followUp \in Seq(Prompts)
      /\ pendingMessages \in Seq(Prompts) /\ messages \in Seq(Prompts)
  BY DEF TypeOK
<1>2. /\ steering \o followUp \in Seq(Prompts)
      /\ (steering \o followUp) \o pendingMessages \in Seq(Prompts)
  BY <1>1
<1>3. /\ Occurrences(m, steering) \in Nat /\ Occurrences(m, followUp) \in Nat
      /\ Occurrences(m, pendingMessages) \in Nat /\ Occurrences(m, messages) \in Nat
  BY <1>1, Places
<1>4. Occurrences(m, steering \o followUp) = Occurrences(m, steering) + Occurrences(m, followUp)
  BY <1>1, OccurrencesInBoth
<1>5. Occurrences(m, (steering \o followUp) \o pendingMessages) =
          Occurrences(m, steering \o followUp) + Occurrences(m, pendingMessages)
  BY <1>1, <1>2, OccurrencesInBoth
<1>6. Occurrences(m, ((steering \o followUp) \o pendingMessages) \o messages) =
          Occurrences(m, (steering \o followUp) \o pendingMessages) + Occurrences(m, messages)
  BY <1>1, <1>2, OccurrencesInBoth
<1> QED
  BY <1>3, <1>4, <1>5, <1>6 DEF Told

(* A step that moves no message.                                           *)
LEMMA NothingMoves ==
    ASSUME OnceEach, UNCHANGED <<queueVars, pendingMessages, messages>>,
           \A m \in Prompts : call'[m] = "accepted" <=> call[m] = "accepted"
    PROVE  OnceEach'
BY DEF OnceEach, Told, queueVars

(* A message that is accepted is put at the end of one of them.            *)
LEMMA OneIsTold ==
    ASSUME TypeOK, OnceEach, NEW m \in Prompts, call[m] # "accepted", Advance(m, "accepted"),
           \/ steering' = Append(steering, m) /\ UNCHANGED <<followUp, pendingMessages, messages>>
           \/ followUp' = Append(followUp, m) /\ UNCHANGED <<steering, pendingMessages, messages>>
           \/ messages' = messages \o <<m>> /\ UNCHANGED <<steering, followUp, pendingMessages>>
    PROVE  OnceEach'
<1> SUFFICES ASSUME NEW n \in Prompts PROVE Told(n)' = IF call'[n] = "accepted" THEN 1 ELSE 0
  BY Zenon DEF OnceEach
<1>1. /\ steering \in Seq(Prompts) /\ followUp \in Seq(Prompts)
      /\ pendingMessages \in Seq(Prompts) /\ messages \in Seq(Prompts)
  BY DEF TypeOK
<1>2. /\ Occurrences(n, steering) \in Nat /\ Occurrences(n, followUp) \in Nat
      /\ Occurrences(n, pendingMessages) \in Nat /\ Occurrences(n, messages) \in Nat
  BY <1>1, Places
<1>3. ASSUME NEW q \in Seq(Prompts)
      PROVE  /\ Append(q, m) = q \o <<m>>
             /\ Occurrences(n, q \o <<m>>) = Occurrences(n, q) + IF m = n THEN 1 ELSE 0
  <2>1. <<m>> \in Seq(Prompts) /\ Append(q, m) = q \o <<m>>
    OBVIOUS
  <2>2. Occurrences(n, q \o <<m>>) = Occurrences(n, q) + Occurrences(n, <<m>>)
    BY <2>1, OccurrencesInBoth
  <2>3. Occurrences(n, <<m>>) = IF m = n THEN 1 ELSE 0
    BY OccurrencesInShort
  <2> QED
    BY <2>1, <2>2, <2>3
<1>4. Told(n)' = Told(n) + IF m = n THEN 1 ELSE 0
  <2>1. CASE steering' = Append(steering, m) /\ UNCHANGED <<followUp, pendingMessages, messages>>
    <3>1. Occurrences(n, steering') = Occurrences(n, steering) + IF m = n THEN 1 ELSE 0
      BY <1>1, <1>3, <2>1
    <3> QED
      BY <1>2, <2>1, <3>1 DEF Told
  <2>2. CASE followUp' = Append(followUp, m) /\ UNCHANGED <<steering, pendingMessages, messages>>
    <3>1. Occurrences(n, followUp') = Occurrences(n, followUp) + IF m = n THEN 1 ELSE 0
      BY <1>1, <1>3, <2>2
    <3> QED
      BY <1>2, <2>2, <3>1 DEF Told
  <2>3. CASE messages' = messages \o <<m>> /\ UNCHANGED <<steering, followUp, pendingMessages>>
    <3>1. Occurrences(n, messages') = Occurrences(n, messages) + IF m = n THEN 1 ELSE 0
      BY <1>1, <1>3, <2>3
    <3> QED
      BY <1>2, <2>3, <3>1 DEF Told
  <2> QED
    BY <2>1, <2>2, <2>3
<1>5. call'[n] = IF n = m THEN "accepted" ELSE call[n]
  BY DEF TypeOK, Advance
<1>6. Told(n) = IF call[n] = "accepted" THEN 1 ELSE 0
  BY DEF OnceEach
<1> QED
  BY <1>4, <1>5, <1>6

(* The head of a queue is drained, or heard at once.                       *)
LEMMA OneIsDrained ==
    ASSUME TypeOK, OnceEach, call' = call,
           \/ /\ pendingMessages = <<>> /\ pendingMessages' = Drained(steering)
              /\ steering' = Rest(steering) /\ UNCHANGED <<followUp, messages>>
           \/ /\ pendingMessages = <<>> /\ pendingMessages' = Drained(followUp)
              /\ followUp' = Rest(followUp) /\ UNCHANGED <<steering, messages>>
           \/ /\ messages' = messages \o Drained(steering)
              /\ steering' = Rest(steering) /\ UNCHANGED <<followUp, pendingMessages>>
           \/ /\ messages' = messages \o Drained(followUp)
              /\ followUp' = Rest(followUp) /\ UNCHANGED <<steering, pendingMessages>>
           \/ /\ messages' = messages \o pendingMessages
              /\ pendingMessages' = <<>> /\ UNCHANGED <<steering, followUp>>
    PROVE  OnceEach'
<1> SUFFICES ASSUME NEW n \in Prompts PROVE Told(n)' = Told(n)
  BY Zenon DEF OnceEach
<1>1. /\ steering \in Seq(Prompts) /\ followUp \in Seq(Prompts)
      /\ pendingMessages \in Seq(Prompts) /\ messages \in Seq(Prompts)
  BY DEF TypeOK
<1>2. /\ Occurrences(n, steering) \in Nat /\ Occurrences(n, followUp) \in Nat
      /\ Occurrences(n, pendingMessages) \in Nat /\ Occurrences(n, messages) \in Nat
  BY <1>1, Places
<1>3. ASSUME NEW q \in Seq(Prompts)
      PROVE  /\ Occurrences(n, q) = Occurrences(n, Drained(q)) + Occurrences(n, Rest(q))
             /\ Occurrences(n, Drained(q)) \in Nat /\ Occurrences(n, Rest(q)) \in Nat
             /\ Occurrences(n, messages \o Drained(q)) =
                    Occurrences(n, messages) + Occurrences(n, Drained(q))
  <2>1. Drained(q) \in Seq(Prompts) /\ Rest(q) \in Seq(Prompts)
    BY DrainedType
  <2>2. Occurrences(n, messages \o Drained(q)) =
            Occurrences(n, messages) + Occurrences(n, Drained(q))
    BY <1>1, <2>1, OccurrencesInBoth
  <2> QED
    BY <2>1, <2>2, NothingDrainedTwice, Places
<1>4. Occurrences(n, messages \o pendingMessages) =
          Occurrences(n, messages) + Occurrences(n, pendingMessages)
  BY <1>1, OccurrencesInBoth
<1>5. pendingMessages = <<>> => Occurrences(n, pendingMessages) = 0
  BY OccurrencesInShort
<1>6. pendingMessages' = <<>> => Occurrences(n, pendingMessages') = 0
  BY OccurrencesInShort
<1>7. /\ Occurrences(n, steering) = Occurrences(n, Drained(steering)) + Occurrences(n, Rest(steering))
      /\ Occurrences(n, Drained(steering)) \in Nat /\ Occurrences(n, Rest(steering)) \in Nat
      /\ Occurrences(n, messages \o Drained(steering)) =
             Occurrences(n, messages) + Occurrences(n, Drained(steering))
  BY <1>1, <1>3
<1>8. /\ Occurrences(n, followUp) = Occurrences(n, Drained(followUp)) + Occurrences(n, Rest(followUp))
      /\ Occurrences(n, Drained(followUp)) \in Nat /\ Occurrences(n, Rest(followUp)) \in Nat
      /\ Occurrences(n, messages \o Drained(followUp)) =
             Occurrences(n, messages) + Occurrences(n, Drained(followUp))
  BY <1>1, <1>3
<1>9. Told(n)' = (Occurrences(n, steering') + Occurrences(n, followUp'))
                 + (Occurrences(n, pendingMessages') + Occurrences(n, messages'))
  BY DEF Told
<1>10. CASE /\ pendingMessages = <<>> /\ pendingMessages' = Drained(steering)
            /\ steering' = Rest(steering) /\ UNCHANGED <<followUp, messages>>
  BY <1>2, <1>5, <1>7, <1>9, <1>10 DEF Told
<1>11. CASE /\ pendingMessages = <<>> /\ pendingMessages' = Drained(followUp)
            /\ followUp' = Rest(followUp) /\ UNCHANGED <<steering, messages>>
  BY <1>2, <1>5, <1>8, <1>9, <1>11 DEF Told
<1>12. CASE /\ messages' = messages \o Drained(steering)
            /\ steering' = Rest(steering) /\ UNCHANGED <<followUp, pendingMessages>>
  BY <1>2, <1>7, <1>9, <1>12 DEF Told
<1>13. CASE /\ messages' = messages \o Drained(followUp)
            /\ followUp' = Rest(followUp) /\ UNCHANGED <<steering, pendingMessages>>
  BY <1>2, <1>8, <1>9, <1>13 DEF Told
<1>14. CASE /\ messages' = messages \o pendingMessages
            /\ pendingMessages' = <<>> /\ UNCHANGED <<steering, followUp>>
  BY <1>2, <1>4, <1>6, <1>9, <1>14 DEF Told
<1> QED
  BY <1>10, <1>11, <1>12, <1>13, <1>14

(* Every step keeps OnceEach: a prompt is accepted once, and what a step   *)
(* takes out of one place it puts into another.                            *)
LEMMA HeardStep == SessionInv /\ OnceEach /\ [Next]_vars => OnceEach'
<1> SUFFICES ASSUME SessionInv, OnceEach, [Next]_vars PROVE OnceEach'
  OBVIOUS
<1>0. TypeOK
  BY DEF SessionInv
<1>1. ASSUME NEW m \in Prompts,
             Submit(m) \/ Refuse(m) \/ Preflight(m) \/ PreCompact(m) \/ PreCompactEnds(m)
      PROVE  OnceEach'
  <2>1. UNCHANGED <<queueVars, pendingMessages, messages>>
    BY <1>1 DEF Submit, Refuse, Preflight, PreCompact, PreCompactEnds, textVars
  <2>2. call[m] # "accepted" /\ \E to \in {"refused"} \cup InFlight : Advance(m, to)
    BY <1>1 DEF Submit, Refuse, Preflight, PreCompact, PreCompactEnds, InFlight
  <2>3. \A n \in Prompts : call'[n] = "accepted" <=> call[n] = "accepted"
    BY <1>0, <2>2 DEF TypeOK, Advance, InFlight
  <2> QED
    BY <2>1, <2>3, NothingMoves
<1>2. ASSUME NEW m \in Prompts, QueueSteer(m) \/ QueueFollowUp(m) \/ StartRun(m) PROVE OnceEach'
  <2>1. call[m] # "accepted" /\ Advance(m, "accepted")
    BY <1>2 DEF QueueSteer, QueueFollowUp, StartRun
  <2>2. \/ steering' = Append(steering, m) /\ UNCHANGED <<followUp, pendingMessages, messages>>
        \/ followUp' = Append(followUp, m) /\ UNCHANGED <<steering, pendingMessages, messages>>
        \/ messages' = messages \o <<m>> /\ UNCHANGED <<steering, followUp, pendingMessages>>
    BY <1>2 DEF QueueSteer, QueueFollowUp, StartRun, Hear, queueVars, textVars
  <2> QED
    BY <1>0, <2>1, <2>2, OneIsTold
<1>3. CASE Poll
  BY <1>0, <1>3, OneIsDrained DEF Poll, Hear
<1>4. CASE TurnEnd
  <2>1. pendingMessages = <<>>
    BY <1>4 DEF TurnEnd, SessionInv, Held
  <2> QED
    BY <1>0, <1>4, <2>1, OneIsDrained DEF TurnEnd
<1>5. CASE NextTurn
  <2>1. CASE pendingMessages = <<>>
    BY <1>0, <1>5, <2>1, OneIsDrained DEF NextTurn, Hear
  <2>2. CASE pendingMessages # <<>>
    BY <1>0, <1>5, <2>2, OneIsDrained DEF NextTurn, Hear
  <2> QED
    BY <2>1, <2>2
<1>6. CASE QueueContinues
  <2>1. call' = call /\ pendingMessages' = pendingMessages
    BY <1>6 DEF QueueContinues, ContinueRun
  <2>2. CASE tail = "open"
    BY <1>6, <2>1, <2>2, NothingMoves DEF QueueContinues, ContinueRun
  <2>3. CASE tail # "open"
    <3>1. \/ /\ messages' = messages \o Drained(steering)
             /\ steering' = Rest(steering) /\ followUp' = followUp
          \/ /\ messages' = messages \o Drained(followUp)
             /\ followUp' = Rest(followUp) /\ steering' = steering
      BY <1>6, <2>3 DEF QueueContinues, Hear
    <3> QED
      BY <1>0, <2>1, <3>1, OneIsDrained
  <2> QED
    BY <2>2, <2>3
<1>7. CASE \/ (\E kind \in Kinds : StreamEnds(kind)) \/ ToolsEnd \/ PrepareCompacts \/ RetryWaits
           \/ RunEnds \/ SleepEnds \/ Overflows \/ NearsLimit \/ CompactRetries
           \/ (\E ok \in BOOLEAN : CompactEnds(ok)) \/ GatewayRetry \/ BackoffEnds \/ Settle
           \/ ManualEnds \/ Abort \/ Compact \/ UNCHANGED vars
  <2>1. UNCHANGED <<call, queueVars, pendingMessages, messages>>
    BY <1>7 DEF StreamEnds, ToolsEnd, PrepareCompacts, RetryWaits, RunEnds, SleepEnds, ContinueRun,
       Overflows, NearsLimit, CompactRetries, CompactEnds, GatewayRetry, BackoffEnds, Settle,
       ManualEnds, Abort, Compact, AbortAll, vars, textVars, queueVars
  <2> QED
    BY <2>1, NothingMoves
<1> QED
  BY <1>1, <1>2, <1>3, <1>4, <1>5, <1>6, <1>7 DEF Next, CallStep, RunStep

(* HeardOnce: a message that was accepted is in exactly one place, for any *)
(* number of prompts, retries, compactions and aborts.                     *)
THEOREM SessionHeardOnce == Spec => []HeardOnce
<1>1. Init => OnceEach
  <2> SUFFICES ASSUME Init, NEW m \in Prompts PROVE Told(m) = 0 /\ call[m] # "accepted"
    BY DEF OnceEach
  <2>1. Occurrences(m, <<>>) = 0
    BY OccurrencesInShort
  <2> QED
    BY <2>1 DEF Init, Told
<1>2. SessionInv /\ OnceEach => HeardOnce
  BY ToldIsHeard DEF SessionInv, OnceEach, HeardOnce
<1> QED
  BY <1>1, <1>2, HeardStep, SessionInvariant, PTL DEF Spec
=============================================================================
